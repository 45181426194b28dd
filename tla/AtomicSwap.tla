----------------------------- MODULE AtomicSwap -----------------------------
(***************************************************************************)
(* What a swap promises, with no coordinator, record, crash or mempool in  *)
(* sight: two outputs, each locked and then spent one way, and a secret.   *)
(*                                                                         *)
(* The secret becomes public only while both outputs are there to be       *)
(* claimed with it; both claims need it; the asset goes back to the maker  *)
(* only when the counter leg went back to the taker.                       *)
(***************************************************************************)
VARIABLES counterLeg, assetLeg, secretPublic

swapVars == <<counterLeg, assetLeg, secretPublic>>

SwapInit == counterLeg = "unlocked" /\ assetLeg = "unlocked" /\ secretPublic = FALSE

LockCounter ==
  /\ counterLeg = "unlocked" /\ counterLeg' = "locked"
  /\ UNCHANGED <<assetLeg, secretPublic>>

LockAsset ==
  /\ counterLeg = "locked"
  /\ assetLeg = "unlocked" /\ assetLeg' = "locked"
  /\ UNCHANGED <<counterLeg, secretPublic>>

RevealSecret ==
  /\ counterLeg = "locked" /\ assetLeg = "locked"
  /\ secretPublic' = TRUE
  /\ UNCHANGED <<counterLeg, assetLeg>>

ClaimCounter ==
  /\ secretPublic
  /\ counterLeg = "locked" /\ counterLeg' = "claimed"
  /\ UNCHANGED <<assetLeg, secretPublic>>

RefundCounter ==
  /\ counterLeg = "locked" /\ counterLeg' = "refunded"
  /\ UNCHANGED <<assetLeg, secretPublic>>

ClaimAsset ==
  /\ secretPublic
  /\ assetLeg = "locked" /\ assetLeg' = "claimed"
  /\ UNCHANGED <<counterLeg, secretPublic>>

RefundAsset ==
  /\ counterLeg = "refunded"
  /\ assetLeg = "locked" /\ assetLeg' = "refunded"
  /\ UNCHANGED <<counterLeg, secretPublic>>

SwapNext ==
  \/ LockCounter \/ LockAsset \/ RevealSecret \/ ClaimCounter \/ RefundCounter
  \/ ClaimAsset \/ RefundAsset

SwapSpec == SwapInit /\ [][SwapNext]_swapVars
=============================================================================
