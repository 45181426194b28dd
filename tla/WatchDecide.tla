---------------------------- MODULE WatchDecide ----------------------------
(***************************************************************************)
(* gravity/watch/decide.py: what the watchtower concludes for one swap     *)
(* from its record and one set of observations.  Pure, as in the code.     *)
(*                                                                         *)
(* terms: chain, tBtc and tRxd (timelocks), value (radiant_amount, or None *)
(* for an FT or NFT whose value the record does not hold).                 *)
(* obs: claimed (maker_has_claimed_btc / eth_claim_detected), finality (an *)
(* ETH claim's checkpoint state or "none"), claimConfs, fundingConfs,      *)
(* lockedAt (each an integer or None), now, lowCorroboration.              *)
(***************************************************************************)
EXTENDS SwapState, ClaimFinality, FiniteSets

Intents == {"WATCH", "PAGE_CLAIM", "PAGE_REFUND", "PAGE_SQUEEZED", "RETIRE"}

(* reason texts and the low_corroboration copy are left out; deadline is   *)
(* the height at which the maker's CSV refund opens.                       *)
Decision(intent, action, deadline) ==
  [intent |-> intent, action |-> action, deadline |-> deadline,
   autoRefund |-> FALSE, autoClaim |-> FALSE]

RefundOpensAt(p, terms, lockedAt) ==
  lockedAt + NormalizeToBlocks(terms.tRxd, p.block_interval_s)

(* _btc_refund_matured: a SECONDS lock is never provably mature.           *)
BtcRefundMatured(terms, obs) ==
  /\ terms.tBtc.unit = "BLOCKS"
  /\ obs.fundingConfs # None
  /\ obs.fundingConfs >= terms.tBtc.value

Assessable(terms, obs) ==
  /\ IF terms.chain = "btc" THEN obs.claimConfs # None ELSE obs.finality # "none"
  /\ obs.lockedAt # None

ObservedFinality(terms, obs, p) ==
  IF terms.chain = "btc" THEN FromBtcDepth(obs.claimConfs, VerdictDepth(p))
  ELSE [state |-> obs.finality, confirmations |-> None, required_depth |-> None]

(* The claim race: the maker's claim is seen, or the record knows of it.   *)
DecideClaimRace(terms, obs, p) ==
  IF ~Assessable(terms, obs) THEN Decision("PAGE_SQUEEZED", "verify", None)
  ELSE
    LET deadline == RefundOpensAt(p, terms, obs.lockedAt)
        gate == AssessClaimFinality(ObservedFinality(terms, obs, p), obs.now,
                                    obs.lockedAt, terms.tRxd, p, terms.value)
    IN  CASE gate = "RAISE" -> Decision("PAGE_SQUEEZED", "verify", deadline)
          [] gate = "SAFE"  -> [Decision("PAGE_CLAIM", "taker_scrape_and_claim_asset", deadline)
                                  EXCEPT !.autoClaim = (terms.chain = "btc")]
          [] gate = "WAIT"  -> Decision("WATCH", "none", deadline)
          [] gate = "SQUEEZED" ->
               Decision("PAGE_SQUEEZED", "taker_claim_asset_from_vulnerable", deadline)

(* BOTH_LOCKED and no claim seen: the stall predicate on Radiant heights.  *)
DecideBothLocked(terms, obs, p, window) ==
  IF obs.lockedAt = None THEN Decision("WATCH", "none", None)
  ELSE
    LET deadline == RefundOpensAt(p, terms, obs.lockedAt)
    IN  IF TakerRefundWindowOpen(obs.now, obs.lockedAt, terms.tRxd, window, FALSE,
                                 p.block_interval_s)
        THEN Decision("PAGE_REFUND", "mutual_refund", deadline)
        ELSE Decision("WATCH", "none", deadline)

(* BTC_LOCKED without a covenant, and the refund has matured.              *)
DecideBtcLocked(terms, obs) ==
  IF obs.lockedAt = None /\ BtcRefundMatured(terms, obs)
  THEN [Decision("PAGE_REFUND", "taker_refund_btc", None) EXCEPT !.autoRefund = TRUE]
  ELSE Decision("WATCH", "none", None)

(* _decide_eth: nothing is done automatically, and before BOTH_LOCKED      *)
(* nothing is due.                                                         *)
DecideEth(state, terms, obs, p, window) ==
  CASE obs.claimed \/ state = "SECRET_REVEALED" -> DecideClaimRace(terms, obs, p)
    [] ~obs.claimed /\ state = "ASSET_VULNERABLE" ->
         Decision("PAGE_SQUEEZED", "taker_claim_asset_from_vulnerable", None)
    [] ~obs.claimed /\ state = "PARAMS_MISMATCH" ->
         Decision("PAGE_REFUND", "taker_refund_btc", None)
    [] ~obs.claimed /\ state = "MAKER_STALLS" -> Decision("PAGE_SQUEEZED", "investigate", None)
    [] ~obs.claimed /\ state = "BOTH_LOCKED" -> DecideBothLocked(terms, obs, p, window)
    [] ~obs.claimed /\ state \in {"NEGOTIATED", "BTC_LOCKED"} -> Decision("WATCH", "none", None)

DecideBtc(state, terms, obs, p, window) ==
  CASE obs.claimed \/ state = "SECRET_REVEALED" -> DecideClaimRace(terms, obs, p)
    [] ~obs.claimed /\ state = "ASSET_VULNERABLE" ->
         Decision("PAGE_SQUEEZED", "taker_claim_asset_from_vulnerable", None)
    [] ~obs.claimed /\ state = "PARAMS_MISMATCH" ->
         [Decision("PAGE_REFUND", "taker_refund_btc", None)
            EXCEPT !.autoRefund = BtcRefundMatured(terms, obs)]
    [] ~obs.claimed /\ state = "MAKER_STALLS" -> Decision("PAGE_SQUEEZED", "investigate", None)
    [] ~obs.claimed /\ state = "BOTH_LOCKED" -> DecideBothLocked(terms, obs, p, window)
    [] ~obs.claimed /\ state = "BTC_LOCKED" -> DecideBtcLocked(terms, obs)
    [] ~obs.claimed /\ state = "NEGOTIATED" -> Decision("WATCH", "none", None)

(* decide: a terminal swap is retired whatever its chain.                  *)
Decide(state, terms, obs, p, window) ==
  CASE IsTerminal(state) -> Decision("RETIRE", "none", None)
    [] ~IsTerminal(state) /\ terms.chain = "eth" -> DecideEth(state, terms, obs, p, window)
    [] ~IsTerminal(state) /\ terms.chain = "btc" -> DecideBtc(state, terms, obs, p, window)

------------------------------------------------ (* the Radiant sources *)

(* Each source is behind the chain by some blocks, or Unreachable and      *)
(* raises; the covenant is in block lockedAt of a chain whose tip is       *)
(* height, or in none yet (lockedAt = None).                               *)
Unreachable == -1

Reachable(lags) == {s \in DOMAIN lags : lags[s] # Unreachable}
SetMin(S) == CHOOSE x \in S : \A y \in S : x <= y
SetMax(S) == CHOOSE x \in S : \A y \in S : x >= y

(* ElectrumRxdChainSource.covenant_confirmations: None below one.          *)
SourceConfs(lag, height, lockedAt) ==
  IF lockedAt = None \/ height - lag < lockedAt THEN None
  ELSE height - lag - lockedAt + 1

(* MultiSourceRxdChainSource.tip_height: the lowest tip, or it raises.     *)
QuorumTip(lags, height, quorum) ==
  IF Cardinality(Reachable(lags)) < quorum THEN None
  ELSE SetMin({height - lags[s] : s \in Reachable(lags)})

Present(lags, height, lockedAt) ==
  {SourceConfs(lags[s], height, lockedAt) : s \in Reachable(lags)} \ {None}

(* Mutation: the shallowest answer.                                        *)
ShallowestCovenantConfs(lags, height, lockedAt, quorum) ==
  IF Present(lags, height, lockedAt) # {}
  THEN [ok |-> TRUE, confs |-> SetMin(Present(lags, height, lockedAt))]
  ELSE [ok |-> Cardinality(Reachable(lags)) >= quorum, confs |-> None]

(* covenant_confirmations: the deepest answer; None only when a quorum of  *)
(* live sources sees no covenant, and it raises (~ok) below that.          *)
QuorumCovenantConfs(lags, height, lockedAt, quorum) ==
  IF Present(lags, height, lockedAt) # {}
  THEN [ok |-> TRUE, confs |-> SetMax(Present(lags, height, lockedAt))]
  ELSE [ok |-> Cardinality(Reachable(lags)) >= quorum, confs |-> None]

(* ChainObserver.observe: the height at which the asset was locked, from a *)
(* tip and a depth read one after the other.                               *)
AssetLockedAt(tip, confs) ==
  IF confs # None /\ confs >= 1 /\ tip - confs + 1 \in 0 .. tip
  THEN tip - confs + 1 ELSE None
=============================================================================
