------------------------------- MODULE TwoHost -------------------------------
(***************************************************************************)
(* scripts/eth_swap_two_host.py: an ETH-RXD swap by two operators on two   *)
(* hosts, each running its own phases as separate processes.  All that     *)
(* crosses is four public files; everything else is on a host's disk or on *)
(* a chain.  Either operator may run another program than this one: what a *)
(* foreign maker puts in the envelope, or a foreign taker deploys, is      *)
(* arbitrary.  A phase dies between any two of its steps and is run again. *)
(***************************************************************************)
EXTENDS ClaimFinality

CONSTANTS
  Policy,      \* both operators pass the same policy flags
  TRxd,        \* t_rxd of an envelope
  MaxHeight,   \* bound on the Radiant height
  MaxCrashes   \* bound on crashes

VARIABLES
  foreign, \* the operator that runs another program, or "none"
  files,   \* the exchanged files
  local,   \* the local secret file of a role, numbered; 0: there is none
  seen,    \* the taker's durable seen store, next to its local file
  t, m,    \* the processes of the taker and of the maker
  htlc,    \* the ETH HTLC: deployed for these terms or for others, its end
  deploys, \* history: contracts this program's taker has funded
  cov,     \* the Radiant covenant
  height, crashes

vars == <<foreign, files, local, seen, t, m, htlc, deploys, cov, height, crashes>>

NoFile == "none"
NoEnvelope == [margin |-> NoFile, spk |-> NoFile, taker |-> 0]
Ready == "ready"

ForeignMaker == foreign = "maker"
ForeignTaker == foreign = "taker"

Init ==
  /\ foreign \in {"none", "maker", "taker"}
  /\ files = [intro |-> 0, envelope |-> NoEnvelope, funding |-> NoFile, claim |-> FALSE]
  /\ local = [taker |-> 0, maker |-> 0] /\ seen = FALSE
  /\ t = Ready /\ m = Ready
  /\ htlc = [binds |-> NoFile, state |-> "none", final |-> FALSE] /\ deploys = 0
  /\ cov = [at |-> None, spent |-> "none", by |-> "none"]
  /\ height = 1 /\ crashes = 0

TGoto(pc) == t' = pc
MGoto(pc) == m' = pc

------------------------------------------------------- (* taker phases *)

(* intro: fresh keys, the local file (refused if one exists), the file for *)
(* the maker.                                                              *)
TakerIntroPersist ==
  /\ ~ForeignTaker /\ t = "ready" /\ local.taker = 0
  /\ local' = [local EXCEPT !.taker = 1] /\ TGoto("intro")
  /\ UNCHANGED <<foreign, files, seen, m, htlc, deploys, cov, height, crashes>>

TakerIntroPublish ==
  /\ t = "intro" /\ files' = [files EXCEPT !.intro = local.taker] /\ TGoto("ready")
  /\ UNCHANGED <<foreign, local, seen, m, htlc, deploys, cov, height, crashes>>

(* "move it or pass a fresh --local-out": new keys, and with them a new    *)
(* and empty seen store.                                                   *)
TakerFreshLocal ==
  /\ t = "ready" /\ local.taker = 1 /\ crashes > 0
  /\ local' = [local EXCEPT !.taker = 2] /\ seen' = FALSE /\ TGoto("intro")
  /\ UNCHANGED <<foreign, files, m, htlc, deploys, cov, height, crashes>>

(* Mutation: the taker trusts the covenant the maker advertises.           *)
TrustingFundCheck ==
  /\ ~ForeignTaker /\ t = "ready" /\ local.taker # 0 /\ files.envelope # NoEnvelope
  /\ files.envelope.margin = "ok"
  /\ TGoto("reserve")
  /\ UNCHANGED <<foreign, files, local, seen, m, htlc, deploys, cov, height, crashes>>

(* fund: the margin check of its own, and the covenant rebuilt from the    *)
(* terms and this host's own key hash.                                     *)
TakerFundCheck ==
  /\ ~ForeignTaker /\ t = "ready" /\ local.taker # 0 /\ files.envelope # NoEnvelope
  /\ files.envelope.margin = "ok"
  /\ files.envelope.spk = "derived" /\ files.envelope.taker = local.taker
  /\ TGoto("reserve")
  /\ UNCHANGED <<foreign, files, local, seen, m, htlc, deploys, cov, height, crashes>>

(* taker_funds_btc: H is reserved in the durable store before the deploy.  *)
TakerReserve ==
  /\ t = "reserve"
  /\ IF seen THEN TGoto("ready") /\ UNCHANGED seen ELSE TGoto("deploy") /\ seen' = TRUE
  /\ UNCHANGED <<foreign, files, local, m, htlc, deploys, cov, height, crashes>>

TakerDeploy ==
  /\ t = "deploy" /\ deploys' = deploys + 1 /\ TGoto("publish")
  /\ htlc' = [binds |-> "terms", state |-> "locked", final |-> FALSE]
  /\ UNCHANGED <<foreign, files, local, seen, m, cov, height, crashes>>

(* taker_funding.json, then the address into the local file.               *)
TakerPublish ==
  /\ t = "publish" /\ files' = [files EXCEPT !.funding = htlc.binds] /\ TGoto("ready")
  /\ UNCHANGED <<foreign, local, seen, m, htlc, deploys, cov, height, crashes>>

(* claim: needs maker_claim.json; the record is rebuilt at SECRET_REVEALED.*)
(* The lock height is a flag of the operator and its default is 0.         *)
TakerClaimStart ==
  /\ ~ForeignTaker /\ t = "ready" /\ local.taker # 0
  /\ files.claim /\ files.envelope # NoEnvelope /\ files.funding # NoFile
  /\ TGoto("claim")
  /\ UNCHANGED <<foreign, files, local, seen, m, htlc, deploys, cov, height, crashes>>

Gate(lockedAt) ==
  AssessClaimFinality(FromEthCheckpoint(htlc.final), height, lockedAt, Blocks(TRxd),
                      Policy, None)

(* The loop: p is scraped from the chain, and SQUEEZED claims as well.     *)
TakerClaim(lockedAt) ==
  /\ t = "claim" /\ htlc.state = "claimed" /\ cov.at # None /\ cov.spent = "none"
  /\ Gate(lockedAt) \in {"SAFE", "SQUEEZED"}
  /\ cov' = [cov EXCEPT !.spent = "taker",
               !.by = IF Gate(lockedAt) = "SAFE" THEN "safe" ELSE "squeezed"]
  /\ TGoto("ready")
  /\ UNCHANGED <<foreign, files, local, seen, m, htlc, deploys, height, crashes>>

------------------------------------------------------- (* maker phases *)

(* envelope: p and the keys go to the local file, then H and the covenant  *)
(* to the envelope.                                                        *)
MakerEnvelopePersist ==
  /\ ~ForeignMaker /\ m = "ready" /\ local.maker = 0 /\ files.intro # 0
  /\ local' = [local EXCEPT !.maker = files.intro] /\ MGoto("envelope")
  /\ UNCHANGED <<foreign, files, seen, t, htlc, deploys, cov, height, crashes>>

MakerEnvelopePublish ==
  /\ m = "envelope" /\ MGoto("ready")
  /\ files' = [files EXCEPT !.envelope =
                 [margin |-> "ok", spk |-> "derived", taker |-> local.maker]]
  /\ UNCHANGED <<foreign, local, seen, t, htlc, deploys, cov, height, crashes>>

MakerLockStart ==
  /\ ~ForeignMaker /\ m = "ready" /\ local.maker # 0
  /\ files.envelope # NoEnvelope /\ files.funding # NoFile
  /\ MGoto("verify")
  /\ UNCHANGED <<foreign, files, local, seen, t, htlc, deploys, cov, height, crashes>>

(* Mutation: the locator of the file is believed.                          *)
MakerTrustsFile ==
  /\ m = "verify" /\ MGoto("lock")
  /\ UNCHANGED <<foreign, files, local, seen, t, htlc, deploys, cov, height, crashes>>

(* maker_verify_counter_funding: the contract pays the maker on p, refunds *)
(* the taker, has H, the timeout and the amount, and still holds it.       *)
MakerVerify ==
  /\ m = "verify"
  /\ MGoto(IF htlc.binds = "terms" /\ htlc.state = "locked" THEN "lock" ELSE "ready")
  /\ UNCHANGED <<foreign, files, local, seen, t, htlc, deploys, cov, height, crashes>>

(* The operator funds the covenant, or has already.                        *)
MakerLock ==
  /\ m = "lock" /\ MGoto("revalidate")
  /\ IF cov.at = None THEN cov' = [cov EXCEPT !.at = height + 1] /\ height' = height + 1
     ELSE UNCHANGED <<cov, height>>
  /\ UNCHANGED <<foreign, files, local, seen, t, htlc, deploys, crashes>>

(* post_asset_lock_revalidate.                                             *)
MakerRevalidate ==
  /\ m = "revalidate"
  /\ MGoto(IF cov.spent = "none" /\ htlc.state = "locked" THEN "reveal" ELSE "ready")
  /\ UNCHANGED <<foreign, files, local, seen, t, htlc, deploys, cov, height, crashes>>

MakerReveal ==
  /\ m = "reveal" /\ htlc.state = "locked"
  /\ htlc' = [htlc EXCEPT !.state = "claimed"] /\ MGoto("announce")
  /\ UNCHANGED <<foreign, files, local, seen, t, deploys, cov, height, crashes>>

MakerAnnounce ==
  /\ m = "announce" /\ files' = [files EXCEPT !.claim = TRUE] /\ MGoto("ready")
  /\ UNCHANGED <<foreign, local, seen, t, htlc, deploys, cov, height, crashes>>

-------------------------------------------------------- (* environment *)

ForeignEnvelope(margin, spk, k) ==
  /\ ForeignMaker /\ files.intro # 0
  /\ files' = [files EXCEPT !.envelope = [margin |-> margin, spk |-> spk, taker |-> k]]
  /\ UNCHANGED <<foreign, local, seen, t, m, htlc, deploys, cov, height, crashes>>

(* A foreign maker funds the covenant or not, claims, and announces.       *)
ForeignLock ==
  /\ ForeignMaker /\ cov.at = None /\ height < MaxHeight /\ height' = height + 1
  /\ cov' = [cov EXCEPT !.at = height + 1]
  /\ UNCHANGED <<foreign, files, local, seen, t, m, htlc, deploys, crashes>>

ForeignClaim ==
  /\ ForeignMaker /\ htlc.state = "locked" /\ htlc' = [htlc EXCEPT !.state = "claimed"]
  /\ files' = [files EXCEPT !.claim = TRUE]
  /\ UNCHANGED <<foreign, local, seen, t, m, deploys, cov, height, crashes>>

ForeignFunding(binds) ==
  /\ ForeignTaker /\ htlc.state = "none"
  /\ htlc' = [binds |-> binds, state |-> "locked", final |-> FALSE]
  /\ files' = [files EXCEPT !.intro = 1, !.funding = "terms"]
  /\ UNCHANGED <<foreign, local, seen, t, m, deploys, cov, height, crashes>>

ForeignIntro ==
  /\ ForeignTaker /\ files.intro = 0 /\ files' = [files EXCEPT !.intro = 1]
  /\ UNCHANGED <<foreign, local, seen, t, m, htlc, deploys, cov, height, crashes>>

Finalize ==
  /\ htlc.state = "claimed" /\ ~htlc.final /\ htlc' = [htlc EXCEPT !.final = TRUE]
  /\ UNCHANGED <<foreign, files, local, seen, t, m, deploys, cov, height, crashes>>

RxdBlock ==
  /\ height < MaxHeight /\ height' = height + 1
  /\ UNCHANGED <<foreign, files, local, seen, t, m, htlc, deploys, cov, crashes>>

CovenantRefund ==
  /\ cov.at # None /\ cov.spent = "none" /\ height >= cov.at + TRxd
  /\ cov' = [cov EXCEPT !.spent = "maker"]
  /\ UNCHANGED <<foreign, files, local, seen, t, m, htlc, deploys, height, crashes>>

Crash ==
  /\ crashes < MaxCrashes /\ crashes' = crashes + 1
  /\ \/ t # "ready" /\ t' = Ready /\ UNCHANGED m
     \/ m # "ready" /\ m' = Ready /\ UNCHANGED t
  /\ UNCHANGED <<foreign, files, local, seen, htlc, deploys, cov, height>>

Taker ==
  \/ TakerIntroPersist \/ TakerIntroPublish \/ TakerFreshLocal \/ TakerFundCheck
  \/ TakerReserve \/ TakerDeploy \/ TakerPublish \/ TakerClaimStart
  \/ \E lockedAt \in {0, cov.at} : TakerClaim(lockedAt)

Maker ==
  \/ MakerEnvelopePersist \/ MakerEnvelopePublish \/ MakerLockStart \/ MakerVerify
  \/ MakerLock \/ MakerRevalidate \/ MakerReveal \/ MakerAnnounce

Foreign ==
  \/ \E margin \in {"ok", "tight"}, spk \in {"derived", "other"}, k \in 1 .. 2 :
       ForeignEnvelope(margin, spk, k)
  \/ ForeignLock \/ ForeignClaim \/ ForeignIntro
  \/ \E binds \in {"terms", "other"} : ForeignFunding(binds)

Next == Taker \/ Maker \/ Foreign \/ Finalize \/ RxdBlock \/ CovenantRefund \/ Crash

Spec == Init /\ [][Next]_vars
-----------------------------------------------------------------------------
(* Through crashes, reruns of the fund phase and a change of local file,   *)
(* the taker's host deploys at most one contract for the swap: a fresh     *)
(* local file has an empty seen store but other keys, and the envelope     *)
(* does not fit them (eth_swap_two_host.py 389-406, 687, 701-703).         *)
OneDeployment == ~ForeignMaker => deploys <= 1

(* Whatever the other host writes or deploys, the maker's asset is locked  *)
(* by this program only against a contract that pays the maker for p       *)
(* (eth_swap_two_host.py 618-637).                                         *)
LockRestsOnContract == ~ForeignMaker /\ cov.at # None => htlc.binds = "terms"

(* Both of the above: whoever the counterparty is, a host running this     *)
(* program pays once and locks only against a contract that pays it.       *)
HostsAreSafe == OneDeployment /\ LockRestsOnContract
=============================================================================
