-------------------------- MODULE SwapCoordinator --------------------------
(***************************************************************************)
(* One SwapCoordinator (gravity/swap_coordinator.py) driving one swap: its *)
(* in-memory record, the durable copy behind the persist hook, the seen-   *)
(* store that reserves H, and the two chains as its legs see them.         *)
(*                                                                         *)
(* Every public step runs under the per-instance lock, so at most one is   *)
(* in progress; pc is the await it is suspended at.  Between two awaits a  *)
(* step is one action.  A leg call that broadcasts has three outcomes: it  *)
(* returns, it raises with nothing sent, or it raises (timeout, cancelled  *)
(* task, lost answer) after the transaction was accepted.  The process may *)
(* crash at any await; it restarts from the durable record.                *)
(*                                                                         *)
(* Chains are abstracted to the two outputs of the swap: the counter-leg   *)
(* HTLC and the Radiant covenant, each with the transaction that spends    *)
(* it, first in the mempool and then in a block.  Depths are counted from  *)
(* the output and saturate where no decision tells them apart.             *)
(***************************************************************************)
EXTENDS SwapState, ClaimFinality

CONSTANTS
  CounterChain,      \* "btc" or "eth"
  TBtc,              \* BTC: t_btc in blocks; ETH: eth_timeout_unix_s
  TRxd,              \* t_rxd in Radiant blocks (always BLOCKS)
  ClockStep,         \* counter clock per counter block: 1 block, or seconds
  Policy,            \* the MarginPolicy
  CrossClockMargin,  \* CrossClockMargin.total_s()
  ConfirmWait,       \* max_covenant_confirm_wait_s
  StallWindow,       \* maker_stall_safety_window_blocks
  Runbook,           \* the coordinator steps the operator's runbook uses
  DurableSeen,       \* the seen-store survives a restart
  SecretOnDisk,      \* the operator's run-keys file holds p
  MakerCsvRefund,    \* the maker spends the CSV refund by itself
  Evictions,         \* mempools may drop a transaction
  Cancellations,     \* the driver may cancel a step in its last persist
  MaxCrashes         \* bound on crashes in a behaviour

Steps == {"fund", "revalidate", "verifyCounter", "claimBtc", "claimAsset",
          "claimVulnerable", "refundBtc", "mutualRefund", "stallRefund"}

ASSUME ParametersOK ==
  /\ CounterChain \in {"btc", "eth"}
  /\ TBtc \in Nat /\ TRxd \in Nat \ {0} /\ ClockStep \in Nat \ {0}
  /\ StallWindow \in Nat /\ MaxCrashes \in Nat
  /\ CrossClockMargin \in Nat /\ ConfirmWait \in Nat
  /\ Runbook \subseteq Steps
  /\ {DurableSeen, SecretOnDisk, MakerCsvRefund, Evictions, Cancellations}
       \subseteq BOOLEAN

ASSUME PolicyAssumption ==
  /\ PolicyOK(Policy)
  /\ Policy.btc_claim_reorg_depth.unit = "BLOCKS"
  /\ Policy.btc_claim_reorg_depth.value \in Nat
  /\ Policy.rxd_claim_burial.unit = "BLOCKS"
  /\ Policy.rxd_claim_burial.value \in Nat
  /\ Policy.rxd_reorg_cost_per_block \in Int /\ Policy.value_at_risk_photons \in Int
  /\ Policy.burial_safety_factor \in (Nat \ {0}) \X (Nat \ {0})
  /\ CounterChain = "eth" => Policy.eth_finalization_window_s # None

ReorgDepth == Policy.btc_claim_reorg_depth.value

VARIABLES
  rec,         \* self.record: FSM state, counter locator, Radiant lock
  disk,        \* the record the persist hook last wrote
  pc,          \* where the running step is suspended
  inflight,    \* shielded persists still running after their step's cancel
  seen,        \* H is reserved in the seen-store
  secret,      \* the maker's SecretBytes: "held" or "wiped"
  obs,         \* covenant depth the running step's height argument saw
  crashes,
  htlc, clock, claimConfs, fundings, revealed,       \* the counter chain
  cov, wrongCov, covConfs,                           \* the Radiant chain
  claimHow, claimObs                                 \* how the asset was claimed

record    == <<rec, disk, inflight>>
process   == <<seen, secret, crashes>>
counter   == <<htlc, clock, claimConfs, fundings, revealed>>
radiant   == <<cov, wrongCov, covConfs>>
history   == <<claimHow, claimObs>>
vars == <<record, pc, process, obs, counter, radiant, history>>

HtlcStates == {"absent", "pool", "locked", "claimPool", "claimed",
               "refundPool", "refunded"}
CovStates  == HtlcStates
CovRefs    == {"none", "outpoint", "unverifiable"}
Records    == [state : SwapStates, locator : BOOLEAN, cov : CovRefs]
PcValues   == {"idle", "down", "intent", "fund", "fundWait", "claimBtc", "assess",
               "claimAsset", "claimVulnerable", "refundBtc", "mutualBtc",
               "mutualAsset", "stallAsset", "persist"}

TypeOK ==
  /\ rec \in Records /\ disk \in Records /\ inflight \subseteq Records
  /\ pc \in PcValues
  /\ seen \in BOOLEAN /\ secret \in {"held", "wiped"} /\ crashes \in 0 .. MaxCrashes
  /\ obs \in 0 .. TRxd + 1
  /\ htlc \in HtlcStates /\ clock \in 0 .. TBtc /\ claimConfs \in 0 .. ReorgDepth
  /\ fundings \in Nat /\ revealed \in BOOLEAN
  /\ cov \in CovStates /\ wrongCov \in BOOLEAN /\ covConfs \in 0 .. TRxd + 1
  /\ claimHow \in {"none", "safe", "vulnerable"} /\ claimObs \in 0 .. TRxd + 1

Init ==
  /\ rec = [state |-> "NEGOTIATED", locator |-> FALSE, cov |-> "none"]
  /\ disk = rec /\ inflight = {}
  /\ pc = "idle" /\ obs = 0
  /\ seen = FALSE /\ secret = "held" /\ crashes = 0
  /\ htlc = "absent" /\ clock = 0 /\ claimConfs = 0 /\ fundings = 0 /\ revealed = FALSE
  /\ cov = "absent" /\ wrongCov = FALSE /\ covConfs = 0
  /\ claimHow = "none" /\ claimObs = 0
----------------------------------------------------------------------------
(* What a node accepts into its mempool, and what that does to the output. *)
(* The BTC broadcaster maps "already known" to success; the ETH contract   *)
(* takes claim() before its timeout and refund() from it on, once.         *)

IsBtc == CounterChain = "btc"

RefundMature == clock >= TBtc

ClaimAccepted ==
  \/ htlc = "locked" /\ (IsBtc \/ ~RefundMature)
  \/ IsBtc /\ htlc \in {"claimPool", "claimed"}

RefundAccepted ==
  /\ RefundMature
  /\ \/ htlc = "locked"
     \/ IsBtc /\ htlc \in {"refundPool", "refunded"}
     \/ ~IsBtc /\ htlc = "claimPool"

SendClaim ==
  /\ ClaimAccepted
  /\ htlc' = IF htlc = "locked" THEN "claimPool" ELSE htlc
  /\ revealed' = TRUE
  /\ UNCHANGED <<clock, claimConfs, fundings>>

SendRefund ==
  /\ RefundAccepted
  /\ htlc' = IF htlc \in {"locked", "claimPool"} THEN "refundPool" ELSE htlc
  /\ UNCHANGED <<clock, claimConfs, fundings, revealed>>

(* RadiantCovenantLeg.claim_asset: the covenant is found unspent at one    *)
(* confirmation; a second spend of it is a conflict, never "known".        *)
SendAssetClaim(how) ==
  /\ cov = "locked"
  /\ cov' = "claimPool"
  /\ claimHow' = how /\ claimObs' = obs
  /\ UNCHANGED <<wrongCov, covConfs>>

(* RadiantCovenantLeg.refund_asset: valid once the CSV has matured.        *)
SendAssetRefund ==
  /\ cov = "locked" /\ covConfs >= TRxd
  /\ cov' = "refundPool"
  /\ UNCHANGED <<wrongCov, covConfs>>

------------------------------------------------ (* the shape of a step *)

(* _advance, and the record the step goes on to persist.                   *)
RecordAs(r) == rec' = r /\ UNCHANGED <<disk, inflight>>

After(event) == [rec EXCEPT !.state = Advance(rec.state, event)]

Begin(step, from) == pc = "idle" /\ step \in Runbook /\ rec.state \in from

Keep == UNCHANGED <<record, process>>

(* A leg call that raises without an effect ends the step with the record  *)
(* as it was.                                                              *)
Raise ==
  /\ pc \in {"intent", "fund", "fundWait", "assess", "claimAsset", "claimVulnerable",
             "refundBtc", "mutualBtc", "mutualAsset", "stallAsset"}
  /\ pc' = "idle"
  /\ Keep /\ UNCHANGED <<obs, counter, radiant, history>>

(* _persist_record of the finished step: written, or the hook raised and   *)
(* memory is ahead of the disk.                                            *)
Persist ==
  /\ pc = "persist" /\ pc' = "idle"
  /\ disk' = rec
  /\ UNCHANGED <<rec, inflight, process, obs, counter, radiant, history>>

PersistRaises ==
  /\ pc = "persist" /\ pc' = "idle"
  /\ Keep /\ UNCHANGED <<obs, counter, radiant, history>>

(* A cancel during the shielded persist: the step ends and frees the lock, *)
(* the write goes on by itself.                                            *)
PersistCancelled ==
  /\ Cancellations
  /\ pc = "persist" /\ pc' = "idle"
  /\ inflight' = inflight \cup {rec}
  /\ UNCHANGED <<rec, disk, process, obs, counter, radiant, history>>

InflightPersist ==
  \E r \in inflight :
    /\ disk' = r /\ inflight' = inflight \ {r}
    /\ UNCHANGED <<rec, pc, process, obs, counter, radiant, history>>

(* The process dies: memory, and p with it, is gone.                       *)
Crash ==
  /\ pc # "down" /\ crashes < MaxCrashes
  /\ pc' = "down" /\ crashes' = crashes + 1
  /\ rec' = disk /\ inflight' = {}
  /\ UNCHANGED <<disk, seen, secret, obs, counter, radiant, history>>

(* Mutation: the seen-store is rebuilt empty.                              *)
ForgetfulRestart ==
  /\ pc = "down" /\ pc' = "idle"
  /\ seen' = FALSE /\ secret' = IF SecretOnDisk THEN "held" ELSE "wiped"
  /\ UNCHANGED <<record, crashes, obs, counter, radiant, history>>

(* A new coordinator over the durable record and the same seen-store.      *)
Restart ==
  /\ pc = "down" /\ pc' = "idle"
  /\ seen' = (seen /\ DurableSeen)
  /\ secret' = IF SecretOnDisk THEN "held" ELSE "wiped"
  /\ UNCHANGED <<record, crashes, obs, counter, radiant, history>>

(* A broadcasting leg call that reached the network: it returned, and the  *)
(* step advances and persists, or its answer was lost and the step raises. *)
Ends(event) ==
  \/ RecordAs(After(event)) /\ pc' = "persist"
  \/ UNCHANGED record /\ pc' = "idle"

--------------------------------------------------- (* taker_funds_btc *)

(* pre_btc_lock_check: H is fresh and the timelocks leave room.  The REF,  *)
(* credential and SPK checks depend on constants of the swap only.         *)
PreBtcLockCheck ==
  /\ ~seen
  /\ IF IsBtc THEN TimelockMarginOK(Blocks(TBtc), Blocks(TRxd), Policy)
     ELSE CovenantConfirmsBeforeEthDeadline(clock, TBtc, CrossClockMargin,
            Blocks(TRxd), Policy.rxd_block_interval_s, ConfirmWait)

FundStart ==
  /\ Begin("fund", {"NEGOTIATED"})
  /\ PreBtcLockCheck
  /\ pc' = "intent"
  /\ Keep /\ UNCHANGED <<obs, counter, radiant, history>>

(* The intent record is durable, then H is reserved, then fund() is called *)
(* with no await in between.                                               *)
FundReserve ==
  /\ pc = "intent" /\ ~seen
  /\ pc' = "fund"
  /\ disk' = rec /\ seen' = TRUE
  /\ UNCHANGED <<rec, inflight, secret, crashes, obs, counter, radiant, history>>

(* Mutation: the broadcast does not recognise its own transaction.         *)
NonIdempotentFundBroadcast ==
  /\ pc = "fund" /\ pc' = "fundWait"
  /\ htlc' = "pool" /\ fundings' = fundings + 1
  /\ Keep /\ UNCHANGED <<obs, clock, claimConfs, revealed, radiant, history>>

(* BTC: the one funding UTXO makes a second broadcast the same tx.  ETH:   *)
(* every call deploys and funds another contract.                          *)
FundBroadcast ==
  /\ pc = "fund" /\ pc' = "fundWait"
  /\ IF IsBtc /\ htlc # "absent" THEN UNCHANGED <<htlc, fundings>>
     ELSE htlc' = "pool" /\ fundings' = fundings + 1
  /\ Keep /\ UNCHANGED <<obs, clock, claimConfs, revealed, radiant, history>>

(* Mutation: the locator is returned before the funding is confirmed.      *)
UnconfirmedFundReturns ==
  /\ pc = "fundWait" /\ htlc # "absent"
  /\ pc' = "persist"
  /\ RecordAs([After("TAKER_FUNDS_BTC") EXCEPT !.locator = TRUE])
  /\ UNCHANGED <<process, obs, counter, radiant, history>>

FundReturns ==
  /\ pc = "fundWait" /\ htlc \notin {"absent", "pool"}
  /\ pc' = "persist"
  /\ RecordAs([After("TAKER_FUNDS_BTC") EXCEPT !.locator = TRUE])
  /\ UNCHANGED <<process, obs, counter, radiant, history>>

---------------------------------------- (* post_asset_lock_revalidate *)

(* covenant_outpoint: an unspent covenant of the expected SPK, confirmed   *)
(* or not.  The reads of a revalidation are one action: what each of them  *)
(* sees only moves forward while the step runs.                            *)
CovenantVisible == cov \in {"pool", "locked"}

(* _assert_eth_counter_funding_verified.                                   *)
EthCounterFundingVerified ==
  /\ rec.locator /\ htlc = "locked"
  /\ CovenantConfirmsBeforeEthDeadline(clock, TBtc, CrossClockMargin,
       Blocks(TRxd), Policy.rxd_block_interval_s, 0)

Revalidated(r) ==
  /\ Begin("revalidate", {"BTC_LOCKED"})
  /\ pc' = "persist"
  /\ RecordAs(r)
  /\ UNCHANGED <<process, obs, counter, radiant, history>>

(* Mutation: the promised SPK is compared, the chain is not looked at.     *)
TrustingRevalidateMatch ==
  /\ IsBtc \/ EthCounterFundingVerified
  /\ Revalidated([After("MAKER_LOCKS_ASSET") EXCEPT !.cov = "outpoint"])

RevalidateMatch ==
  /\ CovenantVisible
  /\ IsBtc \/ EthCounterFundingVerified
  /\ Revalidated([After("MAKER_LOCKS_ASSET") EXCEPT !.cov = "outpoint"])

(* The ETH gate refuses, or cannot read the chain: the covenant is         *)
(* recorded, the state is not.                                             *)
RevalidateRefused ==
  /\ CovenantVisible
  /\ ~IsBtc
  /\ Revalidated([rec EXCEPT !.cov = "outpoint"])

(* The observed SPK is not the expected one.  covenant_outpoint, awaited   *)
(* first, raises unless the expected covenant is on the chain as well.     *)
RevalidateMismatch ==
  /\ wrongCov /\ CovenantVisible
  /\ Revalidated([After("MAKER_LOCKS_WRONG_PARAMS") EXCEPT !.cov = "outpoint"])

(* The expected SPK cannot be recomputed: PARAMS_MISMATCH, fail-closed.    *)
RevalidateUnverifiable ==
  /\ wrongCov \/ CovenantVisible
  /\ Revalidated([After("MAKER_LOCKS_WRONG_PARAMS") EXCEPT !.cov = "unverifiable"])

(* Mutation: the advertised address is taken without verify_funded.        *)
TrustingVerifyCounterFunding ==
  /\ Begin("verifyCounter", SwapStates)
  /\ ~IsBtc
  /\ pc' = "persist"
  /\ RecordAs([rec EXCEPT !.locator = TRUE])
  /\ UNCHANGED <<process, obs, counter, radiant, history>>

(* maker_verify_counter_funding: no state guard, ETH only.                 *)
MakerVerifyCounterFunding ==
  /\ Begin("verifyCounter", SwapStates)
  /\ ~IsBtc /\ htlc = "locked"
  /\ pc' = "persist"
  /\ RecordAs([rec EXCEPT !.locator = TRUE])
  /\ UNCHANGED <<process, obs, counter, radiant, history>>

-------------------------------------------------- (* maker_claims_btc *)

ClaimBtcStart ==
  /\ Begin("claimBtc", {"BOTH_LOCKED"})
  /\ rec.locator /\ secret = "held"
  /\ pc' = "claimBtc"
  /\ Keep /\ UNCHANGED <<obs, counter, radiant, history>>

(* p is zeroized in the finally clause, whatever the broadcast did.        *)
ClaimBtc ==
  /\ pc = "claimBtc"
  /\ SendClaim
  /\ Ends("MAKER_CLAIMS_BTC_REVEALS_P")
  /\ secret' = "wiped"
  /\ UNCHANGED <<seen, crashes, obs, radiant, history>>

ClaimBtcRaises ==
  /\ pc = "claimBtc" /\ pc' = "idle"
  /\ secret' = "wiped"
  /\ UNCHANGED <<record, seen, crashes, obs, counter, radiant, history>>

-------------------------------------- (* taker_scrape_and_claim_asset *)

(* The maker's claim as the taker can fetch it: in the mempool for BTC, in *)
(* a mined block with status 1 for ETH.                                    *)
ClaimTxVisible == htlc = "claimed" \/ (IsBtc /\ htlc = "claimPool")

(* Mutation: the height of the next block is passed for the tip.           *)
NextHeightClaimAssetStart ==
  /\ Begin("claimAsset", {"SECRET_REVEALED"})
  /\ rec.locator /\ ClaimTxVisible /\ covConfs >= 1
  /\ pc' = "assess" /\ obs' = covConfs + 1
  /\ Keep /\ UNCHANGED <<counter, radiant, history>>

ClaimAssetStart ==
  /\ Begin("claimAsset", {"SECRET_REVEALED"})
  /\ rec.locator /\ ClaimTxVisible /\ covConfs >= 1
  /\ pc' = "assess" /\ obs' = covConfs
  /\ Keep /\ UNCHANGED <<counter, radiant, history>>

CounterVerdict ==
  IF IsBtc THEN FromBtcDepth(claimConfs, VerdictDepth(Policy))
  ELSE FromEthCheckpoint(claimConfs >= ReorgDepth)

(* The height argument was read when the step was called; the claim's      *)
(* depth is read now.                                                      *)
Assessment ==
  AssessClaimFinality(CounterVerdict, obs - 1, 0, Blocks(TRxd), Policy, None)

AssessWait ==
  /\ pc = "assess" /\ Assessment = "WAIT"
  /\ pc' = "idle"
  /\ Keep /\ UNCHANGED <<obs, counter, radiant, history>>

AssessSqueezed ==
  /\ pc = "assess" /\ Assessment = "SQUEEZED"
  /\ pc' = "persist"
  /\ RecordAs(After("TAKER_OFFLINE_OR_PINNED"))
  /\ UNCHANGED <<process, obs, counter, radiant, history>>

AssessSafe ==
  /\ pc = "assess" /\ Assessment = "SAFE"
  /\ pc' = "claimAsset"
  /\ Keep /\ UNCHANGED <<obs, counter, radiant, history>>

ClaimAsset ==
  /\ pc = "claimAsset"
  /\ SendAssetClaim("safe")
  /\ Ends("TAKER_SCRAPES_P_CLAIMS_ASSET")
  /\ UNCHANGED <<process, obs, counter>>

(* Mutation: the vulnerable record is rewound to re-enter the gate.        *)
RewindingClaimVulnerableStart ==
  /\ Begin("claimVulnerable", {"ASSET_VULNERABLE"})
  /\ rec.locator /\ ClaimTxVisible
  /\ pc' = "persist"
  /\ RecordAs([rec EXCEPT !.state = "SECRET_REVEALED"])
  /\ UNCHANGED <<process, obs, counter, radiant, history>>

(* Mutation: the wrong state guard.                                        *)
MisguardedClaimVulnerableStart ==
  /\ Begin("claimVulnerable", {"SECRET_REVEALED"})
  /\ rec.locator /\ ClaimTxVisible
  /\ pc' = "claimVulnerable"
  /\ Keep /\ UNCHANGED <<obs, counter, radiant, history>>

(* taker_claim_asset_from_vulnerable: the same claim with no gate.         *)
ClaimVulnerableStart ==
  /\ Begin("claimVulnerable", {"ASSET_VULNERABLE"})
  /\ rec.locator /\ ClaimTxVisible
  /\ pc' = "claimVulnerable"
  /\ Keep /\ UNCHANGED <<obs, counter, radiant, history>>

ClaimVulnerable ==
  /\ pc = "claimVulnerable"
  /\ SendAssetClaim("vulnerable")
  /\ Ends("TAKER_SCRAPES_P_CLAIMS_ASSET")
  /\ UNCHANGED <<process, obs, counter>>

--------------------------------------------------------- (* refunds *)

(* Mutation: no refund from PARAMS_MISMATCH.                               *)
StrandingRefundBtcStart ==
  /\ Begin("refundBtc", {"BTC_LOCKED"})
  /\ rec.locator
  /\ pc' = "refundBtc"
  /\ Keep /\ UNCHANGED <<obs, counter, radiant, history>>

(* taker_refund_btc.                                                       *)
RefundBtcStart ==
  /\ Begin("refundBtc", {"BTC_LOCKED", "PARAMS_MISMATCH"})
  /\ rec.locator
  /\ pc' = "refundBtc"
  /\ Keep /\ UNCHANGED <<obs, counter, radiant, history>>

(* Mutation: the record advances whether or not the refund was accepted.   *)
OptimisticRefundBtc ==
  /\ pc = "refundBtc"
  /\ SendRefund \/ UNCHANGED counter
  /\ Ends(IF rec.state = "BTC_LOCKED" THEN "MAKER_NEVER_LOCKS_BTC_TIMEOUT"
          ELSE "TAKER_REFUNDS_BTC")
  /\ UNCHANGED <<process, obs, radiant, history>>

RefundBtc ==
  /\ pc = "refundBtc"
  /\ SendRefund
  /\ Ends(IF rec.state = "BTC_LOCKED" THEN "MAKER_NEVER_LOCKS_BTC_TIMEOUT"
          ELSE "TAKER_REFUNDS_BTC")
  /\ UNCHANGED <<process, obs, radiant, history>>

(* Mutation: the asset leg is refunded first.                              *)
AssetFirstMutualRefundStart ==
  /\ Begin("mutualRefund", {"BOTH_LOCKED"})
  /\ rec.locator
  /\ SendAssetRefund
  /\ pc' = "mutualBtc"
  /\ Keep /\ UNCHANGED <<obs, counter, history>>

(* mutual_refund: the counter leg first, then the asset, then the record.  *)
MutualRefundStart ==
  /\ Begin("mutualRefund", {"BOTH_LOCKED"})
  /\ rec.locator
  /\ pc' = "mutualBtc"
  /\ Keep /\ UNCHANGED <<obs, counter, radiant, history>>

(* Mutation: a failed counter refund is swallowed and the asset refunded.  *)
SwallowingMutualRefundBtc ==
  /\ pc = "mutualBtc"
  /\ SendRefund \/ UNCHANGED counter
  /\ pc' \in {"mutualAsset", "idle"}
  /\ Keep /\ UNCHANGED <<obs, radiant, history>>

MutualRefundBtc ==
  /\ pc = "mutualBtc"
  /\ SendRefund
  /\ pc' \in {"mutualAsset", "idle"}
  /\ Keep /\ UNCHANGED <<obs, radiant, history>>

MutualRefundAsset ==
  /\ pc = "mutualAsset"
  /\ SendAssetRefund
  /\ Ends("BOTH_TIMEOUTS_ELAPSE")
  /\ UNCHANGED <<process, obs, counter, history>>

(* maybe_refund_asset_on_maker_stall: the caller says whether the maker    *)
(* has claimed, and passes the height.                                     *)
StallRefundStart ==
  /\ Begin("stallRefund", {"BOTH_LOCKED"})
  /\ covConfs >= 1
  /\ TakerRefundWindowOpen(covConfs - 1, 0, Blocks(TRxd), StallWindow,
                           ClaimTxVisible, Policy.block_interval_s)
  /\ pc' = "stallAsset"
  /\ Keep /\ UNCHANGED <<obs, counter, radiant, history>>

StallRefund ==
  /\ pc = "stallAsset"
  /\ SendAssetRefund
  /\ \/ /\ RecordAs([rec EXCEPT !.state =
             Advance(Advance(rec.state, "MAKER_STALL_DETECTED"),
                     "TAKER_REFUNDS_ASSET_PROACTIVELY")])
        /\ pc' = "persist"
     \/ UNCHANGED record /\ pc' = "idle"
  /\ UNCHANGED <<process, obs, counter, history>>

--------------------------------- (* the chains and the other parties *)

(* The maker pays an asset into a covenant once the counter leg is locked. *)
MakerLocksCovenant ==
  /\ cov = "absent" /\ htlc = "locked"
  /\ cov' = "pool"
  /\ UNCHANGED <<record, pc, process, obs, counter, wrongCov, covConfs, history>>

(* ... or into one whose parameters are not the negotiated ones.           *)
MakerLocksWrongCovenant ==
  /\ ~wrongCov /\ htlc = "locked"
  /\ wrongCov' = TRUE
  /\ UNCHANGED <<record, pc, process, obs, counter, cov, covConfs, history>>

Mined(o) == [absent |-> "absent", pool |-> "locked", locked |-> "locked",
             claimPool |-> "claimed", claimed |-> "claimed",
             refundPool |-> "refunded", refunded |-> "refunded"][o]

Saturate(n, bound) == IF n < bound THEN n ELSE bound

(* A counter-chain block, with or without the pending transaction.  A BTC  *)
(* CSV counts from the funding block; an ETH deadline is absolute, and an  *)
(* ETH claim included after it reverts.                                    *)
CounterBlock ==
  /\ htlc' \in {htlc, Mined(htlc)}
  /\ htlc' = "claimed" => (IsBtc \/ htlc = "claimed" \/ ~RefundMature)
  /\ clock' = IF IsBtc /\ htlc' \in {"absent", "pool"} THEN 0
              ELSE Saturate(clock + ClockStep, TBtc)
  /\ claimConfs' = IF htlc' = "claimed" THEN Saturate(claimConfs + 1, ReorgDepth) ELSE 0
  /\ UNCHANGED <<fundings, revealed>>
  /\ UNCHANGED <<record, pc, process, obs, radiant, history>>

(* A claim that is not reorg-deep returns to the mempool.                  *)
CounterReorg ==
  /\ htlc = "claimed" /\ claimConfs < ReorgDepth
  /\ htlc' = "claimPool" /\ claimConfs' = 0
  /\ UNCHANGED <<clock, fundings, revealed>>
  /\ UNCHANGED <<record, pc, process, obs, radiant, history>>

(* A Radiant block; the maker's own CSV refund may be in it once mature.   *)
RxdBlock ==
  /\ cov \in {"pool", "locked", "claimPool", "refundPool"}
  /\ \/ cov' \in {cov, Mined(cov)}
     \/ /\ MakerCsvRefund /\ covConfs >= TRxd /\ cov # "pool"
        /\ cov' = "refunded"
  /\ covConfs' = IF cov' \in {"pool", "claimed", "refunded"} THEN covConfs
                 ELSE Saturate(covConfs + 1, TRxd + 1)
  /\ UNCHANGED <<record, pc, process, obs, counter, wrongCov, history>>

Dropped(o) == [absent |-> "absent", pool |-> "absent", locked |-> "locked",
               claimPool |-> "locked", claimed |-> "claimed",
               refundPool |-> "locked", refunded |-> "refunded"][o]

(* A mempool drops the pending spend of one of the outputs.                *)
Evict ==
  /\ Evictions
  /\ \/ /\ htlc' = Dropped(htlc) /\ htlc' # htlc
        /\ UNCHANGED <<cov>>
     \/ /\ cov' = Dropped(cov) /\ cov' # cov
        /\ UNCHANGED <<htlc>>
  /\ UNCHANGED <<clock, claimConfs, fundings, revealed, wrongCov, covConfs>>
  /\ UNCHANGED <<record, pc, process, obs, history>>

(* A dropped claim is public; anyone who kept it may send it again.        *)
Reenter ==
  /\ Evictions
  /\ revealed /\ htlc = "locked" /\ ClaimAccepted
  /\ htlc' = "claimPool"
  /\ UNCHANGED <<clock, claimConfs, fundings, revealed>>
  /\ UNCHANGED <<record, pc, process, obs, radiant, history>>

CoordinatorStep ==
  \/ Raise \/ Persist \/ PersistRaises \/ PersistCancelled \/ InflightPersist
  \/ FundStart \/ FundReserve \/ FundBroadcast \/ FundReturns
  \/ RevalidateMatch \/ RevalidateRefused \/ RevalidateMismatch
  \/ RevalidateUnverifiable \/ MakerVerifyCounterFunding
  \/ ClaimBtcStart \/ ClaimBtc \/ ClaimBtcRaises
  \/ ClaimAssetStart \/ AssessWait \/ AssessSqueezed \/ AssessSafe \/ ClaimAsset
  \/ ClaimVulnerableStart \/ ClaimVulnerable
  \/ RefundBtcStart \/ RefundBtc
  \/ MutualRefundStart \/ MutualRefundBtc \/ MutualRefundAsset
  \/ StallRefundStart \/ StallRefund

Environment ==
  \/ MakerLocksCovenant \/ MakerLocksWrongCovenant
  \/ CounterBlock \/ CounterReorg \/ RxdBlock \/ Evict \/ Reenter

Next == CoordinatorStep \/ Crash \/ Restart \/ Environment

Spec == Init /\ [][Next]_vars

(***************************************************************************)
(* Fairness.  Both chains go on, and a valid pending transaction is mined. *)
(* A leg call and a persist end (they have timeouts).  The operator starts *)
(* a crashed process again and keeps calling the steps of the runbook that *)
(* the record admits; a node that is asked again and again answers.        *)
(* Nothing is assumed of the maker: it may never lock, and p may never be  *)
(* used.                                                                   *)
(***************************************************************************)
StepEnds == Raise \/ ClaimBtcRaises \/ FundReserve \/ Persist

OperatorActs == RefundBtcStart \/ MutualRefundStart \/ ClaimAssetStart \/ ClaimVulnerableStart

DepthRead == AssessSafe \/ AssessSqueezed

BroadcastAccepted == RefundBtc \/ MutualRefundBtc \/ ClaimAsset \/ ClaimVulnerable

Fairness ==
  /\ WF_vars(CounterBlock /\ htlc' = Mined(htlc))
  /\ WF_vars(RxdBlock /\ cov' = Mined(cov))
  /\ WF_vars(StepEnds) /\ WF_vars(Restart)
  /\ SF_vars(OperatorActs) /\ SF_vars(DepthRead) /\ SF_vars(BroadcastAccepted)

FairSpec == Spec /\ Fairness
-----------------------------------------------------------------------------
(* The taker never has two HTLCs funded for one H, through any sequence of *)
(* raises, crashes and retries of taker_funds_btc: the reservation is      *)
(* durable and precedes the broadcast (or the broadcast is idempotent).    *)
OneLock == fundings <= 1

(* p is public only when the maker's covenant exists and its parameters    *)
(* were checked: maker_claims_btc follows post_asset_lock_revalidate.      *)
SecretOnlyAfterBothLocked == revealed => cov # "absent"

(* No one-sided outcome: the counter leg is never claimed while the asset  *)
(* goes back to the maker, whatever crashes and lost answers happen in     *)
(* maker_claims_btc and mutual_refund (which refunds the counter leg       *)
(* first).                                                                 *)
NoSplit == ~(htlc \in {"claimPool", "claimed"} /\ cov \in {"refundPool", "refunded"})

(* An asset claim made through the SAFE branch rests on a counter-leg      *)
(* claim that no reorg takes back: the depth read by the gate is still     *)
(* there after the awaits that follow it.                                  *)
SafeClaimRestsOnFinalClaim ==
  claimHow = "safe" => htlc = "claimed" /\ claimConfs = ReorgDepth

(* If the maker's CSV refund beats a claim that the gate called SAFE, then *)
(* at least the required burial of Radiant blocks passed after the height  *)
(* the gate was given: the gate left the claim the room it promises.       *)
SafeClaimHadRoom ==
  claimHow = "safe" /\ cov = "refunded" =>
    covConfs - claimObs + 1 >= RequiredBurial(Policy, Policy.value_at_risk_photons)

(* What a record says of the chains is so.                                 *)
RecordTrue(r) ==
  /\ r.state # "NEGOTIATED" => r.locator
  /\ r.locator => htlc \notin {"absent", "pool"}
  /\ r.state \in {"BOTH_LOCKED", "SECRET_REVEALED", "ASSET_VULNERABLE",
                  "COMPLETED", "MUTUAL_REFUND"} => r.cov = "outpoint" /\ cov # "absent"
  /\ r.state \in {"SECRET_REVEALED", "ASSET_VULNERABLE", "COMPLETED"} => revealed

(* A record, in memory, on disk or on its way there, never says more than  *)
(* the chains show: a lost answer leaves it behind, never ahead.           *)
RecordIsTrue == \A r \in {rec, disk} \cup inflight : RecordTrue(r)

OutcomeTrue(r) ==
  /\ r.state = "COMPLETED" => cov \in {"claimPool", "claimed"}
  /\ r.state \in {"ABORTED", "MUTUAL_REFUND"} => htlc \in {"refundPool", "refunded"}
  /\ r.state \in {"MUTUAL_REFUND", "ASSET_REFUNDED_TAKER_ACTS"} =>
       cov \in {"refundPool", "refunded"}

(* A terminal record is right about where both outputs went.               *)
TerminalRecordIsTrue == \A r \in {rec, disk} \cup inflight : OutcomeTrue(r)

(* The durable record only moves forward along the FSM: a restart never    *)
(* resumes a swap at a state that it had already left on disk.             *)
DurableNeverRegresses == [][disk'.state \in ReachableFrom(disk.state)]_vars

(* Locked counter-leg value always comes out again: once a durable record  *)
(* holds the locator, some step of the runbook claims or refunds the HTLC, *)
(* through crashes, lost answers and persist failures.                     *)
CounterLegFreed ==
  (disk.locator /\ htlc = "locked") ~> (htlc \in {"claimed", "refunded"})

(* A durable SECRET_REVEALED leads to the asset being claimed: no order of *)
(* crashes, polls and shallow reorgs leaves a public p unused until the    *)
(* window is over.                                                         *)
RevealedAssetClaimed ==
  (disk.state = "SECRET_REVEALED") ~> (cov = "claimed")

(* What either party locked comes out: the HTLC the record names, and the  *)
(* asset that the revealed p buys.                                         *)
ValueComesOut == CounterLegFreed /\ RevealedAssetClaimed
-----------------------------------------------------------------------------
(* The refinement mapping.  A counter-leg claim counts when it is final.   *)
CounterLeg ==
  CASE htlc \in {"absent", "pool"} -> "unlocked"
    [] htlc = "claimed" /\ claimConfs = ReorgDepth -> "claimed"
    [] htlc \in {"refundPool", "refunded"} -> "refunded"
    [] OTHER -> "locked"

AssetLeg ==
  CASE cov = "absent" -> "unlocked"
    [] cov \in {"claimPool", "claimed"} -> "claimed"
    [] cov \in {"refundPool", "refunded"} -> "refunded"
    [] OTHER -> "locked"

Swap == INSTANCE AtomicSwap
          WITH counterLeg <- CounterLeg, assetLeg <- AssetLeg, secretPublic <- revealed

(* The coordinator implements the abstract swap: with both roles following *)
(* the runbook and no transaction lost from a mempool, every step of it,   *)
(* crash and retry included, is a step of AtomicSwap or none at all.       *)
ImplementsAtomicSwap == Swap!SwapSpec

-----------------------------------------------------------------------------
(* What comments and docstrings of the repository say and the code above   *)
(* does not do.  Each is refuted by a run of its own.                      *)

(* swap_state.SwapRecord: "Persisted from the FIRST lock onward".          *)
PersistedFromFirstLock == (pc = "idle" /\ htlc = "locked") => disk.locator

(* eth_rxd_timelock: the late-reveal residual is "surfaced loudly (never a *)
(* silent COMPLETED)".                                                     *)
NeverSilentlyCompleted == rec.state = "COMPLETED" => cov # "refunded"

(* maker_claims_btc: if the claim raises after the tx hit the mempool,     *)
(* "recovery re-scrapes it from the chain".                                *)
RevealedSecretRecovers == revealed ~> (cov = "claimed")
=============================================================================
