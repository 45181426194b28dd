-------------------------- MODULE SwapSafetyProofs --------------------------
(***************************************************************************)
(* The safety theorems of SwapCoordinator, for every counter chain,        *)
(* timelock, policy, runbook and number of crashes.  Each names the        *)
(* assumptions on the environment that it needs; TypeCorrect, which comes  *)
(* first, is used throughout.  With both roles on the runbook of           *)
(* scripts/dust_swap_run.py and mempools that keep what they accept, a     *)
(* swap has no one-sided outcome, a terminal record is right, and the      *)
(* coordinator implements AtomicSwap.                                      *)
(***************************************************************************)
EXTENDS SwapCoordinator, TLAPS

-------------------------------------------------- (* the state machine *)

(* advance() has one target for a pair of the table.                       *)
LEMMA AdvanceIs ==
  ASSUME NEW s, NEW e, NEW t \in SwapStates, <<s, e, t>> \in Transitions
  PROVE  Advance(s, e) = t
<1>1. \A u \in SwapStates : <<s, e, u>> \in Transitions => u = t
  BY DEF Transitions
<1>2. QED
  BY <1>1 DEF Advance

(* The entries of the table that the coordinator's steps use.              *)
LEMMA AdvanceTable ==
  /\ Advance("NEGOTIATED", "TAKER_FUNDS_BTC") = "BTC_LOCKED"
  /\ Advance("BTC_LOCKED", "MAKER_LOCKS_ASSET") = "BOTH_LOCKED"
  /\ Advance("BTC_LOCKED", "MAKER_NEVER_LOCKS_BTC_TIMEOUT") = "ABORTED"
  /\ Advance("BTC_LOCKED", "MAKER_LOCKS_WRONG_PARAMS") = "PARAMS_MISMATCH"
  /\ Advance("PARAMS_MISMATCH", "TAKER_REFUNDS_BTC") = "ABORTED"
  /\ Advance("BOTH_LOCKED", "MAKER_CLAIMS_BTC_REVEALS_P") = "SECRET_REVEALED"
  /\ Advance("BOTH_LOCKED", "MAKER_STALL_DETECTED") = "MAKER_STALLS"
  /\ Advance("BOTH_LOCKED", "BOTH_TIMEOUTS_ELAPSE") = "MUTUAL_REFUND"
  /\ Advance("MAKER_STALLS", "TAKER_REFUNDS_ASSET_PROACTIVELY")
       = "ASSET_REFUNDED_TAKER_ACTS"
  /\ Advance("SECRET_REVEALED", "TAKER_SCRAPES_P_CLAIMS_ASSET") = "COMPLETED"
  /\ Advance("SECRET_REVEALED", "TAKER_OFFLINE_OR_PINNED") = "ASSET_VULNERABLE"
  /\ Advance("ASSET_VULNERABLE", "TAKER_SCRAPES_P_CLAIMS_ASSET") = "COMPLETED"
BY AdvanceIs DEF Transitions, SwapStates

------------------------------------------------------- (* well-typedness *)

(* A step that is suspended holds the lock, so the record is still in the  *)
(* state its guard admitted.                                               *)
PcState ==
  /\ pc \in {"intent", "fund", "fundWait"} => rec.state = "NEGOTIATED"
  /\ pc \in {"claimBtc", "mutualBtc", "mutualAsset", "stallAsset"} =>
       rec.state = "BOTH_LOCKED"
  /\ pc \in {"assess", "claimAsset"} => rec.state = "SECRET_REVEALED"
  /\ pc = "claimVulnerable" => rec.state = "ASSET_VULNERABLE"
  /\ pc = "refundBtc" => rec.state \in {"BTC_LOCKED", "PARAMS_MISMATCH"}

TypeInv == TypeOK /\ PcState

(* What a step may write to the record.                                    *)
LEMMA RecordUpdates ==
  ASSUME NEW r \in Records
  PROVE  /\ \A s \in SwapStates : [r EXCEPT !.state = s] \in Records
         /\ \A s \in SwapStates : [[r EXCEPT !.state = s] EXCEPT !.locator = TRUE] \in Records
         /\ \A s \in SwapStates, c \in CovRefs :
              [[r EXCEPT !.state = s] EXCEPT !.cov = c] \in Records
         /\ [r EXCEPT !.locator = TRUE] \in Records
         /\ \A c \in CovRefs : [r EXCEPT !.cov = c] \in Records
BY DEF Records

(* MarginPolicy admits no reorg depth below two blocks.                    *)
LEMMA ReorgDepthType == ReorgDepth \in Nat /\ ReorgDepth >= 2
BY PolicyAssumption DEF ReorgDepth, PolicyOK, NormalizeToBlocks, MinReorgDepthBlocks

(* A new coordinator over an empty chain is well typed.                    *)
LEMMA InitTypeInv == Init => TypeInv
<1> SUFFICES ASSUME Init PROVE TypeInv
  OBVIOUS
<1>1. rec \in Records /\ disk \in Records /\ inflight \subseteq Records
  BY DEF Init, Records, SwapStates, CovRefs
<1>2. /\ crashes \in 0 .. MaxCrashes /\ obs \in 0 .. TRxd + 1 /\ clock \in 0 .. TBtc
      /\ claimConfs \in 0 .. ReorgDepth /\ fundings \in Nat
      /\ covConfs \in 0 .. TRxd + 1 /\ claimObs \in 0 .. TRxd + 1
  BY ParametersOK, ReorgDepthType DEF Init
<1>3. /\ pc \in PcValues /\ seen \in BOOLEAN /\ secret \in {"held", "wiped"}
      /\ htlc \in HtlcStates /\ revealed \in BOOLEAN
      /\ cov \in CovStates /\ wrongCov \in BOOLEAN
      /\ claimHow \in {"none", "safe", "vulnerable"}
  BY DEF Init, PcValues, HtlcStates, CovStates
<1>4. PcState
  BY DEF Init, PcState
<1>5. QED
  BY <1>1, <1>2, <1>3, <1>4 DEF TypeInv, TypeOK

RecordTyped == rec \in Records /\ disk \in Records /\ inflight \subseteq Records
CounterTyped ==
  /\ htlc \in HtlcStates /\ clock \in 0 .. TBtc /\ claimConfs \in 0 .. ReorgDepth
  /\ fundings \in Nat /\ revealed \in BOOLEAN
RadiantTyped == cov \in CovStates /\ wrongCov \in BOOLEAN /\ covConfs \in 0 .. TRxd + 1
HistoryTyped == claimHow \in {"none", "safe", "vulnerable"} /\ claimObs \in 0 .. TRxd + 1
ProcessTyped ==
  /\ seen \in BOOLEAN /\ secret \in {"held", "wiped"} /\ crashes \in 0 .. MaxCrashes

(* TypeOK by groups of variables.                                          *)
LEMMA TypeOKParts ==
  TypeOK <=> /\ RecordTyped /\ CounterTyped /\ RadiantTyped /\ HistoryTyped /\ ProcessTyped
             /\ pc \in PcValues /\ obs \in 0 .. TRxd + 1
BY DEF TypeOK, RecordTyped, CounterTyped, RadiantTyped, HistoryTyped, ProcessTyped

(* A group that a step leaves alone stays well typed.                      *)
LEMMA Frame ==
  /\ RecordTyped /\ UNCHANGED record => RecordTyped'
  /\ CounterTyped /\ UNCHANGED counter => CounterTyped'
  /\ RadiantTyped /\ UNCHANGED radiant => RadiantTyped'
  /\ HistoryTyped /\ UNCHANGED history => HistoryTyped'
  /\ ProcessTyped /\ UNCHANGED process => ProcessTyped'
BY DEF RecordTyped, CounterTyped, RadiantTyped, HistoryTyped, ProcessTyped,
       record, counter, radiant, history, process

(* The leg calls keep the chains typed.                                    *)
LEMMA LegsTyped ==
  ASSUME CounterTyped, RadiantTyped, obs \in 0 .. TRxd + 1
  PROVE  /\ SendClaim => CounterTyped'
         /\ SendRefund => CounterTyped'
         /\ SendAssetRefund => RadiantTyped'
         /\ \A how \in {"safe", "vulnerable"} :
              SendAssetClaim(how) => RadiantTyped' /\ HistoryTyped'
BY DEF CounterTyped, RadiantTyped, HistoryTyped, SendClaim, SendRefund, SendAssetRefund,
       SendAssetClaim, HtlcStates, CovStates

(* A finished broadcast writes a typed record.                             *)
LEMMA EndsTyped ==
  ASSUME RecordTyped, NEW e, NEW t \in SwapStates, Advance(rec.state, e) = t, Ends(e)
  PROVE  RecordTyped' /\ pc' \in {"idle", "persist"}
BY RecordUpdates DEF RecordTyped, Ends, RecordAs, After, record

(* Every step keeps the types and leaves the FSM state of a suspended step *)
(* as its guard found it.                                                  *)
LEMMA StepTypeInv == TypeInv /\ [Next]_vars => TypeInv'
<1> SUFFICES ASSUME TypeInv, [Next]_vars PROVE TypeInv'
  OBVIOUS
<1>a. /\ RecordTyped /\ CounterTyped /\ RadiantTyped /\ HistoryTyped /\ ProcessTyped
      /\ pc \in PcValues /\ obs \in 0 .. TRxd + 1 /\ PcState
  BY TypeOKParts DEF TypeInv
<1> SUFFICES /\ RecordTyped' /\ CounterTyped' /\ RadiantTyped' /\ HistoryTyped' /\ ProcessTyped'
             /\ pc' \in PcValues /\ obs' \in 0 .. TRxd + 1 /\ PcState'
  BY TypeOKParts
     DEF TypeInv, TypeOK, RecordTyped, CounterTyped, RadiantTyped, HistoryTyped,
         ProcessTyped
<1> USE <1>a, Frame DEF PcState, PcValues
<1>1. CASE Raise
  BY <1>1 DEF Raise, Keep, Begin, record, process
<1>2. CASE Persist
  BY <1>2 DEF Persist, RecordTyped, record
<1>3. CASE PersistRaises
  BY <1>3 DEF PersistRaises, Keep, Begin, record, process
<1>4. CASE PersistCancelled
  BY <1>4 DEF PersistCancelled, RecordTyped, record
<1>5. CASE InflightPersist
  BY <1>5 DEF InflightPersist, RecordTyped, record
<1>6. CASE FundStart
  BY <1>6 DEF FundStart, Keep, Begin, record, process
<1>7. CASE FundReserve
  BY <1>7 DEF FundReserve, RecordTyped, ProcessTyped, record, process
<1>8. CASE FundBroadcast
  BY <1>8 DEF FundBroadcast, CounterTyped, HtlcStates, Keep, record, process, counter
<1>9. CASE FundReturns
  BY <1>9, RecordUpdates, AdvanceTable
     DEF FundReturns, RecordTyped, RecordAs, After, record, SwapStates
<1>10. CASE RevalidateMatch
  BY <1>10, RecordUpdates, AdvanceTable
     DEF RevalidateMatch, RecordTyped, RecordAs, After, record, Revalidated, Begin,
         SwapStates, CovRefs
<1>11. CASE RevalidateRefused
  BY <1>11, RecordUpdates, AdvanceTable
     DEF RevalidateRefused, RecordTyped, RecordAs, After, record, Revalidated, Begin,
         SwapStates, CovRefs
<1>12. CASE RevalidateMismatch
  BY <1>12, RecordUpdates, AdvanceTable
     DEF RevalidateMismatch, RecordTyped, RecordAs, After, record, Revalidated, Begin,
         SwapStates, CovRefs
<1>13. CASE RevalidateUnverifiable
  BY <1>13, RecordUpdates, AdvanceTable
     DEF RevalidateUnverifiable, RecordTyped, RecordAs, After, record, Revalidated, Begin,
         SwapStates, CovRefs
<1>14. CASE MakerVerifyCounterFunding
  BY <1>14, RecordUpdates
     DEF MakerVerifyCounterFunding, RecordTyped, RecordAs, After, record, Begin
<1>15. CASE ClaimBtcStart
  BY <1>15 DEF ClaimBtcStart, Keep, Begin, record, process
<1>16. CASE ClaimBtc
  BY <1>16, LegsTyped, EndsTyped, AdvanceTable
     DEF ClaimBtc, ProcessTyped, process, SwapStates
<1>17. CASE ClaimBtcRaises
  BY <1>17 DEF ClaimBtcRaises, ProcessTyped, process
<1>18. CASE ClaimAssetStart
  BY <1>18 DEF ClaimAssetStart, RadiantTyped, Keep, Begin, record, process
<1>19. CASE AssessWait
  BY <1>19 DEF AssessWait, Keep, Begin, record, process
<1>20. CASE AssessSqueezed
  BY <1>20, RecordUpdates, AdvanceTable
     DEF AssessSqueezed, RecordTyped, RecordAs, After, record, SwapStates
<1>21. CASE AssessSafe
  BY <1>21 DEF AssessSafe, Keep, Begin, record, process
<1>22. CASE ClaimAsset
  BY <1>22, LegsTyped, EndsTyped, AdvanceTable DEF ClaimAsset, SwapStates
<1>23. CASE ClaimVulnerableStart
  BY <1>23 DEF ClaimVulnerableStart, Keep, Begin, record, process
<1>24. CASE ClaimVulnerable
  BY <1>24, LegsTyped, EndsTyped, AdvanceTable DEF ClaimVulnerable, SwapStates
<1>25. CASE RefundBtcStart
  BY <1>25 DEF RefundBtcStart, Keep, Begin, record, process
<1>26. CASE RefundBtc
  BY <1>26, LegsTyped, EndsTyped, AdvanceTable DEF RefundBtc, SwapStates
<1>27. CASE MutualRefundStart
  BY <1>27 DEF MutualRefundStart, Keep, Begin, record, process
<1>28. CASE MutualRefundBtc
  BY <1>28, LegsTyped DEF MutualRefundBtc, Keep, record, process
<1>29. CASE MutualRefundAsset
  BY <1>29, LegsTyped, EndsTyped, AdvanceTable DEF MutualRefundAsset, SwapStates
<1>30. CASE StallRefundStart
  BY <1>30 DEF StallRefundStart, Keep, Begin, record, process
<1>31. CASE StallRefund
  <2>1. CounterTyped' /\ RadiantTyped' /\ HistoryTyped' /\ ProcessTyped' /\ obs' = obs
    BY <1>31, LegsTyped DEF StallRefund
  <2>2. RecordTyped' /\ pc' \in {"idle", "persist"}
    <3>1. Advance(Advance(rec.state, "MAKER_STALL_DETECTED"),
                  "TAKER_REFUNDS_ASSET_PROACTIVELY") = "ASSET_REFUNDED_TAKER_ACTS"
      BY <1>31, AdvanceTable DEF StallRefund
    <3>2. QED
      BY <1>31, <3>1, RecordUpdates
         DEF StallRefund, RecordTyped, RecordAs, record, SwapStates
  <2>3. QED
    BY <2>1, <2>2
<1>32. CASE Crash
  BY <1>32, ParametersOK DEF Crash, RecordTyped, ProcessTyped, record, process
<1>33. CASE Restart
  BY <1>33 DEF Restart, ProcessTyped, process, record
<1>34. CASE MakerLocksCovenant
  BY <1>34 DEF MakerLocksCovenant, RadiantTyped, CovStates, HtlcStates, record
<1>35. CASE MakerLocksWrongCovenant
  BY <1>35 DEF MakerLocksWrongCovenant, RadiantTyped, record
<1>36. CASE CounterBlock
  BY <1>36, ParametersOK, ReorgDepthType
     DEF CounterBlock, CounterTyped, HtlcStates, Mined, Saturate, record
<1>37. CASE CounterReorg
  BY <1>37, ParametersOK, ReorgDepthType DEF CounterReorg, CounterTyped, HtlcStates, record
<1>38. CASE RxdBlock
  BY <1>38, ParametersOK
     DEF RxdBlock, RadiantTyped, CovStates, HtlcStates, Mined, Saturate, record
<1>39. CASE Evict
  BY <1>39 DEF Evict, CounterTyped, RadiantTyped, CovStates, HtlcStates, Dropped, record
<1>40. CASE Reenter
  BY <1>40 DEF Reenter, CounterTyped, HtlcStates, record
<1>41. CASE UNCHANGED vars
  BY <1>41 DEF vars, record
<1>42. QED
  BY <1>1, <1>2, <1>3, <1>4, <1>5, <1>6, <1>7, <1>8, <1>9, <1>10, <1>11, <1>12, <1>13,
     <1>14, <1>15, <1>16, <1>17, <1>18, <1>19, <1>20, <1>21, <1>22, <1>23, <1>24, <1>25,
     <1>26, <1>27, <1>28, <1>29, <1>30, <1>31, <1>32, <1>33, <1>34, <1>35, <1>36, <1>37,
     <1>38, <1>39, <1>40, <1>41
     DEF Next, CoordinatorStep, Environment

(* Every variable of the coordinator, its durable copy and the two chains  *)
(* stays in its range, and a suspended step still holds the FSM state that *)
(* its guard admitted.                                                     *)
THEOREM TypeCorrect == Spec => [](TypeOK /\ PcState)
<1>1. Init => TypeInv
  BY InitTypeInv
<1>2. TypeInv /\ [Next]_vars => TypeInv'
  BY StepTypeInv
<1>3. QED
  BY <1>1, <1>2, PTL DEF Spec, TypeInv

----------------------------------------- (* which steps touch the chains *)

(* The steps that run between two leg calls, or whose leg call failed.     *)
QuietStep ==
  \/ Raise \/ Persist \/ PersistRaises \/ PersistCancelled \/ InflightPersist
  \/ FundStart \/ FundReturns
  \/ RevalidateMatch \/ RevalidateRefused \/ RevalidateMismatch
  \/ RevalidateUnverifiable \/ MakerVerifyCounterFunding
  \/ ClaimBtcStart \/ ClaimBtcRaises
  \/ ClaimAssetStart \/ AssessWait \/ AssessSqueezed \/ AssessSafe
  \/ ClaimVulnerableStart \/ RefundBtcStart \/ MutualRefundStart \/ StallRefundStart
  \/ Crash

(* The steps that reach a node, reserve H, or rebuild the process.         *)
OtherStep ==
  \/ FundReserve \/ FundBroadcast \/ Restart
  \/ ClaimBtc \/ ClaimAsset \/ ClaimVulnerable
  \/ RefundBtc \/ MutualRefundBtc \/ MutualRefundAsset \/ StallRefund

(* The steps by what they can disturb.                                     *)
LEMMA NextCases == Next => QuietStep \/ OtherStep \/ Environment
BY DEF Next, CoordinatorStep, QuietStep, OtherStep

(* What a step that sends nothing leaves alone.                            *)
LEMMA QuietFrame ==
  QuietStep => /\ UNCHANGED <<seen, counter, radiant, history>>
               /\ pc' \in {"fund", "mutualAsset"} => pc' = pc
               /\ pc' = "claimAsset" => pc = "claimAsset" \/ AssessSafe
BY DEF QuietStep, Raise, Persist, PersistRaises, PersistCancelled, InflightPersist,
       FundStart, FundReturns, RevalidateMatch, RevalidateRefused, RevalidateMismatch,
       RevalidateUnverifiable, Revalidated, MakerVerifyCounterFunding, ClaimBtcStart,
       ClaimBtcRaises, ClaimAssetStart, AssessWait, AssessSqueezed, AssessSafe,
       ClaimVulnerableStart, RefundBtcStart, MutualRefundStart, StallRefundStart,
       Crash, Keep, process

(* The chains do not touch the process.                                    *)
LEMMA EnvironmentFrame == Environment => UNCHANGED <<record, pc, process, obs, history>>
BY DEF Environment, MakerLocksCovenant, MakerLocksWrongCovenant, CounterBlock,
       CounterReorg, RxdBlock, Evict, Reenter

(* The claims and refunds of the counter leg never make or unmake it.      *)
LEMMA CounterSends ==
  /\ SendClaim => /\ UNCHANGED <<clock, claimConfs, fundings>> /\ revealed'
                  /\ htlc' \in {"claimPool", "claimed"}
                  /\ htlc \in {"locked", "claimPool", "claimed"}
                  /\ htlc = "claimed" <=> htlc' = "claimed"
  /\ SendRefund => /\ UNCHANGED <<clock, claimConfs, fundings, revealed>>
                   /\ htlc' \in {"refundPool", "refunded"}
                   /\ htlc \in {"locked", "claimPool", "refundPool", "refunded"}
BY DEF SendClaim, SendRefund, ClaimAccepted, RefundAccepted

---------------------------------------------------------- (* OneLock *)

(* What keeps a second funding out: a seen-store that survives a restart,  *)
(* or a broadcast that finds its own transaction there.                    *)
LocksOnce == DurableSeen \/ (IsBtc /\ ~Evictions)

(* With a durable seen-store, H is reserved before the first funding and   *)
(* for ever; without one, a second broadcast is the first transaction.     *)
LockInv ==
  /\ LocksOnce => OneLock
  /\ htlc # "absent" => fundings > 0
  /\ DurableSeen => /\ fundings > 0 => seen
                    /\ pc = "fund" => seen /\ fundings = 0
  /\ ~DurableSeen /\ LocksOnce => (htlc = "absent" => fundings = 0)

(* Every step keeps what ties fundings to the seen-store and to the HTLC.  *)
LEMMA StepLockInv == TypeInv /\ LockInv /\ [Next]_vars => LockInv'
<1> SUFFICES ASSUME TypeInv, LockInv, [Next]_vars PROVE LockInv'
  OBVIOUS
<1>a. fundings \in Nat /\ DurableSeen \in BOOLEAN /\ htlc \in HtlcStates
  BY ParametersOK DEF TypeInv, TypeOK
<1> USE <1>a DEF LockInv, OneLock, LocksOnce
<1>1. CASE QuietStep
  BY <1>1, QuietFrame DEF counter
<1>2. CASE FundReserve
  BY <1>2 DEF FundReserve, counter
<1>3. CASE FundBroadcast
  BY <1>3 DEF FundBroadcast, Keep, process
<1>4. CASE Restart
  BY <1>4 DEF Restart, counter
<1>5. CASE ClaimBtc
  BY <1>5, CounterSends DEF ClaimBtc, Ends
<1>6. CASE RefundBtc \/ MutualRefundBtc
  BY <1>6, CounterSends DEF RefundBtc, MutualRefundBtc, Ends, Keep, process
<1>7. CASE ClaimAsset \/ ClaimVulnerable \/ MutualRefundAsset \/ StallRefund
  BY <1>7 DEF ClaimAsset, ClaimVulnerable, MutualRefundAsset, StallRefund, Ends,
              process, counter
<1>8. CASE Environment
  <2>1. CASE CounterBlock
    BY <1>8, <2>1, EnvironmentFrame DEF CounterBlock, Mined, process, HtlcStates
  <2>2. CASE CounterReorg \/ Reenter
    BY <1>8, <2>2, EnvironmentFrame DEF CounterReorg, Reenter, process
  <2>3. CASE Evict
    BY <1>8, <2>3, EnvironmentFrame DEF Evict, Dropped, process, HtlcStates
  <2>4. CASE MakerLocksCovenant \/ MakerLocksWrongCovenant \/ RxdBlock
    BY <1>8, <2>4, EnvironmentFrame
       DEF MakerLocksCovenant, MakerLocksWrongCovenant, RxdBlock, counter, process
  <2>5. QED
    BY <1>8, <2>1, <2>2, <2>3, <2>4 DEF Environment
<1>9. CASE UNCHANGED vars
  BY <1>9 DEF vars, process, counter
<1>10. QED
  BY <1>1, <1>2, <1>3, <1>4, <1>5, <1>6, <1>7, <1>8, <1>9, NextCases DEF OtherStep

(* Fundings, seen-store and HTLC agree in every reachable state.           *)
LEMMA LockInvariant == Spec => [](TypeInv /\ LockInv)
<1>1. Init => LockInv
  BY DEF Init, LockInv, OneLock
<1>2. TypeInv /\ LockInv /\ [Next]_vars => LockInv'
  BY StepLockInv
<1>3. Spec => []TypeInv
  BY TypeCorrect, PTL DEF TypeInv
<1>4. QED
  BY <1>1, <1>2, <1>3, PTL DEF Spec

(* For every policy, timelock and number of crashes, taker_funds_btc never *)
(* has two HTLCs funded for one H, if the seen-store is durable or the     *)
(* counter leg is a BTC transaction that no mempool drops.                 *)
THEOREM OneLockHolds ==
  ASSUME DurableSeen \/ (IsBtc /\ ~Evictions)
  PROVE  Spec => []OneLock
<1>1. LockInv => OneLock
  BY DEF LockInv, LocksOnce
<1>2. QED
  BY <1>1, LockInvariant, PTL

------------------------------------------ (* the SAFE branch of the gate *)

(* The gate says SAFE only of a claim at the reorg depth.                  *)
LEMMA SafeMeansFinal ==
  ASSUME TypeOK, Assessment = "SAFE"
  PROVE  claimConfs = ReorgDepth
<1>1. CounterVerdict.state = "FINAL"
  BY DEF Assessment, AssessClaimFinality
<1>2. VerdictDepth(Policy) = ReorgDepth
  BY PolicyAssumption DEF VerdictDepth, ReorgDepth, NormalizeToBlocks
<1>3. claimConfs >= ReorgDepth
  BY <1>1, <1>2 DEF CounterVerdict, FromBtcDepth, FromEthCheckpoint
<1>4. QED
  BY <1>3, ReorgDepthType DEF TypeOK

(* Only a mined claim has confirmations; one that the gate accepted is at  *)
(* the reorg depth, where neither a block nor a reorg changes it.          *)
FinalInv ==
  /\ claimConfs > 0 => htlc = "claimed"
  /\ pc = "claimAsset" => htlc = "claimed" /\ claimConfs = ReorgDepth
  /\ SafeClaimRestsOnFinalClaim

(* A claim at the reorg depth is there until the asset claim is sent, and  *)
(* after.                                                                  *)
LEMMA StepFinalInv ==
  ASSUME IsBtc \/ DurableSeen
  PROVE  TypeInv /\ LockInv /\ FinalInv /\ [Next]_vars => FinalInv'
<1> SUFFICES ASSUME TypeInv, LockInv, FinalInv, [Next]_vars PROVE FinalInv'
  OBVIOUS
<1>a. /\ fundings \in Nat /\ DurableSeen \in BOOLEAN /\ htlc \in HtlcStates
      /\ claimConfs \in 0 .. ReorgDepth
  BY ParametersOK DEF TypeInv, TypeOK
<1> USE <1>a, ReorgDepthType DEF FinalInv, SafeClaimRestsOnFinalClaim
<1>1. CASE QuietStep
  <2>1. AssessSafe => claimConfs = ReorgDepth
    BY SafeMeansFinal DEF AssessSafe, TypeInv
  <2>2. QED
    BY <1>1, <2>1, QuietFrame DEF counter, history
<1>2. CASE FundReserve \/ Restart
  BY <1>2 DEF FundReserve, Restart, counter, history
<1>3. CASE FundBroadcast
  BY <1>3 DEF FundBroadcast, LockInv, history
<1>5. CASE ClaimBtc
  BY <1>5, CounterSends DEF ClaimBtc, Ends, history
<1>6. CASE RefundBtc \/ MutualRefundBtc
  BY <1>6, CounterSends DEF RefundBtc, MutualRefundBtc, Ends, history
<1>7. CASE ClaimAsset \/ ClaimVulnerable
  BY <1>7 DEF ClaimAsset, ClaimVulnerable, SendAssetClaim, Ends, counter
<1>8. CASE MutualRefundAsset \/ StallRefund
  BY <1>8 DEF MutualRefundAsset, StallRefund, Ends, counter, history
<1>9. CASE Environment
  <2>1. CASE CounterBlock
    BY <1>9, <2>1, EnvironmentFrame DEF CounterBlock, Mined, Saturate, HtlcStates, history
  <2>2. CASE CounterReorg \/ Reenter
    BY <1>9, <2>2, EnvironmentFrame DEF CounterReorg, Reenter, history
  <2>3. CASE Evict
    BY <1>9, <2>3, EnvironmentFrame DEF Evict, Dropped, HtlcStates, history
  <2>4. CASE MakerLocksCovenant \/ MakerLocksWrongCovenant \/ RxdBlock
    BY <1>9, <2>4, EnvironmentFrame
       DEF MakerLocksCovenant, MakerLocksWrongCovenant, RxdBlock, counter, history
  <2>5. QED
    BY <1>9, <2>1, <2>2, <2>3, <2>4 DEF Environment
<1>10. CASE UNCHANGED vars
  BY <1>10 DEF vars, counter, history
<1>11. QED
  BY <1>1, <1>2, <1>3, <1>5, <1>6, <1>7, <1>8, <1>9, <1>10, NextCases DEF OtherStep

(* For every reorg depth and window, and whatever reorgs, evictions,       *)
(* crashes and retries happen, an asset claim of                           *)
(* taker_scrape_and_claim_asset's SAFE branch rests on a counter-leg claim *)
(* that is final (on ETH, given a durable seen-store: a second contract    *)
(* for the same H would be another claim).                                 *)
THEOREM SafeClaimIsFinal ==
  ASSUME IsBtc \/ DurableSeen
  PROVE  Spec => []SafeClaimRestsOnFinalClaim
<1>1. Init => FinalInv
  BY DEF Init, FinalInv, SafeClaimRestsOnFinalClaim
<1>2. TypeInv /\ LockInv /\ FinalInv /\ [Next]_vars => FinalInv'
  BY StepFinalInv
<1>3. FinalInv => SafeClaimRestsOnFinalClaim
  BY DEF FinalInv
<1>4. QED
  BY <1>1, <1>2, <1>3, LockInvariant, PTL DEF Spec

------------------------------------------------ (* the room a claim gets *)

Burial == RequiredBurial(Policy, Policy.value_at_risk_photons)

(* The burial of a policy that MarginPolicy accepts is an integer.         *)
LEMMA BurialType == Burial \in Int
<1>1. ReserveToBlocks(Policy.rxd_claim_burial, Policy.block_interval_s) \in Int
  BY PolicyAssumption DEF ReserveToBlocks
<1>2. ValueScaledBurialBlocks(Policy, Policy.value_at_risk_photons) \in Int
  <2>1. CASE \/ Policy.rxd_reorg_cost_per_block = None
             \/ Policy.value_at_risk_photons = None
    BY <2>1 DEF ValueScaledBurialBlocks
  <2>2. CASE ~(\/ Policy.rxd_reorg_cost_per_block = None
               \/ Policy.value_at_risk_photons = None)
    <3> DEFINE a == Policy.value_at_risk_photons * Policy.burial_safety_factor[1]
               b == Policy.burial_safety_factor[2] * Policy.rxd_reorg_cost_per_block
    <3>0. /\ Policy.burial_safety_factor[1] \in Nat \ {0}
          /\ Policy.burial_safety_factor[2] \in Nat \ {0}
          /\ Policy.rxd_reorg_cost_per_block \in Nat \ {0}
          /\ Policy.value_at_risk_photons \in Int
      BY <2>2, PolicyAssumption DEF PolicyOK, None
    <3>1. a \in Int /\ b \in Int
      BY <3>0
    <3>2. b > 0
      BY <3>0, SMTT(30)
    <3> HIDE DEF a, b
    <3>3. CeilDiv(a, b) \in Int
      BY <3>1, <3>2 DEF CeilDiv
    <3>4. QED
      BY <2>2, <3>3 DEF ValueScaledBurialBlocks, a, b
  <2>3. QED
    BY <2>1, <2>2
<1>3. QED
  BY <1>1, <1>2 DEF Burial, RequiredBurial, MaxOf

(* A SAFE answer leaves the burial between the height it was given and the *)
(* maturity of the CSV refund.                                             *)
LEMMA SafeMeansRoom ==
  ASSUME TypeOK, Assessment = "SAFE"
  PROVE  TRxd - obs + 1 >= Burial
<1>1. BlocksLeft(obs - 1, 0, Blocks(TRxd), Policy) >= Burial
  BY DEF Assessment, AssessClaimFinality, Burial, None
<1>2. BlocksLeft(obs - 1, 0, Blocks(TRxd), Policy) = TRxd - obs + 1
  BY ParametersOK DEF BlocksLeft, NormalizeToBlocks, Blocks, TypeOK
<1>3. QED
  BY <1>1, <1>2

RoomInv ==
  /\ pc = "claimAsset" => TRxd - obs + 1 >= Burial
  /\ claimHow = "safe" => TRxd - claimObs + 1 >= Burial
  /\ cov \in {"refundPool", "refunded"} => covConfs >= TRxd

(* A claim sent as SAFE keeps the room its height argument left it.        *)
LEMMA StepRoomInv == TypeInv /\ RoomInv /\ [Next]_vars => RoomInv'
<1> SUFFICES ASSUME TypeInv, RoomInv, [Next]_vars PROVE RoomInv'
  OBVIOUS
<1>a. /\ obs \in 0 .. TRxd + 1 /\ claimObs \in 0 .. TRxd + 1 /\ covConfs \in 0 .. TRxd + 1
      /\ cov \in CovStates /\ TRxd \in Nat
  BY ParametersOK DEF TypeInv, TypeOK
<1> USE <1>a DEF RoomInv
<1>1. CASE QuietStep
  <2>1. pc' = "claimAsset" => UNCHANGED obs
    BY <1>1 DEF QuietStep, Raise, Persist, PersistRaises, PersistCancelled,
       InflightPersist, FundStart, FundReturns, RevalidateMatch, RevalidateRefused,
       RevalidateMismatch, RevalidateUnverifiable, Revalidated,
       MakerVerifyCounterFunding, ClaimBtcStart, ClaimBtcRaises, ClaimAssetStart,
       AssessWait, AssessSqueezed, AssessSafe, ClaimVulnerableStart, RefundBtcStart,
       MutualRefundStart, StallRefundStart, Crash
  <2>2. AssessSafe => TRxd - obs + 1 >= Burial
    BY SafeMeansRoom DEF AssessSafe, TypeInv
  <2>3. QED
    BY <1>1, <2>1, <2>2, QuietFrame DEF radiant, history
<1>2. CASE FundReserve \/ FundBroadcast \/ Restart \/ ClaimBtc \/ RefundBtc \/ MutualRefundBtc
  BY <1>2 DEF FundReserve, FundBroadcast, Restart, ClaimBtc, RefundBtc, MutualRefundBtc,
              Ends, radiant, history
<1>3. CASE ClaimAsset \/ ClaimVulnerable
  BY <1>3 DEF ClaimAsset, ClaimVulnerable, SendAssetClaim, Ends
<1>4. CASE MutualRefundAsset \/ StallRefund
  BY <1>4 DEF MutualRefundAsset, StallRefund, SendAssetRefund, Ends, history
<1>5. CASE Environment
  <2>1. CASE RxdBlock
    BY <1>5, <2>1, EnvironmentFrame DEF RxdBlock, Mined, Saturate, history
  <2>2. CASE Evict
    BY <1>5, <2>2, EnvironmentFrame DEF Evict, Dropped, CovStates, HtlcStates, history
  <2>3. CASE \/ CounterBlock \/ CounterReorg \/ Reenter
             \/ MakerLocksCovenant \/ MakerLocksWrongCovenant
    BY <1>5, <2>3, EnvironmentFrame DEF CounterBlock, CounterReorg, Reenter,
       MakerLocksCovenant, MakerLocksWrongCovenant, radiant, history
  <2>4. QED
    BY <1>5, <2>1, <2>2, <2>3 DEF Environment
<1>6. CASE UNCHANGED vars
  BY <1>6 DEF vars, radiant, history
<1>7. QED
  BY <1>1, <1>2, <1>3, <1>4, <1>5, <1>6, NextCases DEF OtherStep

(* If the maker's CSV refund takes an asset that a SAFE claim was sent     *)
(* for, at least the policy's burial of Radiant blocks came after the      *)
(* height that assess_claim_finality was given: for every t_rxd, policy    *)
(* and value, however long the awaits between the two took.                *)
THEOREM SafeClaimGetsItsRoom == Spec => []SafeClaimHadRoom
<1>1. Init => RoomInv
  BY DEF Init, RoomInv
<1>2. TypeInv /\ RoomInv /\ [Next]_vars => RoomInv'
  BY StepRoomInv
<1>3. TypeInv /\ RoomInv => SafeClaimHadRoom
  <2> SUFFICES ASSUME TypeInv, RoomInv, claimHow = "safe", cov = "refunded"
               PROVE  covConfs - claimObs + 1 >= Burial
    BY DEF SafeClaimHadRoom, Burial
  <2>1. /\ claimObs \in 0 .. TRxd + 1 /\ covConfs \in 0 .. TRxd + 1 /\ TRxd \in Nat
        /\ covConfs >= TRxd /\ TRxd - claimObs + 1 >= Burial
    BY ParametersOK DEF TypeInv, TypeOK, RoomInv
  <2>2. QED
    BY <2>1, BurialType
<1>4. QED
  BY <1>1, <1>2, <1>3, TypeCorrect, PTL DEF Spec, TypeInv

----------------------------------------------- (* what a record says *)

(* A dropped transaction is what a record cannot see; the next theorems    *)
(* are about mempools that keep what they accepted.                        *)
LastingPools == ~Evictions /\ (IsBtc \/ DurableSeen)

(* The facts of the chains that a record rests on are never taken back.    *)
ChainsGrow ==
  /\ htlc \notin {"absent", "pool"} => htlc' \notin {"absent", "pool"}
  /\ cov # "absent" => cov' # "absent"
  /\ revealed => revealed'

(* What a record rests on is never taken back.                             *)
LEMMA NextChainsGrow ==
  ASSUME LastingPools, TypeInv, LockInv, [Next]_vars
  PROVE  ChainsGrow
<1>a. /\ fundings \in Nat /\ htlc \in HtlcStates /\ cov \in CovStates
      /\ DurableSeen \in BOOLEAN
  BY ParametersOK DEF TypeInv, TypeOK
<1> USE <1>a DEF ChainsGrow
<1>1. CASE QuietStep
  BY <1>1, QuietFrame DEF counter, radiant
<1>2. CASE FundReserve \/ Restart
  BY <1>2 DEF FundReserve, Restart, counter, radiant
<1>3. CASE FundBroadcast
  BY <1>3 DEF FundBroadcast, LastingPools, LockInv, radiant
<1>4. CASE ClaimBtc \/ RefundBtc \/ MutualRefundBtc
  BY <1>4, CounterSends DEF ClaimBtc, RefundBtc, MutualRefundBtc, radiant
<1>5. CASE ClaimAsset \/ ClaimVulnerable
  BY <1>5 DEF ClaimAsset, ClaimVulnerable, SendAssetClaim, counter
<1>6. CASE MutualRefundAsset \/ StallRefund
  BY <1>6 DEF MutualRefundAsset, StallRefund, SendAssetRefund, counter
<1>7. CASE Environment
  <2>1. CASE CounterBlock
    BY <2>1 DEF CounterBlock, Mined, HtlcStates, radiant
  <2>2. CASE CounterReorg \/ Reenter
    BY <2>2 DEF CounterReorg, Reenter, radiant
  <2>3. CASE MakerLocksCovenant \/ MakerLocksWrongCovenant
    BY <2>3 DEF MakerLocksCovenant, MakerLocksWrongCovenant, counter
  <2>4. CASE RxdBlock
    BY <2>4 DEF RxdBlock, Mined, counter
  <2>5. QED
    BY <1>7, <2>1, <2>2, <2>3, <2>4 DEF Environment, Evict, LastingPools
<1>8. CASE UNCHANGED vars
  BY <1>8 DEF vars, counter, radiant
<1>9. QED
  BY <1>1, <1>2, <1>3, <1>4, <1>5, <1>6, <1>7, <1>8, NextCases DEF OtherStep

(* A true record stays true while the chains grow.                         *)
LEMMA RecordStaysTrue ==
  ASSUME ChainsGrow, NEW r, RecordTrue(r)
  PROVE  RecordTrue(r)'
BY DEF ChainsGrow, RecordTrue

(* Besides the records there are, a step writes at most one: rec'.         *)
LEMMA NoOtherRecord ==
  ASSUME [Next]_vars
  PROVE  /\ disk' \in {rec, disk} \cup inflight
         /\ inflight' \subseteq inflight \cup {rec}
<1>1. CASE QuietStep
  BY <1>1 DEF QuietStep, Raise, Persist, PersistRaises, PersistCancelled,
     InflightPersist, FundStart, FundReturns, RevalidateMatch, RevalidateRefused,
     RevalidateMismatch, RevalidateUnverifiable, Revalidated,
     MakerVerifyCounterFunding, ClaimBtcStart, ClaimBtcRaises, ClaimAssetStart,
     AssessWait, AssessSqueezed, AssessSafe, ClaimVulnerableStart, RefundBtcStart,
     MutualRefundStart, StallRefundStart, Crash, Keep, RecordAs, record
<1>2. CASE OtherStep
  BY <1>2 DEF OtherStep, FundReserve, FundBroadcast, Restart, ClaimBtc, ClaimAsset,
     ClaimVulnerable, RefundBtc, MutualRefundBtc, MutualRefundAsset, StallRefund,
     Ends, Keep, RecordAs, record
<1>3. CASE Environment \/ UNCHANGED vars
  BY <1>3, EnvironmentFrame DEF vars, record
<1>4. QED
  BY <1>1, <1>2, <1>3, NextCases

(* The steps that leave the record in memory as it was.                    *)
KeepsRecord ==
  \/ UNCHANGED rec
  \/ rec' = disk

(* The record in memory after a step is true.                              *)
LEMMA NewRecordTrue ==
  ASSUME TypeInv, ChainsGrow, RecordTrue(rec), RecordTrue(disk), [Next]_vars
  PROVE  RecordTrue(rec)'
<1>a. rec \in Records /\ disk \in Records
  BY DEF TypeInv, TypeOK
<1>k. KeepsRecord => RecordTrue(rec)'
  BY DEF KeepsRecord, RecordTrue, ChainsGrow
<1> USE <1>a, AdvanceTable DEF RecordTrue, ChainsGrow, Records
<1>1. CASE FundReturns
  BY <1>1 DEF FundReturns, RecordAs, After, TypeInv, PcState, counter
<1>2. CASE RevalidateMatch
  BY <1>2 DEF RevalidateMatch, Revalidated, CovenantVisible, RecordAs, After, Begin,
              counter, radiant
<1>3. CASE RevalidateRefused
  BY <1>3 DEF RevalidateRefused, Revalidated, RecordAs, Begin, counter, radiant
<1>4. CASE RevalidateMismatch \/ RevalidateUnverifiable
  BY <1>4 DEF RevalidateMismatch, RevalidateUnverifiable, Revalidated, RecordAs, After,
              Begin, counter, radiant
<1>5. CASE MakerVerifyCounterFunding
  BY <1>5 DEF MakerVerifyCounterFunding, RecordAs, Begin, counter, radiant
<1>6. CASE AssessSqueezed
  BY <1>6 DEF AssessSqueezed, RecordAs, After, TypeInv, PcState, counter, radiant
<1>7. CASE ClaimBtc
  BY <1>7, <1>k, CounterSends
     DEF ClaimBtc, Ends, RecordAs, After, TypeInv, PcState, KeepsRecord, record, radiant
<1>8. CASE ClaimAsset \/ ClaimVulnerable
  BY <1>8, <1>k DEF ClaimAsset, ClaimVulnerable, Ends, RecordAs, After, TypeInv, PcState,
                    KeepsRecord, record, counter
<1>9. CASE RefundBtc
  BY <1>9, <1>k DEF RefundBtc, Ends, RecordAs, After, TypeInv, PcState, KeepsRecord, record
<1>10. CASE MutualRefundAsset
  BY <1>10, <1>k DEF MutualRefundAsset, Ends, RecordAs, After, TypeInv, PcState,
                     KeepsRecord, record
<1>11. CASE StallRefund
  BY <1>11, <1>k DEF StallRefund, RecordAs, TypeInv, PcState, KeepsRecord, record
<1>12. CASE KeepsRecord
  BY <1>12, <1>k
<1>13. CASE QuietStep
  BY <1>13, <1>1, <1>2, <1>3, <1>4, <1>5, <1>6, <1>12
     DEF QuietStep, KeepsRecord, Raise, Persist, PersistRaises, PersistCancelled,
         InflightPersist, FundStart, ClaimBtcStart, ClaimBtcRaises, ClaimAssetStart,
         AssessWait, AssessSafe, ClaimVulnerableStart, RefundBtcStart,
         MutualRefundStart, StallRefundStart, Crash, Keep, record
<1>14. CASE OtherStep
  BY <1>14, <1>7, <1>8, <1>9, <1>10, <1>11, <1>12
     DEF OtherStep, KeepsRecord, FundReserve, FundBroadcast, Restart, MutualRefundBtc,
         Keep, record
<1>15. CASE Environment \/ UNCHANGED vars
  BY <1>15, <1>12, EnvironmentFrame DEF KeepsRecord, vars, record
<1>16. QED
  BY <1>13, <1>14, <1>15, NextCases

(* Every step keeps all records true: in memory, on disk and in flight.    *)
LEMMA StepRecordIsTrue ==
  ASSUME LastingPools
  PROVE  TypeInv /\ LockInv /\ RecordIsTrue /\ [Next]_vars => RecordIsTrue'
<1> SUFFICES ASSUME TypeInv, LockInv, RecordIsTrue, [Next]_vars
             PROVE  RecordIsTrue'
  OBVIOUS
<1>1. ChainsGrow
  BY NextChainsGrow
<1>2. \A r \in {rec, disk} \cup inflight : RecordTrue(r)'
  BY <1>1, RecordStaysTrue DEF RecordIsTrue
<1>3. RecordTrue(rec)'
  BY <1>1, NewRecordTrue DEF RecordIsTrue
<1>4. {disk'} \cup inflight' \subseteq {rec, disk} \cup inflight
  BY NoOtherRecord
<1>5. QED
  BY <1>2, <1>3, <1>4 DEF RecordIsTrue, RecordTrue

(* With mempools that keep what they accept, no record of the coordinator, *)
(* in memory, on disk or in a persist that outlived its step, says more    *)
(* than the chains show, through crashes, lost answers, failing and        *)
(* cancelled persists, for both counter chains.                            *)
THEOREM RecordsAreTrue ==
  ASSUME ~Evictions, IsBtc \/ DurableSeen
  PROVE  Spec => []RecordIsTrue
<1>1. Init => RecordIsTrue
  BY DEF Init, RecordIsTrue, RecordTrue
<1>2. TypeInv /\ LockInv /\ RecordIsTrue /\ [Next]_vars => RecordIsTrue'
  BY StepRecordIsTrue DEF LastingPools
<1>3. QED
  BY <1>1, <1>2, LockInvariant, PTL DEF Spec

(* p is public only once the maker's covenant was paid: maker_claims_btc   *)
(* starts from BOTH_LOCKED, and a record says BOTH_LOCKED only when the    *)
(* covenant is there.                                                      *)
THEOREM SecretAfterBothLocked ==
  ASSUME ~Evictions, IsBtc \/ DurableSeen
  PROVE  Spec => []SecretOnlyAfterBothLocked
<1>1. Init => SecretOnlyAfterBothLocked
  BY DEF Init, SecretOnlyAfterBothLocked
<1>2. /\ TypeInv /\ LockInv /\ RecordIsTrue /\ SecretOnlyAfterBothLocked /\ [Next]_vars
      => SecretOnlyAfterBothLocked'
  <2> SUFFICES ASSUME TypeInv, LockInv, RecordIsTrue, SecretOnlyAfterBothLocked,
                      [Next]_vars, revealed'
               PROVE  cov' # "absent"
    BY DEF SecretOnlyAfterBothLocked
  <2>1. ChainsGrow
    BY NextChainsGrow DEF LastingPools
  <2>2. CASE revealed
    BY <2>1, <2>2 DEF ChainsGrow, SecretOnlyAfterBothLocked
  <2>3. CASE ClaimBtc
    <3>1. rec.state = "BOTH_LOCKED"
      BY <2>3 DEF ClaimBtc, TypeInv, PcState
    <3>2. cov # "absent"
      BY <3>1 DEF RecordIsTrue, RecordTrue
    <3>3. QED
      BY <3>2, <2>1 DEF ChainsGrow
  <2>4. CASE UNCHANGED revealed
    BY <2>2, <2>4
  <2>5. UNCHANGED revealed \/ ClaimBtc
    <3>1. CASE QuietStep
      BY <3>1, QuietFrame DEF counter
    <3>2. CASE OtherStep
      BY <3>2, CounterSends
         DEF OtherStep, FundReserve, FundBroadcast, Restart, ClaimAsset,
             ClaimVulnerable, RefundBtc, MutualRefundBtc, MutualRefundAsset,
             StallRefund, counter
    <3>3. CASE Environment
      BY <3>3 DEF Environment, MakerLocksCovenant, MakerLocksWrongCovenant,
                  CounterBlock, CounterReorg, RxdBlock, Evict, Reenter, counter
    <3>4. QED
      BY <3>1, <3>2, <3>3, NextCases DEF vars, counter
  <2>6. QED
    BY <2>3, <2>4, <2>5
<1>3. QED
  BY <1>1, <1>2, LockInvariant, RecordsAreTrue, PTL DEF Spec

-------------------------------------------- (* the durable record's order *)

(* The order of the FSM's states, in closed form.                          *)
Follows(s, t) ==
  \/ s = t
  \/ s = "NEGOTIATED"
  \/ s = "BTC_LOCKED" /\ t # "NEGOTIATED"
  \/ s = "PARAMS_MISMATCH" /\ t = "ABORTED"
  \/ s = "BOTH_LOCKED" /\ t \in {"SECRET_REVEALED", "MAKER_STALLS", "MUTUAL_REFUND",
                                 "ASSET_REFUNDED_TAKER_ACTS", "COMPLETED",
                                 "ASSET_VULNERABLE", "ONE_SIDED_LOSS_TAKER"}
  \/ s = "MAKER_STALLS" /\ t = "ASSET_REFUNDED_TAKER_ACTS"
  \/ s = "SECRET_REVEALED" /\ t \in {"COMPLETED", "ASSET_VULNERABLE", "ONE_SIDED_LOSS_TAKER"}
  \/ s = "ASSET_VULNERABLE" /\ t \in {"COMPLETED", "ONE_SIDED_LOSS_TAKER"}

LEMMA FollowsTransitive ==
  ASSUME NEW s \in SwapStates, NEW t \in SwapStates, NEW u \in SwapStates,
         Follows(s, t), Follows(t, u)
  PROVE  Follows(s, u)
BY DEF Follows, SwapStates

LEMMA ComposeJoins ==
  ASSUME NEW R, NEW a, NEW b, NEW c, <<a, b>> \in R, <<b, c>> \in R
  PROVE  <<a, c>> \in Compose(R)
<1> DEFINE pq == <<<<a, b>>, <<b, c>>>>
<1>1. pq \in {x \in R \X R : x[1][2] = x[2][1]}
  OBVIOUS
<1>2. <<a, c>> = <<pq[1][1], pq[2][2]>>
  OBVIOUS
<1> QED
  BY <1>1, <1>2 DEF Compose

(* The transition table joined with itself three times leads from a state  *)
(* to every state that follows it.                                         *)
LEMMA FollowsIsReachable ==
  ASSUME NEW s \in SwapStates, NEW t \in SwapStates, Follows(s, t)
  PROVE  t \in ReachableFrom(s)
<1>1. ASSUME NEW a \in SwapStates PROVE <<a, a>> \in Reach1
  BY DEF Reach1
<1>2. ASSUME NEW a, NEW e, NEW b, <<a, e, b>> \in Transitions PROVE <<a, b>> \in Reach1
  <2>1. <<a, b>> = <<<<a, e, b>>[1], <<a, e, b>>[3]>>
    OBVIOUS
  <2> QED
    BY <1>2, <2>1 DEF Reach1
<1>3. /\ <<"NEGOTIATED", "BTC_LOCKED">> \in Reach1
      /\ <<"NEGOTIATED", "ABORTED">> \in Reach1
      /\ <<"BTC_LOCKED", "BOTH_LOCKED">> \in Reach1
      /\ <<"BTC_LOCKED", "ABORTED">> \in Reach1
      /\ <<"BTC_LOCKED", "PARAMS_MISMATCH">> \in Reach1
      /\ <<"PARAMS_MISMATCH", "ABORTED">> \in Reach1
      /\ <<"BOTH_LOCKED", "SECRET_REVEALED">> \in Reach1
      /\ <<"BOTH_LOCKED", "MAKER_STALLS">> \in Reach1
      /\ <<"BOTH_LOCKED", "MUTUAL_REFUND">> \in Reach1
      /\ <<"MAKER_STALLS", "ASSET_REFUNDED_TAKER_ACTS">> \in Reach1
      /\ <<"SECRET_REVEALED", "COMPLETED">> \in Reach1
      /\ <<"SECRET_REVEALED", "ASSET_VULNERABLE">> \in Reach1
      /\ <<"ASSET_VULNERABLE", "ONE_SIDED_LOSS_TAKER">> \in Reach1
      /\ <<"ASSET_VULNERABLE", "COMPLETED">> \in Reach1
  BY <1>2 DEF Transitions
<1>4. ASSUME NEW a \in SwapStates, NEW b \in SwapStates, <<a, b>> \in Reach1
      PROVE  <<a, b>> \in Reach2
  BY <1>1, <1>4, ComposeJoins DEF Reach2
<1>5. /\ <<"NEGOTIATED", "BOTH_LOCKED">> \in Reach2
      /\ <<"NEGOTIATED", "PARAMS_MISMATCH">> \in Reach2
      /\ <<"BTC_LOCKED", "SECRET_REVEALED">> \in Reach2
      /\ <<"BTC_LOCKED", "MAKER_STALLS">> \in Reach2
      /\ <<"BTC_LOCKED", "MUTUAL_REFUND">> \in Reach2
      /\ <<"BOTH_LOCKED", "COMPLETED">> \in Reach2
      /\ <<"BOTH_LOCKED", "ASSET_VULNERABLE">> \in Reach2
      /\ <<"BOTH_LOCKED", "ASSET_REFUNDED_TAKER_ACTS">> \in Reach2
      /\ <<"SECRET_REVEALED", "ONE_SIDED_LOSS_TAKER">> \in Reach2
  BY <1>3, ComposeJoins DEF Reach2
<1>6. ASSUME NEW a \in SwapStates, NEW b \in SwapStates, <<a, b>> \in Reach2
      PROVE  <<a, b>> \in Reach4
  BY <1>1, <1>4, <1>6, ComposeJoins DEF Reach4
<1>7. /\ <<"NEGOTIATED", "SECRET_REVEALED">> \in Reach4
      /\ <<"NEGOTIATED", "MAKER_STALLS">> \in Reach4
      /\ <<"NEGOTIATED", "MUTUAL_REFUND">> \in Reach4
      /\ <<"NEGOTIATED", "COMPLETED">> \in Reach4
      /\ <<"NEGOTIATED", "ASSET_VULNERABLE">> \in Reach4
      /\ <<"NEGOTIATED", "ASSET_REFUNDED_TAKER_ACTS">> \in Reach4
      /\ <<"BTC_LOCKED", "COMPLETED">> \in Reach4
      /\ <<"BTC_LOCKED", "ASSET_VULNERABLE">> \in Reach4
      /\ <<"BTC_LOCKED", "ASSET_REFUNDED_TAKER_ACTS">> \in Reach4
      /\ <<"BTC_LOCKED", "ONE_SIDED_LOSS_TAKER">> \in Reach4
      /\ <<"BOTH_LOCKED", "ONE_SIDED_LOSS_TAKER">> \in Reach4
  <2>1. /\ <<"BTC_LOCKED", "BOTH_LOCKED">> \in Reach2
        /\ <<"NEGOTIATED", "BTC_LOCKED">> \in Reach2
        /\ <<"BOTH_LOCKED", "SECRET_REVEALED">> \in Reach2
        /\ <<"BOTH_LOCKED", "MUTUAL_REFUND">> \in Reach2
        /\ <<"BOTH_LOCKED", "MAKER_STALLS">> \in Reach2
        /\ <<"ASSET_VULNERABLE", "ONE_SIDED_LOSS_TAKER">> \in Reach2
    BY <1>3, <1>4 DEF SwapStates
  <2> QED
    BY <1>5, <2>1, ComposeJoins DEF Reach4
<1>8. ASSUME NEW a \in SwapStates, NEW b \in SwapStates, <<a, b>> \in Reach4
      PROVE  <<a, b>> \in Reach8
  BY <1>1, <1>4, <1>6, <1>8, ComposeJoins DEF Reach8
<1>9. <<"NEGOTIATED", "ONE_SIDED_LOSS_TAKER">> \in Reach8
  <2>1. <<"NEGOTIATED", "BTC_LOCKED">> \in Reach4
    BY <1>3, <1>4, <1>6 DEF SwapStates
  <2> QED
    BY <1>7, <2>1, ComposeJoins DEF Reach8
<1>10. <<s, t>> \in Reach1 \/ <<s, t>> \in Reach2 \/ <<s, t>> \in Reach4 \/ <<s, t>> \in Reach8
  BY <1>1, <1>3, <1>5, <1>7, <1>9 DEF Follows, SwapStates
<1> QED
  BY <1>4, <1>6, <1>8, <1>10 DEF ReachableFrom

(* Without a cancelled step no write is left running by itself, and the    *)
(* state in memory is never behind the one on disk.                        *)
MemoryAhead == inflight = {} /\ Follows(disk.state, rec.state)

(* A step advances the state in memory, or a crash takes the durable one.  *)
LEMMA MemoryAdvances ==
  ASSUME TypeInv, [Next]_vars
  PROVE  Follows(rec.state, rec'.state) \/ Crash
<1>a. rec \in Records /\ disk \in Records
  BY DEF TypeInv, TypeOK
<1>k. UNCHANGED rec => Follows(rec.state, rec'.state)
  BY DEF Follows
<1> USE <1>a, AdvanceTable DEF Follows, Records
<1>1. CASE FundReturns
  BY <1>1 DEF FundReturns, RecordAs, After, TypeInv, PcState
<1>2. CASE RevalidateMatch \/ RevalidateRefused
  BY <1>2 DEF RevalidateMatch, RevalidateRefused, Revalidated, RecordAs, After, Begin
<1>3. CASE RevalidateMismatch \/ RevalidateUnverifiable
  BY <1>3 DEF RevalidateMismatch, RevalidateUnverifiable, Revalidated, RecordAs, After,
              Begin
<1>4. CASE MakerVerifyCounterFunding
  BY <1>4 DEF MakerVerifyCounterFunding, RecordAs
<1>5. CASE AssessSqueezed
  BY <1>5 DEF AssessSqueezed, RecordAs, After, TypeInv, PcState
<1>6. CASE ClaimBtc \/ MutualRefundAsset
  BY <1>6 DEF ClaimBtc, MutualRefundAsset, Ends, RecordAs, After, TypeInv, PcState, record
<1>7. CASE ClaimAsset \/ ClaimVulnerable
  BY <1>7 DEF ClaimAsset, ClaimVulnerable, Ends, RecordAs, After, TypeInv, PcState, record
<1>8. CASE RefundBtc
  BY <1>8 DEF RefundBtc, Ends, RecordAs, After, TypeInv, PcState, record
<1>9. CASE StallRefund
  BY <1>9 DEF StallRefund, RecordAs, TypeInv, PcState, record
<1>10. CASE QuietStep
  BY <1>10, <1>k, <1>1, <1>2, <1>3, <1>4, <1>5
     DEF QuietStep, Raise, Persist, PersistRaises, PersistCancelled, InflightPersist,
         FundStart, ClaimBtcStart, ClaimBtcRaises, ClaimAssetStart, AssessWait,
         AssessSafe, ClaimVulnerableStart, RefundBtcStart, MutualRefundStart,
         StallRefundStart, Keep, record
<1>11. CASE OtherStep
  BY <1>11, <1>k, <1>6, <1>7, <1>8, <1>9
     DEF OtherStep, FundReserve, FundBroadcast, Restart, MutualRefundBtc, Keep, record
<1>12. CASE Environment \/ UNCHANGED vars
  BY <1>12, <1>k, EnvironmentFrame DEF vars, record
<1>13. QED
  BY <1>10, <1>11, <1>12, NextCases

(* What a step writes to disk is the record in memory, which the next      *)
(* record in memory follows in turn.                                       *)
LEMMA StepMemoryAhead ==
  ASSUME ~Cancellations, TypeInv, TypeInv', MemoryAhead, [Next]_vars
  PROVE  MemoryAhead' /\ Follows(disk.state, disk'.state)
<1>1. /\ rec.state \in SwapStates /\ disk.state \in SwapStates
      /\ rec'.state \in SwapStates /\ disk'.state \in SwapStates
  BY DEF TypeInv, TypeOK, Records
<1>2. inflight' = {}
  <2>1. CASE QuietStep
    BY <2>1 DEF MemoryAhead, QuietStep, Raise, Persist, PersistRaises, PersistCancelled,
       InflightPersist, FundStart, FundReturns, RevalidateMatch, RevalidateRefused,
       RevalidateMismatch, RevalidateUnverifiable, Revalidated,
       MakerVerifyCounterFunding, ClaimBtcStart, ClaimBtcRaises, ClaimAssetStart,
       AssessWait, AssessSqueezed, AssessSafe, ClaimVulnerableStart, RefundBtcStart,
       MutualRefundStart, StallRefundStart, Crash, Keep, RecordAs, record
  <2>2. CASE OtherStep
    BY <2>2 DEF MemoryAhead, OtherStep, FundReserve, FundBroadcast, Restart, ClaimBtc,
       ClaimAsset, ClaimVulnerable, RefundBtc, MutualRefundBtc, MutualRefundAsset,
       StallRefund, Ends, Keep, RecordAs, record
  <2>3. CASE Environment \/ UNCHANGED vars
    BY <2>3, EnvironmentFrame DEF MemoryAhead, vars, record
  <2> QED
    BY <2>1, <2>2, <2>3, NextCases
<1>3. disk' = disk \/ (disk' = rec /\ rec' = rec) \/ Crash
  <2>1. disk' \in {rec, disk}
    BY NoOtherRecord DEF MemoryAhead
  <2>2. CASE QuietStep
    BY <2>2 DEF MemoryAhead, QuietStep, Raise, Persist, PersistRaises, PersistCancelled,
       InflightPersist, FundStart, FundReturns, RevalidateMatch, RevalidateRefused,
       RevalidateMismatch, RevalidateUnverifiable, Revalidated,
       MakerVerifyCounterFunding, ClaimBtcStart, ClaimBtcRaises, ClaimAssetStart,
       AssessWait, AssessSqueezed, AssessSafe, ClaimVulnerableStart, RefundBtcStart,
       MutualRefundStart, StallRefundStart, Keep, RecordAs, record
  <2>3. CASE OtherStep
    BY <2>3 DEF OtherStep, FundReserve, FundBroadcast, Restart, ClaimBtc,
       ClaimAsset, ClaimVulnerable, RefundBtc, MutualRefundBtc, MutualRefundAsset,
       StallRefund, Ends, Keep, RecordAs, record
  <2>4. CASE Environment \/ UNCHANGED vars
    BY <2>4, EnvironmentFrame DEF vars, record
  <2> QED
    BY <2>2, <2>3, <2>4, NextCases
<1>4. CASE Crash
  BY <1>2, <1>4 DEF Crash, MemoryAhead, Follows
<1>5. CASE ~Crash
  <2>1. Follows(rec.state, rec'.state)
    BY <1>5, MemoryAdvances
  <2>2. CASE disk' = disk
    BY <1>1, <1>2, <2>1, <2>2, FollowsTransitive DEF MemoryAhead, Follows
  <2>3. CASE disk' = rec /\ rec' = rec
    BY <1>2, <2>3 DEF MemoryAhead, Follows
  <2> QED
    BY <1>3, <1>5, <2>2, <2>3
<1>6. QED
  BY <1>4, <1>5

(* With a driver that does not cancel a step in its last persist, the      *)
(* durable record only moves forward along the FSM, through crashes at     *)
(* every await, persists that raise and steps that are called again.  A    *)
(* cancelled step's write may land after a later step's: that is why the   *)
(* assumption is there.                                                    *)
THEOREM DurableMovesForward ==
  ASSUME ~Cancellations
  PROVE  Spec => DurableNeverRegresses
<1>1. Init => MemoryAhead
  BY DEF Init, MemoryAhead, Follows
<1>2. TypeInv /\ TypeInv' /\ MemoryAhead /\ [Next]_vars => MemoryAhead'
  BY StepMemoryAhead
<1>3. TypeInv /\ TypeInv' /\ MemoryAhead /\ [Next]_vars
        => [disk'.state \in ReachableFrom(disk.state)]_vars
  <2> SUFFICES ASSUME TypeInv, TypeInv', MemoryAhead, [Next]_vars
               PROVE  disk'.state \in ReachableFrom(disk.state)
    OBVIOUS
  <2>1. disk.state \in SwapStates /\ disk'.state \in SwapStates
    BY DEF TypeInv, TypeOK, Records
  <2> QED
    BY <2>1, StepMemoryAhead, FollowsIsReachable
<1>4. Spec => []TypeInv
  BY TypeCorrect DEF TypeInv
<1>5. QED
  BY <1>1, <1>2, <1>3, <1>4, PTL DEF Spec, DurableNeverRegresses

---------------------- (* on the dust runbook: outcomes and the refinement *)

(* The environment of these theorems: no transaction is dropped, the maker *)
(* takes the asset back only through mutual_refund.                        *)
Cooperative ==
  /\ LastingPools
  /\ ~MakerCsvRefund
  /\ "stallRefund" \notin Runbook

Refunded == {"refundPool", "refunded"}

(* mutual_refund sends the asset refund only after the counter refund was  *)
(* accepted, and a refund that was accepted keeps the claims out.          *)
SplitInv ==
  /\ cov \in Refunded => htlc \in Refunded
  /\ pc = "mutualAsset" => htlc \in Refunded
  /\ pc # "stallAsset"
  /\ htlc \in {"claimPool", "claimed"} => revealed
  /\ cov \in {"claimPool", "claimed"} => revealed
  /\ claimConfs > 0 => htlc = "claimed"

(* A refunded HTLC stays refunded: nothing funds it again and mempools     *)
(* keep what they accepted.                                                *)
LEMMA RefundLasts ==
  ASSUME Cooperative, TypeInv, LockInv, [Next]_vars, htlc \in Refunded
  PROVE  htlc' \in Refunded
<1>a. fundings \in Nat /\ DurableSeen \in BOOLEAN
  BY ParametersOK DEF TypeInv, TypeOK
<1> USE <1>a DEF Refunded
<1>1. CASE QuietStep
  BY <1>1, QuietFrame DEF counter
<1>2. CASE FundBroadcast
  BY <1>2 DEF FundBroadcast, LockInv, Cooperative, LastingPools
<1>3. CASE ClaimBtc \/ RefundBtc \/ MutualRefundBtc
  BY <1>3, CounterSends DEF ClaimBtc, RefundBtc, MutualRefundBtc
<1>4. CASE \/ FundReserve \/ Restart \/ ClaimAsset \/ ClaimVulnerable
           \/ MutualRefundAsset \/ StallRefund
  BY <1>4 DEF FundReserve, Restart, ClaimAsset, ClaimVulnerable, MutualRefundAsset,
              StallRefund, counter
<1>5. CASE Environment
  BY <1>5 DEF Environment, MakerLocksCovenant, MakerLocksWrongCovenant, CounterBlock,
              Mined, CounterReorg, RxdBlock, Evict, Reenter, counter, Cooperative,
              LastingPools
<1>6. QED
  BY <1>1, <1>2, <1>3, <1>4, <1>5, NextCases DEF OtherStep, vars, counter

(* Every step keeps the order reveal, counter refund, asset refund.        *)
LEMMA StepSplitInv ==
  ASSUME Cooperative
  PROVE  TypeInv /\ LockInv /\ RecordIsTrue /\ SplitInv /\ [Next]_vars => SplitInv'
<1> SUFFICES ASSUME TypeInv, LockInv, RecordIsTrue, SplitInv, [Next]_vars PROVE SplitInv'
  OBVIOUS
<1>a. /\ htlc \in HtlcStates /\ cov \in CovStates /\ claimConfs \in 0 .. ReorgDepth
      /\ fundings \in Nat /\ DurableSeen \in BOOLEAN
  BY ParametersOK DEF TypeInv, TypeOK
<1>b. htlc \in Refunded => htlc' \in Refunded
  BY RefundLasts
<1> USE <1>a, <1>b, ReorgDepthType DEF SplitInv
<1>1. CASE QuietStep
  <2>1. pc' # "stallAsset"
    BY <1>1 DEF QuietStep, Raise, Persist, PersistRaises, PersistCancelled,
       InflightPersist, FundStart, FundReturns, RevalidateMatch, RevalidateRefused,
       RevalidateMismatch, RevalidateUnverifiable, Revalidated,
       MakerVerifyCounterFunding, ClaimBtcStart, ClaimBtcRaises, ClaimAssetStart,
       AssessWait, AssessSqueezed, AssessSafe, ClaimVulnerableStart, RefundBtcStart,
       MutualRefundStart, StallRefundStart, Crash, Begin, Cooperative
  <2>2. QED
    BY <1>1, <2>1, QuietFrame DEF counter, radiant
<1>2. CASE FundReserve \/ Restart
  BY <1>2 DEF FundReserve, Restart, counter, radiant
<1>3. CASE FundBroadcast
  BY <1>3 DEF FundBroadcast, LockInv, Cooperative, LastingPools, radiant
<1>4. CASE ClaimBtc
  BY <1>4, CounterSends DEF ClaimBtc, Ends, radiant, Refunded
<1>5. CASE RefundBtc \/ MutualRefundBtc
  BY <1>5, CounterSends DEF RefundBtc, MutualRefundBtc, Ends, radiant, Refunded
<1>6. CASE ClaimAsset \/ ClaimVulnerable
  <2>1. revealed
    BY <1>6 DEF ClaimAsset, ClaimVulnerable, TypeInv, PcState, RecordIsTrue, RecordTrue
  <2>2. QED
    BY <1>6, <2>1 DEF ClaimAsset, ClaimVulnerable, SendAssetClaim, Ends, counter, Refunded
<1>7. CASE MutualRefundAsset \/ StallRefund
  BY <1>7 DEF MutualRefundAsset, StallRefund, SendAssetRefund, Ends, counter
<1>8. CASE Environment
  <2>1. CASE CounterBlock
    BY <2>1 DEF CounterBlock, Mined, HtlcStates, radiant
  <2>2. CASE CounterReorg
    BY <2>2 DEF CounterReorg, radiant, Refunded
  <2>3. CASE MakerLocksCovenant \/ MakerLocksWrongCovenant
    BY <2>3 DEF MakerLocksCovenant, MakerLocksWrongCovenant, counter, Refunded
  <2>4. CASE RxdBlock
    BY <2>4 DEF RxdBlock, Mined, counter, Cooperative, Refunded
  <2>5. QED
    BY <1>8, <2>1, <2>2, <2>3, <2>4
       DEF Environment, Evict, Reenter, Cooperative, LastingPools
<1>9. CASE UNCHANGED vars
  BY <1>9 DEF vars, counter, radiant
<1>10. QED
  BY <1>1, <1>2, <1>3, <1>4, <1>5, <1>6, <1>7, <1>8, <1>9, NextCases DEF OtherStep

(* The invariants of the dust runbook hold together.                       *)
LEMMA SplitInvariant ==
  ASSUME Cooperative
  PROVE  Spec => [](TypeInv /\ LockInv /\ RecordIsTrue /\ SplitInv)
<1>1. Init => SplitInv
  BY DEF Init, SplitInv, Refunded
<1>2. TypeInv /\ LockInv /\ RecordIsTrue /\ SplitInv /\ [Next]_vars => SplitInv'
  BY StepSplitInv
<1>3. Spec => []RecordIsTrue
  BY RecordsAreTrue DEF Cooperative, LastingPools
<1>4. QED
  BY <1>1, <1>2, <1>3, LockInvariant, PTL DEF Spec

(* No one-sided outcome, for both counter chains and every number of       *)
(* crashes: maker_claims_btc and mutual_refund never leave the counter leg *)
(* claimed and the asset refunded.                                         *)
THEOREM NoOneSidedOutcome ==
  ASSUME ~Evictions, IsBtc \/ DurableSeen, ~MakerCsvRefund, "stallRefund" \notin Runbook
  PROVE  Spec => []NoSplit
<1>1. SplitInv => NoSplit
  BY DEF SplitInv, NoSplit, Refunded
<1>2. Cooperative
  BY DEF Cooperative, LastingPools
<1>3. QED
  BY <1>1, <1>2, SplitInvariant, PTL

--------------------------------------------------- (* terminal records *)

(* An output that was spent one way stays spent that way.                  *)
OutcomesLast ==
  /\ htlc \in Refunded => htlc' \in Refunded
  /\ cov \in {"claimPool", "claimed"} => cov' \in {"claimPool", "claimed"}
  /\ cov \in Refunded => cov' \in Refunded

(* No step takes an outcome of either leg back.                            *)
LEMMA NextOutcomesLast ==
  ASSUME Cooperative, TypeInv, LockInv, [Next]_vars
  PROVE  OutcomesLast
<1>1. htlc \in Refunded => htlc' \in Refunded
  BY RefundLasts
<1>2. UNCHANGED cov \/ cov \notin {"claimPool", "claimed", "refundPool", "refunded"}
      \/ RxdBlock
  <2>1. CASE QuietStep
    BY <2>1, QuietFrame DEF radiant
  <2>2. CASE OtherStep
    BY <2>2 DEF OtherStep, FundReserve, FundBroadcast, Restart, ClaimBtc, ClaimAsset,
       ClaimVulnerable, RefundBtc, MutualRefundBtc, MutualRefundAsset, StallRefund,
       SendAssetClaim, SendAssetRefund, radiant
  <2>3. CASE Environment
    BY <2>3 DEF Environment, MakerLocksCovenant, MakerLocksWrongCovenant, CounterBlock,
       CounterReorg, Evict, Reenter, radiant, Cooperative, LastingPools
  <2>4. QED
    BY <2>1, <2>2, <2>3, NextCases DEF vars, radiant
<1>3. RxdBlock => /\ cov \in {"claimPool", "claimed"} => cov' \in {"claimPool", "claimed"}
                  /\ cov \in Refunded => cov' \in Refunded
  BY DEF RxdBlock, Mined, Cooperative, Refunded
<1>4. QED
  BY <1>1, <1>2, <1>3 DEF OutcomesLast, Refunded

(* A record that a step makes terminal names the outcome of both legs.     *)
LEMMA NewOutcomeTrue ==
  ASSUME Cooperative, TypeInv, SplitInv, OutcomesLast, OutcomeTrue(rec), OutcomeTrue(disk),
         [Next]_vars
  PROVE  OutcomeTrue(rec)'
<1>a. rec \in Records /\ disk \in Records
  BY DEF TypeInv, TypeOK
<1>k. UNCHANGED rec \/ rec' = disk \/ rec'.state = rec.state => OutcomeTrue(rec)'
  BY DEF OutcomeTrue, OutcomesLast, Refunded
<1>o. rec'.state \notin {"COMPLETED", "ABORTED", "MUTUAL_REFUND", "ASSET_REFUNDED_TAKER_ACTS"}
      => OutcomeTrue(rec)'
  BY DEF OutcomeTrue
<1> USE <1>a, AdvanceTable DEF Records
<1>1. CASE ClaimAsset \/ ClaimVulnerable
  BY <1>1, <1>k DEF ClaimAsset, ClaimVulnerable, SendAssetClaim, Ends, RecordAs, After,
                    TypeInv, PcState, OutcomeTrue, record
<1>2. CASE RefundBtc
  BY <1>2, <1>k, CounterSends DEF RefundBtc, Ends, RecordAs, After, TypeInv, PcState,
                                  OutcomeTrue, record
<1>3. CASE MutualRefundAsset
  BY <1>3, <1>k DEF MutualRefundAsset, SendAssetRefund, Ends, RecordAs, After, TypeInv,
                    PcState, OutcomeTrue, SplitInv, OutcomesLast, Refunded, record
<1>4. CASE ClaimBtc
  BY <1>4, <1>k, <1>o DEF ClaimBtc, Ends, RecordAs, After, TypeInv, PcState, record
<1>5. CASE StallRefund
  BY <1>5 DEF StallRefund, SplitInv
<1>6. CASE FundReturns \/ AssessSqueezed
  BY <1>6, <1>o DEF FundReturns, AssessSqueezed, RecordAs, After, TypeInv, PcState
<1>7. CASE RevalidateMatch \/ RevalidateMismatch \/ RevalidateUnverifiable
  BY <1>7, <1>o DEF RevalidateMatch, RevalidateMismatch, RevalidateUnverifiable,
                    Revalidated, RecordAs, After, Begin
<1>8. CASE RevalidateRefused \/ MakerVerifyCounterFunding
  BY <1>8, <1>k DEF RevalidateRefused, Revalidated, MakerVerifyCounterFunding, RecordAs
<1>9. CASE QuietStep
  BY <1>9, <1>6, <1>7, <1>8, <1>k
     DEF QuietStep, Raise, Persist, PersistRaises, PersistCancelled,
         InflightPersist, FundStart, ClaimBtcStart, ClaimBtcRaises, ClaimAssetStart,
         AssessWait, AssessSafe, ClaimVulnerableStart, RefundBtcStart,
         MutualRefundStart, StallRefundStart, Crash, Keep, record
<1>10. CASE OtherStep
  BY <1>10, <1>1, <1>2, <1>3, <1>4, <1>5, <1>k
     DEF OtherStep, FundReserve, FundBroadcast, Restart, MutualRefundBtc, Keep, record
<1>11. CASE Environment \/ UNCHANGED vars
  BY <1>11, <1>k, EnvironmentFrame DEF vars, record
<1>12. QED
  BY <1>9, <1>10, <1>11, NextCases

(* A record that reached COMPLETED, ABORTED or MUTUAL_REFUND, in memory or *)
(* on disk, is right about where both outputs went.                        *)
THEOREM TerminalRecordsAreTrue ==
  ASSUME ~Evictions, IsBtc \/ DurableSeen, ~MakerCsvRefund, "stallRefund" \notin Runbook
  PROVE  Spec => []TerminalRecordIsTrue
<1>0. Cooperative
  BY DEF Cooperative, LastingPools
<1>1. Init => TerminalRecordIsTrue
  BY DEF Init, TerminalRecordIsTrue, OutcomeTrue
<1>2. /\ TypeInv /\ LockInv /\ SplitInv /\ TerminalRecordIsTrue /\ [Next]_vars
      => TerminalRecordIsTrue'
  <2> SUFFICES ASSUME TypeInv, LockInv, SplitInv, TerminalRecordIsTrue, [Next]_vars
               PROVE  TerminalRecordIsTrue'
    OBVIOUS
  <2>1. OutcomesLast
    BY <1>0, NextOutcomesLast
  <2>2. \A r \in {rec, disk} \cup inflight : OutcomeTrue(r)'
    BY <2>1 DEF TerminalRecordIsTrue, OutcomeTrue, OutcomesLast, Refunded
  <2>3. OutcomeTrue(rec)'
    BY <1>0, <2>1, NewOutcomeTrue DEF TerminalRecordIsTrue
  <2>4. {disk'} \cup inflight' \subseteq {rec, disk} \cup inflight
    BY NoOtherRecord
  <2>5. QED
    BY <2>2, <2>3, <2>4 DEF TerminalRecordIsTrue, OutcomeTrue
<1>3. QED
  BY <1>0, <1>1, <1>2, SplitInvariant, PTL DEF Spec

-------------------------------------------------------- (* refinement *)

(* A new swap is an unlocked abstract one.                                 *)
LEMMA InitRefines == Init => Swap!SwapInit
BY DEF Init, Swap!SwapInit, CounterLeg, AssetLeg

(* What the mapping makes of the coordinator's states.                     *)
MappingFacts ==
  /\ CounterLeg = "unlocked" <=> htlc \in {"absent", "pool"}
  /\ CounterLeg = "claimed" <=> htlc = "claimed" /\ claimConfs = ReorgDepth
  /\ CounterLeg = "refunded" <=> htlc \in Refunded
  /\ CounterLeg = "locked" <=>
       htlc \in {"locked", "claimPool"} \/ (htlc = "claimed" /\ claimConfs # ReorgDepth)
  /\ AssetLeg = "unlocked" <=> cov = "absent"
  /\ AssetLeg = "claimed" <=> cov \in {"claimPool", "claimed"}
  /\ AssetLeg = "refunded" <=> cov \in Refunded
  /\ AssetLeg = "locked" <=> cov \in {"pool", "locked"}

(* The mapping holds in well-typed states, before and after a step.        *)
LEMMA Mapping ==
  /\ TypeOK => MappingFacts
  /\ TypeOK' => MappingFacts'
<1> USE DEF TypeOK, HtlcStates, CovStates, CounterLeg, AssetLeg, Refunded, MappingFacts
<1>1. TypeOK => MappingFacts
  OBVIOUS
<1>2. TypeOK' => MappingFacts'
  OBVIOUS
<1>3. QED
  BY <1>1, <1>2

(* Every step of coordinator or chains is an abstract step or a stutter.   *)
LEMMA StepRefines ==
  ASSUME Cooperative, TypeInv, TypeOK', LockInv, RecordIsTrue, SplitInv, [Next]_vars
  PROVE  [Swap!SwapNext]_(Swap!swapVars)
<1>a. /\ htlc \in HtlcStates /\ cov \in CovStates /\ claimConfs \in 0 .. ReorgDepth
      /\ fundings \in Nat /\ DurableSeen \in BOOLEAN /\ revealed \in BOOLEAN
  BY ParametersOK DEF TypeInv, TypeOK
<1>m. MappingFacts /\ MappingFacts'
  BY Mapping DEF TypeInv
<1>c. UNCHANGED <<htlc, claimConfs>> => UNCHANGED CounterLeg
  BY DEF CounterLeg
<1>d. UNCHANGED cov => UNCHANGED AssetLeg
  BY DEF AssetLeg
<1> USE <1>a, <1>c, <1>d, ReorgDepthType DEF Swap!swapVars
<1>1. CASE QuietStep
  BY <1>1, QuietFrame DEF counter, radiant
<1>2. CASE FundReserve \/ Restart
  BY <1>2 DEF FundReserve, Restart, counter, radiant
<1>3. CASE FundBroadcast
  BY <1>3, <1>m DEF FundBroadcast, LockInv, Cooperative, LastingPools, radiant, MappingFacts
<1>4. CASE ClaimBtc
  <2>1. UNCHANGED CounterLeg /\ UNCHANGED AssetLeg
    BY <1>4, <1>m, CounterSends DEF ClaimBtc, MappingFacts, radiant
  <2>2. CASE revealed
    BY <1>4, <2>1, <2>2, CounterSends DEF ClaimBtc
  <2>3. CASE ~revealed
    <3>1. htlc = "locked"
      BY <1>4, <2>3, CounterSends DEF ClaimBtc, SplitInv
    <3>2. cov \in {"pool", "locked"}
      BY <1>4, <2>3, <3>1 DEF ClaimBtc, TypeInv, PcState, RecordIsTrue, RecordTrue,
         SplitInv, CovStates, HtlcStates, Refunded
    <3>3. Swap!RevealSecret
      BY <1>4, <1>m, <2>1, <3>1, <3>2, CounterSends
         DEF ClaimBtc, MappingFacts, Swap!RevealSecret
    <3>4. QED
      BY <3>3 DEF Swap!SwapNext
  <2>4. QED
    BY <2>2, <2>3
<1>5. CASE RefundBtc \/ MutualRefundBtc
  <2>1. SendRefund /\ UNCHANGED <<cov, revealed>>
    BY <1>5, CounterSends DEF RefundBtc, MutualRefundBtc, radiant
  <2>2. CASE htlc \in Refunded
    BY <2>1, <2>2, <1>m, CounterSends DEF MappingFacts, Refunded
  <2>3. CASE htlc \notin Refunded
    BY <2>1, <2>3, <1>m, CounterSends
       DEF MappingFacts, Refunded, Swap!SwapNext, Swap!RefundCounter
  <2>4. QED
    BY <2>2, <2>3
<1>6. CASE ClaimAsset \/ ClaimVulnerable
  <2>1. revealed
    BY <1>6 DEF ClaimAsset, ClaimVulnerable, TypeInv, PcState, RecordIsTrue, RecordTrue
  <2>2. cov = "locked" /\ cov' = "claimPool" /\ UNCHANGED <<htlc, claimConfs, revealed>>
    BY <1>6 DEF ClaimAsset, ClaimVulnerable, SendAssetClaim, counter
  <2>3. QED
    BY <1>m, <2>1, <2>2 DEF MappingFacts, Swap!SwapNext, Swap!ClaimAsset
<1>7. CASE MutualRefundAsset
  <2>1. /\ cov = "locked" /\ cov' = "refundPool" /\ htlc \in Refunded
        /\ UNCHANGED <<htlc, claimConfs, revealed>>
    BY <1>7 DEF MutualRefundAsset, SendAssetRefund, SplitInv, counter
  <2>2. QED
    BY <1>m, <2>1 DEF MappingFacts, Refunded, Swap!SwapNext, Swap!RefundAsset
<1>8. CASE StallRefund
  BY <1>8 DEF StallRefund, SplitInv
<1>9. CASE Environment
  <2>1. CASE CounterBlock
    <3>0. UNCHANGED AssetLeg /\ UNCHANGED revealed
      BY <2>1 DEF CounterBlock, radiant
    <3>1. CASE htlc = "pool" /\ htlc' = "locked"
      BY <1>m, <3>0, <3>1 DEF MappingFacts, Swap!SwapNext, Swap!LockCounter
    <3>2. CASE /\ htlc \in {"claimPool", "claimed"} /\ htlc' = "claimed"
               /\ claimConfs # ReorgDepth /\ claimConfs' = ReorgDepth
      BY <1>m, <3>0, <3>2 DEF MappingFacts, SplitInv, Swap!SwapNext, Swap!ClaimCounter
    <3>3. CASE UNCHANGED CounterLeg
      BY <3>0, <3>3
    <3>4. \/ htlc = "pool" /\ htlc' = "locked"
          \/ /\ htlc \in {"claimPool", "claimed"} /\ htlc' = "claimed"
             /\ claimConfs # ReorgDepth /\ claimConfs' = ReorgDepth
          \/ UNCHANGED CounterLeg
      BY <1>m, <2>1
         DEF CounterBlock, Mined, Saturate, MappingFacts, SplitInv, HtlcStates, Refunded
    <3>5. QED
      BY <3>1, <3>2, <3>3, <3>4
  <2>2. CASE CounterReorg
    BY <1>m, <2>2 DEF CounterReorg, MappingFacts, radiant
  <2>3. CASE MakerLocksCovenant
    BY <1>m, <2>3
       DEF MakerLocksCovenant, MappingFacts, counter, Swap!SwapNext, Swap!LockAsset
  <2>4. CASE MakerLocksWrongCovenant
    BY <2>4 DEF MakerLocksWrongCovenant, counter
  <2>5. CASE RxdBlock
    BY <1>m, <2>5 DEF RxdBlock, Mined, MappingFacts, Cooperative, Refunded, counter
  <2>6. QED
    BY <1>9, <2>1, <2>2, <2>3, <2>4, <2>5
       DEF Environment, Evict, Reenter, Cooperative, LastingPools
<1>10. CASE UNCHANGED vars
  BY <1>10 DEF vars, counter, radiant
<1>11. QED
  BY <1>1, <1>2, <1>3, <1>4, <1>5, <1>6, <1>7, <1>8, <1>9, <1>10, NextCases DEF OtherStep

(* The coordinator with its record, persists, crashes and two mempools     *)
(* implements the abstract swap, for both counter chains and all timelocks *)
(* and policies.                                                           *)
THEOREM CoordinatorImplementsSwap ==
  ASSUME ~Evictions, IsBtc \/ DurableSeen, ~MakerCsvRefund, "stallRefund" \notin Runbook
  PROVE  Spec => ImplementsAtomicSwap
<1>0. Cooperative
  BY DEF Cooperative, LastingPools
<1>1. Init => Swap!SwapInit
  BY InitRefines
<1>2. /\ TypeInv /\ TypeInv' /\ LockInv /\ RecordIsTrue /\ SplitInv /\ [Next]_vars
      => [Swap!SwapNext]_(Swap!swapVars)
  BY <1>0, StepRefines DEF TypeInv
<1>3. QED
  BY <1>0, <1>1, <1>2, SplitInvariant, PTL DEF Spec, ImplementsAtomicSwap, Swap!SwapSpec
=============================================================================
