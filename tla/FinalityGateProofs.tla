-------------------------- MODULE FinalityGateProofs --------------------------
(***************************************************************************)
(* The taker's claim gate, for every policy, value, t_rxd and any number   *)
(* of blocks: what the runs check over seven policies is proved here from  *)
(* two facts about rounding.  A reserve is rounded up, so the last         *)
(* interval of the time it stands for has begun when the reserve is used   *)
(* up; and a burial is rounded up, so a burial is deep enough exactly when *)
(* it outspends the value.                                                 *)
(***************************************************************************)
EXTENDS FinalityGate, TLAPS

---------------------------------------------------- (* rounding up, down *)

(* Python's floor division, as the integer it returns is used.             *)
LEMMA FloorBounds ==
  ASSUME NEW a \in Int, NEW b \in Int, b > 0
  PROVE  /\ a \div b \in Int
         /\ (a \div b) * b <= a
         /\ a < ((a \div b) + 1) * b
OBVIOUS

(* The rounding of a reserve: the least multiple that is not below a.      *)
LEMMA CeilBounds ==
  ASSUME NEW a \in Int, NEW b \in Int, b > 0
  PROVE  /\ CeilDiv(a, b) \in Int
         /\ a <= CeilDiv(a, b) * b
         /\ (CeilDiv(a, b) - 1) * b < a
BY FloorBounds DEF CeilDiv

LEMMA MulMonotone ==
  ASSUME NEW x \in Int, NEW y \in Int, NEW b \in Int, b > 0
  PROVE  (x <= y) <=> (x * b <= y * b)
OBVIOUS

(* A value is at most a quotient iff its multiple is at most the dividend. *)
LEMMA FloorGalois ==
  ASSUME NEW v \in Int, NEW x \in Int, NEW n \in Int, n > 0
  PROVE  (v <= x \div n) <=> (v * n <= x)
<1> DEFINE q == x \div n
<1>1. q \in Int /\ q * n <= x /\ x < (q + 1) * n
  BY FloorBounds
<1>2. ASSUME v <= q PROVE v * n <= x
  <2>1. v * n <= q * n
    BY <1>1, <1>2, MulMonotone
  <2>2. v * n \in Int /\ q * n \in Int
    BY <1>1
  <2> QED
    BY <2>1, <2>2, <1>1
<1>3. ASSUME v * n <= x PROVE v <= q
  <2>1. CASE v >= q + 1
    <3>1. (q + 1) * n <= v * n
      BY <1>1, <2>1, MulMonotone
    <3>2. v * n \in Int /\ (q + 1) * n \in Int
      BY <1>1
    <3> QED
      BY <3>1, <3>2, <1>1, <1>3
  <2> QED
    BY <2>1, <1>1
<1> QED
  BY <1>2, <1>3

(* A number of blocks is at least a rounded-up one iff it pays for it.     *)
LEMMA CeilGalois ==
  ASSUME NEW y \in Int, NEW k \in Int, NEW b \in Int, k > 0
  PROVE  (CeilDiv(y, k) <= b) <=> (y <= b * k)
<1> DEFINE c == CeilDiv(y, k)
<1>1. c \in Int /\ y <= c * k /\ (c - 1) * k < y
  BY CeilBounds
<1> HIDE DEF c
<1>2. ASSUME c <= b PROVE y <= b * k
  <2>1. c * k <= b * k
    BY <1>1, <1>2, MulMonotone
  <2>2. c * k \in Int /\ b * k \in Int
    BY <1>1
  <2> QED
    BY <2>1, <2>2, <1>1
<1>3. ASSUME y <= b * k PROVE c <= b
  <2>1. CASE b <= c - 1
    <3>1. b * k <= (c - 1) * k
      BY <1>1, <2>1, MulMonotone
    <3>2. b * k \in Int /\ (c - 1) * k \in Int
      BY <1>1
    <3> QED
      BY <3>1, <3>2, <1>1, <1>3
  <2> QED
    BY <2>1, <1>1
<1> QED
  BY <1>2, <1>3 DEF c

(* The last interval of a reserve: if the current block began before the   *)
(* reserved time was over, no more blocks have passed than were reserved.  *)
LEMMA ReserveCovers ==
  ASSUME NEW time \in Int, NEW interval \in Int, interval > 0,
         NEW n \in Int, (n - 1) * interval < time
  PROVE  n <= CeilDiv(time, interval)
<1> DEFINE c == CeilDiv(time, interval)
<1>1. c \in Int /\ time <= c * interval
  BY CeilBounds
<1> HIDE DEF c
<1>2. CASE c <= n - 1
  <2>1. c * interval <= (n - 1) * interval
    BY <1>1, <1>2, MulMonotone
  <2>2. c * interval \in Int /\ (n - 1) * interval \in Int
    BY <1>1
  <2> QED
    BY <2>1, <2>2, <1>1
<1> QED
  BY <1>1, <1>2 DEF c

------------------------------------------- (* what an assessment depends on *)

(* The value the gate protects, the burial it asks for, the Radiant blocks *)
(* it reserves for the counter chain and the blocks left at an age.        *)
Effective == IF value # None THEN value ELSE policy.value_at_risk_photons
Unpriced == policy.rxd_reorg_cost_per_block # None /\ Effective = None
Burial == RequiredBurial(policy, Effective)
Reserve == CounterReserveRxd(CounterVerdict, policy)
LeftAt(a) == BlocksLeft(a, 0, Blocks(tRxd), policy)

(* The verdict carries the depth that the gate reserves for.               *)
DepthAgrees ==
  CounterIsEth \/ VerdictDepth(policy)
                    = ReserveToBlocks(policy.btc_claim_reorg_depth, policy.block_interval_s)

(* One behaviour keeps its policy, and the policy is one that exists.      *)
GateType == GateTypeOK /\ PolicyOK(policy)

(* The quantities are integers, and the counter reserve is what the        *)
(* counter chain's finalization takes, rounded up to Radiant blocks.       *)
LEMMA Quantities ==
  ASSUME GateType
  PROVE  /\ Burial \in Int /\ Reserve \in Nat /\ FinalizationTime \in Int
         /\ \A a \in Int : LeftAt(a) = tRxd - a
         /\ tRxd \in Int /\ age \in Nat /\ confs \in Nat
         /\ policy.rxd_block_interval_s \in Int /\ policy.rxd_block_interval_s > 0
         /\ DepthAgrees
              => Reserve = CeilDiv(FinalizationTime, policy.rxd_block_interval_s)
<1>1. /\ policy \in MarginPolicies /\ value \in Nat \cup {None} /\ tRxd \in Nat
      /\ age \in Nat /\ confs \in Nat
  BY GateConstants DEF GateType, GateTypeOK
<1>2. /\ policy.block_interval_s \in Int /\ policy.block_interval_s > 0
      /\ policy.rxd_block_interval_s \in Int /\ policy.rxd_block_interval_s > 0
      /\ policy.rxd_reorg_cost_per_block \in Nat \cup {None}
      /\ policy.rxd_reorg_cost_per_block = None \/ policy.rxd_reorg_cost_per_block > 0
      /\ policy.eth_finalization_window_s \in Nat \cup {None}
      /\ policy.value_at_risk_photons \in Nat \cup {None}
      /\ policy.burial_safety_factor[1] \in Nat \ {0}
      /\ policy.burial_safety_factor[2] \in Nat \ {0}
      /\ policy.btc_claim_reorg_depth \in Timelocks
      /\ policy.rxd_claim_burial \in Timelocks
  BY <1>1 DEF MarginPolicies, GateType, PolicyOK
<1>3. ASSUME NEW t \in Timelocks
      PROVE  /\ ReserveToBlocks(t, policy.block_interval_s) \in Nat
             /\ NormalizeToBlocks(t, policy.block_interval_s) \in Nat
  <2>1. t.value \in Nat
    BY DEF Timelocks
  <2>2. CeilDiv(t.value, policy.block_interval_s) \in Nat
    BY <1>2, <2>1 DEF CeilDiv
  <2>3. t.value \div policy.block_interval_s \in Nat
    BY <1>2, <2>1
  <2> QED
    BY <2>1, <2>2, <2>3 DEF ReserveToBlocks, NormalizeToBlocks
<1>4. \A a \in Int : LeftAt(a) = tRxd - a
  BY <1>1 DEF LeftAt, BlocksLeft, NormalizeToBlocks, Blocks
<1>5. Effective \in Nat \cup {None}
  BY <1>1, <1>2 DEF Effective
<1>6. Burial \in Int
  <2>1. ValueScaledBurialBlocks(policy, Effective) \in Int
    <3>1. CASE policy.rxd_reorg_cost_per_block = None \/ Effective = None
      BY <3>1 DEF ValueScaledBurialBlocks
    <3>2. CASE ~(policy.rxd_reorg_cost_per_block = None \/ Effective = None)
      <4> DEFINE y == Effective * policy.burial_safety_factor[1]
                 k == policy.burial_safety_factor[2] * policy.rxd_reorg_cost_per_block
      <4>1. y \in Int /\ k \in Int /\ k > 0
        BY <1>2, <1>5, <3>2
      <4>2. CeilDiv(y, k) \in Int
        BY <4>1, CeilBounds
      <4> QED
        BY <3>2, <4>2 DEF ValueScaledBurialBlocks
    <3> QED
      BY <3>1, <3>2
  <2> QED
    BY <2>1, <1>2, <1>3 DEF Burial, RequiredBurial, MaxOf
<1>7. CASE CounterIsEth
  <2>1. policy.eth_finalization_window_s \in Nat
    BY <1>2, <1>7 DEF CounterIsEth
  <2>2. CounterVerdict.required_depth = None
    BY <1>7 DEF CounterVerdict, FromEthCheckpoint
  <2>3. FinalizationTime = policy.eth_finalization_window_s
    BY <1>7 DEF FinalizationTime
  <2>4. Reserve = CeilDiv(FinalizationTime, policy.rxd_block_interval_s)
    BY <2>2, <2>3 DEF Reserve, CounterReserveRxd
  <2>5. Reserve \in Nat
    BY <2>1, <2>3, <2>4, <1>2 DEF CeilDiv
  <2> QED
    BY <1>1, <1>2, <1>4, <1>6, <2>1, <2>3, <2>4, <2>5
<1>8. CASE ~CounterIsEth
  <2> DEFINE d == VerdictDepth(policy)
             r == ReserveToBlocks(policy.btc_claim_reorg_depth, policy.block_interval_s)
  <2>1. d \in Nat /\ r \in Nat
    BY <1>2, <1>3 DEF VerdictDepth
  <2>2. CounterVerdict.required_depth = d
    BY <1>8 DEF CounterVerdict, FromBtcDepth
  <2>3. FinalizationTime = r * policy.block_interval_s
    BY <1>8 DEF FinalizationTime
  <2>4. Reserve = CeilDiv(d * policy.block_interval_s, policy.rxd_block_interval_s)
    BY <2>1, <2>2 DEF Reserve, CounterReserveRxd, None
  <2>5. d * policy.block_interval_s \in Nat /\ r * policy.block_interval_s \in Nat
    BY <2>1, <1>2
  <2>6. Reserve \in Nat
    BY <2>4, <2>5, <1>2 DEF CeilDiv
  <2>7. DepthAgrees => d = r
    BY <1>8 DEF DepthAgrees
  <2> QED
    BY <1>1, <1>2, <1>4, <1>6, <2>3, <2>4, <2>5, <2>6, <2>7
<1> QED
  BY <1>7, <1>8

(* assess_claim_finality as a case distinction on those quantities.        *)
LEMMA AssessmentCases ==
  ASSUME GateType
  PROVE  LET final == CounterVerdict.state = "FINAL"
         IN  /\ Assessment \in Verdicts
             /\ (Assessment = "SAFE") <=> ~Unpriced /\ final /\ LeftAt(age) >= Burial
             /\ (Assessment = "WAIT")
                  => ~Unpriced /\ DepthAgrees /\ LeftAt(age) - Reserve >= Burial
             /\ (Assessment = "WAIT") => ~final
             /\ (Assessment = "SQUEEZED") => Unpriced \/ LeftAt(age) - Reserve < Burial
<1> DEFINE final == CounterVerdict.state = "FINAL"
           agrees == \/ CounterVerdict.required_depth = None
                     \/ CounterVerdict.required_depth
                          = ReserveToBlocks(policy.btc_claim_reorg_depth, policy.block_interval_s)
           windowed == \/ CounterVerdict.required_depth # None
                       \/ policy.eth_finalization_window_s # None
<1>1. age \in Nat /\ LeftAt(age) \in Int /\ Reserve \in Nat /\ Burial \in Int
  BY Quantities
<1>2. CounterVerdict.state \in {"FINAL", "NOT_YET_FINAL_LIVE"}
  BY DEF CounterVerdict, FromBtcDepth, FromEthCheckpoint
<1>3. agrees => DepthAgrees
  <2>1. policy.block_interval_s \in Int /\ policy.block_interval_s > 0
        /\ policy.btc_claim_reorg_depth \in Timelocks
    BY GateConstants DEF GateType, GateTypeOK, MarginPolicies, PolicyOK
  <2>2. VerdictDepth(policy) # None
    BY <2>1 DEF VerdictDepth, NormalizeToBlocks, Timelocks, None
  <2> QED
    BY <2>2 DEF CounterVerdict, FromBtcDepth, FromEthCheckpoint, DepthAgrees
<1>4. ~final => RemainingPositive(CounterVerdict)
  <2>1. /\ policy.block_interval_s \in Int /\ policy.block_interval_s > 0
        /\ policy.btc_claim_reorg_depth \in Timelocks /\ confs \in Nat
    BY GateConstants DEF GateType, GateTypeOK, MarginPolicies, PolicyOK
  <2>2. VerdictDepth(policy) \in Int
    BY <2>1 DEF VerdictDepth, NormalizeToBlocks, Timelocks
  <2> QED
    BY <2>1, <2>2 DEF CounterVerdict, FromBtcDepth, FromEthCheckpoint, RemainingPositive
<1>5. Assessment =
        IF Unpriced THEN "SQUEEZED"
        ELSE IF final THEN IF LeftAt(age) >= Burial THEN "SAFE" ELSE "SQUEEZED"
        ELSE IF ~agrees \/ ~windowed THEN "RAISE"
        ELSE IF LeftAt(age) - Reserve >= Burial THEN "WAIT" ELSE "SQUEEZED"
  BY <1>1, <1>2, <1>4
  DEF Assessment, AssessClaimFinality, Unpriced, Effective, Burial, Reserve, LeftAt
<1> HIDE DEF agrees, windowed
<1> QED
  BY <1>1, <1>3, <1>5 DEF Verdicts

------------------------------------------------- (* the inductive invariant *)

(* The gate has the memory its caller has: the last WAIT, and the last     *)
(* answer.  A WAIT was given with the reserve and the burial both left; an *)
(* answer SQUEEZED means they are not both left any more.                  *)
WaitHadRoom ==
  waitAge # None =>
    /\ waitAge \in 0 .. age
    /\ ~Unpriced /\ DepthAgrees
    /\ LeftAt(waitAge) - Reserve >= Burial

SqueezeLasts == verdict = "SQUEEZED" => Unpriced \/ LeftAt(age) - Reserve < Burial

GateInv == GateType /\ WaitHadRoom /\ SqueezeLasts

(* What is fixed for a behaviour, and what is fixed by it.                 *)
LEMMA FixedForABehaviour ==
  ASSUME UNCHANGED <<policy, value, tRxd>>
  PROVE  /\ Unpriced' <=> Unpriced
         /\ DepthAgrees' <=> DepthAgrees
         /\ Burial' = Burial /\ Reserve' = Reserve
BY DEF Unpriced, Effective, DepthAgrees, CounterIsEth, VerdictDepth, Burial, Reserve,
       RequiredBurial, ValueScaledBurialBlocks, CounterReserveRxd, CounterVerdict,
       FromBtcDepth, FromEthCheckpoint

LEMMA GateInvInit ==
  ASSUME GateInit
  PROVE  GateInv
<1>1. GateType
  BY GateConstants DEF GateInit, GateType, GateTypeOK, Verdicts
<1> QED
  BY <1>1 DEF GateInit, GateInv, WaitHadRoom, SqueezeLasts

LEMMA GateInvNext ==
  ASSUME GateInv, [GateNext]_gateVars
  PROVE  GateInv'
<1> USE DEF GateInv
<1>f. UNCHANGED <<policy, value, tRxd>>
  BY DEF GateNext, gateVars, Poll, GateRxdBlock, CounterBlock, CounterReorg
<1>q. /\ Burial \in Int /\ Reserve \in Nat /\ tRxd \in Int /\ age \in Nat
      /\ \A a \in Int : LeftAt(a) = tRxd - a
  BY Quantities
<1>a. \A a \in Int : LeftAt(a)' = LeftAt(a)
  BY <1>f DEF LeftAt
<1>u. /\ Unpriced' <=> Unpriced
      /\ DepthAgrees' <=> DepthAgrees
      /\ Burial' = Burial /\ Reserve' = Reserve
  BY <1>f, FixedForABehaviour
<1>1. CASE Poll
  <2>1. GateType'
    BY <1>1, AssessmentCases, GateConstants DEF Poll, GateType, GateTypeOK
  <2>2. WaitHadRoom'
    <3>1. CASE Assessment = "WAIT"
      <4>1. waitAge' = age /\ age' = age
        BY <1>1, <3>1 DEF Poll
      <4>2. ~Unpriced /\ DepthAgrees /\ LeftAt(age) - Reserve >= Burial
        BY <3>1, AssessmentCases
      <4>3. LeftAt(waitAge)' = LeftAt(age)
        BY <4>1, <1>f DEF LeftAt
      <4> QED
        BY <4>1, <4>2, <4>3, <1>u, <1>q DEF WaitHadRoom
    <3>2. CASE Assessment # "WAIT"
      <4>1. waitAge' = waitAge /\ age' = age
        BY <1>1, <3>2 DEF Poll
      <4>2. LeftAt(waitAge)' = LeftAt(waitAge)
        BY <4>1, <1>f DEF LeftAt
      <4> QED
        BY <4>1, <4>2, <1>u DEF WaitHadRoom
    <3> QED
      BY <3>1, <3>2
  <2>3. SqueezeLasts'
    <3>1. verdict' = Assessment /\ age' = age
      BY <1>1 DEF Poll
    <3>2. LeftAt(age)' = LeftAt(age)
      BY <3>1, <1>f DEF LeftAt
    <3> QED
      BY <3>1, <3>2, <1>u, AssessmentCases DEF SqueezeLasts
  <2> QED
    BY <2>1, <2>2, <2>3
<1>2. CASE GateRxdBlock
  <2>1. age' = age + 1 /\ waitAge' = waitAge /\ verdict' = verdict
    BY <1>2 DEF GateRxdBlock
  <2>2. GateType'
    BY <1>2, <1>q, GateConstants DEF GateRxdBlock, GateType, GateTypeOK
  <2>3. LeftAt(waitAge)' = LeftAt(waitAge)
    BY <2>1, <1>f DEF LeftAt
  <2>4. LeftAt(age)' = LeftAt(age + 1)
    BY <2>1, <1>f DEF LeftAt
  <2>5. WaitHadRoom'
    BY <2>1, <2>3, <1>q, <1>u DEF WaitHadRoom
  <2>6. SqueezeLasts'
    BY <2>1, <2>4, <1>q, <1>u DEF SqueezeLasts
  <2> QED
    BY <2>2, <2>5, <2>6
<1>3. CASE CounterBlock \/ CounterReorg \/ UNCHANGED gateVars
  <2>1. age' = age /\ waitAge' = waitAge /\ verdict' = verdict
    BY <1>3 DEF CounterBlock, CounterReorg, gateVars
  <2>2. confs' \in 0 .. MaxConfs
    BY <1>3, GateConstants DEF CounterBlock, CounterReorg, gateVars, GateType, GateTypeOK
  <2>3. GateType'
    BY <2>1, <2>2, <1>f, GateConstants DEF GateType, GateTypeOK
  <2>4. LeftAt(waitAge)' = LeftAt(waitAge) /\ LeftAt(age)' = LeftAt(age)
    BY <2>1, <1>f DEF LeftAt
  <2> QED
    BY <2>1, <2>3, <2>4, <1>u DEF WaitHadRoom, SqueezeLasts
<1> QED
  BY <1>1, <1>2, <1>3 DEF GateNext

(* The gate's memory says what it should in every reachable state.         *)
THEOREM GateInvariant == GateSpec => []GateInv
<1>1. GateInit => GateInv
  BY GateInvInit
<1>2. GateInv /\ [GateNext]_gateVars => GateInv'
  BY GateInvNext
<1> QED
  BY <1>1, <1>2, PTL DEF GateSpec

------------------------------------------------------ (* what follows *)

(* WaitPaysOff, for every policy, value, t_rxd and age: while the counter  *)
(* chain keeps to the time the policy allots to it, at most as many        *)
(* Radiant blocks pass as the WAIT had reserved (assess_claim_finality).   *)
THEOREM WaitingIsSafe == GateSpec => []WaitPaysOff
<1>1. ASSUME GateInv PROVE WaitPaysOff
  <2> SUFFICES ASSUME waitAge # None, CounterVerdict.state = "FINAL",
                      (age - waitAge - 1) * policy.rxd_block_interval_s < FinalizationTime
               PROVE  Assessment = "SAFE"
    BY DEF WaitPaysOff
  <2> USE <1>1 DEF GateInv
  <2> DEFINE n == age - waitAge
  <2>1. /\ waitAge \in 0 .. age /\ ~Unpriced /\ DepthAgrees
        /\ LeftAt(waitAge) - Reserve >= Burial
    BY DEF WaitHadRoom
  <2>2. /\ Burial \in Int /\ Reserve \in Nat /\ FinalizationTime \in Int
        /\ \A a \in Int : LeftAt(a) = tRxd - a
        /\ tRxd \in Int /\ age \in Nat
        /\ policy.rxd_block_interval_s \in Int /\ policy.rxd_block_interval_s > 0
        /\ Reserve = CeilDiv(FinalizationTime, policy.rxd_block_interval_s)
    BY <2>1, Quantities
  <2>3. n \in Int
    BY <2>1, <2>2
  <2>4. n <= Reserve
    BY <2>2, <2>3, ReserveCovers
  <2>5. LeftAt(age) >= Burial
    BY <2>1, <2>2, <2>4
  <2> QED
    BY <2>1, <2>5, AssessmentCases
<1> QED
  BY <1>1, GateInvariant, PTL

(* NoWaitAfterSqueezed: blocks only pass, and the reserve is the full      *)
(* depth whatever the claim's confirmations do, so what is squeezed stays  *)
(* squeezed (assess_claim_finality, and the ASSET_VULNERABLE the           *)
(* coordinator records on it).                                             *)
THEOREM SqueezedForGood == GateSpec => NoWaitAfterSqueezed
<1>1. ASSUME GateInv, [GateNext]_gateVars
      PROVE  [verdict = "SQUEEZED" => verdict' # "WAIT"]_gateVars
  <2> USE <1>1 DEF GateInv
  <2>1. CASE Poll
    <3>1. verdict' = Assessment
      BY <2>1 DEF Poll
    <3>2. Burial \in Int /\ Reserve \in Nat /\ LeftAt(age) \in Int
      BY Quantities
    <3> QED
      BY <3>1, <3>2, AssessmentCases DEF SqueezeLasts
  <2>2. CASE ~Poll
    <3>1. verdict' = verdict
      BY <1>1, <2>2 DEF GateNext, GateRxdBlock, CounterBlock, CounterReorg, gateVars
    <3> QED
      BY <3>1
  <2> QED
    BY <2>1, <2>2
<1> QED
  BY <1>1, GateInvariant, PTL DEF GateSpec, NoWaitAfterSqueezed

(* BurialIsWorthIt: reversing the burial a SAFE verdict leaves room for    *)
(* costs at least the value at risk times the factor, and                  *)
(* max_protected_value is the exact inverse of                             *)
(* _value_scaled_burial_blocks for every cost, factor, value and burial.   *)
THEOREM BurialOutspendsValue == GateSpec => []BurialIsWorthIt
<1>1. ASSUME GateInv, policy.rxd_reorg_cost_per_block # None, NEW v \in Nat
      PROVE  LET c == policy.rxd_reorg_cost_per_block
                 n == policy.burial_safety_factor[1]
                 d == policy.burial_safety_factor[2]
             IN  /\ c \in Int /\ n \in Int /\ n > 0 /\ d \in Int
                 /\ \A b \in Int : /\ (ValueScaledBurialBlocks(policy, v) <= b)
                                        <=> (v * n <= b * c * d)
                                   /\ (v <= MaxProtectedValue(b, c, policy.burial_safety_factor))
                                        <=> (v * n <= b * c * d)
                 /\ ValueScaledBurialBlocks(policy, v) \in Int
  <2> DEFINE c == policy.rxd_reorg_cost_per_block
             n == policy.burial_safety_factor[1]
             d == policy.burial_safety_factor[2]
  <2>1. /\ c \in Int /\ c > 0 /\ n \in Int /\ n > 0 /\ d \in Int /\ d > 0
    BY <1>1, GateConstants DEF GateInv, GateType, GateTypeOK, MarginPolicies, PolicyOK
  <2>2. v # None
    BY DEF None
  <2>3. ValueScaledBurialBlocks(policy, v) = CeilDiv(v * n, d * c)
    BY <1>1, <2>2 DEF ValueScaledBurialBlocks
  <2>4. \A b : MaxProtectedValue(b, c, policy.burial_safety_factor) = (b * c * d) \div n
    BY DEF MaxProtectedValue
  <2> HIDE DEF c, n, d
  <2>5. v * n \in Int /\ d * c \in Int /\ d * c > 0
    BY <2>1
  <2>6. CeilDiv(v * n, d * c) \in Int
    BY <2>5, CeilBounds
  <2>7. ASSUME NEW b \in Int
        PROVE  /\ (CeilDiv(v * n, d * c) <= b) <=> (v * n <= b * c * d)
               /\ (v <= (b * c * d) \div n) <=> (v * n <= b * c * d)
    <3>1. b * (d * c) = b * c * d /\ b * c * d \in Int
      BY <2>1
    <3>2. (CeilDiv(v * n, d * c) <= b) <=> (v * n <= b * (d * c))
      BY <2>5, CeilGalois
    <3>3. (v <= (b * c * d) \div n) <=> (v * n <= b * c * d)
      BY <2>1, <3>1, FloorGalois
    <3> QED
      BY <3>1, <3>2, <3>3
  <2> QED
    BY <2>1, <2>3, <2>4, <2>6, <2>7 DEF c, n, d
<1>2. ASSUME GateInv PROVE SafeClaimOutspends
  <2> SUFFICES ASSUME Assessment = "SAFE", policy.rxd_reorg_cost_per_block # None
               PROVE  Effective * policy.burial_safety_factor[1]
                        <= LeftAt(age) * policy.rxd_reorg_cost_per_block
                             * policy.burial_safety_factor[2]
    BY DEF SafeClaimOutspends, Effective, LeftAt
  <2>1. ~Unpriced /\ LeftAt(age) >= Burial
    BY <1>2, AssessmentCases DEF GateInv
  <2>2. Effective \in Nat
    BY <1>2, <2>1, GateConstants
    DEF GateInv, GateType, GateTypeOK, MarginPolicies, Unpriced, Effective
  <2>3. LeftAt(age) \in Int /\ Burial \in Int
    BY <1>2, Quantities DEF GateInv
  <2>4. ReserveToBlocks(policy.rxd_claim_burial, policy.block_interval_s) \in Int
    <3>1. policy.rxd_claim_burial \in Timelocks /\ policy.block_interval_s \in Int
          /\ policy.block_interval_s > 0
      BY <1>2, GateConstants DEF GateInv, GateType, GateTypeOK, MarginPolicies, PolicyOK
    <3>2. policy.rxd_claim_burial.value \in Int
      BY <3>1 DEF Timelocks
    <3> QED
      BY <3>1, <3>2, CeilBounds DEF ReserveToBlocks
  <2>5. ValueScaledBurialBlocks(policy, Effective) \in Int
    BY <1>1, <1>2, <2>2
  <2>6. ValueScaledBurialBlocks(policy, Effective) <= LeftAt(age)
    BY <2>1, <2>3, <2>4, <2>5 DEF Burial, RequiredBurial, MaxOf
  <2> QED
    BY <1>1, <1>2, <2>2, <2>3, <2>6
<1>3. ASSUME GateInv PROVE BurialInverse
  <2> SUFFICES ASSUME policy.rxd_reorg_cost_per_block # None, value # None,
                      NEW b \in 1 .. MaxAge
               PROVE  (value <= MaxProtectedValue(b, policy.rxd_reorg_cost_per_block,
                                                  policy.burial_safety_factor))
                        <=> (ValueScaledBurialBlocks(policy, value) <= b)
    BY DEF BurialInverse
  <2>1. value \in Nat /\ b \in Int
    BY <1>3, GateConstants DEF GateInv, GateType, GateTypeOK
  <2> QED
    BY <1>1, <1>3, <2>1
<1>4. GateInv => BurialIsWorthIt
  BY <1>2, <1>3 DEF BurialIsWorthIt
<1> QED
  BY <1>4, GateInvariant, PTL
=============================================================================
