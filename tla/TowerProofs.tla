----------------------------- MODULE TowerProofs -----------------------------
(***************************************************************************)
(* The watchtowers.  The armed tower on a BTC swap, for every policy,      *)
(* wiring, fee pool, cap, number of sources and lag: a tick is not atomic, *)
(* and between its covenant check and its broadcast the chains, the maker, *)
(* the taker's own coordinator and crashes move.  The invariant says what  *)
(* of a check still holds when the broadcast uses it: no claim of the      *)
(* tower's own can have entered the mempool in between, and the room that  *)
(* the gate saw was there.                                                 *)
(*                                                                         *)
(* The tower on an ETH swap, for every policy, patience and lag, any       *)
(* chain, reorgs, finalizations and crashes: the invariant says what of a  *)
(* tick's reads still stands, and whose run of a stuck checkpoint it is    *)
(* that the stall tracker holds.                                           *)
(***************************************************************************)
EXTENDS ArmedTower, EthTower, SequenceTheorems, WellFoundedInduction, TLAPS

-------------------------------------------------- (* least and greatest *)

Before == {pair \in Nat \X Nat : pair[1] < pair[2]}

LEMMA BeforeIsWellFounded == IsWellFoundedOn(Before, Nat)
<1>1. Before = OpToRel(<, Nat)
  BY Zenon DEF OpToRel, Before
<1> QED
  BY <1>1, NatLessThanWellFounded

(* A set of natural numbers that is not empty has a least element.         *)
LEMMA NatLeast ==
  ASSUME NEW S, S \subseteq Nat, S # {}
  PROVE  \E x \in S : \A y \in S : x <= y
<1>1. \A x, y \in Nat : <<x, y>> \in Before <=> x < y
  BY DEF Before
<1>2. PICK x \in S : \A y \in S : ~(<<y, x>> \in Before)
  BY BeforeIsWellFounded, WFMin
<1>3. ASSUME NEW y \in S PROVE x <= y
  <2>1. x \in Nat /\ y \in Nat
    OBVIOUS
  <2>2. ~(y < x)
    BY <1>1, <1>2, <2>1
  <2> QED
    BY <2>1, <2>2
<1> QED
  BY <1>3

(* min() and max() of depths and lags, as the quorum source takes them.    *)
LEMMA SetMinIsLeast ==
  ASSUME NEW S, S \subseteq Nat, S # {}
  PROVE  SetMin(S) \in S /\ \A y \in S : SetMin(S) <= y
BY NatLeast DEF SetMin

LEMMA SetMaxIsGreatest ==
  ASSUME NEW S, NEW top \in Int, S \subseteq Int, S # {}, \A y \in S : y <= top
  PROVE  SetMax(S) \in S /\ \A y \in S : y <= SetMax(S)
<1> DEFINE gaps == {g \in Nat : \E y \in S : g = top - y}
<1>1. gaps \subseteq Nat /\ gaps # {}
  <2>1. PICK y \in S : TRUE
    OBVIOUS
  <2>2. top - y \in gaps
    OBVIOUS
  <2> QED
    BY <2>2
<1>2. PICK g \in gaps : \A h \in gaps : g <= h
  BY <1>1, NatLeast
<1>3. PICK x \in S : g = top - x
  OBVIOUS
<1>4. \A y \in S : x >= y
  <2> SUFFICES ASSUME NEW y \in S PROVE x >= y
    OBVIOUS
  <2>1. top - y \in gaps
    OBVIOUS
  <2>2. g <= top - y
    BY <1>2, <2>1
  <2> QED
    BY <1>3, <2>2
<1> QED
  BY <1>4 DEF SetMax

------------------------------------------------- (* what the gate was told *)

LEMMA BurialIsInt == Burial \in Int
<1> USE PoolAssumption, TowerAssumption DEF MarginPolicies, PolicyOK
<1>1. Policy.rxd_claim_burial \in Timelocks /\ Policy.block_interval_s \in Nat \ {0}
  OBVIOUS
<1>2. ReserveToBlocks(Policy.rxd_claim_burial, Policy.block_interval_s) \in Int
  BY <1>1 DEF ReserveToBlocks, Timelocks, CeilDiv
<1>3. ValueScaledBurialBlocks(Policy, Policy.value_at_risk_photons) \in Int
  <2> DEFINE v == Policy.value_at_risk_photons
             c == Policy.rxd_reorg_cost_per_block
  <2>1. CASE c = None \/ v = None
    BY <2>1 DEF ValueScaledBurialBlocks
  <2>2. CASE c # None /\ v # None
    <3>1. /\ v \in Nat /\ c \in Nat \ {0}
          /\ Policy.burial_safety_factor[1] \in Nat \ {0}
          /\ Policy.burial_safety_factor[2] \in Nat \ {0}
      BY <2>2
    <3>2. /\ v * Policy.burial_safety_factor[1] \in Int
          /\ Policy.burial_safety_factor[2] * c \in Nat \ {0}
      BY <3>1
    <3> QED
      BY <2>2, <3>2 DEF ValueScaledBurialBlocks, CeilDiv
  <2> QED
    BY <2>1, <2>2
<1> QED
  BY <1>2, <1>3 DEF Burial, RequiredBurial, MaxOf

(* A source that is behind by lag blocks under-states the covenant's depth *)
(* by no more than that.                                                   *)
LEMMA SourceDepth ==
  ASSUME NEW lag \in Nat, height \in Nat, lockedAt \in Nat
  PROVE  /\ SourceConfs(lag, height, lockedAt) \in Int
         /\ SourceConfs(lag, height, lockedAt) <= height + 1
         /\ MaxOf(SourceConfs(lag, height, lockedAt), 1) >= height - lag - lockedAt + 1
BY DEF SourceConfs, MaxOf, None

(* The deepest answer of the sources under-states it by no more than the   *)
(* freshest of them is behind.                                             *)
LEMMA QuorumDepth ==
  ASSUME NEW lags \in Lags, height \in Nat, lockedAt \in Nat,
         QuorumCovenantConfs(lags, height, lockedAt, Quorum).confs # None
  PROVE  LET q == QuorumCovenantConfs(lags, height, lockedAt, Quorum).confs
         IN  /\ q \in Int
             /\ \A s \in Reachable(lags) :
                  /\ lags[s] \in 0 .. MaxLag
                  /\ MaxOf(q, 1) >= height - lags[s] - lockedAt + 1
<1> DEFINE present == Present(lags, height, lockedAt)
           q == QuorumCovenantConfs(lags, height, lockedAt, Quorum).confs
<1>1. \A s \in Reachable(lags) : s \in Sources /\ lags[s] \in 0 .. MaxLag
  BY TowerAssumption DEF Reachable, Lags, Unreachable
<1>2. present # {} /\ q = SetMax(present)
  BY DEF QuorumCovenantConfs
<1>3. \A y \in present : y \in Int /\ y <= height + 1
  BY <1>1, TowerAssumption, SourceDepth DEF Present
<1>4. q \in present /\ \A y \in present : y <= q
  <2>1. height + 1 \in Int /\ present \subseteq Int
    BY <1>3
  <2> QED
    BY <1>2, <1>3, <2>1, SetMaxIsGreatest
<1>5. ASSUME NEW s \in Reachable(lags)
      PROVE  MaxOf(q, 1) >= height - lags[s] - lockedAt + 1
  <2> DEFINE d == SourceConfs(lags[s], height, lockedAt)
  <2>1. lags[s] \in Nat
    BY <1>1, TowerAssumption
  <2>2. d \in Int /\ MaxOf(d, 1) >= height - lags[s] - lockedAt + 1
    BY <2>1, SourceDepth
  <2>3. CASE d = None
    BY <1>3, <1>4, <2>1, <2>2, <2>3 DEF MaxOf, None
  <2>4. CASE d # None
    <3>1. d \in present
      BY <2>4 DEF Present
    <3>2. d <= q /\ q \in Int
      BY <1>3, <1>4, <3>1
    <3> HIDE DEF d, q
    <3> QED
      BY <2>1, <2>2, <3>2 DEF MaxOf
  <2> QED
    BY <2>3, <2>4
<1> QED
  BY <1>1, <1>3, <1>4, <1>5

(* A gate that says SAFE counted from a depth: the blocks it saw left are  *)
(* enough for the burial, and the maker's claim is deep.                   *)
LEMMA SafeMeansRoom ==
  ASSUME NEW funded \in Int, NEW confs \in Int, NEW depth,
         AssessClaimFinality(FromBtcDepth(depth, Depth), funded + MaxOf(confs, 1) - 1,
                             funded, Blocks(TRxd), Policy, None) = "SAFE"
  PROVE  depth >= Depth /\ TRxd + 1 - MaxOf(confs, 1) >= Burial
<1>1. BlocksLeft(funded + MaxOf(confs, 1) - 1, funded, Blocks(TRxd), Policy)
        = TRxd + 1 - MaxOf(confs, 1)
  BY TowerAssumption DEF BlocksLeft, NormalizeToBlocks, Blocks, MaxOf
<1>2. FromBtcDepth(depth, Depth).state = IF depth >= Depth THEN "FINAL" ELSE "NOT_YET_FINAL_LIVE"
  BY DEF FromBtcDepth
<1> QED
  BY <1>1, <1>2 DEF AssessClaimFinality, Burial

------------------------------------------------- (* the inductive invariant *)

(* The fee inputs the tower's claims are named by.                         *)
Fees == 1 .. Len(FeePool)

(* Only the fields the argument reads are typed.                           *)
Shape ==
  /\ {"pc", "funded"} \subseteq DOMAIN tower
  /\ height \in Nat /\ lockedAt \in Nat \cup {None}
  /\ pool \in [cursor : 0 .. Len(FeePool), dispensed : 0 .. Cap]
  /\ recarves \in Nat /\ crashes \in Nat

(* A wiring that is meant to keep the tower from paying twice.             *)
Guarded == wiring.mempoolAware \/ (wiring.seenWired /\ ~lost /\ crashes = 0)

(* What the covenant check found still holds when the depths are read.     *)
LockIsKnown == tower.pc = "depths" => lockedAt \in Nat /\ tower.funded \in Nat

(* Between the check and the broadcast, the mempool holds no claim that    *)
(* the tower has paid for.                                                 *)
NoClaimSlipsIn ==
  Guarded => recarves = 0 /\ (tower.pc \in {"depths", "send"} => flight \notin Fees)

(* A claim of the tower in the mempool is remembered, or about to be.      *)
FlyingIsSeen ==
  wiring.seenWired /\ ~lost /\ crashes = 0 =>
    (flight \in Fees => seen \/ tower.pc = "mark")

TowerInv == Shape /\ LockIsKnown /\ AutoClaimHadRoom /\ NoClaimSlipsIn /\ FlyingIsSeen

LEMMA TowerInvInit == Init => TowerInv
<1> SUFFICES ASSUME Init PROVE TowerInv
  OBVIOUS
<1>1. Shape
  BY PoolAssumption, TowerAssumption DEF Init, Shape, Idle
<1>2. flight \notin Fees
  BY PoolAssumption DEF Init, Fees, None
<1> QED
  BY <1>1, <1>2 DEF Init, TowerInv, LockIsKnown, AutoClaimHadRoom, NoClaimSlipsIn,
                    FlyingIsSeen, Idle

(* A step of the tower that ends the tick or moves its program counter to  *)
(* a place before the covenant check.                                      *)
LEMMA HarmlessTick ==
  ASSUME TowerInv, tower'.pc \notin {"depths", "send"}, tower.pc # "mark",
         {"pc", "funded"} \subseteq DOMAIN tower',
         UNCHANGED <<wiring, height, lockedAt, flight, seen, pool, shot, recarves, lost, crashes>>
  PROVE  TowerInv'
BY DEF TowerInv, Shape, LockIsKnown, AutoClaimHadRoom, NoClaimSlipsIn, FlyingIsSeen, Guarded

LEMMA ReassessKeepsInv ==
  ASSUME TowerInv, NEW lag \in 0 .. MaxLag, NEW lags \in Lags, Reassess(lag, lags)
  PROVE  TowerInv'
<1> USE DEF TowerInv
<1>p. tower.pc = "depths"
      /\ UNCHANGED <<wiring, height, lockedAt, flight, seen, pool, recarves, lost, crashes>>
  BY DEF Reassess, chain
<1>l. lockedAt \in Nat /\ tower.funded \in Nat /\ height \in Nat /\ lag \in Nat
  BY <1>p, TowerAssumption DEF LockIsKnown, Shape
<1> DEFINE node   == MaxOf(SourceConfs(lag, height, lockedAt), 0)
           quorum == QuorumCovenantConfs(lags, height, lockedAt, Quorum)
           confs  == IF wiring.corroborate THEN MaxOf(node, quorum.confs) ELSE node
           gate   == AssessClaimFinality(FromBtcDepth(btc.depth, Depth),
                       tower.funded + MaxOf(confs, 1) - 1, tower.funded, Blocks(TRxd),
                       Policy, None)
           passes == (wiring.corroborate => quorum.ok /\ quorum.confs # None) /\ gate = "SAFE"
           behind == IF wiring.corroborate
                     THEN SetMin({lags[s] : s \in Reachable(lags)} \cup {lag}) ELSE lag
<1>1. CASE ~passes
  <2>1. tower' = Idle /\ shot' = shot
    BY <1>1 DEF Reassess, EndTick
  <2> QED
    BY <2>1, <1>p, HarmlessTick DEF Idle
<1>2. CASE passes
  <2>1. /\ tower' = [tower EXCEPT !.pc = "send"]
        /\ shot' = [left |-> lockedAt + TRxd - height, depth |-> btc.depth, behind |-> behind]
    BY <1>2 DEF Reassess
  <2>2. node \in Int /\ MaxOf(node, 1) >= height - lag - lockedAt + 1
    BY <1>l, SourceDepth DEF MaxOf
  <2>3. confs \in Int /\ behind \in Nat /\ MaxOf(confs, 1) >= height - behind - lockedAt + 1
    <3>1. CASE ~wiring.corroborate
      BY <1>l, <2>2, <3>1
    <3>2. CASE wiring.corroborate
      <4> DEFINE q == quorum.confs
                 ls == {lags[s] : s \in Reachable(lags)} \cup {lag}
      <4>1. /\ q \in Int
            /\ \A s \in Reachable(lags) :
                 /\ lags[s] \in 0 .. MaxLag
                 /\ MaxOf(q, 1) >= height - lags[s] - lockedAt + 1
        BY <1>2, <1>l, <3>2, QuorumDepth
      <4>2. ls \subseteq Nat /\ ls # {}
        BY <1>l, <4>1, TowerAssumption
      <4>3. behind = SetMin(ls)
        BY <3>2
      <4>4. behind \in ls
        BY <4>2, <4>3, SetMinIsLeast
      <4>5. confs = MaxOf(node, q)
        BY <3>2
      <4>6. CASE behind = lag
        <5> HIDE DEF q, behind, node, confs
        <5> QED
          BY <1>l, <2>2, <4>1, <4>5, <4>6 DEF MaxOf
      <4>7. CASE behind # lag
        <5>1. PICK s \in Reachable(lags) : behind = lags[s]
          BY <4>4, <4>7
        <5>2. behind \in Nat /\ MaxOf(q, 1) >= height - behind - lockedAt + 1
          BY <4>1, <5>1, TowerAssumption
        <5> HIDE DEF q, behind, node, confs
        <5> QED
          BY <1>l, <2>2, <4>1, <4>5, <5>2 DEF MaxOf
      <4> QED
        BY <4>6, <4>7
    <3> QED
      BY <3>1, <3>2
  <2>4. btc.depth >= Depth /\ TRxd + 1 - MaxOf(confs, 1) >= Burial
    BY <1>2, <1>l, <2>3, SafeMeansRoom
  <2> HIDE DEF behind, confs, node, quorum, gate, passes
  <2>5. (lockedAt + TRxd - height) + behind >= Burial
    BY <1>l, <2>3, <2>4, BurialIsInt, TowerAssumption DEF MaxOf
  <2>6. AutoClaimHadRoom'
    BY <2>1, <2>4, <2>5 DEF AutoClaimHadRoom, Depth, Burial
  <2>7. tower'.pc = "send" /\ {"pc", "funded"} \subseteq DOMAIN tower'
    BY <2>1 DEF Shape
  <2> QED
    BY <1>p, <2>6, <2>7 DEF Shape, LockIsKnown, NoClaimSlipsIn, FlyingIsSeen, Guarded
<1> QED
  BY <1>1, <1>2

LEMMA ClaimAssetKeepsInv ==
  ASSUME TowerInv, NEW lag \in 0 .. MaxLag, NEW answer \in {"ok", "lost", "error"},
         ClaimAsset(lag, answer)
  PROVE  TowerInv'
<1> USE DEF TowerInv
<1>p. tower.pc = "send" /\ UNCHANGED <<wiring, height, lockedAt, seen, shot, crashes>>
  BY DEF ClaimAsset
<1>1. CASE ~UnspentSeen(lag) \/ ~FeeAvailable
  <2>1. tower' = Idle /\ UNCHANGED <<flight, pool, recarves, lost>>
    BY <1>1 DEF ClaimAsset, EndTick
  <2> QED
    BY <1>p, <2>1, HarmlessTick DEF Idle
<1>2. CASE UnspentSeen(lag) /\ FeeAvailable
  <2>1. /\ Dispense
        /\ lost' = (lost \/ (Accepts(NextFee) /\ answer = "lost"))
        /\ flight' = IF Accepts(NextFee) /\ answer # "error" THEN NextFee ELSE flight
        /\ tower' = IF Accepts(NextFee) /\ answer = "ok"
                    THEN [tower EXCEPT !.pc = "mark"] ELSE Idle
    BY <1>2 DEF ClaimAsset
  <2>2. /\ tower'.pc = IF Accepts(NextFee) /\ answer = "ok" THEN "mark" ELSE "idle"
        /\ {"pc", "funded"} \subseteq DOMAIN tower'
    BY <2>1 DEF Shape, Idle
  <2>3. pool.cursor \in Nat /\ pool.cursor < Len(FeePool) /\ Len(FeePool) \in Nat
        /\ FeePool[NextFee] \in Nat /\ NextFee \in 1 .. Len(FeePool)
    <3>1. pool.cursor \in 0 .. Len(FeePool) /\ pool.cursor < Len(FeePool)
      BY <1>2 DEF Shape, FeeAvailable
    <3>2. FeePool \in Seq(Nat \ {0}) /\ Len(FeePool) \in Nat
      BY PoolAssumption
    <3>3. NextFee \in 1 .. Len(FeePool)
      BY <3>1, <3>2 DEF NextFee
    <3> QED
      BY <3>1, <3>2, <3>3
  <2>4. Shape'
    <3>1. pool' = [cursor |-> NextFee, dispensed |-> pool.dispensed + FeePool[NextFee]]
      BY <2>1 DEF Dispense
    <3>2. pool.dispensed + FeePool[NextFee] \in 0 .. Cap
      BY <1>2, <2>3, PoolAssumption DEF FeeAvailable, Shape
    <3>3. pool' \in [cursor : 0 .. Len(FeePool), dispensed : 0 .. Cap]
      BY <2>3, <3>1, <3>2
    <3>4. recarves' \in Nat
      BY <2>1 DEF Dispense, Shape
    <3> QED
      BY <1>p, <2>2, <3>3, <3>4 DEF Shape
  <2>5. NoClaimSlipsIn'
    <3> SUFFICES ASSUME Guarded' PROVE recarves' = 0
      BY <2>2 DEF NoClaimSlipsIn
    <3>1. Guarded
      BY <1>p, <2>1 DEF Guarded
    <3>2. recarves = 0 /\ flight \notin Fees
      BY <1>p, <3>1 DEF NoClaimSlipsIn
    <3> QED
      BY <2>1, <3>2 DEF Dispense, Fees
  <2>6. FlyingIsSeen'
    <3> SUFFICES ASSUME wiring.seenWired, ~lost', crashes = 0, flight' \in Fees
                 PROVE  seen \/ tower'.pc = "mark"
      BY <1>p DEF FlyingIsSeen
    <3>1. ~lost /\ ~(Accepts(NextFee) /\ answer = "lost")
      BY <2>1
    <3>2. CASE Accepts(NextFee) /\ answer # "error"
      BY <2>2, <3>1, <3>2
    <3>3. CASE ~(Accepts(NextFee) /\ answer # "error")
      <4>1. flight' = flight
        BY <2>1, <3>3
      <4> QED
        BY <1>p, <3>1, <4>1 DEF FlyingIsSeen
    <3> QED
      BY <3>2, <3>3
  <2>7. LockIsKnown' /\ AutoClaimHadRoom'
    BY <1>p, <2>2 DEF LockIsKnown, AutoClaimHadRoom
  <2> QED
    BY <2>4, <2>5, <2>6, <2>7
<1> QED
  BY <1>1, <1>2

LEMMA TowerStepKeepsInv ==
  ASSUME TowerInv, TowerStep
  PROVE  TowerInv'
<1> USE DEF TowerInv
<1>1. ASSUME NEW lags \in Lags, ObserveRxd(lags) PROVE TowerInv'
  <2>1. /\ tower.pc = "idle" /\ tower'.pc = "observed"
        /\ {"pc", "funded"} \subseteq DOMAIN tower'
    BY <1>1 DEF ObserveRxd, Shape
  <2> QED
    BY <1>1, <2>1, HarmlessTick DEF ObserveRxd, chain
<1>2. CASE ObserveBtcAndDecide
  <2>1. /\ tower.pc = "observed" /\ tower'.pc \in {"execute", "idle"}
        /\ {"pc", "funded"} \subseteq DOMAIN tower'
    BY <1>2 DEF ObserveBtcAndDecide, Idle
  <2> QED
    BY <1>2, <2>1, HarmlessTick DEF ObserveBtcAndDecide, chain
<1>3. CASE ReadFails \/ BroadcastRefund
  <2>1. tower.pc # "mark" /\ tower' = Idle
    BY <1>3 DEF ReadFails, BroadcastRefund, EndTick
  <2>2. UNCHANGED <<wiring, height, lockedAt, flight, seen, pool, shot, recarves, lost, crashes>>
    BY <1>3 DEF ReadFails, BroadcastRefund, chain
  <2> QED
    BY <2>1, <2>2, HarmlessTick DEF Idle
<1>4. CASE CheckClaim
  <2>1. /\ tower.pc = "execute" /\ tower'.pc \in {"covenant", "idle"}
        /\ {"pc", "funded"} \subseteq DOMAIN tower'
    BY <1>4 DEF CheckClaim, EndTick, Idle, Shape
  <2> QED
    BY <1>4, <2>1, HarmlessTick DEF CheckClaim, chain
<1>5. CASE MarkSeen
  <2>1. /\ tower' = Idle /\ seen' = wiring.seenWired
        /\ UNCHANGED <<wiring, height, lockedAt, flight, pool, shot, recarves, lost, crashes>>
    BY <1>5 DEF MarkSeen, EndTick, chain
  <2> QED
    BY <2>1 DEF Shape, LockIsKnown, AutoClaimHadRoom, NoClaimSlipsIn, FlyingIsSeen, Guarded, Idle
<1>6. ASSUME NEW lag \in 0 .. MaxLag, CheckCovenant(lag) PROVE TowerInv'
  <2> DEFINE passes == /\ UnspentSeen(lag)
                       /\ ~(wiring.mempoolAware /\ (flight # None \/ spentAt # None))
                       /\ ~(wiring.seenWired /\ seen)
  <2>p. tower.pc = "covenant"
        /\ UNCHANGED <<wiring, height, lockedAt, flight, seen, pool, shot, recarves, lost, crashes>>
    BY <1>6 DEF CheckCovenant, chain
  <2>1. CASE ~passes
    <3>1. tower' = Idle
      BY <1>6, <2>1 DEF CheckCovenant, EndTick
    <3> QED
      BY <2>p, <3>1, HarmlessTick DEF Idle
  <2>2. CASE passes
    <3>1. tower' = [tower EXCEPT !.pc = "depths", !.funded = lockedAt]
      BY <1>6, <2>2 DEF CheckCovenant
    <3>2. /\ tower'.pc = "depths" /\ tower'.funded = lockedAt
          /\ {"pc", "funded"} \subseteq DOMAIN tower'
      BY <3>1 DEF Shape
    <3>3. lockedAt \in Nat
      BY <2>2 DEF UnspentSeen, SourceConfs, Shape
    <3>4. NoClaimSlipsIn'
      <4> SUFFICES ASSUME Guarded PROVE recarves = 0 /\ flight \notin Fees
        BY <2>p DEF NoClaimSlipsIn, Guarded
      <4>1. recarves = 0
        BY DEF NoClaimSlipsIn
      <4>2. CASE wiring.mempoolAware
        BY <2>2, <4>1, <4>2, PoolAssumption DEF Fees, None
      <4>3. CASE wiring.seenWired /\ ~lost /\ crashes = 0
        BY <2>p, <2>2, <4>1, <4>3 DEF FlyingIsSeen
      <4> QED
        BY <4>2, <4>3 DEF Guarded
    <3> QED
      BY <2>p, <3>2, <3>3, <3>4 DEF Shape, LockIsKnown, AutoClaimHadRoom, FlyingIsSeen
  <2> QED
    BY <2>1, <2>2
<1> QED
  BY <1>1, <1>2, <1>3, <1>4, <1>5, <1>6, ReassessKeepsInv, ClaimAssetKeepsInv DEF TowerStep

(* The chains, the maker and the coordinator put no claim of the tower     *)
(* into the mempool, and the lock they know of stays where it is.          *)
LEMMA WorldStep ==
  ASSUME TowerInv, UNCHANGED <<wiring, tower, seen, pool, shot, recarves, lost, crashes>>,
         height' \in Nat, flight' = flight \/ flight' \notin Fees,
         lockedAt' = lockedAt \/ (lockedAt = None /\ lockedAt' \in Nat)
  PROVE  TowerInv'
<1>1. lockedAt \in Nat => lockedAt' \in Nat
  BY DEF None
<1> QED
  BY <1>1 DEF TowerInv, Shape, LockIsKnown, AutoClaimHadRoom, NoClaimSlipsIn, FlyingIsSeen, Guarded

LEMMA TowerInvNext ==
  ASSUME TowerInv, [Next]_vars
  PROVE  TowerInv'
<1>n. None \notin Fees /\ Own \notin Fees /\ height \in Nat
  BY PoolAssumption DEF Fees, None, Own, TowerInv, Shape
<1>1. CASE TowerStep
  BY <1>1, TowerStepKeepsInv
<1>2. ASSUME NEW what \in {"empty", "lock", "claim", "refund"}, RxdBlock(what)
      PROVE  TowerInv'
  <2>1. /\ UNCHANGED <<wiring, tower, seen, pool, shot, recarves, lost, crashes>>
        /\ height' = height + 1
    BY <1>2 DEF RxdBlock
  <2>2. flight' = flight \/ flight' = None
    BY <1>2 DEF RxdBlock
  <2>3. lockedAt' = lockedAt \/ (lockedAt = None /\ lockedAt' = height')
    BY <1>2 DEF RxdBlock
  <2> QED
    BY <1>n, <2>1, <2>2, <2>3, WorldStep
<1>3. CASE Evict \/ MakerClaims \/ BtcBlock \/ BtcReorg \/ CoordinatorClaims
  <2>1. /\ UNCHANGED <<wiring, tower, seen, pool, shot, recarves, lost, crashes, height, lockedAt>>
        /\ flight' = flight \/ flight' = None \/ flight' = Own
    BY <1>3 DEF Evict, MakerClaims, BtcBlock, BtcReorg, CoordinatorClaims
  <2> QED
    BY <1>n, <2>1, WorldStep
<1>4. ASSUME NEW to \in SwapStates, CoordinatorWrites(to) PROVE TowerInv'
  BY <1>4, <1>n, WorldStep DEF CoordinatorWrites, chain
<1>5. CASE Crash
  <2>1. /\ tower'.pc = "down" /\ {"pc", "funded"} \subseteq DOMAIN tower'
        /\ crashes' = crashes + 1 /\ pool' = [cursor |-> 0, dispensed |-> 0]
        /\ UNCHANGED <<wiring, height, lockedAt, flight, shot, recarves, lost>>
    BY <1>5 DEF Crash, Idle, chain
  <2>2. crashes' \in Nat /\ crashes' # 0
    BY <2>1 DEF TowerInv, Shape
  <2>3. pool' \in [cursor : 0 .. Len(FeePool), dispensed : 0 .. Cap]
    BY <2>1, PoolAssumption
  <2> QED
    BY <2>1, <2>2, <2>3
    DEF TowerInv, Shape, LockIsKnown, AutoClaimHadRoom, NoClaimSlipsIn, FlyingIsSeen, Guarded
<1>6. CASE Restart
  <2>1. tower.pc = "down" /\ tower' = Idle
        /\ UNCHANGED <<wiring, height, lockedAt, flight, seen, pool, shot, recarves, lost, crashes>>
    BY <1>6 DEF Restart, chain
  <2> QED
    BY <2>1, HarmlessTick DEF Idle
<1>7. CASE UNCHANGED vars
  BY <1>7, <1>n, WorldStep DEF vars, chain
<1> QED
  BY <1>1, <1>2, <1>3, <1>4, <1>5, <1>6, <1>7 DEF Next

(* What a tick found out is still true where it is used, in every          *)
(* reachable state of the tower.                                           *)
THEOREM TowerInvariant == Spec => []TowerInv
<1>1. TowerInv /\ [Next]_vars => TowerInv'
  BY TowerInvNext
<1> QED
  BY <1>1, TowerInvInit, PTL DEF Spec

(* AutoClaimHadRoom: for any lag and any failures of the sources, a claim  *)
(* is sent by the tower only after a moment at which the maker's claim was *)
(* deep enough and, up to how far behind the freshest answer was, the      *)
(* burial still fitted before the maker's refund (claim_executor.py).      *)
THEOREM ClaimsHaveRoom == Spec => []AutoClaimHadRoom
<1>1. TowerInv => AutoClaimHadRoom
  BY DEF TowerInv
<1> QED
  BY <1>1, TowerInvariant, PTL

(* FeesAreContained: over all ticks and retries of a process its fee       *)
(* source stays below the cap, and with one of the two guards no fee is    *)
(* carved for a covenant that a claim of the tower is already spending     *)
(* (capped_fee_source.py, claim_executor.py).                              *)
THEOREM FeesStayContained == Spec => []FeesAreContained
<1>1. TowerInv => FeesAreContained
  BY PoolAssumption
  DEF TowerInv, Shape, NoClaimSlipsIn, Guarded, FeesAreContained, NoRecarve
<1> QED
  BY <1>1, TowerInvariant, PTL

------------------------------------------------------- (* the ETH tower *)

EthEvents == {"none", "deploy", "Claimed", "odd", "Refunded", "reverted"}
EthBlocks == [event : EthEvents, fork : Nat]
Judged == {"decide", "receipt", "canonical", "finalized", "checkpoint", "head", "final"}
Ticks ==
  [pc : {"idle", "covenant", "deploy", "logs"} \cup Judged,
   state : {"none", "BOTH_LOCKED", "SECRET_REVEALED"}, tip : Int, lockedAt : Int,
   tx : EthEvents, at : Int, fork : Int, finalized : Int, movedAt : Int,
   claimed : BOOLEAN, truth : BOOLEAN, reorged : BOOLEAN]

EthChainType ==
  /\ claimEvent \in {"Claimed", "odd"} /\ eth \in Seq(EthBlocks)
  /\ final \in Nat /\ movedAt \in Nat /\ forks \in Nat /\ rxd \in Nat
  /\ final <= Tip /\ movedAt <= Tip

EthTowerType ==
  /\ state \in {"BOTH_LOCKED", "SECRET_REVEALED"}
  /\ ethTower \in Ticks
  /\ tracker \in [stuck : Int, start : Int] /\ sampled \in Int

(* One contract, claimed or refunded after its deploy, and claimed with    *)
(* its own event.                                                          *)
OneContract ==
  /\ \A n \in DOMAIN eth : eth[n].event \in {"Claimed", "odd"} => eth[n].event = claimEvent
  /\ \A m, n \in DOMAIN eth : eth[m].event = "deploy" /\ eth[n].event = "deploy" => m = n
  /\ \A n \in DOMAIN eth : eth[n].event = claimEvent =>
       \E m \in DOMAIN eth : m < n /\ eth[m].event = "deploy"
  /\ \A m, n \in DOMAIN eth : eth[m].event = claimEvent => eth[n].event # "Refunded"

(* What a tick has read stands while no block is undone under it.          *)
TickStands ==
  /\ ethTower.pc # "idle" => ethTower.state # "none"
  /\ ethTower.pc \in {"covenant", "deploy"} => ~ethTower.claimed
  /\ ethTower.pc = "logs" =>
       ethTower.at \in Nat \ {0} /\ (~ethTower.reorged => ethTower.at \in At("deploy"))
  /\ ethTower.pc \in {"receipt", "canonical", "finalized"} => ethTower.tx = claimEvent
  /\ ethTower.pc \in {"canonical", "finalized"} =>
       ethTower.at \in Nat \ {0} /\ (~ethTower.reorged => ethTower.at \in At(claimEvent))
  /\ ethTower.pc = "final" /\ ~ethTower.reorged => \E n \in At(claimEvent) : n <= final
  /\ ethTower.pc \in Judged /\ ~ethTower.reorged => ethTower.claimed = ethTower.truth

(* A run of the tracker began no earlier than finalization stopped, and it *)
(* is the run of what this process has sampled since.                      *)
RunIsOfFinal ==
  /\ tracker.stuck <= final
  /\ tracker.stuck = final => tracker.start >= movedAt
  /\ sampled # None => tracker.stuck = final /\ tracker.start = sampled
  /\ sampled = None => tracker.stuck # final

(* ... also for a checkpoint that a tick has read and not yet judged.      *)
CheckpointStands ==
  ethTower.pc = "head" =>
    /\ ethTower.finalized \in Nat /\ ethTower.finalized <= final
    /\ ethTower.finalized # final => sampled = None
    /\ tracker.stuck = ethTower.finalized => tracker.start >= ethTower.movedAt

(* What holds whether or not the endpoint's nodes lag, and what of the     *)
(* stall tracker holds when they do not.                                   *)
EthReadInv ==
  EthChainType /\ EthTowerType /\ OneContract /\ TickStands /\ ClaimIsSeen /\ ClaimPageIsFinal

EthStallInv == RunIsOfFinal /\ CheckpointStands /\ StallIsReal /\ StallIsPaged

LEMMA EthBlocksOf ==
  ASSUME EthChainType
  PROVE  /\ Tip \in Nat /\ DOMAIN eth = 1 .. Tip
         /\ \A n \in 1 .. Tip : eth[n] \in EthBlocks /\ eth[n].event \in EthEvents
<1>1. eth \in Seq(EthBlocks)
  BY DEF EthChainType
<1>2. /\ Tip \in Nat /\ DOMAIN eth = 1 .. Tip
      /\ \A n \in 1 .. Tip : eth[n] \in EthBlocks
  BY <1>1, LenProperties, ElementOfSeq DEF Tip
<1> QED
  BY <1>2 DEF EthBlocks

(* The log scan finds the claim of this contract, and nothing else.        *)
LEMMA ClaimStatusCases ==
  ASSUME EthChainType, OneContract, NEW from \in Nat \ {0}
  PROVE  /\ ClaimStatus(from) \in {"none", claimEvent}
         /\ from \in At("deploy") => (ClaimStatus(from) # "none" <=> Claimed)
<1> DEFINE logs == Logs(from)
<1>1. /\ Tip \in Nat /\ DOMAIN eth = 1 .. Tip
      /\ \A n \in 1 .. Tip : eth[n].event \in EthEvents
  BY EthBlocksOf
<1>2. claimEvent \in {"Claimed", "odd"}
  BY DEF EthChainType
<1>3. \A n \in logs : n \in 1 .. Tip /\ eth[n].event \in {claimEvent, "Refunded"}
  BY <1>1, <1>2 DEF Logs, OneContract
<1>4. \A n \in 1 .. Tip : n >= from /\ eth[n].event = claimEvent => n \in logs
  BY <1>1, <1>2 DEF Logs
<1>5. \A m, n \in logs : eth[m].event = claimEvent => eth[n].event # "Refunded"
  BY <1>1, <1>3 DEF OneContract
<1>6. CASE \E n \in logs : eth[n].event = claimEvent
  <2>1. \A n \in logs : eth[n].event = claimEvent
    BY <1>3, <1>5, <1>6
  <2>2. SetMax(logs) \in logs
    <3>1. logs \subseteq Int /\ logs # {} /\ \A y \in logs : y <= Tip
      BY <1>1, <1>3, <1>6
    <3>2. Tip \in Int
      BY <1>1
    <3> HIDE DEF logs
    <3> QED
      BY <3>1, <3>2, SetMaxIsGreatest
  <2>3. ~(\A n \in logs : eth[n].event = "Refunded")
    BY <1>2, <1>6
  <2>4. ClaimStatus(from) = claimEvent
    BY <1>2, <2>1, <2>2, <2>3 DEF ClaimStatus
  <2>5. Claimed
    BY <1>1, <1>3, <1>6 DEF Claimed, At
  <2> QED
    BY <1>2, <2>4, <2>5
<1>7. CASE \A n \in logs : eth[n].event # claimEvent
  <2>1. \A n \in logs : eth[n].event = "Refunded"
    BY <1>3, <1>7
  <2>2. ClaimStatus(from) = "none"
    BY <2>1 DEF ClaimStatus
  <2>3. from \in At("deploy") => ~Claimed
    <3> SUFFICES ASSUME from \in At("deploy"), Claimed PROVE FALSE
      OBVIOUS
    <3>1. PICK n \in DOMAIN eth : eth[n].event = claimEvent
      BY DEF Claimed, At
    <3>2. PICK m \in DOMAIN eth : m < n /\ eth[m].event = "deploy"
      BY <3>1 DEF OneContract
    <3>3. m = from
      BY <3>2 DEF OneContract, At
    <3>4. n \in logs
      BY <1>1, <1>4, <3>1, <3>2, <3>3
    <3> QED
      BY <1>7, <3>1, <3>4
  <2> QED
    BY <2>2, <2>3
<1> QED
  BY <1>6, <1>7

EthVerdicts == {"none", "FINAL", "NOT_YET_FINAL_LIVE", "COUNTER_CHAIN_NOT_FINALIZING"}

(* decide on an ETH swap: a claim is paged on a final verdict only, and a  *)
(* stalled one is squeezed whatever time is left.                          *)
LEMMA EthDecides ==
  ASSUME ethTower \in Ticks, ethTower.state # "none", NEW verdict \in EthVerdicts
  PROVE  LET intent == Decide(ethTower.state, EthTerms, Obs(verdict), EthPolicy, EthWindow).intent
         IN  /\ intent = "PAGE_CLAIM" => verdict = "FINAL"
             /\ ethTower.claimed /\ verdict = "COUNTER_CHAIN_NOT_FINALIZING"
                  => intent = "PAGE_SQUEEZED"
<1> DEFINE obs == Obs(verdict)
           race == DecideClaimRace(EthTerms, obs, EthPolicy)
           gate == AssessClaimFinality(ObservedFinality(EthTerms, obs, EthPolicy), obs.now,
                                       obs.lockedAt, EthTerms.tRxd, EthPolicy, EthTerms.value)
           quiet == DecideBothLocked(EthTerms, obs, EthPolicy, EthWindow)
<1>1. ethTower.state \in {"BOTH_LOCKED", "SECRET_REVEALED"} /\ ethTower.claimed \in BOOLEAN
  BY DEF Ticks
<1>2. EthTerms.chain = "eth" /\ obs.finality = verdict /\ obs.claimed = ethTower.claimed
  BY DEF EthTerms, Obs
<1>3. ObservedFinality(EthTerms, obs, EthPolicy).state = verdict
  BY <1>2 DEF ObservedFinality
<1>4. /\ gate \in {"RAISE", "SAFE", "WAIT", "SQUEEZED"}
      /\ gate = "SAFE" => verdict = "FINAL"
      /\ verdict = "COUNTER_CHAIN_NOT_FINALIZING" => gate \in {"RAISE", "SQUEEZED"}
  BY <1>3 DEF AssessClaimFinality
<1> HIDE DEF gate
<1>5. /\ race.intent = "PAGE_CLAIM" => verdict = "FINAL"
      /\ verdict = "COUNTER_CHAIN_NOT_FINALIZING" => race.intent = "PAGE_SQUEEZED"
  <2>1. CASE ~Assessable(EthTerms, obs)
    BY <2>1 DEF DecideClaimRace, Decision
  <2>2. CASE Assessable(EthTerms, obs)
    <3>1. race.intent = CASE gate = "RAISE" -> "PAGE_SQUEEZED" [] gate = "SAFE" -> "PAGE_CLAIM"
                          [] gate = "WAIT" -> "WATCH" [] gate = "SQUEEZED" -> "PAGE_SQUEEZED"
      BY <2>2, <1>4 DEF DecideClaimRace, Decision, gate
    <3> QED
      BY <3>1, <1>4
  <2> QED
    BY <2>1, <2>2
<1>6. quiet.intent \in {"WATCH", "PAGE_REFUND"}
  BY DEF DecideBothLocked, Decision
<1> HIDE DEF obs, race, quiet
<1>7. ~IsTerminal(ethTower.state)
  BY <1>1 DEF IsTerminal, TerminalStates
<1>8. Decide(ethTower.state, EthTerms, obs, EthPolicy, EthWindow)
        = DecideEth(ethTower.state, EthTerms, obs, EthPolicy, EthWindow)
  BY <1>2, <1>7 DEF Decide
<1>9. CASE ethTower.claimed \/ ethTower.state = "SECRET_REVEALED"
  <2>1. Decide(ethTower.state, EthTerms, obs, EthPolicy, EthWindow) = race
    BY <1>1, <1>2, <1>8, <1>9 DEF DecideEth, race
  <2> QED
    BY <1>5, <2>1 DEF obs
<1>10. CASE ~ethTower.claimed /\ ethTower.state = "BOTH_LOCKED"
  <2>1. Decide(ethTower.state, EthTerms, obs, EthPolicy, EthWindow) = quiet
    BY <1>1, <1>2, <1>8, <1>10 DEF DecideEth, quiet
  <2> QED
    BY <1>6, <1>10, <2>1 DEF obs
<1> QED
  BY <1>1, <1>9, <1>10

LEMMA EthInvInit == EthInit => EthReadInv /\ EthStallInv
<1> SUFFICES ASSUME EthInit PROVE EthReadInv /\ EthStallInv
  OBVIOUS
<1> USE EthTowerAssumption DEF EthInit
<1>1. eth = <<[event |-> "deploy", fork |-> 0]>> /\ Tip = 1 /\ DOMAIN eth = 1 .. 1
      /\ eth[1].event = "deploy"
  BY DEF Tip
<1>2. [event |-> "deploy", fork |-> 0] \in EthBlocks
  BY DEF EthBlocks, EthEvents
<1>3. EthChainType
  BY <1>1, <1>2 DEF EthChainType
<1>4. EthTowerType
  BY DEF EthTowerType, EthIdle, Ticks, NoRun, None, EthEvents
<1>5. OneContract
  BY <1>1 DEF OneContract
<1>6. TickStands
  BY DEF TickStands, EthIdle, Judged
<1>7. ClaimIsSeen /\ ClaimPageIsFinal /\ StallIsReal /\ StallIsPaged
  BY DEF ClaimIsSeen, ClaimPageIsFinal, StallIsReal, StallIsPaged, NoOut
<1>8. RunIsOfFinal /\ CheckpointStands
  BY DEF RunIsOfFinal, CheckpointStands, NoRun, EthIdle, None
<1> QED
  BY <1>3, <1>4, <1>5, <1>6, <1>7, <1>8 DEF EthReadInv, EthStallInv

------------------------------------- (* what a tick reads, and the claim *)

(* A read changes nothing but the tick.                                    *)
LEMMA ReadKeeps ==
  ASSUME EthReadInv, UNCHANGED <<ethChain, state, tracker, sampled, out>>,
         ethTower' \in Ticks, TickStands'
  PROVE  EthReadInv'
<1> USE DEF ethChain
<1>1. EthChainType' /\ EthTowerType' /\ OneContract'
  BY DEF EthReadInv, EthChainType, EthTowerType, OneContract, Tip
<1>2. ClaimIsSeen' /\ ClaimPageIsFinal'
  BY DEF EthReadInv, ClaimIsSeen, ClaimPageIsFinal, At
<1> QED
  BY <1>1, <1>2 DEF EthReadInv

(* A tick that ends says of the claim what it read, and no more.           *)
LEMMA EndKeeps ==
  ASSUME EthReadInv, UNCHANGED <<ethChain, state>>, ethTower' = EthIdle,
         tracker' \in [stuck : Int, start : Int], sampled' \in Int,
         ClaimIsSeen', ClaimPageIsFinal'
  PROVE  EthReadInv'
<1> USE DEF ethChain
<1>1. EthChainType' /\ OneContract'
  BY DEF EthReadInv, EthChainType, OneContract, Tip
<1>2. EthIdle \in Ticks
  BY DEF EthIdle, Ticks, None, EthEvents
<1>3. EthTowerType' /\ TickStands'
  BY <1>2 DEF EthReadInv, EthTowerType, TickStands, EthIdle, Judged
<1> QED
  BY <1>1, <1>3 DEF EthReadInv

(* Without a read: the chain grows, or the last block goes.                *)
LEMMA MineKeeps == EthReadInv /\ Mine => EthReadInv'
<1> SUFFICES ASSUME EthReadInv, Mine PROVE EthReadInv'
  OBVIOUS
<1>1. EthChainType /\ EthTowerType /\ OneContract /\ TickStands /\ ClaimIsSeen /\ ClaimPageIsFinal
  BY DEF EthReadInv
<1>2. /\ Tip \in Nat /\ DOMAIN eth = 1 .. Tip
      /\ \A n \in 1 .. Tip : eth[n] \in EthBlocks /\ eth[n].event \in EthEvents
  BY <1>1, EthBlocksOf
<1>3. PICK event \in {"none", "deploy", claimEvent, "Refunded", "reverted"} :
        /\ event = "deploy" => ~Deployed
        /\ event \in {claimEvent, "Refunded"} => Deployed /\ ~Claimed /\ ~Refunded
        /\ eth' = Append(eth, [event |-> event, fork |-> forks])
  BY DEF Mine
<1>4. UNCHANGED <<claimEvent, final, movedAt, forks, rxd, state, ethTower, tracker, sampled, out>>
  BY DEF Mine
<1>5. claimEvent \in {"Claimed", "odd"} /\ eth \in Seq(EthBlocks) /\ forks \in Nat
  BY <1>1 DEF EthChainType
<1>6. [event |-> event, fork |-> forks] \in EthBlocks
  BY <1>3, <1>5 DEF EthBlocks, EthEvents
<1>7. /\ eth' \in Seq(EthBlocks) /\ Tip' = Tip + 1 /\ DOMAIN eth' = 1 .. Tip + 1
      /\ \A n \in 1 .. Tip : eth'[n] = eth[n]
      /\ eth'[Tip + 1].event = event
  BY <1>2, <1>3, <1>5, <1>6 DEF Tip
<1>8. EthChainType'
  BY <1>1, <1>2, <1>4, <1>7 DEF EthChainType
<1>9. EthTowerType' /\ ClaimIsSeen'
  BY <1>1, <1>4 DEF EthTowerType, ClaimIsSeen
<1>10. \A e : At(e) \subseteq {n \in DOMAIN eth' : eth'[n].event = e}
  BY <1>2, <1>7 DEF At
<1>11. TickStands' /\ ClaimPageIsFinal'
  <2>1. At("deploy") \subseteq At("deploy")' /\ At(claimEvent) \subseteq At(claimEvent)'
    BY <1>4, <1>10 DEF At
  <2>2. TickStands'
    BY <1>1, <1>4, <2>1 DEF TickStands
  <2>3. ClaimPageIsFinal'
    BY <1>1, <1>4, <2>1 DEF ClaimPageIsFinal
  <2> QED
    BY <2>2, <2>3
<1>12. OneContract'
  <2>1. /\ event = "deploy" => \A n \in 1 .. Tip : eth[n].event # "deploy"
        /\ event = claimEvent => \E m \in 1 .. Tip : eth[m].event = "deploy"
        /\ event = claimEvent => \A n \in 1 .. Tip : eth[n].event # "Refunded"
        /\ event = "Refunded" => \A n \in 1 .. Tip : eth[n].event # claimEvent
    BY <1>2, <1>3 DEF Deployed, Claimed, Refunded, At
  <2>2. \A n \in DOMAIN eth' : n \in 1 .. Tip \/ n = Tip + 1
    BY <1>2, <1>7
  <2>3. \A n \in 1 .. Tip : n \in DOMAIN eth' /\ n < Tip + 1
    BY <1>2, <1>7
  <2>4. \A n \in DOMAIN eth' : eth'[n].event \in {"Claimed", "odd"} => eth'[n].event = claimEvent'
    BY <1>1, <1>2, <1>3, <1>4, <1>5, <1>7, <2>2 DEF OneContract
  <2>5. \A m, n \in DOMAIN eth' :
          eth'[m].event = "deploy" /\ eth'[n].event = "deploy" => m = n
    BY <1>1, <1>2, <1>7, <2>1, <2>2 DEF OneContract
  <2>6. \A n \in DOMAIN eth' : eth'[n].event = claimEvent' =>
          \E m \in DOMAIN eth' : m < n /\ eth'[m].event = "deploy"
    BY <1>1, <1>2, <1>4, <1>7, <2>1, <2>2, <2>3 DEF OneContract
  <2>7. \A m, n \in DOMAIN eth' : eth'[m].event = claimEvent' => eth'[n].event # "Refunded"
    BY <1>1, <1>2, <1>4, <1>5, <1>7, <2>1, <2>2 DEF OneContract
  <2> QED
    BY <2>4, <2>5, <2>6, <2>7 DEF OneContract
<1> QED
  BY <1>8, <1>9, <1>11, <1>12 DEF EthReadInv

LEMMA ReorgKeeps == EthReadInv /\ Reorg => EthReadInv'
<1> SUFFICES ASSUME EthReadInv, Reorg PROVE EthReadInv'
  OBVIOUS
<1>1. EthChainType /\ EthTowerType /\ OneContract /\ TickStands /\ ClaimIsSeen /\ ClaimPageIsFinal
  BY DEF EthReadInv
<1>2. /\ Tip \in Nat /\ DOMAIN eth = 1 .. Tip
      /\ \A n \in 1 .. Tip : eth[n] \in EthBlocks /\ eth[n].event \in EthEvents
  BY <1>1, EthBlocksOf
<1>3. /\ Tip > final /\ eth' = SubSeq(eth, 1, Tip - 1) /\ forks' = forks + 1
      /\ movedAt' = IF Tip - 1 < movedAt THEN Tip - 1 ELSE movedAt
      /\ ethTower' = [ethTower EXCEPT !.reorged = TRUE]
      /\ UNCHANGED <<claimEvent, final, rxd, state, tracker, sampled, out>>
  BY DEF Reorg
<1>4. /\ eth \in Seq(EthBlocks) /\ final \in Nat /\ movedAt \in Nat /\ forks \in Nat /\ rxd \in Nat
      /\ claimEvent \in {"Claimed", "odd"}
  BY <1>1 DEF EthChainType
<1>5. /\ eth' \in Seq(EthBlocks) /\ Tip' = Tip - 1 /\ DOMAIN eth' = 1 .. Tip - 1
      /\ \A n \in 1 .. Tip - 1 : eth'[n] = eth[n]
  <2>1. Tip - 1 \in Nat /\ \A i \in 1 .. Tip - 1 : eth[i] \in EthBlocks
    BY <1>2, <1>3, <1>4
  <2>2. /\ SubSeq(eth, 1, Tip - 1) \in Seq(EthBlocks)
        /\ Len(SubSeq(eth, 1, Tip - 1)) = IF 1 <= Tip - 1 THEN (Tip - 1) - 1 + 1 ELSE 0
        /\ \A i \in 1 .. (Tip - 1) - 1 + 1 : SubSeq(eth, 1, Tip - 1)[i] = eth[1 + i - 1]
    BY <2>1, SubSeqProperties
  <2>3. eth' \in Seq(EthBlocks) /\ Len(eth') = Tip - 1
    BY <1>3, <2>1, <2>2
  <2>4. Tip' = Tip - 1 /\ DOMAIN eth' = 1 .. Tip - 1
    BY <2>3, LenProperties DEF Tip
  <2>5. \A n \in 1 .. Tip - 1 : eth'[n] = eth[n]
    BY <1>2, <1>3, <2>1, <2>2
  <2> QED
    BY <2>3, <2>4, <2>5
<1>6. EthChainType'
  BY <1>2, <1>3, <1>4, <1>5 DEF EthChainType
<1>7. ethTower' \in Ticks /\ ethTower'.reorged
      /\ ethTower'.pc = ethTower.pc /\ ethTower'.state = ethTower.state
      /\ ethTower'.tx = ethTower.tx /\ ethTower'.at = ethTower.at
      /\ ethTower'.claimed = ethTower.claimed
  BY <1>1, <1>3 DEF EthTowerType, Ticks
<1>8. EthTowerType' /\ ClaimIsSeen'
  BY <1>1, <1>3, <1>7 DEF EthTowerType, ClaimIsSeen
<1>9. TickStands'
  BY <1>1, <1>3, <1>7 DEF TickStands
<1>10. ClaimPageIsFinal'
  <2>1. \A n \in At(claimEvent) : n <= final => n \in At(claimEvent)'
    BY <1>2, <1>3, <1>4, <1>5 DEF At
  <2> QED
    BY <1>1, <1>3, <2>1 DEF ClaimPageIsFinal
<1>11. OneContract'
  <2>1. \A n \in DOMAIN eth' : n \in DOMAIN eth /\ eth'[n] = eth[n]
    BY <1>2, <1>5
  <2>2. \A n \in DOMAIN eth' : \A m \in DOMAIN eth : m < n => m \in DOMAIN eth'
    BY <1>2, <1>5
  <2>3. \A n \in DOMAIN eth' : eth'[n].event \in {"Claimed", "odd"} => eth'[n].event = claimEvent'
    BY <1>1, <1>3, <2>1 DEF OneContract
  <2>4. \A m, n \in DOMAIN eth' :
          eth'[m].event = "deploy" /\ eth'[n].event = "deploy" => m = n
    BY <1>1, <2>1 DEF OneContract
  <2>5. \A n \in DOMAIN eth' : eth'[n].event = claimEvent' =>
          \E m \in DOMAIN eth' : m < n /\ eth'[m].event = "deploy"
    <3> SUFFICES ASSUME NEW n \in DOMAIN eth', eth'[n].event = claimEvent'
                 PROVE  \E m \in DOMAIN eth' : m < n /\ eth'[m].event = "deploy"
      OBVIOUS
    <3>1. PICK m \in DOMAIN eth : m < n /\ eth[m].event = "deploy"
      BY <1>1, <1>3, <2>1 DEF OneContract
    <3> QED
      BY <2>1, <2>2, <3>1
  <2>6. \A m, n \in DOMAIN eth' : eth'[m].event = claimEvent' => eth'[n].event # "Refunded"
    <3> SUFFICES ASSUME NEW m \in DOMAIN eth', NEW n \in DOMAIN eth', eth'[m].event = claimEvent'
                 PROVE  eth'[n].event # "Refunded"
      OBVIOUS
    <3>1. m \in DOMAIN eth /\ n \in DOMAIN eth /\ eth[m].event = claimEvent /\ eth'[n] = eth[n]
      BY <1>3, <2>1
    <3> QED
      BY <1>1, <3>1, Zenon DEF OneContract
  <2> QED
    BY <2>3, <2>4, <2>5, <2>6 DEF OneContract
<1> QED
  BY <1>6, <1>8, <1>9, <1>10, <1>11 DEF EthReadInv

LEMMA FinalizeKeeps == EthReadInv /\ Finalize => EthReadInv'
<1> SUFFICES ASSUME EthReadInv, Finalize PROVE EthReadInv'
  OBVIOUS
<1>1. EthChainType /\ EthTowerType /\ OneContract /\ TickStands /\ ClaimIsSeen /\ ClaimPageIsFinal
  BY DEF EthReadInv
<1>2. Tip \in Nat
  BY <1>1, EthBlocksOf
<1>3. /\ final \in Nat /\ final' \in final + 1 .. Tip /\ movedAt' = Tip /\ sampled' = None
      /\ UNCHANGED <<claimEvent, eth, forks, rxd, state, ethTower, tracker, out>>
  BY <1>1 DEF Finalize, EthChainType
<1>4. EthChainType' /\ OneContract'
  BY <1>1, <1>2, <1>3 DEF EthChainType, OneContract, Tip
<1>5. EthTowerType' /\ ClaimIsSeen'
  BY <1>1, <1>3 DEF EthTowerType, ClaimIsSeen, None
<1>6. \A n \in Int : n <= final => n <= final'
  BY <1>2, <1>3
<1>7. At("deploy")' = At("deploy") /\ At(claimEvent)' = At(claimEvent)
      /\ At(claimEvent) \subseteq Int
  BY <1>1, <1>3, EthBlocksOf DEF At
<1>8. TickStands' /\ ClaimPageIsFinal'
  BY <1>1, <1>3, <1>6, <1>7 DEF TickStands, ClaimPageIsFinal
<1> QED
  BY <1>4, <1>5, <1>8 DEF EthReadInv

(* The fields of a tick that a read sets.                                  *)
LEMMA TickFields ==
  ASSUME NEW t \in Ticks, NEW pc \in {"logs"} \cup Judged, NEW h \in Int, NEW k \in Int
  PROVE  /\ [t EXCEPT !.pc = pc, !.at = h] \in Ticks
         /\ [t EXCEPT !.pc = pc, !.at = h, !.fork = k] \in Ticks
         /\ [t EXCEPT !.pc = pc, !.tx = "none", !.at = h, !.fork = k] \in Ticks
         /\ [t EXCEPT !.pc = pc, !.finalized = h, !.movedAt = k] \in Ticks
<1>1. [t EXCEPT !.pc = pc, !.at = h] \in Ticks
  BY DEF Ticks
<1>2. [t EXCEPT !.pc = pc, !.at = h, !.fork = k] \in Ticks
  BY DEF Ticks
<1>3. [t EXCEPT !.pc = pc, !.tx = "none", !.at = h, !.fork = k] \in Ticks
  BY DEF Ticks, EthEvents
<1>4. [t EXCEPT !.pc = pc, !.finalized = h, !.movedAt = k] \in Ticks
  BY DEF Ticks
<1> QED
  BY <1>1, <1>2, <1>3, <1>4

LEMMA TickAnswers ==
  ASSUME NEW t \in Ticks, NEW pc \in Judged, NEW e \in EthEvents, NEW b \in BOOLEAN,
         NEW c \in BOOLEAN, NEW h \in Int
  PROVE  /\ [t EXCEPT !.pc = pc, !.truth = c] \in Ticks
         /\ [t EXCEPT !.pc = pc, !.claimed = b, !.tx = e, !.at = h, !.truth = c] \in Ticks
<1>1. [t EXCEPT !.pc = pc, !.truth = c] \in Ticks
  BY DEF Ticks
<1>2. [t EXCEPT !.pc = pc, !.claimed = b, !.tx = e, !.at = h, !.truth = c] \in Ticks
  BY DEF Ticks
<1> QED
  BY <1>1, <1>2

(* The tick's reads up to the verdict.                                     *)
LEMMA ReadsKeep ==
  ASSUME EthReadInv,
         \/ ReadRxdTip \/ ReadCovenant \/ ReadDeploy \/ ReadLogs \/ ReadReceipt
         \/ ReadCanonical \/ ReadFinalized \/ ReadCheckpoint
  PROVE  EthReadInv'
<1>1. EthChainType /\ EthTowerType /\ OneContract /\ TickStands
  BY DEF EthReadInv
<1>2. Tip \in Nat /\ DOMAIN eth = 1 .. Tip /\ \A n \in 1 .. Tip : eth[n] \in EthBlocks
  BY <1>1, EthBlocksOf
<1>3. /\ ethTower \in Ticks /\ state \in {"BOTH_LOCKED", "SECRET_REVEALED"}
      /\ rxd \in Nat /\ final \in Nat /\ movedAt \in Nat /\ claimEvent \in {"Claimed", "odd"}
  BY <1>1 DEF EthTowerType, EthChainType
<1>tick. ethTower \in Ticks
  BY <1>1 DEF EthTowerType
<1>4. ASSUME NEW pc \in {"checkpoint", "final"}, ethTower' = Verdict(pc)
      PROVE  /\ ethTower' \in Ticks /\ ethTower'.pc = pc /\ ethTower'.state = ethTower.state
             /\ ethTower'.claimed = ethTower.claimed /\ ethTower'.truth = ethTower.truth
             /\ ethTower'.reorged = ethTower.reorged
  <2>1. ethTower' = [ethTower EXCEPT !.pc = pc, !.tx = "none", !.at = None, !.fork = None]
    BY <1>4 DEF Verdict
  <2>2. pc \in Judged /\ None \in Int
    BY <1>4 DEF Judged, None
  <2>3. ethTower' \in Ticks
    BY <1>3, <2>1, <2>2, TickFields
  <2> QED
    BY <1>3, <2>1, <2>3 DEF Ticks
<1>5. CASE ReadRxdTip
  <2>1. /\ ethTower' = [EthIdle EXCEPT !.pc = "covenant", !.state = state, !.tip = rxd]
        /\ out' = NoOut /\ UNCHANGED <<ethChain, state, tracker, sampled>>
    BY <1>5 DEF ReadRxdTip
  <2>2. ethTower' \in Ticks
    <3>1. EthIdle \in Ticks
      BY DEF EthIdle, Ticks, None, EthEvents
    <3>2. rxd \in Int /\ state \in {"none", "BOTH_LOCKED", "SECRET_REVEALED"}
      BY <1>3
    <3> QED
      BY <2>1, <3>1, <3>2 DEF Ticks
  <2>3. ethTower'.pc = "covenant" /\ ethTower'.state = state /\ ethTower'.claimed = FALSE
    BY <2>1 DEF EthIdle
  <2>4. TickStands'
    BY <1>3, <2>3 DEF TickStands, Judged
  <2>5. EthChainType' /\ OneContract' /\ EthTowerType'
    BY <1>1, <2>1, <2>2 DEF EthChainType, OneContract, EthTowerType, Tip, ethChain
  <2>6. ClaimIsSeen' /\ ClaimPageIsFinal'
    BY <2>1 DEF ClaimIsSeen, ClaimPageIsFinal, NoOut
  <2> QED
    BY <2>4, <2>5, <2>6 DEF EthReadInv
<1>6. ASSUME UNCHANGED <<ethChain, state, tracker, sampled, out>>
      PROVE  /\ At("deploy")' = At("deploy") /\ At(claimEvent)' = At(claimEvent)
             /\ claimEvent' = claimEvent /\ final' = final
  BY <1>6 DEF ethChain, At
<1>7. CASE ReadCovenant
  <2>1. /\ ethTower.pc = "covenant" /\ UNCHANGED <<ethChain, state, tracker, sampled, out>>
        /\ ethTower' = [ethTower EXCEPT !.pc = "deploy",
                          !.lockedAt = AssetLockedAt(ethTower.tip, rxd - LockedAt + 1)]
    BY <1>7 DEF ReadCovenant, Then, Reads
  <2>2. AssetLockedAt(ethTower.tip, rxd - LockedAt + 1) \in Int
    <3>1. ethTower.tip \in Int /\ rxd - LockedAt + 1 \in Int
      BY <1>3, EthTowerAssumption DEF Ticks
    <3> QED
      BY <3>1 DEF AssetLockedAt, None
  <2>3. /\ ethTower' \in Ticks /\ ethTower'.pc = "deploy" /\ ethTower'.state = ethTower.state
        /\ ethTower'.claimed = ethTower.claimed
    BY <1>3, <2>1, <2>2 DEF Ticks
  <2>4. TickStands'
    BY <1>1, <2>1, <2>3 DEF TickStands, Judged
  <2> QED
    BY <2>1, <2>3, <2>4, ReadKeeps
<1>8. CASE ReadDeploy
  <2>1. /\ ethTower.pc = "deploy" /\ UNCHANGED <<ethChain, state, tracker, sampled, out>>
        /\ ethTower.state # "none" /\ ~ethTower.claimed
    BY <1>1, <1>8 DEF ReadDeploy, Then, Reads, TickStands
  <2>2. CASE Deployed
    <3> DEFINE d == CHOOSE n \in At("deploy") : TRUE
    <3>1. d \in At("deploy") /\ d \in Nat \ {0}
      BY <1>2, <2>2 DEF Deployed, At
    <3> HIDE DEF d
    <3>2. ethTower' = [ethTower EXCEPT !.pc = "logs", !.at = d]
      BY <1>8, <2>2 DEF ReadDeploy, Then, d
    <3>3. /\ ethTower' \in Ticks /\ ethTower'.pc = "logs" /\ ethTower'.state = ethTower.state
          /\ ethTower'.at = d
      <4>1. d \in Int
        BY <3>1
      <4>2. [ethTower EXCEPT !.pc = "logs", !.at = d] \in Ticks
        BY <1>tick, <4>1 DEF Ticks
      <4> QED
        BY <1>3, <3>2, <4>2 DEF Ticks
    <3>4. TickStands'
      BY <1>6, <2>1, <3>1, <3>3 DEF TickStands, Judged
    <3> QED
      BY <2>1, <3>3, <3>4, ReadKeeps
  <2>3. CASE ~Deployed
    <3>1. ~Claimed
      BY <1>1, <2>3 DEF Claimed, Deployed, At, OneContract
    <3>2. ethTower' = [ethTower EXCEPT !.pc = "decide", !.truth = FALSE]
      <4>1. Claimed = FALSE
        BY <3>1, Zenon DEF Claimed
      <4>2. ethTower' = [ethTower EXCEPT !.pc = "decide", !.truth = Claimed]
        BY <1>8, <2>3 DEF ReadDeploy, Then
      <4> QED
        BY <4>1, <4>2, Zenon
    <3>3. /\ ethTower' \in Ticks /\ ethTower'.pc = "decide" /\ ethTower'.state = ethTower.state
          /\ ethTower'.claimed = ethTower.claimed /\ ethTower'.truth = FALSE
      <4>1. [ethTower EXCEPT !.pc = "decide", !.truth = FALSE] \in Ticks
        BY <1>tick DEF Ticks, Judged
      <4> QED
        BY <1>3, <3>2, <4>1 DEF Ticks
    <3>4. ethTower.claimed = FALSE
      BY <1>3, <2>1 DEF Ticks
    <3>5. TickStands'
      BY <2>1, <3>3, <3>4 DEF TickStands, Judged
    <3> QED
      BY <2>1, <3>3, <3>5, ReadKeeps
  <2> QED
    BY <2>2, <2>3
<1>9. CASE ReadLogs
  <2> DEFINE tx == ClaimStatus(ethTower.at)
             found == tx # "none"
             shown == Claimed
             pc == IF tx = "none" THEN "decide" ELSE "receipt"
  <2>1. /\ ethTower.pc = "logs" /\ UNCHANGED <<ethChain, state, tracker, sampled, out>>
        /\ ethTower.state # "none" /\ ethTower.at \in Nat \ {0}
        /\ ~ethTower.reorged => ethTower.at \in At("deploy")
    BY <1>1, <1>9 DEF ReadLogs, Then, Reads, TickStands
  <2>2. tx \in {"none", claimEvent} /\ (~ethTower.reorged => (tx # "none" <=> Claimed))
    BY <1>1, <2>1, ClaimStatusCases
  <2>3. ethTower' = [ethTower EXCEPT !.pc = pc, !.claimed = found, !.tx = tx, !.at = None,
                                     !.truth = shown]
    BY <1>9 DEF ReadLogs, Then
  <2>4. found \in BOOLEAN /\ shown \in BOOLEAN /\ (~ethTower.reorged => found = shown)
    BY <2>2, Zenon DEF Claimed
  <2>5. tx \in EthEvents /\ pc \in {"decide", "receipt"} /\ (pc = "receipt" => tx = claimEvent)
    BY <1>3, <2>2 DEF EthEvents
  <2> HIDE DEF tx, found, shown, pc
  <2>6. /\ ethTower' \in Ticks /\ ethTower'.pc = pc /\ ethTower'.state = ethTower.state
        /\ ethTower'.claimed = found /\ ethTower'.truth = shown /\ ethTower'.tx = tx
        /\ ethTower'.reorged = ethTower.reorged
    <3>1. pc \in Judged /\ None \in Int
      BY <2>5 DEF Judged, None
    <3>2. [ethTower EXCEPT !.pc = pc, !.claimed = found, !.tx = tx, !.at = None,
                           !.truth = shown] \in Ticks
      BY <1>tick, <2>4, <2>5, <3>1, TickAnswers, Zenon
    <3> QED
      BY <1>3, <2>3, <3>2 DEF Ticks
  <2>7. TickStands'
    BY <1>6, <2>1, <2>4, <2>5, <2>6 DEF TickStands, Judged
  <2> QED
    BY <2>1, <2>6, <2>7, ReadKeeps
<1>10. CASE ReadReceipt
  <2>1. /\ ethTower.pc = "receipt" /\ UNCHANGED <<ethChain, state, tracker, sampled, out>>
        /\ ethTower.state # "none" /\ ethTower.tx = claimEvent
        /\ ~ethTower.reorged => ethTower.claimed = ethTower.truth
    BY <1>1, <1>10 DEF ReadReceipt, Then, Reads, TickStands, Judged
  <2>2. CASE At(claimEvent) = {}
    <3>1. ethTower' = Verdict("checkpoint")
      BY <1>10, <2>1, <2>2 DEF ReadReceipt, Then
    <3>2. TickStands'
      BY <1>4, <2>1, <3>1 DEF TickStands, Judged
    <3> QED
      BY <1>4, <2>1, <3>1, <3>2, ReadKeeps
  <2>3. CASE At(claimEvent) # {}
    <3> DEFINE d == CHOOSE n \in At(ethTower.tx) : TRUE
    <3>1. d \in At(claimEvent) /\ d \in Nat \ {0} /\ d \in 1 .. Tip
      BY <1>2, <2>1, <2>3 DEF At
    <3>2. eth[d].fork \in Int
      BY <1>2, <3>1 DEF EthBlocks
    <3>3. ethTower' = [ethTower EXCEPT !.pc = "canonical", !.at = d, !.fork = eth[d].fork]
      BY <1>10, <2>1, <2>3 DEF ReadReceipt, Then
    <3> HIDE DEF d
    <3>4. /\ ethTower' \in Ticks /\ ethTower'.pc = "canonical" /\ ethTower'.state = ethTower.state
          /\ ethTower'.at = d /\ ethTower'.tx = ethTower.tx /\ ethTower'.claimed = ethTower.claimed
          /\ ethTower'.truth = ethTower.truth /\ ethTower'.reorged = ethTower.reorged
      <4>1. d \in Int /\ "canonical" \in Judged
        BY <3>1 DEF Judged
      <4>2. [ethTower EXCEPT !.pc = "canonical", !.at = d, !.fork = eth[d].fork] \in Ticks
        BY <1>tick, <3>2, <4>1, TickFields, Zenon
      <4> QED
        BY <1>3, <3>3, <4>2 DEF Ticks
    <3>5. TickStands'
      BY <1>6, <2>1, <3>1, <3>4 DEF TickStands, Judged
    <3> QED
      BY <2>1, <3>4, <3>5, ReadKeeps
  <2> QED
    BY <2>2, <2>3
<1>11. CASE ReadCanonical
  <2>1. /\ ethTower.pc = "canonical" /\ UNCHANGED <<ethChain, state, tracker, sampled, out>>
        /\ ethTower.state # "none" /\ ethTower.tx = claimEvent /\ ethTower.at \in Nat \ {0}
        /\ ~ethTower.reorged => ethTower.at \in At(claimEvent)
        /\ ~ethTower.reorged => ethTower.claimed = ethTower.truth
    BY <1>1, <1>11 DEF ReadCanonical, Then, Reads, TickStands, Judged
  <2>2. CASE ethTower' = Verdict("checkpoint")
    <3>1. TickStands'
      BY <1>4, <2>1, <2>2 DEF TickStands, Judged
    <3> QED
      BY <1>4, <2>1, <2>2, <3>1, ReadKeeps
  <2>3. CASE ethTower' = [ethTower EXCEPT !.pc = "finalized"]
    <3>1. /\ ethTower' \in Ticks /\ ethTower'.pc = "finalized" /\ ethTower'.state = ethTower.state
          /\ ethTower'.at = ethTower.at /\ ethTower'.tx = ethTower.tx
          /\ ethTower'.claimed = ethTower.claimed /\ ethTower'.truth = ethTower.truth
          /\ ethTower'.reorged = ethTower.reorged
      BY <1>3, <2>3 DEF Ticks, Judged
    <3>2. TickStands'
      BY <1>6, <2>1, <3>1 DEF TickStands, Judged
    <3> QED
      BY <2>1, <3>1, <3>2, ReadKeeps
  <2> QED
    BY <1>11, <2>2, <2>3 DEF ReadCanonical, Then
<1>12. CASE ReadFinalized
  <2>1. /\ ethTower.pc = "finalized" /\ UNCHANGED <<ethChain, state, tracker, sampled, out>>
        /\ ethTower.state # "none" /\ ethTower.at \in Nat \ {0}
        /\ ~ethTower.reorged => ethTower.at \in At(claimEvent)
        /\ ~ethTower.reorged => ethTower.claimed = ethTower.truth
    BY <1>1, <1>12 DEF ReadFinalized, Then, Reads, TickStands, Judged
  <2>2. PICK f \in FinalizedRead :
          ethTower' = Verdict(IF ethTower.at <= f THEN "final" ELSE "checkpoint")
    BY <1>12 DEF ReadFinalized, Then
  <2>3. f \in Nat /\ f <= final
    BY <1>3 DEF FinalizedRead
  <2>4. CASE ethTower.at <= f
    <3>1. ethTower' = Verdict("final")
      BY <2>2, <2>4
    <3>2. ethTower.at <= final
      BY <1>3, <2>1, <2>3, <2>4
    <3>3. TickStands'
      BY <1>4, <1>6, <2>1, <3>1, <3>2 DEF TickStands, Judged
    <3> QED
      BY <1>4, <2>1, <3>1, <3>3, ReadKeeps
  <2>5. CASE ~(ethTower.at <= f)
    <3>1. ethTower' = Verdict("checkpoint")
      BY <2>2, <2>5
    <3>2. TickStands'
      BY <1>4, <2>1, <3>1 DEF TickStands, Judged
    <3> QED
      BY <1>4, <2>1, <3>1, <3>2, ReadKeeps
  <2> QED
    BY <2>4, <2>5
<1>13. CASE ReadCheckpoint
  <2>1. ethTower.pc = "checkpoint" /\ UNCHANGED <<ethChain, state, tracker, sampled, out>>
    BY <1>13, Zenon DEF ReadCheckpoint, Then, Reads
  <2>2. PICK f \in FinalizedRead :
          ethTower' = [ethTower EXCEPT !.pc = "head", !.finalized = f, !.movedAt = movedAt]
    BY <1>13, Zenon DEF ReadCheckpoint, Then
  <2>3. /\ ethTower.state # "none"
        /\ ~ethTower.reorged => ethTower.claimed = ethTower.truth
    BY <1>1, <2>1 DEF TickStands, Judged
  <2>4. f \in Nat
    BY <1>3 DEF FinalizedRead
  <2>5. /\ ethTower' \in Ticks /\ ethTower'.pc = "head" /\ ethTower'.state = ethTower.state
        /\ ethTower'.claimed = ethTower.claimed /\ ethTower'.truth = ethTower.truth
        /\ ethTower'.reorged = ethTower.reorged
    <3>1. f \in Int /\ movedAt \in Int /\ "head" \in Judged
      BY <1>3, <2>4 DEF Judged
    <3>2. [ethTower EXCEPT !.pc = "head", !.finalized = f, !.movedAt = movedAt] \in Ticks
      BY <1>tick, <3>1, TickFields, Zenon
    <3> QED
      BY <1>3, <2>2, <3>2 DEF Ticks
  <2>6. TickStands'
    BY <2>5, <2>3 DEF TickStands, Judged
  <2> QED
    BY <2>1, <2>5, <2>6, ReadKeeps
<1> QED
  BY <1>5, <1>7, <1>8, <1>9, <1>10, <1>11, <1>12, <1>13

(* The steps that end a tick, and the ones that no read is part of.        *)
LEMMA EndsKeep ==
  ASSUME EthReadInv, \/ ReadHead \/ DecideFinal \/ DecideUnclaimed \/ TickFails \/ EthCrash
  PROVE  EthReadInv'
<1>1. EthChainType /\ EthTowerType /\ TickStands
  BY DEF EthReadInv
<1>2. /\ ethTower \in Ticks /\ tracker \in [stuck : Int, start : Int] /\ sampled \in Int
      /\ Tip \in Nat
  BY <1>1, EthBlocksOf DEF EthTowerType
<1>3. ASSUME NEW verdict \in EthVerdicts, NEW head, NEW first, Ends(verdict, head, first),
             ethTower.pc \in Judged,
             verdict = "FINAL" /\ ~ethTower.reorged => \E n \in At(claimEvent) : n <= final
      PROVE  ClaimIsSeen' /\ ClaimPageIsFinal'
  <2>1. UNCHANGED ethChain
    BY <1>3 DEF Ends
  <2>2. ethTower.state # "none" /\ (~ethTower.reorged => ethTower.claimed = ethTower.truth)
    BY <1>1, <1>3 DEF TickStands, Judged
  <2>3. /\ out'.intent
             = Decide(ethTower.state, EthTerms, Obs(verdict), EthPolicy, EthWindow).intent
        /\ out'.claimed = ethTower.claimed /\ out'.truth = ethTower.truth
        /\ out'.reorged = ethTower.reorged
    BY <1>3 DEF Ends
  <2>4. out'.intent = "PAGE_CLAIM" => verdict = "FINAL"
    BY <1>2, <2>2, <2>3, EthDecides
  <2>5. ClaimIsSeen'
    BY <2>2, <2>3, Zenon DEF ClaimIsSeen
  <2>6. ClaimPageIsFinal'
    BY <1>3, <2>1, <2>3, <2>4 DEF ClaimPageIsFinal, At, ethChain
  <2> QED
    BY <2>5, <2>6
<1>4. CASE ReadHead
  <2> DEFINE head == IF Tip < ethTower.finalized THEN ethTower.finalized ELSE Tip
             verdict == IF Stalled(tracker, head, ethTower.finalized)
                        THEN "COUNTER_CHAIN_NOT_FINALIZING" ELSE "NOT_YET_FINAL_LIVE"
             first == IF ethTower.finalized = final THEN sampled ELSE None
  <2>1. /\ ethTower.pc \in Judged /\ Ends(verdict, head, first)
        /\ tracker' = Observe(tracker, head, ethTower.finalized)
        /\ sampled' = IF sampled = None /\ ethTower.finalized = final THEN head ELSE sampled
    BY <1>4 DEF ReadHead, Reads, Judged
  <2>2. verdict \in EthVerdicts \ {"FINAL"}
    BY DEF EthVerdicts
  <2>3. head \in Int /\ ethTower.finalized \in Int
    BY <1>2 DEF Ticks
  <2> HIDE DEF head, verdict, first
  <2>4. ClaimIsSeen' /\ ClaimPageIsFinal'
    BY <1>3, <2>1, <2>2
  <2>5. tracker' \in [stuck : Int, start : Int] /\ sampled' \in Int
    BY <1>2, <2>1, <2>3 DEF Observe
  <2>6. UNCHANGED <<ethChain, state>> /\ ethTower' = EthIdle
    BY <2>1 DEF Ends
  <2> QED
    BY <2>4, <2>5, <2>6, EndKeeps
<1>5. CASE DecideFinal
  <2>1. /\ ethTower.pc \in Judged /\ ethTower.pc = "final" /\ Ends("FINAL", None, None)
        /\ UNCHANGED <<tracker, sampled>>
    BY <1>5 DEF DecideFinal, Reads, Judged
  <2>2. ~ethTower.reorged => \E n \in At(claimEvent) : n <= final
    BY <1>1, <2>1 DEF TickStands
  <2>3. "FINAL" \in EthVerdicts
    BY DEF EthVerdicts
  <2>4. ClaimIsSeen' /\ ClaimPageIsFinal'
    BY <1>3, <2>1, <2>2, <2>3
  <2>5. UNCHANGED <<ethChain, state>> /\ ethTower' = EthIdle
    BY <2>1 DEF Ends
  <2> QED
    BY <1>2, <2>1, <2>4, <2>5, EndKeeps
<1>6. CASE DecideUnclaimed
  <2>1. /\ ethTower.pc \in Judged /\ Ends("none", None, None) /\ UNCHANGED <<tracker, sampled>>
    BY <1>6 DEF DecideUnclaimed, Reads, Judged
  <2>2. "none" \in EthVerdicts
    BY DEF EthVerdicts
  <2>3. ClaimIsSeen' /\ ClaimPageIsFinal'
    BY <1>3, <2>1, <2>2
  <2>4. UNCHANGED <<ethChain, state>> /\ ethTower' = EthIdle
    BY <2>1 DEF Ends
  <2> QED
    BY <1>2, <2>1, <2>3, <2>4, EndKeeps
<1>7. CASE TickFails
  <2>1. /\ out' = [NoOut EXCEPT !.intent = "PAGE_SQUEEZED", !.reorged = ethTower.reorged]
        /\ ethTower' = EthIdle /\ UNCHANGED <<ethChain, state, tracker, sampled>>
    BY <1>7 DEF TickFails
  <2>2. out'.intent = "PAGE_SQUEEZED" /\ out'.claimed = FALSE /\ out'.truth = FALSE
    BY <2>1 DEF NoOut
  <2>3. ClaimIsSeen' /\ ClaimPageIsFinal'
    BY <2>2 DEF ClaimIsSeen, ClaimPageIsFinal
  <2> QED
    BY <1>2, <2>1, <2>3, EndKeeps
<1>8. CASE EthCrash
  <2>1. /\ ethTower' = EthIdle /\ tracker' = NoRun /\ sampled' = None /\ out' = NoOut
        /\ UNCHANGED <<ethChain, state>>
    BY <1>8 DEF EthCrash
  <2>2. tracker' \in [stuck : Int, start : Int] /\ sampled' \in Int
    BY <2>1 DEF NoRun, None
  <2>3. ClaimIsSeen' /\ ClaimPageIsFinal'
    BY <2>1 DEF ClaimIsSeen, ClaimPageIsFinal, NoOut
  <2> QED
    BY <2>1, <2>2, <2>3, EndKeeps
<1> QED
  BY <1>4, <1>5, <1>6, <1>7, <1>8

LEMMA EthReadStep == EthReadInv /\ [EthNext]_ethVars => EthReadInv'
<1> SUFFICES ASSUME EthReadInv, [EthNext]_ethVars PROVE EthReadInv'
  OBVIOUS
<1>1. CASE EthRxdBlock
  <2>1. /\ rxd \in Nat /\ rxd' = rxd + 1
        /\ UNCHANGED <<claimEvent, eth, final, movedAt, forks, state, ethTower, tracker, sampled,
                       out>>
    BY <1>1 DEF EthRxdBlock, EthReadInv, EthChainType
  <2>2. EthChainType' /\ EthTowerType' /\ OneContract'
    BY <2>1 DEF EthReadInv, EthChainType, EthTowerType, OneContract, Tip
  <2>3. TickStands' /\ ClaimIsSeen' /\ ClaimPageIsFinal'
    BY <2>1 DEF EthReadInv, TickStands, ClaimIsSeen, ClaimPageIsFinal, At
  <2> QED
    BY <2>2, <2>3 DEF EthReadInv
<1>2. CASE RecordAdvances
  <2>1. state' = "SECRET_REVEALED" /\ UNCHANGED <<ethChain, ethTower, tracker, sampled, out>>
    BY <1>2 DEF RecordAdvances
  <2>2. EthChainType' /\ EthTowerType' /\ OneContract'
    BY <2>1 DEF EthReadInv, EthChainType, EthTowerType, OneContract, Tip, ethChain
  <2>3. TickStands' /\ ClaimIsSeen' /\ ClaimPageIsFinal'
    BY <2>1 DEF EthReadInv, TickStands, ClaimIsSeen, ClaimPageIsFinal, At, ethChain
  <2> QED
    BY <2>2, <2>3 DEF EthReadInv
<1>3. CASE UNCHANGED ethVars
  <2>1. UNCHANGED <<ethChain, state, ethTower, tracker, sampled, out>>
    BY <1>3 DEF ethVars
  <2>2. ethTower' \in Ticks /\ TickStands'
    BY <2>1 DEF EthReadInv, EthTowerType, TickStands, At, ethChain
  <2> QED
    BY <2>1, <2>2, ReadKeeps
<1> QED
  BY <1>1, <1>2, <1>3, MineKeeps, ReorgKeeps, FinalizeKeeps, ReadsKeep, EndsKeep DEF EthNext

---------------------------------------------- (* the stall of finalization *)

(* Without lagging nodes the checkpoint that a tick reads is the chain's.  *)
LEMMA EthStallStep ==
  ASSUME ~Replicas
  PROVE  EthReadInv /\ EthStallInv /\ [EthNext]_ethVars => EthStallInv'
<1> SUFFICES ASSUME EthReadInv, EthStallInv, [EthNext]_ethVars PROVE EthStallInv'
  OBVIOUS
<1>1. /\ EthChainType /\ EthTowerType /\ TickStands
      /\ RunIsOfFinal /\ CheckpointStands /\ StallIsReal /\ StallIsPaged
  BY DEF EthReadInv, EthStallInv
<1>2. /\ Tip \in Nat /\ final \in Nat /\ movedAt \in Nat /\ final <= Tip /\ movedAt <= Tip
      /\ sampled \in Int /\ tracker.stuck \in Int /\ tracker.start \in Int
  BY <1>1, EthBlocksOf DEF EthChainType, EthTowerType
<1>3. ethTower \in Ticks
  BY <1>1 DEF EthTowerType
<1>4. ASSUME UNCHANGED <<final, movedAt, ethTower, tracker, sampled, out>>
      PROVE  EthStallInv'
  BY <1>1, <1>4
     DEF EthStallInv, RunIsOfFinal, CheckpointStands, StallIsReal, StallIsPaged
<1>5. ASSUME UNCHANGED <<final, movedAt, tracker, sampled>>, UNCHANGED out \/ out' = NoOut,
             ethTower'.pc # "head"
      PROVE  EthStallInv'
  <2>1. RunIsOfFinal' /\ CheckpointStands'
    BY <1>1, <1>5 DEF RunIsOfFinal, CheckpointStands
  <2>2. StallIsReal' /\ StallIsPaged'
    BY <1>1, <1>5 DEF StallIsReal, StallIsPaged, NoOut
  <2> QED
    BY <2>1, <2>2 DEF EthStallInv
<1>6. ASSUME UNCHANGED <<ethChain, tracker, sampled>>, ethTower' = EthIdle,
             out'.verdict \in {"FINAL", "none"}, out'.sampled = None
      PROVE  EthStallInv'
  <2>1. RunIsOfFinal' /\ CheckpointStands'
    BY <1>1, <1>6 DEF RunIsOfFinal, CheckpointStands, EthIdle, ethChain
  <2>2. StallIsReal' /\ StallIsPaged'
    BY <1>6 DEF StallIsReal, StallIsPaged
  <2> QED
    BY <2>1, <2>2 DEF EthStallInv
<1>7. CASE Mine \/ EthRxdBlock \/ RecordAdvances \/ UNCHANGED ethVars
  BY <1>4, <1>7 DEF Mine, EthRxdBlock, RecordAdvances, ethVars, ethChain
<1>8. CASE Reorg
  <2>1. /\ movedAt' = IF Tip - 1 < movedAt THEN Tip - 1 ELSE movedAt
        /\ ethTower' = [ethTower EXCEPT !.reorged = TRUE]
        /\ UNCHANGED <<final, tracker, sampled, out>>
    BY <1>8 DEF Reorg
  <2>2. movedAt' \in Int /\ movedAt' <= movedAt
    BY <1>2, <2>1
  <2>3. /\ ethTower'.pc = ethTower.pc /\ ethTower'.finalized = ethTower.finalized
        /\ ethTower'.movedAt = ethTower.movedAt
    BY <1>3, <2>1 DEF Ticks
  <2>4. RunIsOfFinal'
    BY <1>1, <1>2, <2>1, <2>2 DEF RunIsOfFinal
  <2>5. CheckpointStands'
    BY <1>1, <2>1, <2>3 DEF CheckpointStands
  <2>6. StallIsReal' /\ StallIsPaged'
    BY <1>1, <2>1 DEF StallIsReal, StallIsPaged
  <2> QED
    BY <2>4, <2>5, <2>6 DEF EthStallInv
<1>9. CASE Finalize
  <2>1. /\ final' \in final + 1 .. Tip /\ movedAt' = Tip /\ sampled' = None
        /\ UNCHANGED <<ethTower, tracker, out>>
    BY <1>9 DEF Finalize
  <2>2. RunIsOfFinal'
    BY <1>1, <1>2, <2>1 DEF RunIsOfFinal
  <2>3. CheckpointStands'
    BY <1>1, <1>2, <2>1 DEF CheckpointStands
  <2>4. StallIsReal' /\ StallIsPaged'
    BY <1>1, <2>1 DEF StallIsReal, StallIsPaged
  <2> QED
    BY <2>2, <2>3, <2>4 DEF EthStallInv
<1>10. CASE ReadRxdTip \/ ReadCovenant \/ ReadDeploy \/ ReadLogs \/ ReadReceipt
  <2>1. UNCHANGED <<final, movedAt, tracker, sampled>> /\ (UNCHANGED out \/ out' = NoOut)
    BY <1>10 DEF ReadRxdTip, ReadCovenant, ReadDeploy, ReadLogs, ReadReceipt, Then, ethChain
  <2>2. ethTower'.pc # "head"
    <3>1. CASE ReadRxdTip
      BY <3>1 DEF ReadRxdTip, EthIdle
    <3>2. CASE ReadCovenant
      BY <1>3, <3>2 DEF ReadCovenant, Then, Ticks
    <3>3. CASE ReadDeploy
      BY <1>3, <3>3 DEF ReadDeploy, Then, Ticks
    <3>4. CASE ReadLogs
      BY <1>3, <3>4 DEF ReadLogs, Then, Ticks
    <3>5. CASE ReadReceipt
      BY <1>3, <3>5 DEF ReadReceipt, Then, Verdict, Ticks
    <3> QED
      BY <1>10, <3>1, <3>2, <3>3, <3>4, <3>5
  <2> QED
    BY <1>5, <2>1, <2>2
<1>11. CASE ReadCanonical \/ ReadFinalized
  <2>1. UNCHANGED <<final, movedAt, tracker, sampled, out>>
    BY <1>11, Zenon DEF ReadCanonical, ReadFinalized, Then, ethChain
  <2>2. ethTower'.pc # "head"
    <3>1. CASE ReadCanonical
      BY <1>3, <3>1 DEF ReadCanonical, Then, Verdict, Ticks
    <3>2. CASE ReadFinalized
      <4>1. ethTower' = Verdict("final") \/ ethTower' = Verdict("checkpoint")
        BY <3>2 DEF ReadFinalized, Then
      <4> QED
        BY <1>3, <4>1 DEF Verdict, Ticks
    <3> QED
      BY <1>11, <3>1, <3>2
  <2> QED
    BY <1>5, <2>1, <2>2
<1>12. CASE ReadCheckpoint
  <2>1. UNCHANGED <<final, movedAt, tracker, sampled, out>>
    BY <1>12, Zenon DEF ReadCheckpoint, Then, ethChain
  <2>2. PICK f \in FinalizedRead :
          ethTower' = [ethTower EXCEPT !.pc = "head", !.finalized = f, !.movedAt = movedAt]
    BY <1>12, Zenon DEF ReadCheckpoint, Then
  <2>3. f = final
    BY DEF FinalizedRead
  <2>4. ethTower'.finalized = final /\ ethTower'.movedAt = movedAt
    BY <1>3, <2>2, <2>3 DEF Ticks
  <2>5. RunIsOfFinal' /\ StallIsReal' /\ StallIsPaged'
    BY <1>1, <2>1 DEF RunIsOfFinal, StallIsReal, StallIsPaged
  <2>6. CheckpointStands'
    BY <1>1, <1>2, <2>1, <2>4 DEF CheckpointStands, RunIsOfFinal
  <2> QED
    BY <2>5, <2>6 DEF EthStallInv
<1>13. CASE ReadHead
  <2> DEFINE f == ethTower.finalized
             since == ethTower.movedAt
             head == IF Tip < f THEN f ELSE Tip
             stalled == Stalled(tracker, head, f)
             verdict == IF stalled THEN "COUNTER_CHAIN_NOT_FINALIZING" ELSE "NOT_YET_FINAL_LIVE"
             first == IF f = final THEN sampled ELSE None
  <2>1. /\ ethTower.pc = "head" /\ Ends(verdict, head, first)
        /\ tracker' = Observe(tracker, head, f)
        /\ sampled' = IF sampled = None /\ f = final THEN head ELSE sampled
    BY <1>13 DEF ReadHead, Reads
  <2>2. /\ f \in Nat /\ f <= final /\ (f # final => sampled = None)
        /\ (tracker.stuck = f => tracker.start >= since)
    BY <1>1, <2>1 DEF CheckpointStands
  <2>3. since \in Int
    BY <1>3 DEF Ticks
  <2>4. head = Tip
    BY <1>2, <2>2
  <2>5. /\ out'.intent
             = Decide(ethTower.state, EthTerms, Obs(verdict), EthPolicy, EthWindow).intent
        /\ out'.claimed = ethTower.claimed /\ out'.verdict = verdict /\ out'.head = head
        /\ out'.finalized = f /\ out'.movedAt = since /\ out'.sampled = first
    BY <2>1 DEF Ends
  <2>6. verdict \in EthVerdicts /\ (verdict = "COUNTER_CHAIN_NOT_FINALIZING" <=> stalled)
    BY DEF EthVerdicts
  <2>7. /\ UNCHANGED <<final, movedAt>> /\ ethTower' = EthIdle
        /\ tracker'.stuck = f
        /\ tracker'.start = IF tracker.stuck # f THEN Tip ELSE tracker.start
    <3>1. tracker' = Observe(tracker, Tip, f)
      BY <2>1, <2>4
    <3>2. UNCHANGED <<final, movedAt>> /\ ethTower' = EthIdle
      BY <2>1 DEF Ends, ethChain
    <3> HIDE DEF f
    <3> QED
      BY <3>1, <3>2 DEF Observe
  <2>8. RunIsOfFinal /\ sampled' = IF sampled = None /\ f = final THEN Tip ELSE sampled
    BY <1>1, <2>1, <2>4
  <2>9. stalled <=> /\ tracker.stuck = f /\ Tip - tracker.start >= Patience
                    /\ Tip - f > MaxNormalLag
    BY <2>4 DEF Stalled
  <2>10. ethTower.state # "none"
    BY <1>1, <2>1 DEF TickStands
  <2> HIDE DEF f, since, head, verdict, first, stalled
  <2>11. RunIsOfFinal'
    BY <1>2, <2>2, <2>7, <2>8 DEF RunIsOfFinal, None
  <2>12. CheckpointStands'
    BY <2>7 DEF CheckpointStands, EthIdle
  <2>13. StallIsReal'
    BY <1>2, <2>2, <2>3, <2>4, <2>5, <2>6, <2>9, EthTowerAssumption DEF StallIsReal
  <2>14. StallIsPaged'
    <3> SUFFICES ASSUME out'.claimed, out'.sampled # None, out'.head - out'.sampled >= Patience,
                        out'.head - out'.finalized > MaxNormalLag
                 PROVE  out'.intent = "PAGE_SQUEEZED"
      BY DEF StallIsPaged
    <3>1. f = final /\ sampled # None
      BY <2>5 DEF first
    <3>2. tracker.stuck = f /\ tracker.start = sampled
      BY <2>8, <3>1 DEF RunIsOfFinal
    <3>3. out'.sampled = sampled /\ out'.head = Tip /\ out'.finalized = f
      BY <2>4, <2>5, <3>1 DEF first
    <3>4. stalled
      BY <2>9, <3>2, <3>3
    <3>5. ethTower.claimed /\ verdict = "COUNTER_CHAIN_NOT_FINALIZING"
      BY <2>5, <2>6, <3>4
    <3> QED
      BY <1>3, <2>5, <2>6, <2>10, <3>5, EthDecides
  <2> QED
    BY <2>11, <2>12, <2>13, <2>14 DEF EthStallInv
<1>14. CASE DecideFinal \/ DecideUnclaimed
  <2>1. /\ UNCHANGED <<ethChain, tracker, sampled>> /\ ethTower' = EthIdle
        /\ out'.verdict \in {"FINAL", "none"} /\ out'.sampled = None
    BY <1>14 DEF DecideFinal, DecideUnclaimed, Ends
  <2> QED
    BY <1>6, <2>1
<1>15. CASE TickFails
  <2>1. /\ UNCHANGED <<ethChain, tracker, sampled>> /\ ethTower' = EthIdle
        /\ out'.verdict \in {"FINAL", "none"} /\ out'.sampled = None
    BY <1>15 DEF TickFails, NoOut
  <2> QED
    BY <1>6, <2>1
<1>16. CASE EthCrash
  <2>1. /\ UNCHANGED <<final, movedAt>> /\ ethTower' = EthIdle /\ tracker' = NoRun
        /\ sampled' = None /\ out' = NoOut
    BY <1>16 DEF EthCrash, ethChain
  <2>2. RunIsOfFinal' /\ CheckpointStands'
    BY <1>2, <2>1 DEF RunIsOfFinal, CheckpointStands, NoRun, EthIdle, None
  <2>3. StallIsReal' /\ StallIsPaged'
    BY <2>1 DEF StallIsReal, StallIsPaged, NoOut
  <2> QED
    BY <2>2, <2>3 DEF EthStallInv
<1> QED
  BY <1>7, <1>8, <1>9, <1>10, <1>11, <1>12, <1>13, <1>14, <1>15, <1>16 DEF EthNext

------------------------------------------------------- (* the theorems *)

(* EthReadInv is an invariant, whatever nodes the endpoint balances over.  *)
THEOREM EthReadInvariant == EthSpec => []EthReadInv
<1>1. EthInit => EthReadInv
  BY EthInvInit
<1>2. EthReadInv /\ [EthNext]_ethVars => EthReadInv'
  BY EthReadStep
<1> QED
  BY <1>1, <1>2, PTL DEF EthSpec

(* Whatever nodes the RPC endpoint balances over, a tick of the ETH tower  *)
(* (claim_status and claim_finality_verdict of watch/eth_adapters.py) does *)
(* not miss a claim, does not take a refund for one, and tells the         *)
(* operator to claim only when the claim is finalized, unless a block was  *)
(* undone under its reads.                                                 *)
THEOREM EthClaimsAreReported == EthSpec => [](ClaimIsSeen /\ ClaimPageIsFinal)
<1>1. EthReadInv => ClaimIsSeen /\ ClaimPageIsFinal
  BY DEF EthReadInv
<1> QED
  BY <1>1, EthReadInvariant, PTL

(* Over an endpoint whose nodes do not lag, what the tower says of a claim *)
(* and of a stall of finalization is so, and a stall that it watched for   *)
(* patience_slots is paged (FinalityStallTracker of gravity/finality.py).  *)
THEOREM EthPagesStand ==
  ASSUME ~Replicas
  PROVE  EthSpec => []EthPagesAreTrue
<1>1. EthInit => EthStallInv
  BY EthInvInit
<1>2. EthReadInv /\ EthStallInv /\ [EthNext]_ethVars => EthStallInv'
  BY EthStallStep
<1>3. EthReadInv /\ EthStallInv => EthPagesAreTrue
  BY DEF EthReadInv, EthStallInv, EthPagesAreTrue
<1> QED
  BY <1>1, <1>2, <1>3, EthReadInvariant, PTL DEF EthSpec
=============================================================================
