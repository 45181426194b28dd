---------------------------- MODULE RunbookProofs ----------------------------
(***************************************************************************)
(* The scripts operators run, for every policy, timelock, sequence of      *)
(* block times, amount, deadline and number of terminals and crashes:      *)
(* value is locked only behind a keys file, a resumed run works on the     *)
(* HTLC that the file pins, the gate's clock does not run ahead of the     *)
(* covenant; what a mint run has saved stays within reach; what the        *)
(* keyless tower may send for a dust refund, the network takes; and of two *)
(* hosts neither pays twice nor locks against nothing.                     *)
(***************************************************************************)
EXTENDS MCRunbooks, TLAPS

------------------------------------------- (* the single-operator runners *)

(* Where a process that has written, or read, its keys file can be.        *)
KeyedPcs == {"mature", "fund", "verify", "height", "lock", "revalidate", "claim", "wait",
             "vulnerable", "refund", "confs", "tip", "done"}
RunPcs == KeyedPcs \cup {"start", "mint", "keys", "exit", "down"}

(* The refund delays a keys file can pin, and the deadlines of a loop.     *)
Delays == {None} \cup {TBtc(times) : times \in Observed}
Deadlines ==
  {None, Infinite} \cup {CeilDiv(arg, Interval) : arg \in DeadlineArgs}
    \cup {CeilDiv(ValidatedDeadline(arg), Interval) : arg \in DeadlineArgs}

Runs ==
  [kind : Kinds, pc : RunPcs, lockedAt : Int, confs : Int, raced : Nat,
   deadline : Deadlines, waited : Nat, tBtc : Delays]

CounterStates ==
  [state : {"none", "locked", "claimed", "refunded"}, depth : Nat, tBtc : Delays]
CovenantStates == [at : Int, spent : {"none", "taker", "maker"}]

RunnerType ==
  /\ run \in Runs
  /\ disk \in [keys : BOOLEAN, seen : BOOLEAN, tBtc : Delays]
  /\ counter \in CounterStates
  /\ rcov \in CovenantStates
  /\ rheight \in Nat

KeysHeld == run.pc \in KeyedPcs => disk.keys

(* From the funding on, a BTC run holds the delay of what it funded.       *)
HoldsItsDelay ==
  run.kind = "dust" /\ run.pc \in {"verify", "height", "lock", "revalidate", "claim", "wait",
                                   "vulnerable", "confs", "tip"}
  => run.tBtc = counter.tBtc

(* The height that was read before the lock, or rebuilt from a depth and a *)
(* tip that blocks came between.                                           *)
ClockStands ==
  /\ run.pc = "lock" => run.lockedAt <= rheight
  /\ run.pc \in {"start", "mint", "keys", "mature", "fund", "verify", "height", "lock"} =>
       run.raced = 0 /\ (run.pc # "lock" => run.lockedAt = None)
  /\ run.pc = "confs" => run.raced = 0
  /\ run.pc = "tip" => rheight - run.confs + 1 = rcov.at + run.raced
  /\ run.pc \in {"revalidate", "claim", "wait"} => run.lockedAt <= rcov.at + run.raced

RunnerInv == RunnerType /\ KeysBeforeValue /\ KeysHeld /\ HoldsItsDelay /\ ClockStands

---------------------------------------------------------- (* single steps *)

LEMMA IdleIsRun == ASSUME NEW kind \in Kinds PROVE IdleRun(kind) \in Runs
BY DEF IdleRun, Runs, RunPcs, None, Deadlines, Delays

LEMMA GotoIsRun ==
  ASSUME run \in Runs, NEW next \in RunPcs, run' = [run EXCEPT !.pc = next]
  PROVE  /\ run' \in Runs /\ run'.pc = next /\ run'.kind = run.kind /\ run'.tBtc = run.tBtc
         /\ run'.lockedAt = run.lockedAt /\ run'.raced = run.raced /\ run'.confs = run.confs
BY DEF Runs

(* The steps of a run that only move its program counter.                  *)
Moves ==
  {<<"start", "mint">>, <<"start", "keys">>, <<"mint", "keys">>, <<"mature", "fund">>,
   <<"verify", "height">>, <<"revalidate", "claim">>, <<"revalidate", "refund">>,
   <<"wait", "vulnerable">>, <<"wait", "done">>, <<"vulnerable", "done">>, <<"refund", "done">>}

LEMMA MoveKeeps ==
  ASSUME RunnerInv, NEW next \in RunPcs, run' = [run EXCEPT !.pc = next],
         next \in {"exit", "down"} \/ <<run.pc, next>> \in Moves,
         disk' = disk, rheight' = rheight, rcov'.at = rcov.at, counter'.tBtc = counter.tBtc,
         counter' \in CounterStates,
         rcov' \in CovenantStates,
         counter.state = "none" => counter'.state = "none"
  PROVE  RunnerInv'
<1>1. RunnerType /\ KeysBeforeValue /\ KeysHeld /\ HoldsItsDelay /\ ClockStands
  BY DEF RunnerInv
<1>2. run \in Runs
  BY <1>1 DEF RunnerType
<1>3. /\ run' \in Runs /\ run'.pc = next /\ run'.kind = run.kind /\ run'.tBtc = run.tBtc
      /\ run'.lockedAt = run.lockedAt /\ run'.raced = run.raced /\ run'.confs = run.confs
  BY <1>2, GotoIsRun
<1>4. RunnerType' /\ KeysBeforeValue'
  BY <1>1, <1>3 DEF RunnerType, KeysBeforeValue
<1>5. KeysHeld'
  BY <1>1, <1>3 DEF KeysHeld, KeyedPcs, Moves
<1>6. HoldsItsDelay'
  BY <1>1, <1>3 DEF HoldsItsDelay, Moves
<1>7. ClockStands'
  BY <1>1, <1>3 DEF ClockStands, Moves
<1> QED
  BY <1>4, <1>5, <1>6, <1>7 DEF RunnerInv

(* A step that leaves run, files, heights and the covenant's block alone.  *)
LEMMA StillKeeps ==
  ASSUME RunnerInv, UNCHANGED <<run, disk, rheight>>, rcov'.at = rcov.at,
         counter'.tBtc = counter.tBtc, counter'.state = counter.state,
         counter' \in CounterStates,
         rcov' \in CovenantStates
  PROVE  RunnerInv'
BY DEF RunnerInv, RunnerType, KeysBeforeValue, KeysHeld, HoldsItsDelay, ClockStands

LEMMA RunnerInvInit == RunnerInit => RunnerInv
<1> SUFFICES ASSUME RunnerInit PROVE RunnerInv
  OBVIOUS
<1>1. PICK k \in Kinds : run = IdleRun(k)
  BY DEF RunnerInit
<1>2. run \in Runs /\ run.pc = "start" /\ run.raced = 0 /\ run.lockedAt = None
  BY <1>1, IdleIsRun DEF IdleRun
<1>3. RunnerType
  BY <1>2 DEF RunnerInit, RunnerType, CounterStates, CovenantStates, None, Delays
<1>4. KeysBeforeValue /\ KeysHeld /\ HoldsItsDelay /\ ClockStands
  BY <1>2 DEF RunnerInit, KeysBeforeValue, KeysHeld, HoldsItsDelay, ClockStands, KeyedPcs
<1> QED
  BY <1>3, <1>4 DEF RunnerInv

------------------------------------------------------------- (* the steps *)

(* The margin is measured, and the refund delay with it.                   *)
LEMMA StartsKeep ==
  ASSUME RunnerInv,
         (\E times \in Observed : StartDust(times)) \/ StartEth \/ StartGrief \/ Rerun
  PROVE  RunnerInv'
<1>1. RunnerType /\ KeysBeforeValue /\ KeysHeld /\ HoldsItsDelay /\ ClockStands
  BY DEF RunnerInv
<1>2. run \in Runs /\ counter \in CounterStates /\ rcov \in CovenantStates
  BY <1>1 DEF RunnerType
<1>3. ASSUME NEW times \in Observed, StartDust(times)
      PROVE  RunnerInv'
  <2>1. run.pc = "start" /\ UNCHANGED <<disk, counter, rcov, rheight>>
    BY <1>3 DEF StartDust, RunAt
  <2>2. CASE Measurable(times)
    <3> DEFINE delay == TBtc(times)
    <3>1. delay \in Delays /\ run' = [run EXCEPT !.pc = "keys", !.tBtc = delay]
      BY <1>3, <2>2 DEF StartDust, Delays
    <3> HIDE DEF delay
    <3>2. /\ run' \in Runs /\ run'.pc = "keys" /\ run'.lockedAt = run.lockedAt
          /\ run'.raced = run.raced
      BY <1>2, <3>1 DEF Runs, RunPcs
    <3>3. RunnerType' /\ KeysBeforeValue'
      BY <1>1, <2>1, <3>2 DEF RunnerType, KeysBeforeValue
    <3>4. KeysHeld' /\ HoldsItsDelay' /\ ClockStands'
      BY <1>1, <2>1, <3>2 DEF KeysHeld, KeyedPcs, HoldsItsDelay, ClockStands
    <3> QED
      BY <3>3, <3>4 DEF RunnerInv
  <2>3. CASE ~Measurable(times)
    <3>1. run' = [run EXCEPT !.pc = "exit"]
      BY <1>3, <2>3 DEF StartDust, Goto
    <3> QED
      BY <1>2, <2>1, <3>1, MoveKeeps DEF RunPcs
  <2> QED
    BY <2>2, <2>3
<1>4. ASSUME StartEth \/ StartGrief
      PROVE  RunnerInv'
  <2>1. run.pc = "start" /\ UNCHANGED <<disk, counter, rcov, rheight>>
    BY <1>4 DEF StartEth, StartGrief, RunAt
  <2>2. PICK next \in {"exit", "mint", "keys"} : run' = [run EXCEPT !.pc = next]
    BY <1>4 DEF StartEth, StartGrief, Goto
  <2>3. next \in RunPcs /\ (next \in {"exit", "down"} \/ <<run.pc, next>> \in Moves)
    BY <2>1 DEF RunPcs, Moves
  <2> QED
    BY <1>2, <2>1, <2>2, <2>3, MoveKeeps
<1>5. CASE Rerun
  <2>1. run' = IdleRun(run.kind) /\ run.kind \in Kinds /\ UNCHANGED <<disk, counter, rcov, rheight>>
    BY <1>2, <1>5 DEF Rerun, Runs
  <2>2. run' \in Runs /\ run'.pc = "start" /\ run'.raced = 0 /\ run'.lockedAt = None
    BY <2>1, IdleIsRun DEF IdleRun
  <2>3. RunnerType' /\ KeysBeforeValue'
    BY <1>1, <2>1, <2>2 DEF RunnerType, KeysBeforeValue
  <2>4. KeysHeld' /\ HoldsItsDelay' /\ ClockStands'
    BY <2>2 DEF KeysHeld, KeyedPcs, HoldsItsDelay, ClockStands
  <2> QED
    BY <2>3, <2>4 DEF RunnerInv
<1> QED
  BY <1>3, <1>4, <1>5

(* The asset is minted; nothing of it is under the run's keys.             *)
LEMMA MintsKeep ==
  ASSUME RunnerInv,
         \/ MintNftCommit \/ MintNftReveal \/ MintFtCommit \/ MintFtReveal
         \/ LoadMintedNft \/ LoadMintedFt
  PROVE  RunnerInv'
<1>1. counter \in CounterStates /\ rcov \in CovenantStates
  BY DEF RunnerInv, RunnerType
<1>2. run.pc = "mint" /\ UNCHANGED <<disk, counter, rcov, rheight>>
  BY DEF MintNftCommit, MintNftReveal, MintFtCommit, MintFtReveal, LoadMintedNft, LoadMintedFt, RunAt
<1>3. CASE UNCHANGED run
  BY <1>1, <1>2, <1>3, StillKeeps
<1>4. CASE run' = [run EXCEPT !.pc = "exit"] \/ run' = [run EXCEPT !.pc = "keys"]
  <2>1. PICK next \in {"exit", "keys"} : run' = [run EXCEPT !.pc = next]
    BY <1>4
  <2>2. next \in RunPcs /\ (next \in {"exit", "down"} \/ <<run.pc, next>> \in Moves)
    BY <1>2 DEF RunPcs, Moves
  <2> QED
    BY <1>1, <1>2, <2>1, <2>2, MoveKeeps
<1> QED
  BY <1>3, <1>4
     DEF MintNftCommit, MintNftReveal, MintFtCommit, MintFtReveal, LoadMintedNft, LoadMintedFt,
         Goto

(* Keys first, with the delay that was measured.                           *)
LEMMA WriteKeysKeeps ==
  ASSUME RunnerInv, WriteKeysDust \/ WriteKeysEth \/ WriteKeysGrief
  PROVE  RunnerInv'
<1>1. RunnerType /\ KeysBeforeValue /\ KeysHeld /\ HoldsItsDelay /\ ClockStands
  BY DEF RunnerInv
<1>2. /\ run \in Runs /\ disk \in [keys : BOOLEAN, seen : BOOLEAN, tBtc : Delays]
      /\ counter \in CounterStates /\ rcov \in CovenantStates
  BY <1>1 DEF RunnerType
<1>3. PICK next \in {"fund", "mature"} : WriteKeys(next)
  BY DEF WriteKeysDust, WriteKeysEth, WriteKeysGrief
<1>4. run.pc = "keys" /\ UNCHANGED <<counter, rcov, rheight>>
  BY <1>3 DEF WriteKeys, RunAt
<1>5. CASE disk.keys
  <2>1. run' = [run EXCEPT !.pc = "exit"] /\ disk' = disk
    BY <1>3, <1>5 DEF WriteKeys, Goto
  <2> QED
    BY <1>2, <1>4, <2>1, MoveKeeps DEF RunPcs
<1>6. CASE ~disk.keys
  <2>1. /\ run' = [run EXCEPT !.pc = next]
        /\ disk' = [disk EXCEPT !.keys = TRUE, !.tBtc = run.tBtc]
    BY <1>3, <1>6 DEF WriteKeys, Goto
  <2>2. /\ run' \in Runs /\ run'.pc = next /\ run'.lockedAt = run.lockedAt
        /\ run'.raced = run.raced
    BY <1>2, <1>3, <2>1 DEF Runs, RunPcs, KeyedPcs
  <2>3. run.tBtc \in Delays
    BY <1>2 DEF Runs
  <2>4. disk' \in [keys : BOOLEAN, seen : BOOLEAN, tBtc : Delays] /\ disk'.keys = TRUE
    BY <1>2, <2>1, <2>3
  <2>5. RunnerType' /\ KeysBeforeValue' /\ KeysHeld'
    BY <1>1, <1>4, <2>2, <2>4 DEF RunnerType, KeysBeforeValue, KeysHeld
  <2>6. HoldsItsDelay' /\ ClockStands'
    BY <1>1, <1>3, <1>4, <2>2 DEF HoldsItsDelay, ClockStands
  <2> QED
    BY <2>5, <2>6 DEF RunnerInv
<1> QED
  BY <1>5, <1>6

(* The HTLC is funded with the delay the run holds.                        *)
LEMMA FundsKeep ==
  ASSUME RunnerInv, FundDust \/ FundEth \/ FundGrief
  PROVE  RunnerInv'
<1>1. RunnerType /\ KeysBeforeValue /\ KeysHeld /\ HoldsItsDelay /\ ClockStands
  BY DEF RunnerInv
<1>2. run \in Runs /\ counter \in CounterStates /\ run.tBtc \in Delays
  BY <1>1 DEF RunnerType, CounterStates, Runs
<1>3. disk \in [keys : BOOLEAN, seen : BOOLEAN, tBtc : Delays]
  BY <1>1 DEF RunnerType
<1>4. run.pc = "fund" /\ UNCHANGED <<rcov, rheight>>
  BY DEF FundDust, FundEth, FundGrief, RunAt
<1>5. disk.keys
  BY <1>1, <1>4 DEF KeysHeld, KeyedPcs
<1>6. disk' \in [keys : BOOLEAN, seen : BOOLEAN, tBtc : Delays] /\ disk'.keys = disk.keys
  <2>1. disk' = disk \/ disk' = [disk EXCEPT !.seen = TRUE]
    BY DEF FundDust, FundEth, FundGrief
  <2> QED
    BY <1>3, <2>1
<1>7. /\ run' = [run EXCEPT !.pc = run'.pc] /\ run'.pc \in {"height", "verify", "lock"}
      /\ run.kind = "dust" => run'.pc = "height"
  BY <1>2 DEF FundDust, FundEth, FundGrief, Goto, Runs
<1>8. /\ run' \in Runs /\ run'.kind = run.kind /\ run'.tBtc = run.tBtc
      /\ run'.lockedAt = run.lockedAt /\ run'.raced = run.raced
  <2>1. run'.pc \in RunPcs
    BY <1>7 DEF RunPcs, KeyedPcs
  <2> QED
    BY <1>2, <1>7, <2>1, GotoIsRun
<1>9. counter' \in CounterStates /\ (run.kind = "dust" => counter'.tBtc = run.tBtc)
  <2>1. \/ counter' = [counter EXCEPT !.state = "locked", !.tBtc = run.tBtc]
        \/ counter' = [counter EXCEPT !.state = "locked"] /\ run.kind # "dust"
    BY DEF FundDust, FundEth, FundGrief
  <2> QED
    BY <1>2, <2>1 DEF CounterStates
<1>10. RunnerType' /\ KeysBeforeValue' /\ KeysHeld'
  BY <1>1, <1>4, <1>5, <1>6, <1>8, <1>9
     DEF RunnerType, KeysBeforeValue, KeysHeld, CounterStates
<1>11. HoldsItsDelay'
  BY <1>7, <1>8, <1>9 DEF HoldsItsDelay
<1>12. ClockStands'
  BY <1>1, <1>4, <1>7, <1>8 DEF ClockStands, None, RunnerType
<1> QED
  BY <1>10, <1>11, <1>12 DEF RunnerInv

(* The lock height is read before the asset is locked.                     *)
LEMMA LocksKeep ==
  ASSUME RunnerInv, ReadLockHeight \/ LockSingleton \/ LockFt \/ LockRxd
  PROVE  RunnerInv'
<1>1. RunnerType /\ KeysBeforeValue /\ KeysHeld /\ HoldsItsDelay /\ ClockStands
  BY DEF RunnerInv
<1>2. run \in Runs /\ counter \in CounterStates /\ rcov \in CovenantStates /\ rheight \in Nat
  BY <1>1 DEF RunnerType
<1>3. CASE ReadLockHeight
  <2>1. /\ run.pc = "height" /\ run' = [run EXCEPT !.pc = "lock", !.lockedAt = rheight]
        /\ UNCHANGED <<disk, counter, rcov, rheight>>
    BY <1>3 DEF ReadLockHeight, RunAt
  <2>2. /\ run' \in Runs /\ run'.pc = "lock" /\ run'.lockedAt = rheight /\ run'.kind = run.kind
        /\ run'.tBtc = run.tBtc /\ run'.raced = run.raced
    <3>1. run \in Runs /\ rheight \in Int
      BY <1>2
    <3>2. [run EXCEPT !.pc = "lock", !.lockedAt = rheight] \in Runs
      BY <3>1 DEF Runs, RunPcs, KeyedPcs
    <3> QED
      BY <2>1, <3>1, <3>2 DEF Runs
  <2>3. RunnerType' /\ KeysBeforeValue'
    BY <1>1, <2>1, <2>2 DEF RunnerType, KeysBeforeValue
  <2>4. KeysHeld' /\ HoldsItsDelay' /\ ClockStands'
    BY <1>1, <1>2, <2>1, <2>2 DEF KeysHeld, KeyedPcs, HoldsItsDelay, ClockStands
  <2> QED
    BY <2>3, <2>4 DEF RunnerInv
<1>4. CASE Locked /\ run.pc = "lock" /\ UNCHANGED <<disk, counter>>
  <2>1. /\ rheight' = rheight + 1 /\ rcov' = [rcov EXCEPT !.at = rheight + 1]
        /\ run' = [run EXCEPT !.pc = "revalidate"]
    BY <1>4 DEF Locked, Goto
  <2>2. /\ run' \in Runs /\ run'.pc = "revalidate" /\ run'.lockedAt = run.lockedAt
        /\ run'.kind = run.kind /\ run'.tBtc = run.tBtc /\ run'.raced = run.raced
    BY <1>2, <2>1, GotoIsRun DEF RunPcs, KeyedPcs
  <2>3. rcov' \in CovenantStates /\ rcov'.at = rheight + 1
    BY <1>2, <2>1 DEF CovenantStates
  <2>4. disk.keys
    BY <1>1, <1>4 DEF KeysHeld, KeyedPcs
  <2>5. RunnerType'
    BY <1>1, <1>2, <1>4, <2>1, <2>2, <2>3 DEF RunnerType
  <2>6. KeysBeforeValue' /\ KeysHeld'
    BY <1>4, <2>4 DEF KeysBeforeValue, KeysHeld
  <2>7. HoldsItsDelay'
    BY <1>1, <1>4, <2>2 DEF HoldsItsDelay
  <2>8. ClockStands'
    <3>1. run.raced = 0 /\ run.lockedAt <= rheight /\ run.lockedAt \in Int
      BY <1>1, <1>2, <1>4 DEF ClockStands, Runs
    <3> QED
      BY <1>2, <2>2, <2>3, <3>1 DEF ClockStands
  <2> QED
    BY <2>5, <2>6, <2>7, <2>8 DEF RunnerInv
<1>5. CASE run' = [run EXCEPT !.pc = "exit"] /\ UNCHANGED <<disk, counter, rcov, rheight>>
  BY <1>2, <1>5, MoveKeeps DEF RunPcs
<1> QED
  BY <1>3, <1>4, <1>5 DEF LockSingleton, LockFt, LockRxd, RunAt, Goto

(* The claim loop: what it moves is its counter and the spend of an output.*)
LEMMA ClaimsKeep ==
  ASSUME RunnerInv,
         \/ \E arg \in DeadlineArgs : MakerClaimsDust(arg) \/ MakerClaimsEth(arg)
         \/ TakerClaims \/ VulnerableEth \/ VulnerableDust \/ MutualRefund
  PROVE  RunnerInv'
<1>1. RunnerType /\ KeysBeforeValue /\ KeysHeld /\ HoldsItsDelay /\ ClockStands
  BY DEF RunnerInv
<1>2. run \in Runs /\ counter \in CounterStates /\ rcov \in CovenantStates /\ rheight \in Nat
  BY <1>1 DEF RunnerType
<1>3. ASSUME NEW s, MakerClaims(s),
             s \in {Infinite, None} \/ CeilDiv(s, Interval) \in Deadlines
      PROVE  RunnerInv'
  <2>1. /\ run.pc = "claim" /\ UNCHANGED <<disk, rcov, rheight>>
        /\ counter' = counter \/ counter' = [counter EXCEPT !.state = "claimed"]
    BY <1>3 DEF MakerClaims, RunAt
  <2>2. counter' \in CounterStates /\ counter'.tBtc = counter.tBtc
    BY <1>2, <2>1 DEF CounterStates
  <2>3. counter.state # "none"
    BY <1>3 DEF MakerClaims
  <2>4. CASE s = None
    <3>1. run' = [run EXCEPT !.pc = "exit"]
      BY <1>3, <2>4 DEF MakerClaims
    <3> QED
      BY <1>2, <2>1, <2>2, <2>3, <3>1, MoveKeeps DEF RunPcs
  <2>5. CASE s # None
    <3> DEFINE d == IF s = Infinite THEN s ELSE CeilDiv(s, Interval)
    <3>1. d \in Deadlines
      BY <1>3, <2>5 DEF Deadlines
    <3>2. run' = [run EXCEPT !.pc = "wait", !.waited = 0, !.deadline = d]
      BY <1>3, <2>5 DEF MakerClaims
    <3> HIDE DEF d
    <3>3. /\ run' \in Runs /\ run'.pc = "wait" /\ run'.lockedAt = run.lockedAt
          /\ run'.kind = run.kind /\ run'.tBtc = run.tBtc /\ run'.raced = run.raced
      BY <1>2, <3>1, <3>2 DEF Runs, RunPcs, KeyedPcs
    <3>4. RunnerType'
      BY <1>1, <2>1, <2>2, <3>3 DEF RunnerType
    <3>5. KeysBeforeValue' /\ KeysHeld'
      BY <1>1, <2>1 DEF KeysBeforeValue, KeysHeld, KeyedPcs
    <3>6. HoldsItsDelay' /\ ClockStands'
      BY <1>1, <2>1, <2>2, <3>3 DEF HoldsItsDelay, ClockStands
    <3> QED
      BY <3>4, <3>5, <3>6 DEF RunnerInv
  <2> QED
    BY <2>4, <2>5
<1>4. ASSUME NEW arg \in DeadlineArgs, MakerClaimsDust(arg) \/ MakerClaimsEth(arg)
      PROVE  RunnerInv'
  <2>1. CASE MakerClaimsDust(arg)
    <3>1. CeilDiv(ValidatedDeadline(arg), Interval) \in Deadlines
      BY DEF Deadlines
    <3> QED
      BY <1>3, <2>1, <3>1 DEF MakerClaimsDust
  <2>2. CASE MakerClaimsEth(arg)
    <3>1. CeilDiv(arg, Interval) \in Deadlines
      BY DEF Deadlines
    <3> QED
      BY <1>3, <2>2, <3>1 DEF MakerClaimsEth
  <2> QED
    BY <1>4, <2>1, <2>2
<1>5. ASSUME ClaimsOrLoses, run.pc \in {"wait", "vulnerable"}
      PROVE  RunnerInv'
  <2>1. UNCHANGED <<disk, counter, rheight>>
    BY <1>5 DEF ClaimsOrLoses
  <2>2. PICK next \in {"done", "exit"} : run' = [run EXCEPT !.pc = next]
    BY <1>5 DEF ClaimsOrLoses, Goto
  <2>3. rcov' = rcov \/ rcov' = [rcov EXCEPT !.spent = "taker"]
    BY <1>5 DEF ClaimsOrLoses
  <2>4. rcov' \in CovenantStates /\ rcov'.at = rcov.at
    BY <1>2, <2>3 DEF CovenantStates
  <2>5. next \in RunPcs /\ (next \in {"exit", "down"} \/ <<run.pc, next>> \in Moves)
    BY <1>5 DEF RunPcs, KeyedPcs, Moves
  <2> QED
    BY <1>2, <2>1, <2>2, <2>4, <2>5, MoveKeeps
<1>6. CASE TakerClaims
  <2>1. run.pc = "wait"
    BY <1>6 DEF TakerClaims, RunAt
  <2>2. CASE Goto("vulnerable") /\ UNCHANGED <<disk, counter, rcov, rheight>>
    <3>1. run' = [run EXCEPT !.pc = "vulnerable"] /\ <<run.pc, "vulnerable">> \in Moves
      BY <2>1, <2>2 DEF Goto, Moves
    <3>2. "vulnerable" \in RunPcs
      BY DEF RunPcs, KeyedPcs
    <3> QED
      BY <1>2, <2>2, <3>1, <3>2, MoveKeeps
  <2>3. CASE ClaimsOrLoses
    BY <1>5, <2>1, <2>3
  <2> QED
    BY <1>6, <2>2, <2>3 DEF TakerClaims
<1>7. CASE VulnerableEth \/ VulnerableDust
  BY <1>5, <1>7 DEF VulnerableEth, VulnerableDust, RunAt
<1>8. CASE MutualRefund
  <2>1. /\ run.pc = "refund" /\ run' = [run EXCEPT !.pc = "done"] /\ UNCHANGED <<disk, rheight>>
        /\ counter.state = "locked" /\ counter' = [counter EXCEPT !.state = "refunded"]
        /\ rcov' = [rcov EXCEPT !.spent = "maker"]
    BY <1>8 DEF MutualRefund, RunAt, Goto
  <2>2. /\ counter' \in CounterStates /\ counter'.tBtc = counter.tBtc
        /\ rcov' \in CovenantStates /\ rcov'.at = rcov.at
    BY <1>2, <2>1 DEF CounterStates, CovenantStates
  <2>3. "done" \in RunPcs /\ <<run.pc, "done">> \in Moves
    BY <2>1 DEF RunPcs, KeyedPcs, Moves
  <2> QED
    BY <2>1, <2>2, <2>3, MoveKeeps
<1> QED
  BY <1>4, <1>6, <1>7, <1>8

(* A resumed run: terms from the file, the lock height from two reads.     *)
LEMMA ResumesKeep ==
  ASSUME RunnerInv,
         (\E times \in Observed : Resume(times)) \/ ResumeReadConfs \/ ResumeReadTip
  PROVE  RunnerInv'
<1>1. RunnerType /\ KeysBeforeValue /\ KeysHeld /\ HoldsItsDelay /\ ClockStands
  BY DEF RunnerInv
<1>2. /\ run \in Runs /\ counter \in CounterStates /\ rcov \in CovenantStates /\ rheight \in Nat
      /\ rcov.at \in Int /\ disk.tBtc \in Delays /\ run.confs \in Int /\ run.raced \in Nat
  BY <1>1 DEF RunnerType, CounterStates, CovenantStates, Runs
<1>3. UNCHANGED <<disk, counter, rcov, rheight>>
  BY DEF Resume, ResumeWith, ResumeReadConfs, ResumeReadTip
<1>4. ASSUME NEW times \in Observed, Resume(times)
      PROVE  RunnerInv'
  <2> DEFINE found == counter.state \in {"locked", "claimed"} /\ counter.tBtc = disk.tBtc
             next == IF found THEN "confs" ELSE "exit"
             base == IdleRun("dust")
  <2>1. /\ run.pc = "down" /\ run.kind = "dust" /\ disk.keys
        /\ run' = [base EXCEPT !.tBtc = disk.tBtc, !.pc = next]
    BY <1>4 DEF Resume, ResumeWith, RunAt
  <2>2. "dust" \in Kinds
    BY <1>2, <2>1 DEF Runs
  <2>3. base \in Runs /\ base.raced = 0
    BY <2>2, IdleIsRun DEF IdleRun
  <2>4. next \in {"confs", "exit"} /\ (next = "confs" => counter.tBtc = disk.tBtc)
    OBVIOUS
  <2> HIDE DEF found, next, base
  <2>5. /\ run' \in Runs /\ run'.pc = next /\ run'.tBtc = disk.tBtc /\ run'.raced = 0
    BY <1>2, <2>1, <2>3, <2>4 DEF Runs, RunPcs, KeyedPcs
  <2>6. RunnerType' /\ KeysBeforeValue' /\ KeysHeld'
    BY <1>1, <1>3, <2>1, <2>5 DEF RunnerType, KeysBeforeValue, KeysHeld
  <2>7. HoldsItsDelay' /\ ClockStands'
    BY <1>3, <2>4, <2>5 DEF HoldsItsDelay, ClockStands
  <2> QED
    BY <2>6, <2>7 DEF RunnerInv
<1>5. CASE ResumeReadConfs
  <2>1. run.pc = "confs" /\ run.raced = 0 /\ disk.keys
    BY <1>1, <1>5 DEF ResumeReadConfs, RunAt, ClockStands, KeysHeld, KeyedPcs
  <2>2. CASE Confs >= 1 /\ rcov.spent = "none"
    <3> DEFINE depth == Confs
    <3>1. run' = [run EXCEPT !.pc = "tip", !.confs = depth]
      BY <1>5, <2>2 DEF ResumeReadConfs
    <3>2. depth = rheight - rcov.at + 1 /\ depth \in Int
      BY <1>2, <2>2 DEF Confs
    <3> HIDE DEF depth
    <3>3. /\ run' \in Runs /\ run'.pc = "tip" /\ run'.confs = depth /\ run'.raced = run.raced
          /\ run'.kind = run.kind /\ run'.tBtc = run.tBtc
      BY <1>2, <3>1, <3>2 DEF Runs, RunPcs, KeyedPcs
    <3>4. RunnerType' /\ KeysBeforeValue' /\ KeysHeld'
      BY <1>1, <1>3, <2>1, <3>3 DEF RunnerType, KeysBeforeValue, KeysHeld
    <3>5. HoldsItsDelay'
      BY <1>1, <1>3, <2>1, <3>3 DEF HoldsItsDelay
    <3>6. ClockStands'
      BY <1>2, <1>3, <2>1, <3>2, <3>3 DEF ClockStands
    <3> QED
      BY <3>4, <3>5, <3>6 DEF RunnerInv
  <2>3. CASE ~(Confs >= 1 /\ rcov.spent = "none")
    <3>1. run' = [run EXCEPT !.pc = "exit"]
      BY <1>5, <2>3 DEF ResumeReadConfs
    <3> QED
      BY <1>2, <1>3, <3>1, MoveKeeps DEF RunPcs
  <2> QED
    BY <2>2, <2>3
<1>6. CASE ResumeReadTip
  <2> DEFINE at == rheight - run.confs + 1
  <2>1. /\ run.pc = "tip" /\ run' = [run EXCEPT !.pc = "revalidate", !.lockedAt = at]
        /\ at = rcov.at + run.raced /\ at \in Int /\ disk.keys
    BY <1>1, <1>2, <1>6 DEF ResumeReadTip, RunAt, ClockStands, KeysHeld, KeyedPcs
  <2> HIDE DEF at
  <2>2. /\ run' \in Runs /\ run'.pc = "revalidate" /\ run'.lockedAt = at
        /\ run'.raced = run.raced /\ run'.kind = run.kind /\ run'.tBtc = run.tBtc
    BY <1>2, <2>1 DEF Runs, RunPcs, KeyedPcs
  <2>3. RunnerType' /\ KeysBeforeValue' /\ KeysHeld'
    BY <1>1, <1>3, <2>1, <2>2 DEF RunnerType, KeysBeforeValue, KeysHeld
  <2>4. HoldsItsDelay' /\ ClockStands'
    BY <1>1, <1>2, <1>3, <2>1, <2>2 DEF HoldsItsDelay, ClockStands
  <2> QED
    BY <2>3, <2>4 DEF RunnerInv
<1> QED
  BY <1>4, <1>5, <1>6

(* Blocks, the maker's refund, a crash.                                    *)
LEMMA EnvironmentKeeps ==
  ASSUME RunnerInv, RunnerBlock \/ CounterBlock \/ MakerRefunds
  PROVE  RunnerInv'
<1>1. RunnerType /\ KeysBeforeValue /\ KeysHeld /\ HoldsItsDelay /\ ClockStands
  BY DEF RunnerInv
<1>2. run \in Runs /\ counter \in CounterStates /\ rcov \in CovenantStates
  BY <1>1 DEF RunnerType
<1>3. CASE RunnerBlock
  <2> DEFINE wait == IF run.pc = "wait" THEN run.waited + 1 ELSE run.waited
             race == IF run.pc = "tip" THEN run.raced + 1 ELSE run.raced
  <2>1. /\ rheight' = rheight + 1 /\ UNCHANGED <<disk, counter, rcov>>
        /\ run' = [run EXCEPT !.waited = wait, !.raced = race]
    BY <1>3 DEF RunnerBlock, RunAt
  <2>2. /\ rheight \in Nat /\ rcov.at \in Int /\ run.confs \in Int /\ run.lockedAt \in Int
        /\ run.raced \in Nat /\ run.waited \in Nat
    BY <1>1, <1>2 DEF Runs, CovenantStates, RunnerType
  <2>3. wait \in Nat /\ race \in Nat /\ race >= run.raced
        /\ (run.pc = "tip" => race = run.raced + 1) /\ (run.pc # "tip" => race = run.raced)
    BY <2>2
  <2> HIDE DEF wait, race
  <2>4. /\ run' \in Runs /\ run'.pc = run.pc /\ run'.confs = run.confs /\ run'.raced = race
        /\ run'.lockedAt = run.lockedAt /\ run'.kind = run.kind /\ run'.tBtc = run.tBtc
    BY <1>2, <2>1, <2>3 DEF Runs
  <2>5. RunnerType'
    BY <1>1, <2>1, <2>2, <2>4 DEF RunnerType
  <2>6. KeysBeforeValue' /\ KeysHeld' /\ HoldsItsDelay'
    BY <1>1, <2>1, <2>4 DEF KeysBeforeValue, KeysHeld, HoldsItsDelay
  <2>7. ClockStands'
    BY <1>1, <2>1, <2>2, <2>3, <2>4 DEF ClockStands
  <2> QED
    BY <2>5, <2>6, <2>7 DEF RunnerInv
<1>4. CASE CounterBlock
  <2>1. /\ counter' = [counter EXCEPT !.depth = counter.depth + 1]
        /\ UNCHANGED <<run, disk, rcov, rheight>>
    BY <1>4 DEF CounterBlock
  <2>2. counter.depth \in Nat
    BY <1>2 DEF CounterStates
  <2>3. /\ counter' \in CounterStates /\ counter'.tBtc = counter.tBtc
        /\ counter'.state = counter.state
    BY <1>2, <2>1, <2>2 DEF CounterStates
  <2> QED
    BY <1>2, <2>1, <2>3, StillKeeps
<1>5. CASE MakerRefunds
  <2>1. rcov' = [rcov EXCEPT !.spent = "maker"] /\ UNCHANGED <<run, disk, counter, rheight>>
    BY <1>5 DEF MakerRefunds
  <2>2. rcov' \in CovenantStates /\ rcov'.at = rcov.at
    BY <1>2, <2>1 DEF CovenantStates
  <2> QED
    BY <1>2, <2>1, <2>2, StillKeeps
<1> QED
  BY <1>3, <1>4, <1>5

LEMMA RunnerInvNext == RunnerInv /\ [RunnerNext]_runnerVars => RunnerInv'
<1> SUFFICES ASSUME RunnerInv, [RunnerNext]_runnerVars PROVE RunnerInv'
  OBVIOUS
<1>1. counter \in CounterStates /\ rcov \in CovenantStates
  BY DEF RunnerInv, RunnerType
<1>2. CASE Exit \/ RunnerCrash \/ DeadlineExceeded
  <2>1. PICK next \in {"exit", "down"} : run' = [run EXCEPT !.pc = next]
    BY <1>2 DEF Exit, RunnerCrash, DeadlineExceeded, Goto
  <2>2. UNCHANGED <<disk, counter, rcov, rheight>>
    BY <1>2 DEF Exit, RunnerCrash, DeadlineExceeded
  <2> QED
    BY <1>1, <2>1, <2>2, MoveKeeps DEF RunPcs
<1>3. CASE WaitGenesisMature \/ Verify \/ RevalidateDust \/ RevalidateEth \/ RevalidateGrief
  <2>1. PICK next \in RunPcs : run' = [run EXCEPT !.pc = next] /\ <<run.pc, next>> \in Moves
    BY <1>3 DEF WaitGenesisMature, Verify, RevalidateDust, RevalidateEth, RevalidateGrief,
                Revalidate, RunAt, Goto, Moves, RunPcs, KeyedPcs
  <2>2. UNCHANGED <<disk, counter, rcov, rheight>>
    BY <1>3 DEF WaitGenesisMature, Verify, RevalidateDust, RevalidateEth, RevalidateGrief,
                Revalidate
  <2> QED
    BY <1>1, <2>1, <2>2, MoveKeeps
<1>4. CASE PollAgain \/ UNCHANGED runnerVars
  <2>1. UNCHANGED <<run, disk, counter, rcov, rheight>>
    BY <1>4 DEF PollAgain, runnerVars
  <2> QED
    BY <1>1, <2>1, StillKeeps
<1> QED
  BY <1>2, <1>3, <1>4, StartsKeep, MintsKeep, WriteKeysKeeps, FundsKeep, LocksKeep, ClaimsKeep,
     ResumesKeep, EnvironmentKeeps DEF RunnerNext, Operator

(* A runner that is past its keys file has it on disk, knows the delay it  *)
(* funded, and counts blocks from no later than the covenant's, in every   *)
(* state that crashes and resumes reach.                                   *)
THEOREM RunnerInvariant == RunnerSpec => []RunnerInv
BY RunnerInvInit, RunnerInvNext, PTL DEF RunnerSpec

LEMMA RunnerInvIsEnough == RunnerInv => KeysBeforeValue /\ ResumesItsHtlc /\ GateClockBehindLock
BY DEF RunnerInv, HoldsItsDelay, ResumesItsHtlc, ClockStands, GateClockBehindLock, RunAt

------------------------------------------------ (* the staged dMint deploy *)

MintDicts == [fan : Nat, sent : BOOLEAN, minerKey : Nat, mint : Nat]
Terminals ==
  [stage : {"idle", "prepare", "send-deploy", "mine", "send-mint"},
   pc : {"idle", "built", "sent", "grinding"}, st : MintDicts]

MintType ==
  /\ proc \in [Procs -> Terminals]
  /\ mintFile \in MintDicts
  /\ fanouts \in Nat /\ minerKeys \in Nat /\ overrun \in BOOLEAN
  /\ mints \subseteq [fan : Nat, key : Nat]

(* What a stage holds while nothing else of it is on file: a fan-out, the  *)
(* key of the mint in its dict and, once it has sent the mint, the key of  *)
(* that one.                                                               *)
HeldByStage(d, done) ==
  /\ d.stage # "idle" => d.st.fan # 0
  /\ d.stage # "mine" => d.st.mint = d.st.minerKey
  /\ d.stage = "send-mint" => [fan |-> d.st.fan, key |-> d.st.minerKey] \in done
StagesHold == \A p \in Procs : HeldByStage(proc[p], mints)

(* Nothing is minted before a fan-out is on file, and of one fan-out once; *)
(* a mint on file goes with its key.                                       *)
MintedOnce ==
  /\ 0 \notin deployed
  /\ mintFile.fan = 0 => mints = {}
  /\ \A x, y \in mints : x.fan = y.fan => x = y
  /\ mintFile.mint = mintFile.minerKey

(* The key on file is that of the fan-out's mint.                          *)
KeyIsKept ==
  ~overrun => \A x \in mints : x.fan = mintFile.fan => x.key = mintFile.minerKey

MintInv == MintType /\ StagesHold /\ MintedOnce /\ KeyIsKept

LEMMA MintInvInit == MintInit => MintInv
<1> SUFFICES ASSUME MintInit PROVE MintInv
  OBVIOUS
<1>1. NoDict \in MintDicts /\ IdleStage \in Terminals
  BY DEF NoDict, MintDicts, IdleStage, Terminals
<1>2. MintType
  BY <1>1 DEF MintInit, MintType
<1>3. StagesHold /\ MintedOnce /\ KeyIsKept
  BY DEF MintInit, StagesHold, HeldByStage, IdleStage, NoDict, MintedOnce, KeyIsKept
<1> QED
  BY <1>2, <1>3 DEF MintInv

(* A terminal that moves, while the others keep what they hold.            *)
LEMMA TerminalMoves ==
  ASSUME MintInv, NEW p \in Procs, NEW d \in Terminals, proc' = [proc EXCEPT ![p] = d],
         HeldByStage(d, mints'), mints \subseteq mints'
  PROVE  proc' \in [Procs -> Terminals] /\ StagesHold'
<1>1. proc \in [Procs -> Terminals] /\ StagesHold
  BY DEF MintInv, MintType
<1>2. proc' \in [Procs -> Terminals]
  BY <1>1
<1>3. ASSUME NEW q \in Procs
      PROVE  HeldByStage(proc'[q], mints')
  <2>1. CASE q = p
    BY <1>1, <2>1
  <2>2. CASE q # p
    <3>1. proc'[q] = proc[q] /\ HeldByStage(proc[q], mints)
      BY <1>1, <2>2 DEF StagesHold
    <3> QED
      BY <3>1 DEF HeldByStage
  <2> QED
    BY <2>1, <2>2
<1> QED
  BY <1>2, <1>3 DEF StagesHold

(* A terminal that ends, once what it wrote keeps the rest.                *)
LEMMA TerminalEnds ==
  ASSUME MintInv, NEW p \in Procs, Done(p), mints' = mints
  PROVE  proc' \in [Procs -> Terminals] /\ StagesHold'
<1>1. IdleStage \in Terminals /\ HeldByStage(IdleStage, mints')
  BY DEF IdleStage, Terminals, NoDict, MintDicts, HeldByStage
<1> QED
  BY <1>1, TerminalMoves DEF Done

(* A stage starts with a dict: the file's, or a new one.                   *)
LEMMA StagesStart ==
  ASSUME MintInv, NEW p \in Procs,
         Stops(p) \/ Fanout(p, TRUE) \/ Fanout(p, FALSE) \/ SendDeploy(p) \/ Mine(p)
  PROVE  MintInv'
<1>1. MintType /\ StagesHold /\ MintedOnce /\ KeyIsKept
  BY DEF MintInv
<1>2. UNCHANGED <<mintFile, mints, overrun>>
  BY DEF Stops, Fanout, SendDeploy, Mine
<1>3. fanouts' \in Nat /\ minerKeys' \in Nat /\ 0 \notin deployed'
  BY <1>1 DEF Stops, Fanout, SendDeploy, Mine, MintType, MintedOnce
<1>4. proc' \in [Procs -> Terminals] /\ StagesHold'
  <2>1. CASE proc' = proc
    BY <1>1, <1>2, <2>1 DEF MintType, StagesHold, HeldByStage
  <2>2. CASE Stops(p)
    BY <1>2, <2>2, TerminalEnds DEF Stops
  <2>3. CASE Fanout(p, FALSE)
    <3> DEFINE n == fanouts + 1
               st == [NoDict EXCEPT !.fan = n]
               d == [stage |-> "prepare", pc |-> "built", st |-> st]
    <3>1. proc' = [proc EXCEPT ![p] = d] /\ n \in Nat /\ n # 0
      BY <1>1, <2>3 DEF Fanout, Set, MintType
    <3> HIDE DEF n
    <3>2. st \in MintDicts /\ st.fan # 0 /\ st.mint = st.minerKey
      BY <3>1 DEF NoDict, MintDicts
    <3> HIDE DEF st
    <3>3. d \in Terminals /\ HeldByStage(d, mints')
      BY <3>2 DEF Terminals, HeldByStage
    <3> HIDE DEF d
    <3> QED
      BY <1>2, <3>1, <3>3, TerminalMoves
  <2>4. CASE SendDeploy(p) /\ proc' # proc
    <3> DEFINE st == [mintFile EXCEPT !.sent = TRUE]
               d == [stage |-> "send-deploy", pc |-> "sent", st |-> st]
    <3>1. proc' = [proc EXCEPT ![p] = d] /\ mintFile.fan # 0
      BY <2>4 DEF SendDeploy, Set
    <3>2. st \in MintDicts /\ st.fan # 0 /\ st.mint = st.minerKey
      BY <1>1, <3>1 DEF MintType, MintedOnce, MintDicts
    <3> HIDE DEF st
    <3>3. d \in Terminals /\ HeldByStage(d, mints')
      BY <3>2 DEF Terminals, HeldByStage
    <3> HIDE DEF d
    <3> QED
      BY <1>2, <3>1, <3>3, TerminalMoves
  <2>5. CASE Mine(p)
    <3> DEFINE st == [mintFile EXCEPT !.minerKey = minerKeys + 1]
               d == [stage |-> "mine", pc |-> "grinding", st |-> st]
    <3>1. proc' = [proc EXCEPT ![p] = d] /\ mintFile.fan # 0 /\ minerKeys \in Nat
      BY <1>1, <2>5 DEF Mine, Set, MintType
    <3>2. st \in MintDicts /\ st.fan # 0
      BY <1>1, <3>1 DEF MintType, MintDicts
    <3> HIDE DEF st
    <3>3. d \in Terminals /\ HeldByStage(d, mints')
      BY <3>2 DEF Terminals, HeldByStage
    <3> HIDE DEF d
    <3> QED
      BY <1>2, <3>1, <3>3, TerminalMoves
  <2> QED
    BY <2>1, <2>2, <2>3, <2>4, <2>5 DEF Fanout
<1>5. MintType' /\ MintedOnce' /\ KeyIsKept'
  BY <1>1, <1>2, <1>3, <1>4 DEF MintType, MintedOnce, KeyIsKept
<1> QED
  BY <1>4, <1>5 DEF MintInv

(* A stage writes its dict over the file.                                  *)
LEMMA StagesSave ==
  ASSUME MintInv, NEW p \in Procs,
         PrepareSave(p) \/ SendDeploySave(p) \/ MineSave(p) \/ SendMintSave(p)
  PROVE  MintInv'
<1>1. MintType /\ StagesHold /\ MintedOnce /\ KeyIsKept
  BY DEF MintInv
<1>2. UNCHANGED <<fanouts, minerKeys, deployed, mints>> /\ Done(p)
  BY DEF PrepareSave, SendDeploySave, MineSave, SendMintSave
<1>3. proc' \in [Procs -> Terminals] /\ StagesHold'
  BY <1>2, TerminalEnds
<1> DEFINE d == proc[p]
<1>4. d \in Terminals /\ d.st \in MintDicts /\ HeldByStage(d, mints)
  BY <1>1 DEF MintType, StagesHold, Terminals
<1> HIDE DEF d
<1>5. /\ mintFile' \in MintDicts /\ overrun' \in BOOLEAN /\ mintFile'.fan # 0
      /\ mintFile'.mint = mintFile'.minerKey
  <2>1. CASE mintFile' = d.st /\ d.stage \in {"prepare", "send-deploy", "send-mint"}
    <3>1. overrun' \in BOOLEAN
      BY <1>1 DEF PrepareSave, SendDeploySave, MineSave, SendMintSave, MintType
    <3> QED
      BY <1>4, <2>1, <3>1 DEF HeldByStage
  <2>2. CASE MineSave(p)
    <3>1. mintFile' = [d.st EXCEPT !.mint = d.st.minerKey] /\ d.stage = "mine"
      BY <2>2 DEF MineSave, StageAt, d
    <3>2. overrun' \in BOOLEAN
      BY <2>2 DEF MineSave
    <3>3. mintFile'.fan = d.st.fan /\ mintFile' \in MintDicts /\ mintFile'.mint = mintFile'.minerKey
      BY <1>4, <3>1 DEF MintDicts
    <3> QED
      BY <1>4, <3>1, <3>2, <3>3 DEF HeldByStage
  <2> QED
    BY <2>1, <2>2 DEF PrepareSave, SendDeploySave, SendMintSave, StageAt, d
<1>6. KeyIsKept'
  <2> SUFFICES ASSUME ~overrun', NEW x \in mints, x.fan = mintFile'.fan
               PROVE  x.key = mintFile'.minerKey
    BY <1>2 DEF KeyIsKept
  <2>1. CASE PrepareSave(p)
    <3>1. mintFile.fan = 0
      BY <2>1 DEF PrepareSave
    <3> QED
      BY <1>1, <3>1 DEF MintedOnce
  <2>2. CASE SendDeploySave(p)
    <3>1. mintFile' = d.st /\ d.stage = "send-deploy" /\ ~overrun
      BY <2>2 DEF SendDeploySave, StageAt, d
    <3>2. mintFile.fan = d.st.fan /\ mintFile.mint = d.st.mint
      BY <2>2 DEF SendDeploySave, d
    <3>3. x.key = mintFile.minerKey
      BY <1>1, <3>1, <3>2 DEF KeyIsKept
    <3> QED
      BY <1>1, <1>4, <3>1, <3>2, <3>3 DEF MintedOnce, HeldByStage
  <2>3. CASE MineSave(p)
    <3>1. mintFile' = [d.st EXCEPT !.mint = d.st.minerKey]
      BY <2>3 DEF MineSave, d
    <3>2. mintFile'.fan = d.st.fan
      BY <1>4, <3>1 DEF MintDicts
    <3>3. mintFile.fan = d.st.fan /\ ~FanMinted(mintFile.fan)
      BY <2>3 DEF MineSave, d
    <3> QED
      BY <3>2, <3>3 DEF FanMinted
  <2>4. CASE SendMintSave(p)
    <3>1. mintFile' = d.st /\ d.stage = "send-mint"
      BY <2>4 DEF SendMintSave, StageAt, d
    <3>2. [fan |-> d.st.fan, key |-> d.st.minerKey] \in mints
      BY <1>4, <3>1 DEF HeldByStage
    <3> QED
      BY <1>1, <3>1, <3>2 DEF MintedOnce
  <2> QED
    BY <2>1, <2>2, <2>3, <2>4
<1>7. MintType' /\ MintedOnce'
  BY <1>1, <1>2, <1>3, <1>5 DEF MintType, MintedOnce
<1> QED
  BY <1>3, <1>6, <1>7 DEF MintInv

(* The mint on file is sent, once per fan-out.                             *)
LEMMA SendMintKeeps ==
  ASSUME MintInv, NEW p \in Procs, SendMint(p)
  PROVE  MintInv'
<1>1. MintType /\ StagesHold /\ MintedOnce /\ KeyIsKept
  BY DEF MintInv
<1>2. UNCHANGED <<mintFile, fanouts, minerKeys, deployed, overrun>>
  BY DEF SendMint
<1>3. CASE UNCHANGED <<mints, proc>>
  BY <1>1, <1>2, <1>3 DEF MintInv, MintType, StagesHold, HeldByStage, MintedOnce, KeyIsKept
<1>4. CASE mintFile.fan \in deployed /\ ~FanMinted(mintFile.fan)
  <2> DEFINE new == [fan |-> mintFile.fan, key |-> mintFile.mint]
             d == [stage |-> "send-mint", pc |-> "sent", st |-> mintFile]
  <2>1. mints' = mints \cup {new} /\ proc' = [proc EXCEPT ![p] = d]
    BY <1>4 DEF SendMint, Set
  <2>2. mintFile \in MintDicts /\ mintFile.fan # 0 /\ mintFile.mint = mintFile.minerKey
    BY <1>1, <1>4 DEF MintType, MintedOnce
  <2>3. new \in [fan : Nat, key : Nat]
    BY <2>2 DEF MintDicts
  <2>4. d \in Terminals /\ HeldByStage(d, mints')
    BY <2>1, <2>2 DEF Terminals, HeldByStage
  <2>5. proc' \in [Procs -> Terminals] /\ StagesHold'
    <3> HIDE DEF d, new
    <3> QED
      BY <2>1, <2>4, TerminalMoves
  <2>6. \A x \in mints : x.fan # mintFile.fan
    BY <1>4 DEF FanMinted
  <2>7. MintType' /\ MintedOnce' /\ KeyIsKept'
    BY <1>1, <1>2, <2>1, <2>2, <2>3, <2>5, <2>6 DEF MintType, MintedOnce, KeyIsKept
  <2> QED
    BY <2>5, <2>7 DEF MintInv
<1> QED
  BY <1>3, <1>4 DEF SendMint

LEMMA MintInvNext == MintInv /\ [MintNext]_mintVars => MintInv'
<1> SUFFICES ASSUME MintInv, [MintNext]_mintVars PROVE MintInv'
  OBVIOUS
<1>1. CASE UNCHANGED mintVars
  BY <1>1 DEF mintVars, MintInv, MintType, StagesHold, HeldByStage, MintedOnce, KeyIsKept
<1> QED
  BY <1>1, StagesStart, StagesSave, SendMintKeeps DEF MintNext

(* What each stage of a mint run holds, and that no mint is sent twice, in *)
(* every state the terminals' stages reach together.                       *)
THEOREM MintInvariant == MintSpec => []MintInv
BY MintInvInit, MintInvNext, PTL DEF MintSpec

LEMMA MintInvIsEnough == MintInv => SavedIsReachable
BY DEF MintInv, KeyIsKept, SavedIsReachable, Reachable

----------------------------------------------------- (* the staged refund *)

Trees == [keys : Nat, tbtc : Tbtcs]
RefundDicts == [keys : Nat, tbtc : Tbtcs, trxd : Trxds, sats : Sats, tree : Trees]
DictFiles == {<<>>} \cup {<<st>> : st \in RefundDicts}

RefundType ==
  /\ refundFile \in DictFiles /\ copy \in DictFiles
  /\ step \in [at : {"idle", "selftest", "recorded", "presigned"}, st : DictFiles]
  /\ step.at # "idle" => step.st # <<>>
  /\ step.at = "idle" => step = IdleCommand
  /\ step.at = "selftest" => step.st = refundFile
  /\ printed \subseteq Trees /\ utxos \in Seq([tree : Trees, sats : Sats])
  /\ setups \in Nat /\ again \in BOOLEAN

(* Before the first setup there is nothing.                                *)
NothingBeforeSetup ==
  setups = 0 =>
    /\ refundFile = <<>> /\ copy = <<>> /\ step = IdleCommand
    /\ printed = {} /\ record = <<>> /\ sidecar = <<>>

(* What is paid was printed.                                               *)
PaidIsPrinted == \A i \in DOMAIN utxos : utxos[i].tree \in printed

(* Two dicts of one setup: edits touch neither the saved tree nor the sats.*)
SameSetup(x, y) ==
  x # <<>> /\ y # <<>> => x[1].tree = y[1].tree /\ x[1].sats = y[1].sats

(* The file, the copy and what a command will write are of the one setup,  *)
(* whose tree is the one that was printed.                                 *)
OneSetup ==
  /\ SameSetup(refundFile, copy) /\ SameSetup(refundFile, step.st) /\ SameSetup(copy, step.st)
  /\ \A tree \in printed : refundFile # <<>> /\ refundFile[1].tree = tree
  /\ step.at = "selftest" => copy = <<>> /\ printed = {}

(* A record is of an output that was paid to that tree.                    *)
RecordIsOfSetup ==
  record # <<>> =>
    /\ record[1].out \in DOMAIN utxos /\ utxos[record[1].out].sats = record[1].sats
    /\ refundFile # <<>> /\ refundFile[1].sats = record[1].sats
    /\ refundFile[1].tree = record[1].tree /\ record[1].tbtc = record[1].tree.tbtc

SidecarIsAccepted ==
  sidecar # <<>> => sidecar[1].out \in DOMAIN utxos /\ Accepted(sidecar[1])

RefundInv ==
  /\ RefundType /\ NothingBeforeSetup /\ PaidIsPrinted
  /\ ~again => OneSetup /\ RecordIsOfSetup /\ SidecarIsAccepted

LEMMA RefundInvInit == RefundInit => RefundInv
<1> SUFFICES ASSUME RefundInit PROVE RefundInv
  OBVIOUS
<1>1. RefundType
  <2>1. <<>> \in DictFiles /\ <<>> \in Seq([tree : Trees, sats : Sats])
    BY DEF DictFiles
  <2>2. /\ IdleCommand \in [at : {"idle", "selftest", "recorded", "presigned"}, st : DictFiles]
        /\ IdleCommand.at = "idle"
    BY <2>1 DEF IdleCommand
  <2> QED
    BY <2>1, <2>2 DEF RefundInit, RefundType
<1>2. NothingBeforeSetup /\ PaidIsPrinted
  BY DEF RefundInit, NothingBeforeSetup, PaidIsPrinted
<1>3. OneSetup /\ RecordIsOfSetup /\ SidecarIsAccepted
  BY DEF RefundInit, OneSetup, SameSetup, IdleCommand, RecordIsOfSetup, SidecarIsAccepted
<1> QED
  BY <1>1, <1>2, <1>3 DEF RefundInv

LEMMA DictOfFile ==
  ASSUME NEW x \in DictFiles, x # <<>>
  PROVE  x[1] \in RefundDicts /\ x = <<x[1]>>
BY DEF DictFiles

(* The first setup starts from nothing; after a second one no more is said.*)
LEMMA SetupKeeps ==
  ASSUME RefundInv, NEW s \in Sats, NEW b \in Tbtcs, NEW r \in Trxds, NEW force \in BOOLEAN,
         Setup(s, b, r, force)
  PROVE  RefundInv'
<1>1. /\ RefundType /\ NothingBeforeSetup /\ PaidIsPrinted
      /\ ~again => OneSetup /\ RecordIsOfSetup /\ SidecarIsAccepted
  BY DEF RefundInv
<1> DEFINE number == setups + 1
           tree == [keys |-> number, tbtc |-> b]
           st == [keys |-> number, tbtc |-> b, trxd |-> r, sats |-> s, tree |-> tree]
<1>2. /\ refundFile' = <<st>> /\ step' = [at |-> "selftest", st |-> <<st>>]
      /\ setups' = number /\ again' = (again \/ setups > 0)
      /\ UNCHANGED <<copy, printed, utxos, record, sidecar>>
  BY DEF Setup
<1>3. number \in Nat /\ number # 0 /\ (~again' => setups = 0) /\ again' \in BOOLEAN
  <2>1. setups \in Nat /\ number \in Nat /\ number # 0 /\ (~(setups > 0) => setups = 0)
    BY <1>1 DEF RefundType
  <2>2. again' \in BOOLEAN
    BY <1>2
  <2> QED
    BY <1>2, <2>1, <2>2
<1> HIDE DEF number
<1>4. <<st>> \in DictFiles /\ <<st>> # <<>>
  <2>1. tree \in Trees
    BY <1>3 DEF Trees
  <2> HIDE DEF tree
  <2>2. st \in RefundDicts
    BY <1>3, <2>1 DEF RefundDicts
  <2> HIDE DEF st
  <2> QED
    BY <2>2 DEF DictFiles
<1> HIDE DEF st
<1>5. RefundType'
  BY <1>1, <1>2, <1>3, <1>4 DEF RefundType
<1>6. NothingBeforeSetup' /\ PaidIsPrinted'
  BY <1>1, <1>2, <1>3 DEF NothingBeforeSetup, PaidIsPrinted
<1>7. ASSUME ~again'
      PROVE  OneSetup' /\ RecordIsOfSetup' /\ SidecarIsAccepted'
  <2>1. copy = <<>> /\ printed = {} /\ record = <<>> /\ sidecar = <<>>
    BY <1>1, <1>3, <1>7 DEF NothingBeforeSetup
  <2> QED
    BY <1>2, <2>1 DEF OneSetup, SameSetup, RecordIsOfSetup, SidecarIsAccepted
<1> QED
  BY <1>5, <1>6, <1>7 DEF RefundInv

(* The address is printed, or the file is taken away before anything rests *)
(* on it.                                                                  *)
LEMMA SelfTestKeeps ==
  ASSUME RefundInv, SelfTest
  PROVE  RefundInv'
<1>1. /\ RefundType /\ NothingBeforeSetup /\ PaidIsPrinted
      /\ ~again => OneSetup /\ RecordIsOfSetup /\ SidecarIsAccepted
  BY DEF RefundInv
<1>2. /\ step.at = "selftest" /\ step' = IdleCommand /\ step # IdleCommand
      /\ UNCHANGED <<copy, utxos, record, sidecar, setups, again>>
  BY DEF SelfTest, IdleCommand
<1>3. \/ printed' = printed \cup {refundFile[1].tree} /\ refundFile' = refundFile
      \/ refundFile' = <<>> /\ printed' = printed
  BY DEF SelfTest
<1>4. RefundType' /\ NothingBeforeSetup' /\ PaidIsPrinted'
  <2>1. setups # 0
    BY <1>1, <1>2 DEF NothingBeforeSetup
  <2>2. refundFile' \in DictFiles
    BY <1>1, <1>3 DEF RefundType, DictFiles
  <2>3. printed' \subseteq Trees
    <3>1. refundFile # <<>> /\ refundFile \in DictFiles /\ printed \subseteq Trees
      BY <1>1, <1>2 DEF RefundType
    <3> QED
      BY <1>3, <3>1, DictOfFile DEF RefundDicts
  <2>4. RefundType'
    BY <1>1, <1>2, <2>2, <2>3 DEF RefundType, IdleCommand, DictFiles
  <2> QED
    BY <1>1, <1>2, <1>3, <2>1, <2>4 DEF NothingBeforeSetup, PaidIsPrinted
<1>5. ASSUME ~again'
      PROVE  OneSetup' /\ RecordIsOfSetup' /\ SidecarIsAccepted'
  <2>1. OneSetup /\ RecordIsOfSetup /\ SidecarIsAccepted
    BY <1>1, <1>2, <1>5
  <2>2. step.st = refundFile /\ copy = <<>> /\ printed = {} /\ refundFile # <<>>
    BY <1>1, <1>2, <2>1 DEF OneSetup, RefundType
  <2>3. record = <<>>
    BY <1>1, <2>1, <2>2 DEF RecordIsOfSetup, PaidIsPrinted
  <2>4. OneSetup'
    BY <1>2, <1>3, <2>2 DEF OneSetup, SameSetup, IdleCommand
  <2> QED
    BY <1>2, <2>1, <2>3, <2>4 DEF RecordIsOfSetup, SidecarIsAccepted, Accepted
<1> QED
  BY <1>4, <1>5 DEF RefundInv

(* Another funding leaves the outputs before it where they are.            *)
LEMMA FundKeeps ==
  ASSUME RefundInv, NEW tree \in printed, NEW s \in Sats, Fund(tree, s)
  PROVE  RefundInv'
<1>1. /\ RefundType /\ NothingBeforeSetup /\ PaidIsPrinted
      /\ ~again => OneSetup /\ RecordIsOfSetup /\ SidecarIsAccepted
  BY DEF RefundInv
<1> DEFINE new == [tree |-> tree, sats |-> s]
<1>2. /\ utxos' = Append(utxos, new)
      /\ UNCHANGED <<refundFile, copy, step, printed, record, sidecar, setups, again>>
  BY DEF Fund
<1>3. new \in [tree : Trees, sats : Sats] /\ new.tree \in printed
  BY <1>1 DEF RefundType
<1>4. utxos \in Seq([tree : Trees, sats : Sats])
  BY <1>1 DEF RefundType
<1> HIDE DEF new
<1>5. /\ utxos' \in Seq([tree : Trees, sats : Sats])
      /\ \A i \in DOMAIN utxos : i \in DOMAIN utxos' /\ utxos'[i] = utxos[i]
      /\ \A i \in DOMAIN utxos' : i \in DOMAIN utxos \/ utxos'[i] = new
  BY <1>2, <1>3, <1>4
<1>6. RefundType' /\ NothingBeforeSetup' /\ PaidIsPrinted'
  BY <1>1, <1>2, <1>3, <1>5 DEF RefundType, NothingBeforeSetup, PaidIsPrinted
<1>7. ASSUME ~again
      PROVE  OneSetup' /\ RecordIsOfSetup' /\ SidecarIsAccepted'
  <2>1. OneSetup' /\ RecordIsOfSetup'
    BY <1>1, <1>2, <1>5, <1>7 DEF OneSetup, SameSetup, RecordIsOfSetup
  <2>2. SidecarIsAccepted'
    BY <1>1, <1>2, <1>5, <1>7 DEF SidecarIsAccepted, Accepted
  <2> QED
    BY <2>1, <2>2
<1> QED
  BY <1>2, <1>6, <1>7 DEF RefundInv

(* The file, the copy and the command at hand change among dicts of one    *)
(* setup.                                                                  *)
LEMMA FilesMove ==
  ASSUME RefundInv, UNCHANGED <<printed, utxos, record, sidecar, setups, again>>,
         refundFile' \in DictFiles, copy' \in DictFiles, step' = IdleCommand, setups # 0,
         SameSetup(refundFile, refundFile'), refundFile # <<>> => refundFile' # <<>>,
         ~again => SameSetup(refundFile', copy')
  PROVE  RefundInv'
<1>1. /\ RefundType /\ NothingBeforeSetup /\ PaidIsPrinted
      /\ ~again => OneSetup /\ RecordIsOfSetup /\ SidecarIsAccepted
  BY DEF RefundInv
<1>2. RefundType' /\ NothingBeforeSetup' /\ PaidIsPrinted'
  BY <1>1 DEF RefundType, IdleCommand, DictFiles, NothingBeforeSetup, PaidIsPrinted
<1>3. ASSUME ~again
      PROVE  OneSetup' /\ RecordIsOfSetup' /\ SidecarIsAccepted'
  <2>1. OneSetup'
    BY <1>1, <1>3 DEF OneSetup, SameSetup, IdleCommand
  <2>2. RecordIsOfSetup' /\ SidecarIsAccepted'
    BY <1>1, <1>3 DEF RecordIsOfSetup, SameSetup, SidecarIsAccepted, Accepted
  <2> QED
    BY <2>1, <2>2
<1> QED
  BY <1>2, <1>3 DEF RefundInv

LEMMA OperatorKeeps ==
  ASSUME RefundInv,
         \/ Copy \/ Restore \/ RefundCrash \/ SaveState
         \/ refundFile # <<>> /\ \E st \in Edits(refundFile[1]) : Edit(st)
  PROVE  RefundInv'
<1>1. /\ RefundType /\ NothingBeforeSetup /\ PaidIsPrinted
      /\ ~again => OneSetup /\ RecordIsOfSetup /\ SidecarIsAccepted
  BY DEF RefundInv
<1>2. /\ refundFile \in DictFiles /\ copy \in DictFiles /\ step.st \in DictFiles
      /\ step.at # "idle" => step.st # <<>>
  BY <1>1 DEF RefundType
<1>3. UNCHANGED <<printed, utxos, record, sidecar, setups, again>>
  BY DEF Copy, Restore, RefundCrash, SaveState, Edit
<1>4. setups # 0
  BY <1>1 DEF Copy, Restore, RefundCrash, SaveState, NothingBeforeSetup, IdleCommand
<1>5. ASSUME NEW x \in DictFiles PROVE SameSetup(x, x)
  BY DEF SameSetup
<1>6. CASE Copy
  <2>1. copy' = refundFile /\ refundFile' = refundFile /\ step' = IdleCommand
    BY <1>6 DEF Copy
  <2> QED
    BY <1>2, <1>3, <1>4, <1>5, <2>1, FilesMove
<1>7. CASE RefundCrash
  <2>1. copy' = copy /\ refundFile' = refundFile /\ step' = IdleCommand
    BY <1>7 DEF RefundCrash
  <2> QED
    BY <1>1, <1>2, <1>3, <1>4, <1>5, <2>1, FilesMove DEF OneSetup
<1>8. CASE Restore
  <2>1. copy' = copy /\ refundFile' = copy /\ step' = IdleCommand /\ copy # <<>>
    BY <1>8 DEF Restore
  <2>2. CASE again
    BY <1>1, <1>2, <1>3, <1>4, <2>1, <2>2
       DEF RefundInv, RefundType, IdleCommand, DictFiles, NothingBeforeSetup, PaidIsPrinted
  <2>3. CASE ~again
    BY <1>1, <1>2, <1>3, <1>4, <1>5, <2>1, <2>3, FilesMove DEF OneSetup
  <2> QED
    BY <2>2, <2>3
<1>9. CASE SaveState
  <2>1. copy' = copy /\ refundFile' = step.st /\ step' = IdleCommand /\ step.st # <<>>
    BY <1>2, <1>9 DEF SaveState
  <2>2. CASE again
    BY <1>1, <1>2, <1>3, <1>4, <2>1, <2>2
       DEF RefundInv, RefundType, IdleCommand, DictFiles, NothingBeforeSetup, PaidIsPrinted
  <2>3. CASE ~again
    <3>1. SameSetup(refundFile, step.st) /\ SameSetup(step.st, copy)
      BY <1>1, <2>3 DEF OneSetup, SameSetup
    <3> QED
      BY <1>2, <1>3, <1>4, <2>1, <3>1, FilesMove
  <2> QED
    BY <2>2, <2>3
<1>10. ASSUME refundFile # <<>>, NEW st \in Edits(refundFile[1]), Edit(st)
       PROVE  RefundInv'
  <2> DEFINE old == refundFile[1]
  <2>1. /\ copy' = copy /\ refundFile' = <<st>> /\ step' = IdleCommand
        /\ old \in RefundDicts
    BY <1>2, <1>10, DictOfFile DEF Edit
  <2>2. st \in RefundDicts /\ st.tree = old.tree /\ st.sats = old.sats
    <3>1. (\E b \in Tbtcs : st = [old EXCEPT !.tbtc = b]) \/ st = [old EXCEPT !.keys = 0]
      BY <1>10 DEF Edits
    <3> HIDE DEF old
    <3> QED
      BY <2>1, <3>1 DEF RefundDicts
  <2>3. SameSetup(refundFile, refundFile') /\ refundFile' \in DictFiles /\ refundFile' # <<>>
    BY <2>1, <2>2 DEF SameSetup, DictFiles
  <2>4. ~again => SameSetup(refundFile', copy')
    BY <1>1, <1>10, <2>1, <2>2 DEF OneSetup, SameSetup
  <2>5. setups # 0
    BY <1>1, <1>10 DEF NothingBeforeSetup
  <2> QED
    BY <1>2, <1>3, <2>1, <2>3, <2>4, <2>5, FilesMove
<1> QED
  BY <1>6, <1>7, <1>8, <1>9, <1>10

(* What record writes is of the output the operator names.                 *)
LEMMA RecordKeeps ==
  ASSUME RefundInv, NEW out \in DOMAIN utxos, Record(out)
  PROVE  RefundInv'
<1>1. /\ RefundType /\ NothingBeforeSetup /\ PaidIsPrinted
      /\ ~again => OneSetup /\ RecordIsOfSetup /\ SidecarIsAccepted
  BY DEF RefundInv
<1> DEFINE st == refundFile[1]
<1>2. /\ refundFile # <<>> /\ utxos[out].sats = st.sats /\ ReconstructsToFunded(st)
      /\ record' = <<[out |-> out, tree |-> ReconstructHtlc(st), sats |-> st.sats,
                      tbtc |-> st.tbtc]>>
      /\ step' = [at |-> "recorded", st |-> <<st>>]
      /\ UNCHANGED <<refundFile, copy, printed, utxos, sidecar, setups, again>>
  BY DEF Record
<1>3. st \in RefundDicts /\ refundFile = <<st>>
  BY <1>1, <1>2, DictOfFile DEF RefundType
<1>4. ReconstructHtlc(st) = st.tree /\ st.tbtc = st.tree.tbtc
  BY <1>2 DEF ReconstructsToFunded, ReconstructHtlc
<1> HIDE DEF st
<1>5. RefundType'
  BY <1>1, <1>2, <1>3 DEF RefundType
<1>6. NothingBeforeSetup' /\ PaidIsPrinted'
  BY <1>1, <1>2 DEF NothingBeforeSetup, PaidIsPrinted
<1>7. ASSUME ~again
      PROVE  OneSetup' /\ RecordIsOfSetup' /\ SidecarIsAccepted'
  <2>1. OneSetup'
    BY <1>1, <1>2, <1>3, <1>7 DEF OneSetup, SameSetup
  <2>2. RecordIsOfSetup'
    BY <1>2, <1>3, <1>4 DEF RecordIsOfSetup
  <2>3. SidecarIsAccepted'
    BY <1>1, <1>2, <1>7 DEF SidecarIsAccepted, Accepted
  <2> QED
    BY <2>1, <2>2, <2>3
<1> QED
  BY <1>2, <1>5, <1>6, <1>7 DEF RefundInv

(* What presign signs, the output takes.                                   *)
LEMMA PresignKeeps ==
  ASSUME RefundInv, NEW fee \in Fees, Presign(fee)
  PROVE  RefundInv'
<1>1. /\ RefundType /\ NothingBeforeSetup /\ PaidIsPrinted
      /\ ~again => OneSetup /\ RecordIsOfSetup /\ SidecarIsAccepted
  BY DEF RefundInv
<1> DEFINE st == refundFile[1]
           r == record[1]
<1>2. /\ refundFile # <<>> /\ record # <<>> /\ ReconstructsToFunded(st)
      /\ st.sats - fee >= DustLimit
      /\ step' = [at |-> "presigned", st |-> refundFile]
      /\ UNCHANGED <<refundFile, copy, printed, utxos, record, setups, again>>
  BY DEF Presign
<1>3. sidecar' = <<[out |-> r.out, tree |-> r.tree, sats |-> r.sats, tbtc |-> r.tbtc,
                    signer |-> st.keys, value |-> r.sats - fee]>>
  BY DEF Presign, PresignRefund, BuildRefundTx
<1>4. st.keys = st.tree.keys
  BY <1>2 DEF ReconstructsToFunded, ReconstructHtlc
<1> HIDE DEF st, r
<1>5. RefundType'
  BY <1>1, <1>2 DEF RefundType
<1>6. NothingBeforeSetup' /\ PaidIsPrinted'
  BY <1>1, <1>2 DEF NothingBeforeSetup, PaidIsPrinted
<1>7. ASSUME ~again
      PROVE  OneSetup' /\ RecordIsOfSetup' /\ SidecarIsAccepted'
  <2>1. OneSetup'
    BY <1>1, <1>2, <1>7 DEF OneSetup, SameSetup
  <2>2. RecordIsOfSetup'
    BY <1>1, <1>2, <1>7 DEF RecordIsOfSetup
  <2>3. /\ r.out \in DOMAIN utxos /\ utxos[r.out].sats = r.sats /\ st.sats = r.sats
        /\ st.tree = r.tree /\ r.tbtc = r.tree.tbtc
    BY <1>1, <1>2, <1>7 DEF RecordIsOfSetup, st, r
  <2>4. utxos[r.out].tree = r.tree
    BY <1>1, <1>7, <2>3 DEF PaidIsPrinted, OneSetup, st
  <2>5. SidecarIsAccepted'
    BY <1>2, <1>3, <1>4, <2>3, <2>4 DEF SidecarIsAccepted, Accepted
  <2> QED
    BY <2>1, <2>2, <2>5
<1> QED
  BY <1>2, <1>5, <1>6, <1>7 DEF RefundInv

LEMMA RefundInvNext == RefundInv /\ [RefundNext]_refundVars => RefundInv'
<1> SUFFICES ASSUME RefundInv, [RefundNext]_refundVars PROVE RefundInv'
  OBVIOUS
<1>1. CASE Plan \/ UNCHANGED refundVars
  <2>1. UNCHANGED <<refundFile, copy, step, printed, utxos, record, sidecar, setups, again>>
    BY <1>1 DEF Plan, refundVars
  <2> QED
    BY <2>1 DEF RefundInv, RefundType, NothingBeforeSetup, PaidIsPrinted, OneSetup, SameSetup,
                RecordIsOfSetup, SidecarIsAccepted, Accepted
<1> QED
  BY <1>1, SetupKeeps, SelfTestKeeps, FundKeeps, OperatorKeeps, RecordKeeps, PresignKeeps
     DEF RefundNext

(* The printed tree, the record and the sidecar are of one setup, in every *)
(* state the stages of the dust refund reach.                              *)
THEOREM RefundInvariant == RefundSpec => []RefundInv
BY RefundInvInit, RefundInvNext, PTL DEF RefundSpec

LEMMA RefundInvIsEnough == RefundInv => AuthorizedIsAccepted /\ PrintedIsRefundable
BY DEF RefundInv, SidecarIsAccepted, OneSetup, Authorized, AuthorizedIsAccepted,
       PrintedIsRefundable, ReconstructsToFunded

--------------------------------------------------- (* the two-host harness *)

(* What keeps a taker from deploying twice is not one check: the seen      *)
(* store stops the rerun under the same local file, and under a fresh one  *)
(* the envelope still names the old keys.  The invariant says why the two  *)
(* together leave no gap.                                                  *)
TakerPcs == {"ready", "intro", "reserve", "deploy", "publish", "claim"}
MakerPcs == {"ready", "envelope", "verify", "lock", "revalidate", "reveal", "announce"}
Envelopes == [margin : {NoFile, "ok", "tight"}, spk : {NoFile, "derived", "other"},
              taker : 0 .. 2]

(* What every variable the argument is about ranges over.                  *)
HostType ==
  /\ foreign \in {"none", "maker", "taker"}
  /\ files \in [intro : 0 .. 2, envelope : Envelopes, funding : {NoFile, "terms", "other"},
                claim : BOOLEAN]
  /\ local \in [taker : 0 .. 2, maker : 0 .. 2]
  /\ t \in TakerPcs /\ m \in MakerPcs
  /\ htlc \in [binds : {NoFile, "terms", "other"},
               state : {"none", "locked", "claimed"}, final : BOOLEAN]
  /\ deploys \in Nat /\ height \in Nat
  /\ cov \in [at : Nat \cup {None}, spent : {"none", "maker", "taker"},
              by : {"none", "safe", "squeezed"}]

(* An honest maker's envelope is for the keys in its local file, once and  *)
(* for all; and those are keys that the taker has had.                     *)
EnvelopeIsForOneKey ==
  ~ForeignMaker =>
    /\ m = "envelope" => local.maker # 0
    /\ files.envelope # NoEnvelope => local.maker # 0 /\ files.envelope.taker = local.maker
    /\ foreign = "none" => files.intro <= local.taker /\ local.maker <= local.taker

(* A foreign taker does not run this program.                              *)
ForeignTakerRunsNothing ==
  ForeignTaker => t = "ready" /\ local.taker = 0 /\ deploys = 0

(* A deployment is under way for the keys of the envelope only; once there *)
(* is one, either its reservation is still at hand or the keys have moved  *)
(* on.                                                                     *)
SpentOrMovedOn ==
  ~ForeignMaker =>
    /\ t \in {"reserve", "deploy"} => local.taker = local.maker /\ local.maker # 0
    /\ t = "deploy" => seen /\ deploys = 0
    /\ deploys <= 1
    /\ deploys = 1 => local.maker # 0 /\ (seen \/ local.taker # local.maker)

(* A contract stays the one it is, so what the maker verified is what the  *)
(* asset is locked against.                                                *)
VerifiedStays ==
  /\ htlc.state = "none" => htlc.binds = NoFile
  /\ ~ForeignMaker /\ (m = "lock" \/ cov.at # None) => htlc.binds = "terms"

HostInv ==
  HostType /\ EnvelopeIsForOneKey /\ ForeignTakerRunsNothing /\ SpentOrMovedOn /\ VerifiedStays

LEMMA HostInvInit == Init => HostInv
BY DEF Init, HostInv, HostType, EnvelopeIsForOneKey, ForeignTakerRunsNothing,
       SpentOrMovedOn, VerifiedStays, TakerPcs, MakerPcs, Envelopes, NoFile, NoEnvelope,
       Ready, None, ForeignMaker, ForeignTaker

(* The taker's phases.                                                     *)
LEMMA TakerKeepsInv ==
  ASSUME HostInv, Taker
  PROVE  HostInv'
<1> USE DEF HostInv, ForeignMaker, ForeignTaker, TGoto
<1>1. HostType'
  <2> USE DEF HostType, TakerPcs
  <2>1. CASE TakerIntroPersist
    BY <2>1 DEF TakerIntroPersist
  <2>2. CASE TakerIntroPublish
    BY <2>2 DEF TakerIntroPublish
  <2>3. CASE TakerFreshLocal
    BY <2>3 DEF TakerFreshLocal
  <2>4. CASE TakerFundCheck
    BY <2>4 DEF TakerFundCheck
  <2>5. CASE TakerReserve
    BY <2>5 DEF TakerReserve
  <2>6. CASE TakerDeploy
    BY <2>6 DEF TakerDeploy
  <2>7. CASE TakerPublish
    BY <2>7 DEF TakerPublish
  <2>8. CASE TakerClaimStart
    BY <2>8 DEF TakerClaimStart
  <2>9. ASSUME NEW lockedAt \in {0, cov.at}, TakerClaim(lockedAt) PROVE HostType'
    BY <2>9 DEF TakerClaim
  <2> QED
    BY <2>1, <2>2, <2>3, <2>4, <2>5, <2>6, <2>7, <2>8, <2>9 DEF Taker
<1> USE DEF HostType
<1> DEFINE Rest == /\ EnvelopeIsForOneKey' /\ ForeignTakerRunsNothing' /\ SpentOrMovedOn'
                   /\ VerifiedStays'
<1> USE DEF EnvelopeIsForOneKey, ForeignTakerRunsNothing, SpentOrMovedOn, VerifiedStays
<1>2. CASE TakerIntroPersist
  BY <1>1, <1>2 DEF TakerIntroPersist
<1>3. CASE TakerIntroPublish
  BY <1>1, <1>3 DEF TakerIntroPublish
<1>4. CASE TakerFreshLocal
  BY <1>1, <1>4 DEF TakerFreshLocal
<1>5. CASE TakerFundCheck
  BY <1>1, <1>5 DEF TakerFundCheck
<1>6. CASE TakerReserve
  BY <1>1, <1>6 DEF TakerReserve
<1>7. CASE TakerDeploy
  BY <1>1, <1>7 DEF TakerDeploy
<1>8. CASE TakerPublish
  BY <1>1, <1>8 DEF TakerPublish
<1>9. CASE TakerClaimStart
  BY <1>1, <1>9 DEF TakerClaimStart
<1>10. ASSUME NEW lockedAt \in {0, cov.at}, TakerClaim(lockedAt) PROVE Rest
  BY <1>1, <1>10 DEF TakerClaim
<1> QED
  BY <1>1, <1>2, <1>3, <1>4, <1>5, <1>6, <1>7, <1>8, <1>9, <1>10 DEF Taker

(* The maker's phases.                                                     *)
LEMMA MakerKeepsInv ==
  ASSUME HostInv, Maker
  PROVE  HostInv'
<1> USE DEF HostInv, ForeignMaker, ForeignTaker, MGoto
<1>1. HostType'
  <2> USE DEF HostType, MakerPcs, Envelopes
  <2>1. CASE MakerEnvelopePersist
    BY <2>1 DEF MakerEnvelopePersist
  <2>2. CASE MakerEnvelopePublish
    BY <2>2 DEF MakerEnvelopePublish
  <2>3. CASE MakerLockStart
    BY <2>3 DEF MakerLockStart
  <2>4. CASE MakerVerify
    BY <2>4 DEF MakerVerify
  <2>5. CASE MakerLock
    BY <2>5 DEF MakerLock
  <2>6. CASE MakerRevalidate
    BY <2>6 DEF MakerRevalidate
  <2>7. CASE MakerReveal
    BY <2>7 DEF MakerReveal
  <2>8. CASE MakerAnnounce
    BY <2>8 DEF MakerAnnounce
  <2> QED
    BY <2>1, <2>2, <2>3, <2>4, <2>5, <2>6, <2>7, <2>8 DEF Maker
<1> USE DEF HostType, EnvelopeIsForOneKey, ForeignTakerRunsNothing, SpentOrMovedOn,
            VerifiedStays
<1>2. CASE MakerEnvelopePersist
  BY <1>1, <1>2 DEF MakerEnvelopePersist, NoEnvelope
<1>3. CASE MakerEnvelopePublish
  BY <1>1, <1>3 DEF MakerEnvelopePublish
<1>4. CASE MakerLockStart
  BY <1>1, <1>4 DEF MakerLockStart
<1>5. CASE MakerVerify
  BY <1>1, <1>5 DEF MakerVerify
<1>6. CASE MakerLock
  BY <1>1, <1>6 DEF MakerLock
<1>7. CASE MakerRevalidate
  BY <1>1, <1>7 DEF MakerRevalidate
<1>8. CASE MakerReveal
  BY <1>1, <1>8 DEF MakerReveal
<1>9. CASE MakerAnnounce
  BY <1>1, <1>9 DEF MakerAnnounce
<1> QED
  BY <1>2, <1>3, <1>4, <1>5, <1>6, <1>7, <1>8, <1>9 DEF Maker

(* The other program, the chains and crashes.                              *)
LEMMA WorldKeepsInv ==
  ASSUME HostInv, Foreign \/ Finalize \/ RxdBlock \/ CovenantRefund \/ Crash
  PROVE  HostInv'
<1> USE DEF HostInv, ForeignMaker, ForeignTaker
<1>1. HostType'
  <2> USE DEF HostType
  <2>1. ASSUME NEW margin \in {"ok", "tight"}, NEW spk \in {"derived", "other"},
               NEW k \in 1 .. 2, ForeignEnvelope(margin, spk, k)
        PROVE  HostType'
    BY <2>1 DEF ForeignEnvelope, Envelopes
  <2>2. CASE ForeignLock
    BY <2>2 DEF ForeignLock
  <2>3. CASE ForeignClaim
    BY <2>3 DEF ForeignClaim
  <2>4. CASE ForeignIntro
    BY <2>4 DEF ForeignIntro
  <2>5. ASSUME NEW binds \in {"terms", "other"}, ForeignFunding(binds) PROVE HostType'
    <3>1. htlc' \in [binds : {NoFile, "terms", "other"},
                     state : {"none", "locked", "claimed"}, final : BOOLEAN]
      BY <2>5 DEF ForeignFunding
    <3>2. files' \in [intro : 0 .. 2, envelope : Envelopes,
                      funding : {NoFile, "terms", "other"}, claim : BOOLEAN]
      <4> DEFINE introduced == [files EXCEPT !.intro = 1]
      <4>1. introduced \in [intro : 0 .. 2, envelope : Envelopes,
                            funding : {NoFile, "terms", "other"}, claim : BOOLEAN]
        OBVIOUS
      <4>2. files' = [introduced EXCEPT !.funding = "terms"]
        BY <2>5 DEF ForeignFunding
      <4> HIDE DEF introduced
      <4> QED
        BY <4>1, <4>2
    <3> QED
      BY <2>5, <3>1, <3>2 DEF ForeignFunding
  <2>6. CASE Finalize
    BY <2>6 DEF Finalize
  <2>7. CASE RxdBlock
    BY <2>7 DEF RxdBlock
  <2>8. CASE CovenantRefund
    BY <2>8 DEF CovenantRefund
  <2>9. CASE Crash
    BY <2>9 DEF Crash, Ready, TakerPcs, MakerPcs
  <2> QED
    BY <2>1, <2>2, <2>3, <2>4, <2>5, <2>6, <2>7, <2>8, <2>9 DEF Foreign
<1> USE DEF HostType, EnvelopeIsForOneKey, ForeignTakerRunsNothing, SpentOrMovedOn,
            VerifiedStays
<1>2. ASSUME NEW margin \in {"ok", "tight"}, NEW spk \in {"derived", "other"},
             NEW k \in 1 .. 2, ForeignEnvelope(margin, spk, k)
      PROVE  HostInv'
  BY <1>1, <1>2 DEF ForeignEnvelope
<1>3. CASE ForeignLock
  BY <1>1, <1>3 DEF ForeignLock
<1>4. CASE ForeignClaim
  BY <1>1, <1>4 DEF ForeignClaim
<1>5. CASE ForeignIntro
  BY <1>1, <1>5 DEF ForeignIntro
<1>6. ASSUME NEW binds \in {"terms", "other"}, ForeignFunding(binds) PROVE HostInv'
  BY <1>1, <1>6 DEF ForeignFunding, NoFile
<1>7. CASE Finalize
  BY <1>1, <1>7 DEF Finalize
<1>8. CASE RxdBlock
  BY <1>1, <1>8 DEF RxdBlock
<1>9. CASE CovenantRefund
  BY <1>1, <1>9 DEF CovenantRefund
<1>10. CASE Crash
  BY <1>1, <1>10 DEF Crash, Ready
<1> QED
  BY <1>2, <1>3, <1>4, <1>5, <1>6, <1>7, <1>8, <1>9, <1>10 DEF Foreign

(* The files, the keys and the reservation fit together in every state two *)
(* hosts can be in, however often their phases die and are run again.      *)
THEOREM HostInvariant == Spec => []HostInv
<1>1. HostInv /\ [Next]_vars => HostInv'
  <2> SUFFICES ASSUME HostInv, [Next]_vars PROVE HostInv'
    OBVIOUS
  <2>1. CASE UNCHANGED vars
    BY <2>1 DEF HostInv, HostType, EnvelopeIsForOneKey, ForeignTakerRunsNothing,
                SpentOrMovedOn, VerifiedStays, ForeignMaker, ForeignTaker, vars
  <2> QED
    BY <2>1, TakerKeepsInv, MakerKeepsInv, WorldKeepsInv DEF Next
<1> QED
  BY <1>1, HostInvInit, PTL DEF Spec

(* HostsAreSafe: unless the other operator's program makes up the          *)
(* envelope, the taker's host deploys at most one contract, and the        *)
(* maker's asset is locked by this program only against a contract that    *)
(* pays the maker for p (eth_swap_two_host.py, fund and lock phases).      *)
THEOREM HostsStaySafe == Spec => []HostsAreSafe
<1>1. HostInv => HostsAreSafe
  BY DEF HostInv, SpentOrMovedOn, VerifiedStays, HostsAreSafe, OneDeployment,
         LockRestsOnContract
<1> QED
  BY <1>1, HostInvariant, PTL

------------------------------------------------------- (* all of them *)

(* The run's specification holds each script's.                            *)
LEMMA EachRunsAsSpecified == MCSpec => RunnerSpec /\ MintSpec /\ RefundSpec
<1>1. MCInit => RunnerInit /\ MintInit /\ RefundInit
  BY DEF MCInit, NoRunner, NoMintRuns
<1>2. [MCNext]_mcVars => [RunnerNext]_runnerVars /\ [MintNext]_mintVars /\ [RefundNext]_refundVars
  BY DEF MCNext, Others, mcVars
<1> QED
  BY <1>1, <1>2, PTL DEF MCSpec, RunnerSpec, MintSpec, RefundSpec

(* However often a script dies, is run again or overlaps with another of   *)
(* its stages: value is locked only behind keys that are on disk, a        *)
(* resumed run works on what was funded and counts from no block after     *)
(* the covenant's, a saved mint stays within reach, and an authorized dust *)
(* refund is accepted (dust_swap_run.py, eth_swap_run.py,                  *)
(* dust_swap_resume.py, dmint_v2_mainnet_run.py, watchtower_dust_run.py).  *)
THEOREM RunbooksAreRecoverable == MCSpec => []RunnerIsRecoverable
<1>1. RunnerInv /\ MintInv /\ RefundInv => RunnerIsRecoverable
  BY RunnerInvIsEnough, MintInvIsEnough, RefundInvIsEnough DEF RunnerIsRecoverable
<1> QED
  BY <1>1, EachRunsAsSpecified, RunnerInvariant, MintInvariant, RefundInvariant, PTL
=============================================================================
