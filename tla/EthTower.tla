------------------------------ MODULE EthTower ------------------------------
(***************************************************************************)
(* The watchtower on an ETH-RXD swap: ChainObserver (watch/quorum.py) over *)
(* RpcEthChainSource (watch/eth_adapters.py), the FinalityStallTracker of  *)
(* gravity/finality.py and _decide_eth.  A tick makes up to nine reads one *)
(* after the other; blocks are found, undone and finalized between them,   *)
(* finalization may stop for a while, and a read may fail or the process   *)
(* die.  The tracker lives as long as the process.                         *)
(*                                                                         *)
(* An Ethereum block holds at most one transaction of this swap, named by  *)
(* what it leaves in the log; fork tells blocks of one height apart.  The  *)
(* names of the specification start with Eth, so that a module can extend  *)
(* this one beside another.                                                *)
(***************************************************************************)
EXTENDS WatchDecide, Sequences

CONSTANTS
  EthPolicy, EthWindow, EthTRxd, \* as in decide
  Patience,     \* patience_slots
  MaxNormalLag, \* max_normal_lag_slots
  Epoch,        \* blocks between two checkpoints
  Replicas,     \* TRUE: the RPC endpoint balances over nodes that may lag
  MaxEth,       \* bound on the Ethereum height
  LockedAt, MaxRxd, \* the covenant's height and the bound on Radiant heights
  MaxForks,     \* bound on blocks undone
  EthMaxCrashes

ASSUME EthTowerAssumption ==
  Patience \in Nat /\ MaxNormalLag \in Nat /\ LockedAt \in Nat /\ Replicas \in BOOLEAN

VARIABLES
  claimEvent, \* what the contract logs for a claim: "Claimed", or another event
  eth,        \* the Ethereum blocks: [event, fork]
  final,      \* the finalized height
  movedAt,    \* history: the lowest head since finalization last moved
  forks,
  rxd,        \* the Radiant height
  state,      \* the record's FSM state
  ethTower,   \* the tick: program counter and what it has read
  tracker,    \* _stuck_finalized and _head_at_run_start
  sampled,    \* history: the first head this process sampled since final moved
  out,        \* the last tick's decision and what it rests on
  ethCrashes

ethChain == <<claimEvent, eth, final, movedAt, forks, rxd>>
ethVars == <<ethChain, state, ethTower, tracker, sampled, out, ethCrashes>>

Tip == Len(eth)
EthTerms == [chain |-> "eth", tBtc |-> Blocks(0), tRxd |-> Blocks(EthTRxd), value |-> None]
EthIdle == [pc |-> "idle", state |-> "none", tip |-> None, lockedAt |-> None,
            tx |-> "none", at |-> None, fork |-> None, finalized |-> None, movedAt |-> None,
            claimed |-> FALSE, truth |-> FALSE, reorged |-> FALSE]
NoRun == [stuck |-> None, start |-> None]
NoOut == [intent |-> "none", claimed |-> FALSE, verdict |-> "none", head |-> None,
          finalized |-> None, movedAt |-> None, sampled |-> None, truth |-> FALSE,
          reorged |-> FALSE]

At(event) == {n \in DOMAIN eth : eth[n].event = event}
Deployed == At("deploy") # {}
Claimed == At(claimEvent) # {}
Refunded == At("Refunded") # {}

EthInit ==
  /\ claimEvent \in {"Claimed", "odd"}
  /\ eth = <<[event |-> "deploy", fork |-> 0]>>
  /\ final = 0 /\ movedAt = 1 /\ forks = 0
  /\ rxd = LockedAt /\ state = "BOTH_LOCKED"
  /\ ethTower = EthIdle /\ tracker = NoRun /\ sampled = None /\ out = NoOut /\ ethCrashes = 0

------------------------------------------------------------ (* the chains *)

(* External: a block, empty or with a transaction of the swap: the deploy  *)
(* once more if it was undone, a claim or the refund.  A claim that was    *)
(* undone and comes after the refund reverts.                              *)
Mine ==
  /\ Tip < MaxEth
  /\ \E event \in {"none", "deploy", claimEvent, "Refunded", "reverted"} :
       /\ event = "deploy" => ~Deployed
       /\ event \in {claimEvent, "Refunded"} => Deployed /\ ~Claimed /\ ~Refunded
       /\ event = "reverted" => Refunded /\ At("reverted") = {} /\ forks > 0
       /\ eth' = Append(eth, [event |-> event, fork |-> forks])
  /\ UNCHANGED <<claimEvent, final, movedAt, forks, rxd, state, ethTower, tracker, sampled, out,
                 ethCrashes>>

(* External: the last block is undone, if it is not finalized.             *)
Reorg ==
  /\ Tip > final /\ forks < MaxForks
  /\ eth' = SubSeq(eth, 1, Tip - 1) /\ forks' = forks + 1
  /\ movedAt' = IF Tip - 1 < movedAt THEN Tip - 1 ELSE movedAt
  /\ ethTower' = [ethTower EXCEPT !.reorged = TRUE]
  /\ UNCHANGED <<claimEvent, final, rxd, state, tracker, sampled, out, ethCrashes>>

(* External: the finalized checkpoint moves up.  Nothing makes it: this is *)
(* what stops in a stall.                                                  *)
Finalize ==
  /\ \E n \in final + 1 .. Tip : n % Epoch = 0 /\ final' = n
  /\ movedAt' = Tip /\ sampled' = None
  /\ UNCHANGED <<claimEvent, eth, forks, rxd, state, ethTower, tracker, out, ethCrashes>>

EthRxdBlock ==
  /\ rxd < MaxRxd /\ rxd' = rxd + 1
  /\ UNCHANGED <<claimEvent, eth, final, movedAt, forks, state, ethTower, tracker, sampled, out,
                 ethCrashes>>

(* The coordinator moves the record on, once it has scraped p.             *)
RecordAdvances ==
  /\ state = "BOTH_LOCKED" /\ Claimed /\ state' = "SECRET_REVEALED"
  /\ UNCHANGED <<ethChain, ethTower, tracker, sampled, out, ethCrashes>>

------------------------------------------------------------- (* the reads *)

Reads(pc) == ethTower.pc = pc
Verdict(pc) == [ethTower EXCEPT !.pc = pc, !.tx = "none", !.at = None, !.fork = None]
Then(next) == ethTower' = next /\ UNCHANGED <<ethChain, state, tracker, sampled, out, ethCrashes>>

(* The record as it is on disk, and observe: the Radiant tip, then the     *)
(* covenant's depth.                                                       *)
ReadRxdTip ==
  /\ Reads("idle")
  /\ ethTower' = [EthIdle EXCEPT !.pc = "covenant", !.state = state, !.tip = rxd] /\ out' = NoOut
  /\ UNCHANGED <<ethChain, state, tracker, sampled, ethCrashes>>

ReadCovenant ==
  /\ Reads("covenant")
  /\ Then([ethTower EXCEPT !.pc = "deploy",
                        !.lockedAt = AssetLockedAt(ethTower.tip, rxd - LockedAt + 1)])

(* claim_status: the block of the deploy bounds the log scan; without one  *)
(* nothing can have been claimed.                                          *)
ReadDeploy ==
  /\ Reads("deploy")
  /\ Then(IF Deployed
          THEN [ethTower EXCEPT !.pc = "logs", !.at = CHOOSE n \in At("deploy") : TRUE]
          ELSE [ethTower EXCEPT !.pc = "decide", !.truth = Claimed])

Logs(from) ==
  {n \in from .. Tip : eth[n].event \in {"Claimed", "odd", "Refunded"}}

(* Mutation: only the canonical event is a claim.                          *)
PinnedSelector(from) ==
  IF \E n \in Logs(from) : eth[n].event = "Claimed" THEN "Claimed" ELSE "none"

(* claim_status: the event of the transaction taken for the claim.  Only   *)
(* Refunded is none; any other log of this contract is.                    *)
ClaimStatus(from) ==
  IF \E n \in Logs(from) : eth[n].event = "Claimed" THEN "Claimed"
  ELSE IF \A n \in Logs(from) : eth[n].event = "Refunded" THEN "none"
  ELSE eth[SetMax(Logs(from))].event

ReadLogs ==
  /\ Reads("logs")
  /\ LET tx == ClaimStatus(ethTower.at)
     IN Then([ethTower EXCEPT !.pc = IF tx = "none" THEN "decide" ELSE "receipt",
                           !.claimed = (tx # "none"), !.tx = tx, !.at = None,
                           !.truth = Claimed])

------------------------------------------------- (* claim_finality_verdict *)

(* get_transaction_receipt: where the transaction is now.  Not mined, or   *)
(* reverted, is not final.                                                 *)
ReadReceipt ==
  /\ Reads("receipt")
  /\ Then(IF At(ethTower.tx) = {} THEN Verdict("checkpoint")
          ELSE LET n == CHOOSE n \in At(ethTower.tx) : TRUE
               IN [ethTower EXCEPT !.pc = "canonical", !.at = n, !.fork = eth[n].fork])

(* canonical_block_hash: a height above the head raises, see TickFails.    *)
ReadCanonical ==
  /\ Reads("canonical") /\ ethTower.at <= Tip
  /\ Then(IF eth[ethTower.at].fork = ethTower.fork THEN [ethTower EXCEPT !.pc = "finalized"]
          ELSE Verdict("checkpoint"))

(* finalized_block_number: a lagging node has an earlier checkpoint.       *)
FinalizedRead == {final} \cup (IF Replicas THEN 0 .. final ELSE {})

ReadFinalized ==
  /\ Reads("finalized")
  /\ \E f \in FinalizedRead :
       Then(Verdict(IF ethTower.at <= f THEN "final" ELSE "checkpoint"))

-------------------------------------------------- (* the stall tracker *)

(* finality_checkpoint: finalized, and then the head.                      *)
ReadCheckpoint ==
  /\ Reads("checkpoint")
  /\ \E f \in FinalizedRead :
       Then([ethTower EXCEPT !.pc = "head", !.finalized = f, !.movedAt = movedAt])

(* Mutation: a sample that declares nothing starts the run again.          *)
EagerRun(run, head, finalized) == [stuck |-> finalized, start |-> head]

(* observe: another finalized block starts a run.                          *)
Observe(run, head, finalized) ==
  IF run.stuck # finalized THEN [stuck |-> finalized, start |-> head] ELSE run

(* Mutation: a frozen checkpoint is a stall, however small the gap.        *)
FrozenIsStalled(run, head, finalized) ==
  run.stuck = finalized /\ head - run.start >= Patience

Stalled(run, head, finalized) ==
  /\ run.stuck = finalized
  /\ head - run.start >= Patience
  /\ head - finalized > MaxNormalLag

---------------------------------------------------------- (* the decision *)

Obs(verdict) ==
  [claimed |-> ethTower.claimed, finality |-> verdict, claimConfs |-> None,
   fundingConfs |-> None, lockedAt |-> ethTower.lockedAt, now |-> ethTower.tip,
   lowCorroboration |-> TRUE]

Ends(verdict, head, seen) ==
  /\ out' = [intent |-> Decide(ethTower.state, EthTerms, Obs(verdict), EthPolicy, EthWindow).intent,
             claimed |-> ethTower.claimed, verdict |-> verdict, head |-> head,
             finalized |-> ethTower.finalized, movedAt |-> ethTower.movedAt, sampled |-> seen,
             truth |-> ethTower.truth, reorged |-> ethTower.reorged]
  /\ ethTower' = EthIdle
  /\ UNCHANGED <<ethChain, state, ethCrashes>>

(* _upgrade_eth_stall: the sample is judged, and the verdict with it.      *)
ReadHead ==
  /\ Reads("head")
  /\ LET head == IF Tip < ethTower.finalized THEN ethTower.finalized ELSE Tip
     IN /\ tracker' = Observe(tracker, head, ethTower.finalized)
        /\ sampled' = IF sampled = None /\ ethTower.finalized = final THEN head ELSE sampled
        /\ Ends(IF Stalled(tracker, head, ethTower.finalized)
                THEN "COUNTER_CHAIN_NOT_FINALIZING" ELSE "NOT_YET_FINAL_LIVE", head,
                IF ethTower.finalized = final THEN sampled ELSE None)

(* A FINAL verdict is not given to the tracker.                            *)
DecideFinal == Reads("final") /\ Ends("FINAL", None, None) /\ UNCHANGED <<tracker, sampled>>
DecideUnclaimed == Reads("decide") /\ Ends("none", None, None) /\ UNCHANGED <<tracker, sampled>>

(* A read fails: the reconciler pages the error as PAGE_SQUEEZED.          *)
TickFails ==
  /\ ethTower.pc \notin {"idle", "decide", "final"}
  /\ out' = [NoOut EXCEPT !.intent = "PAGE_SQUEEZED", !.reorged = ethTower.reorged]
  /\ ethTower' = EthIdle
  /\ UNCHANGED <<ethChain, state, tracker, sampled, ethCrashes>>

(* The process dies and is started again: the tracker is gone.  Without a  *)
(* run to forget this is a tick that fails.                                *)
EthCrash ==
  /\ ethCrashes < EthMaxCrashes /\ tracker # NoRun /\ ethCrashes' = ethCrashes + 1
  /\ ethTower' = EthIdle /\ tracker' = NoRun /\ sampled' = None /\ out' = NoOut
  /\ UNCHANGED <<ethChain, state>>

EthNext ==
  \/ Mine \/ Reorg \/ Finalize \/ EthRxdBlock \/ RecordAdvances
  \/ ReadRxdTip \/ ReadCovenant \/ ReadDeploy \/ ReadLogs
  \/ ReadReceipt \/ ReadCanonical \/ ReadFinalized \/ ReadCheckpoint \/ ReadHead
  \/ DecideFinal \/ DecideUnclaimed \/ TickFails \/ EthCrash

EthSpec == EthInit /\ [][EthNext]_ethVars

----------------------------------------------------------- (* properties *)

(* A stall is declared only when finalization really has not moved while   *)
(* the head rose by patience_slots, and the gap is more than the usual     *)
(* one: the epoch lag of a healthy chain, an undone block or a restart of  *)
(* the tower is never taken for one (finality.py:137).                     *)
StallIsReal ==
  out.verdict = "COUNTER_CHAIN_NOT_FINALIZING" =>
    /\ out.head - out.movedAt >= Patience
    /\ out.head - out.finalized > MaxNormalLag

(* A stall that this process has watched for patience_slots is paged as    *)
(* SQUEEZED by every tick that sees the claim unfinalized, however many    *)
(* ticks failed or saw the claim undone meanwhile (quorum.py:285).         *)
StallIsPaged ==
  out.claimed /\ out.verdict # "FINAL" /\ out.sampled # None
    /\ out.head - out.sampled >= Patience /\ out.head - out.finalized > MaxNormalLag
  => out.intent = "PAGE_SQUEEZED"

(* What a tick says of the claim is what the chain showed at its log scan, *)
(* whatever event the contract of this swap logs for a claim: a claim is   *)
(* not missed and a refund is not taken for one (eth_adapters.py:89).      *)
ClaimIsSeen == out.reorged \/ out.claimed = out.truth

(* A tick that tells the operator to claim found the claim final, and      *)
(* unless a block was undone under its reads the claim is finalized.       *)
ClaimPageIsFinal ==
  out.intent = "PAGE_CLAIM" /\ ~out.reorged => \E n \in At(claimEvent) : n <= final

(* What the tower says of an ETH claim and of a stall of finalization is   *)
(* so, and a stall that it watched is paged.                               *)
EthPagesAreTrue == StallIsReal /\ StallIsPaged /\ ClaimIsSeen /\ ClaimPageIsFinal
=============================================================================
