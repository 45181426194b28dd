---------------------------- MODULE ParallelMiner ----------------------------
(***************************************************************************)
(* contrib/miner: pyrxd-miner, and mine_solution_dispatch that runs it or  *)
(* the reference miner in its own process.  The caller starts the miner    *)
(* with a timeout; the miner starts workers that each try the nonces of    *)
(* one residue, stop when one of them has a solution, and must not outlive *)
(* their parent however it ends.  The names of the specification start     *)
(* with Miner, so that a module can extend this one beside another.        *)
(***************************************************************************)
EXTENDS Integers, FiniteSets

CONSTANTS
  Workers,         \* 0 .. n_workers - 1
  NonceMax,        \* 2^(8 * nonce_width)
  SolutionSets,    \* the sets of nonces that may satisfy the target
  AttemptCaps,     \* values of --max-attempts
  CheckInterval,   \* attempts between two looks at the event and the parent
  MaxDeaths        \* bound on workers killed from outside

ASSUME MinerAssumption ==
  /\ Cardinality(Workers) \in Nat \ {0} /\ Workers = 0 .. Cardinality(Workers) - 1
  /\ NonceMax \in Nat /\ CheckInterval \in Nat \ {0}
  /\ SolutionSets \subseteq SUBSET (0 .. NonceMax - 1) /\ AttemptCaps \subseteq Nat

VARIABLES
  solutions,  \* the nonces that satisfy the target
  parent,     \* the miner process
  w,          \* the workers: state, next nonce, attempts
  found,      \* found_event and found_value
  attempts,   \* attempts_counter
  result,     \* what mine() returned
  caller,     \* mine_solution_dispatch
  cap,        \* max_attempts of the reference miner
  linux,      \* PR_SET_PDEATHSIG is there
  deaths

minerVars == <<solutions, cap, parent, w, found, attempts, result, caller, linux, deaths>>

NotStarted == [st |-> "new", n |-> 0, tried |-> 0, late |-> 0]
NotFound == [set |-> FALSE, value |-> 0]

MinerInit ==
  /\ solutions \in SolutionSets /\ cap = 0
  /\ parent = "off" /\ w = [i \in Workers |-> NotStarted] /\ found = NotFound
  /\ attempts = 0 /\ result = "none" /\ caller = "idle" /\ linux \in BOOLEAN /\ deaths = 0

Alive(i) == w[i].st \in {"run", "count"}

(* verify_sha256d_solution: the one place that says what a solution is.    *)
VerifySolution(nonce) == nonce \in solutions

------------------------------------------------------------ (* the caller *)

(* The request passes the checks of MineRequest.from_json and mine().      *)
StartMiner ==
  /\ caller = "idle" /\ caller' = "waiting" /\ parent' = "start"
  /\ UNCHANGED <<solutions, cap, linux, w, found, attempts, result, deaths>>

(* mine_solution: the nonces from 0 on, in the caller's process, up to the *)
(* cap.  A cap beyond the nonce space overflows to_bytes, which nothing    *)
(* catches as exhaustion.                                                  *)
MineSolution ==
  /\ caller = "mining"
  /\ \/ /\ attempts < cap /\ attempts < NonceMax /\ VerifySolution(attempts)
        /\ caller' = "solved" /\ found' = [set |-> TRUE, value |-> attempts]
        /\ UNCHANGED attempts
     \/ /\ attempts < cap /\ attempts < NonceMax /\ ~VerifySolution(attempts)
        /\ attempts' = attempts + 1 /\ UNCHANGED <<caller, found>>
     \/ attempts < cap /\ attempts = NonceMax /\ caller' = "error" /\ UNCHANGED <<found, attempts>>
     \/ attempts = cap /\ caller' = "exhausted" /\ UNCHANGED <<found, attempts>>
  /\ UNCHANGED <<solutions, cap, linux, parent, w, result, deaths>>

StartReferenceMiner ==
  /\ caller = "idle" /\ caller' = "mining" /\ cap' \in AttemptCaps
  /\ UNCHANGED <<solutions, linux, parent, w, found, attempts, result, deaths>>

(* mine_solution_dispatch: in this process, or the command it was given.   *)
MineSolutionDispatch == StartReferenceMiner \/ StartMiner

(* The timeout kills the miner, not its workers.                           *)
CallerTimeout ==
  /\ caller = "waiting" /\ parent # "done"
  /\ caller' = "timeout" /\ parent' = "killed"
  /\ UNCHANGED <<solutions, cap, linux, w, found, attempts, result, deaths>>

(* The answer is parsed, and a nonce is verified again before it is used;  *)
(* exit code 2 with the exhausted object is MaxAttemptsError.              *)
ParseAnswer ==
  /\ caller = "waiting" /\ parent = "done"
  /\ caller' = CASE result = "exhausted" -> "exhausted"
                 [] result = "success" -> IF VerifySolution(found.value) THEN "solved" ELSE "refused"
                 [] OTHER -> "error"
  /\ UNCHANGED <<solutions, cap, linux, parent, w, found, attempts, result, deaths>>

------------------------------------------------------------ (* the miner *)

(* mine(): the workers are started one after the other.                    *)
StartWorker(i) ==
  /\ parent = "start" /\ w[i].st = "new" /\ \A j \in Workers : j < i => w[j].st # "new"
  /\ w' = [w EXCEPT ![i] = [NotStarted EXCEPT !.st = "run", !.n = i]]
  /\ UNCHANGED <<solutions, cap, linux, parent, found, attempts, result, caller, deaths>>

(* Mutation: the parent counts the attempts instead of asking the event.   *)
JoinByCount ==
  /\ parent = "start" /\ \A i \in Workers : w[i].st = "dead"
  /\ parent' = "done"
  /\ result' = IF attempts < NonceMax THEN "success" ELSE "exhausted"
  /\ UNCHANGED <<solutions, cap, linux, w, found, attempts, caller, deaths>>

(* Then each is joined, and the event tells success from exhaustion.       *)
Join ==
  /\ parent = "start" /\ \A i \in Workers : w[i].st = "dead"
  /\ parent' = "done" /\ result' = IF found.set THEN "success" ELSE "exhausted"
  /\ UNCHANGED <<solutions, cap, linux, w, found, attempts, caller, deaths>>

(* SIGTERM or Ctrl-C: KeyboardInterrupt leaves the with block, whose       *)
(* finally terminates, joins for a grace and kills what is left.           *)
Interrupt ==
  /\ parent = "start" /\ parent' = "cleanup"
  /\ UNCHANGED <<solutions, cap, linux, w, found, attempts, result, caller, deaths>>

EnsureWorkersTerminated ==
  /\ parent = "cleanup" /\ parent' = "done" /\ result' = "interrupted"
  /\ w' = [i \in Workers |-> IF w[i].st = "new" THEN w[i] ELSE [w[i] EXCEPT !.st = "dead"]]
  /\ UNCHANGED <<solutions, cap, linux, found, attempts, caller, deaths>>

----------------------------------------------------------- (* a worker *)

ParentGone == parent = "killed" \/ (parent = "done" /\ caller # "waiting")

(* Mutation: a worker only looks for the other workers' solution.          *)
TryIgnoringParent(i) ==
  /\ w[i].st = "run" /\ w[i].n < NonceMax
  /\ LET tried == w[i].tried + 1
         hit == VerifySolution(w[i].n) IN
       /\ found' = IF hit /\ ~found.set THEN [set |-> TRUE, value |-> w[i].n] ELSE found
       /\ w' = [w EXCEPT ![i] =
            [n |-> w[i].n + Cardinality(Workers), tried |-> tried,
             late |-> IF ParentGone THEN w[i].late + 1 ELSE 0,
             st |-> IF hit \/ (tried % CheckInterval = 0 /\ found.set) THEN "count" ELSE "run"]]
  /\ UNCHANGED <<solutions, cap, linux, parent, attempts, result, caller, deaths>>

(* One nonce.  A solution is recorded under the lock unless another is;    *)
(* every CheckInterval attempts the worker looks at the event, and leaves  *)
(* at once if its parent is gone.                                          *)
Try(i) ==
  /\ w[i].st = "run" /\ w[i].n < NonceMax
  /\ LET tried == w[i].tried + 1
         hit == VerifySolution(w[i].n)
         look == tried % CheckInterval = 0 IN
       /\ found' = IF hit /\ ~found.set THEN [set |-> TRUE, value |-> w[i].n] ELSE found
       /\ w' = [w EXCEPT ![i] =
            [n |-> w[i].n + Cardinality(Workers), tried |-> tried,
             late |-> IF ParentGone THEN w[i].late + 1 ELSE 0,
             st |-> IF hit \/ (look /\ found.set) THEN "count"
                    ELSE IF look /\ ParentGone THEN "dead" ELSE "run"]]
  /\ UNCHANGED <<solutions, cap, linux, parent, attempts, result, caller, deaths>>

RangeDone(i) ==
  /\ w[i].st = "run" /\ w[i].n >= NonceMax
  /\ w' = [w EXCEPT ![i].st = "count"]
  /\ UNCHANGED <<solutions, cap, linux, parent, found, attempts, result, caller, deaths>>

Count(i) ==
  /\ w[i].st = "count"
  /\ attempts' = attempts + w[i].tried /\ w' = [w EXCEPT ![i].st = "dead"]
  /\ UNCHANGED <<solutions, cap, linux, parent, found, result, caller, deaths>>

(* The kernel kills the workers of a dead parent, where it can.            *)
ParentDeathSignal(i) ==
  /\ linux /\ ParentGone /\ Alive(i)
  /\ w' = [w EXCEPT ![i].st = "dead"]
  /\ UNCHANGED <<solutions, cap, linux, parent, found, attempts, result, caller, deaths>>

(* External: a worker is killed (memory pressure).                         *)
WorkerDies(i) ==
  /\ w[i].st = "run" /\ deaths < MaxDeaths
  /\ w' = [w EXCEPT ![i].st = "dead"] /\ deaths' = deaths + 1
  /\ UNCHANGED <<solutions, cap, linux, parent, found, attempts, result, caller>>

MinerNext ==
  \/ MineSolutionDispatch \/ MineSolution \/ CallerTimeout \/ ParseAnswer \/ Join \/ Interrupt \/ EnsureWorkersTerminated
  \/ \E i \in Workers :
       \/ StartWorker(i) \/ Try(i) \/ RangeDone(i) \/ Count(i)
       \/ ParentDeathSignal(i) \/ WorkerDies(i)

MinerSpec == MinerInit /\ [][MinerNext]_minerVars

---------------------------------------------------------- (* properties *)

(* What was not tried when the caller is told that the space is exhausted: *)
(* the reference miner stops at its cap.                                   *)
Untried == IF parent = "off" THEN {n \in solutions : n >= cap} ELSE {}

(* The caller never takes a nonce that does not solve the target, and      *)
(* exhausted means no nonce that had to be tried does, unless a worker was *)
(* killed: the exit codes of the workers are not looked at.                *)
AnswersAreTrue ==
  /\ result = "success" \/ caller = "solved" => found.value \in solutions
  /\ caller = "exhausted" /\ deaths = 0 => solutions = Untried

(* However the miner ended, also by a kill that runs none of its cleanup,  *)
(* no worker goes on hashing for more than one check interval.             *)
OrphansStop == \A i \in Workers : w[i].late <= CheckInterval

(* The parallel miner answers truly, and none of its workers outlives it.  *)
MiningIsSound == AnswersAreTrue /\ OrphansStop
=============================================================================
