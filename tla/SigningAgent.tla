---------------------------- MODULE SigningAgent ----------------------------
(***************************************************************************)
(* pyrxd/agent: `agent unlock` processes that hold a seed and sign for     *)
(* clients of one Unix socket, their idle auto-lock, their signal and exit *)
(* handlers, and what a signing request may get signed.  Python runs a     *)
(* signal handler between any two steps of the main thread, lock() too.    *)
(***************************************************************************)
EXTENDS Integers, FiniteSets

CONSTANTS
  Daemons,        \* processes that run `agent unlock`
  Threshold,      \* --auto-confirm-under
  Amounts,        \* Amounts[i]: the amount of output i of a request
  InTotals,       \* what the inputs of a request are worth
  MaxSignals      \* bound on signals

ASSUME AmountsAreSats ==
  /\ IsFiniteSet(DOMAIN Amounts) /\ \A i \in DOMAIN Amounts : Amounts[i] \in Nat
  /\ Threshold \in Int

VARIABLES
  pc,        \* what each process does
  seed,      \* its wallet holds the seed
  locked,    \* AgentDaemon._locked
  path,      \* who the socket file belongs to: a process, "stale" or "none"
  request,   \* the request each process serves
  shown,     \* the outputs its confirmation prompt lists as external
  signed,    \* history: the last request signed and how it was approved
  broken,    \* history: a signal landed inside lock()
  signals

agentVars == <<pc, seed, locked, path, request, shown, signed, broken, signals>>

Outs == DOMAIN Amounts

(* What some outputs are worth together: every satoshi counts once.        *)
TotalOf(outs) == Cardinality(UNION {{i} \X (1..Amounts[i]) : i \in outs})

NoRequest == [to |-> [i \in Outs |-> "none"], claims |-> {}, verified |-> FALSE, total |-> 0]
NotSigned == [req |-> NoRequest, shown |-> {}, by |-> "none"]
Requests ==
  [to : [Outs -> {"payee", "change", "script"}], claims : SUBSET Outs,
   verified : BOOLEAN, total : InTotals]

AgentInit ==
  /\ pc = [d \in Daemons |-> "off"] /\ seed = [d \in Daemons |-> FALSE]
  /\ locked = [d \in Daemons |-> FALSE] /\ path = "none"
  /\ request = [d \in Daemons |-> NoRequest] /\ shown = [d \in Daemons |-> {}]
  /\ signed = NotSigned
  /\ broken = FALSE /\ signals = 0

Goto(d, p) == pc' = [pc EXCEPT ![d] = p]
Same == UNCHANGED <<request, shown, signed, broken, signals>>

(* A process answers a connect while its listener is open.                 *)
Listening(d) == pc[d] \in {"serve", "confirm"}

------------------------------------------------------- (* agent unlock *)

(* The wallet is loaded, the handlers are registered.                      *)
Unlock(d) ==
  /\ pc[d] = "off" /\ Goto(d, "bind") /\ seed' = [seed EXCEPT ![d] = TRUE]
  /\ UNCHANGED <<locked, path>> /\ Same

(* _bind: a socket file somebody answers on is an error, before the try    *)
(* whose finally locks; only atexit is left.  A stale file is removed.     *)
BindProbe(d) ==
  /\ pc[d] = "bind"
  /\ IF path \in Daemons /\ Listening(path)
     THEN Goto(d, "atexit") /\ UNCHANGED path
     ELSE Goto(d, "listen") /\ path' = "none"
  /\ UNCHANGED <<seed, locked>> /\ Same

(* The file may have appeared since the probe: then bind() fails.          *)
Bind(d) ==
  /\ pc[d] = "listen"
  /\ IF path = "none"
     THEN Goto(d, "serve") /\ path' = d
     ELSE Goto(d, "atexit") /\ UNCHANGED path
  /\ UNCHANGED <<seed, locked>> /\ Same

----------------------------------------------------------- (* lock() *)

(* lock(): an agent already locked returns at once; the flag comes first,  *)
(* then the seed, then the listener and the socket file, whose ever it is. *)
LockFlag(d, then) == locked' = [locked EXCEPT ![d] = TRUE] /\ Goto(d, then)

Zeroize(d) ==
  /\ pc[d] = "zeroize" /\ seed' = [seed EXCEPT ![d] = FALSE] /\ Goto(d, "unlink")
  /\ UNCHANGED <<locked, path>> /\ Same

CloseSocket(d) ==
  /\ pc[d] = "unlink" /\ path' = "none" /\ Goto(d, "atexit")
  /\ UNCHANGED <<seed, locked>> /\ Same

(* Mutation: the process ends without the atexit hook.                     *)
ExitWithoutLock(d) ==
  /\ pc[d] = "atexit" /\ Goto(d, "gone")
  /\ UNCHANGED <<seed, locked, path>> /\ Same

(* The end of the process: serve_forever's finally and atexit call lock(). *)
AtExit(d) ==
  /\ pc[d] = "atexit"
  /\ IF locked[d]
     THEN Goto(d, "gone") /\ UNCHANGED locked
     ELSE LockFlag(d, "zeroize")
  /\ UNCHANGED <<seed, path>> /\ Same

(* SIGTERM, SIGHUP or Ctrl-C: the handler locks, unless the flag is set;   *)
(* then the exception leaves whatever was running, lock() included.        *)
Signal(d) ==
  /\ pc[d] \notin {"off", "gone"} /\ signals < MaxSignals
  /\ signals' = signals + 1
  /\ IF locked[d]
     THEN /\ Goto(d, "atexit") /\ UNCHANGED locked
          /\ broken' = (broken \/ pc[d] \in {"zeroize", "unlink"})
     ELSE LockFlag(d, "zeroize") /\ UNCHANGED broken
  /\ UNCHANGED <<seed, path, request, shown, signed>>

(* External: the process is killed.  Its socket file stays.                *)
Kill(d) ==
  /\ pc[d] \notin {"off", "gone"} /\ signals < MaxSignals
  /\ signals' = signals + 1 /\ Goto(d, "gone")
  /\ seed' = [seed EXCEPT ![d] = FALSE]
  /\ path' = IF path = d THEN "stale" ELSE path
  /\ UNCHANGED <<locked, request, shown, signed, broken>>

---------------------------------------------------------- (* serving *)

(* The accept times out and the idle window is over.                       *)
AutoLock(d) ==
  /\ pc[d] = "serve" /\ LockFlag(d, "zeroize")
  /\ UNCHANGED <<seed, path>> /\ Same

(* Peers of another uid, malformed frames, status, xpub and unknown ops    *)
(* change nothing; "lock" locks.                                           *)
LockOp(d) ==
  /\ pc[d] = "serve" /\ path = d /\ LockFlag(d, "zeroize")
  /\ UNCHANGED <<seed, path>> /\ Same

(* Every change claim is for an output that pays the wallet.               *)
ClaimsHold(req) == \A i \in req.claims : req.to[i] = "change"

(* Mutation: the requester's word is taken for what is change.             *)
SummarizeTrusting(req) == Outs \ req.claims

(* _summarize: what is not proven change is external, and a script that    *)
(* cannot be shown is refused.  {0}: refused.                              *)
Summarize(req) ==
  LET external == Outs \ req.claims IN
  IF ~ClaimsHold(req) \/ (\E i \in external : req.to[i] = "script") \/ TotalOf(Outs) > req.total
  THEN {0} ELSE external

(* AgentSigner.sign: every input is covered, its source transaction hashes *)
(* to the outpoint, the derived key owns it, the sighash is ALL_FORKID.    *)
SignRequest(d) ==
  /\ pc[d] = "serve" /\ path = d
  /\ \E req \in Requests :
       /\ req.verified /\ Summarize(req) # {0}
       /\ request' = [request EXCEPT ![d] = req]
       /\ shown' = [shown EXCEPT ![d] = Summarize(req)]
  /\ Goto(d, "confirm")
  /\ UNCHANGED <<seed, locked, path, signed, broken, signals>>

(* TtyConfirmer: under the threshold nobody is asked.                      *)
Confirm(d) ==
  /\ pc[d] = "confirm"
  /\ \E by \in {"operator", "threshold", "nobody"} :
       /\ (by = "threshold") = (Threshold > 0 /\ TotalOf(shown[d]) <= Threshold)
       /\ signed' = IF by = "nobody" THEN signed
                    ELSE [req |-> request[d], shown |-> shown[d], by |-> by]
  /\ request' = [request EXCEPT ![d] = NoRequest] /\ shown' = [shown EXCEPT ![d] = {}]
  /\ Goto(d, "serve")
  /\ UNCHANGED <<seed, locked, path, broken, signals>>

AgentNext ==
  \E d \in Daemons :
    \/ Unlock(d) \/ BindProbe(d) \/ Bind(d) \/ Zeroize(d) \/ CloseSocket(d) \/ AtExit(d)
    \/ Signal(d) \/ Kill(d) \/ AutoLock(d) \/ LockOp(d) \/ SignRequest(d) \/ Confirm(d)

AgentSpec == AgentInit /\ [][AgentNext]_agentVars

---------------------------------------------------------- (* properties *)

(* What is signed pays somebody else only through outputs that were listed *)
(* to the operator, or whose sum stays under the threshold: a change claim *)
(* hides no payment (AgentSigner._summarize, TtyConfirmer).                *)
SignedAsShown ==
  LET paid == {i \in Outs : signed.req.to[i] \in {"payee", "script"}} IN
  /\ paid \subseteq signed.shown
  /\ signed.by = "threshold" => TotalOf(paid) <= Threshold

(* However an agent ends (idle, lock, error at start, signal), its seed is *)
(* scrubbed, if no signal landed inside lock() itself.                     *)
ExitScrubs == ~broken => \A d \in Daemons : pc[d] = "gone" => ~seed[d]

(* The agent signs what the operator was shown or the threshold covers,    *)
(* and leaves no seed behind, unless a signal lands inside lock() itself.  *)
AgentIsTrustworthy == SignedAsShown /\ ExitScrubs

(* Refuted: the overlapping signal, atexit and finally handlers are safe,  *)
(* so that every exit path zeroizes (agent_unlock).                        *)
EveryExitScrubs == \A d \in Daemons : pc[d] = "gone" => ~seed[d]

(* Refuted: the socket file of an agent that serves is its own, so that    *)
(* clients and a second unlock find it (_bind refuses a second agent).     *)
ServingIsReachable == \A d \in Daemons : pc[d] = "serve" => path = d
=============================================================================
