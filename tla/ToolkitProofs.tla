---------------------------- MODULE ToolkitProofs ----------------------------
(***************************************************************************)
(* The network clients (pyrxd/network).  The shared ElectrumX client, for  *)
(* any number of callers, requests and connections: the argument is about  *)
(* ids.  Two calls under way never share one, so a finally that pops an    *)
(* entry pops its own, an answer resolves the future of the request it     *)
(* answers, and whoever empties the map resolves what was in it.           *)
(*                                                                         *)
(* The readers of several Bitcoin sources, for any sources of which one    *)
(* may lie, any quorum that outnumbers it, and any chain: the argument is  *)
(* that a quorum has an honest source in it, and that without a reorg what *)
(* it said of the depth stays a lower bound.                               *)
(*                                                                         *)
(* The parallel miner (glyph/dmint/miner.py), for any number of workers,   *)
(* nonce space, set of solutions, check interval and number of killed      *)
(* workers.  That the space is exhausted is concluded by the parent from   *)
(* one flag and from the ends of the workers; the invariant says what of   *)
(* the space each worker has behind it while the flag is not set, and why  *)
(* an end stands for a whole residue.                                      *)
(*                                                                         *)
(* The signing agent (agent/), for any processes, outputs, amounts and     *)
(* signals: a prompt covers what a request pays, and a set locked flag     *)
(* means that the seed is gone or about to go.                             *)
(*                                                                         *)
(* Sealed content (glyph/timelock.py), for any keys and unlock points: the *)
(* hash of the content's key is carried from the first lock to the minted  *)
(* dictionary, whatever is stored and locked again on the way.             *)
(*                                                                         *)
(* The HD wallet (hd/), for any gap limit, payments and coins: no address  *)
(* is given out before all the ones below it have history, so that what    *)
(* the chain shows is a first segment of each chain and no gap hides a     *)
(* coin.                                                                   *)
(***************************************************************************)
EXTENDS ElectrumX, BtcReaders, ParallelMiner, SigningAgent, SealedContent,
        HdWallet, FiniteSetTheorems, NaturalsInduction, WellFoundedInduction, TLAPS

-------------------------------------------------- (* the ElectrumX client *)

CallPcs == {"idle", "connecting", "locking", "sending", "waiting", "done"}
Outcomes == [kind : {"none", "error", "result"}, of : 0 .. MaxIds]
CallStates == [pc : CallPcs, id : 0 .. MaxIds, sock : Nat, got : Outcomes]

ClientType ==
  /\ ws \in Nat /\ made \in Nat /\ lastId \in 0 .. MaxIds
  /\ pending \subseteq 1 .. lastId
  /\ fut \in [1 .. MaxIds -> Outcomes]
  /\ call \in [Callers -> CallStates]
  /\ asked \subseteq Nat \X (1 .. MaxIds)

(* A call under way: it has its id and has not returned.                   *)
UnderWay(c) == call[c].pc \in {"locking", "sending", "waiting"}

(* Ids come from the counter, and two calls under way have different ones. *)
IdsAreOwn ==
  /\ \A c \in Callers : UnderWay(c) => call[c].id \in 1 .. lastId
  /\ \A c \in Callers : call[c].pc \in {"idle", "connecting"} => call[c].id = 0
  /\ \A c, d \in Callers : c # d /\ UnderWay(c) /\ UnderWay(d) => call[c].id # call[d].id

(* A future holds the answer to the request it was registered for.         *)
FuturesAreOwn == \A i \in 1 .. MaxIds : fut[i].kind = "result" => fut[i].of = i

(* A call under way is registered until its future is resolved.            *)
RegisteredOrResolved ==
  \A c \in Callers : UnderWay(c) => call[c].id \in pending \/ fut[call[c].id] # Unresolved

(* A call that has returned brought its own answer, or none.               *)
ReturnedOwn ==
  \A c \in Callers :
    call[c].pc = "done" /\ call[c].got.kind = "result" => call[c].got.of = call[c].id

ClientInv ==
  ClientType /\ IdsAreOwn /\ FuturesAreOwn /\ RegisteredOrResolved /\ ReturnedOwn

LEMMA ClientInvInit ==
  ASSUME MaxIds \in Nat, Init
  PROVE  ClientInv
<1>1. ClientType
  BY DEF Init, ClientType, CallStates, CallPcs, Outcomes, Idle, Unresolved
<1> QED
  BY <1>1 DEF Init, ClientInv, IdsAreOwn, FuturesAreOwn, RegisteredOrResolved, ReturnedOwn,
              UnderWay, Idle, Unresolved

(* _fail_all_pending: every registered future is resolved as the map is    *)
(* emptied, and no future that was resolved changes.                       *)
LEMMA FailAllKeepsInv ==
  ASSUME MaxIds \in Nat, ClientInv, FailAllPending, UNCHANGED <<call, lastId, made>>,
         ws' \in Nat, asked' \subseteq asked
  PROVE  ClientInv'
<1> USE DEF ClientInv, FailAllPending
<1>1. ClientType'
  BY DEF ClientType, Outcomes, Failure
<1>2. IdsAreOwn'
  BY DEF IdsAreOwn, UnderWay
<1>3. FuturesAreOwn'
  BY DEF FuturesAreOwn, ClientType, Failure
<1>4. RegisteredOrResolved'
  <2> SUFFICES ASSUME NEW c \in Callers, UnderWay(c)
               PROVE  fut'[call[c].id] # Unresolved
    BY DEF RegisteredOrResolved, UnderWay
  <2>1. call[c].id \in 1 .. MaxIds
    BY DEF IdsAreOwn, ClientType
  <2>2. call[c].id \in pending \/ fut[call[c].id] # Unresolved
    BY DEF RegisteredOrResolved
  <2> QED
    BY <2>1, <2>2 DEF Failure, Unresolved
<1>5. ReturnedOwn'
  BY DEF ReturnedOwn
<1> QED
  BY <1>1, <1>2, <1>3, <1>4, <1>5

(* The finally of _call: a caller that returns pops its own entry, and no  *)
(* other call's.                                                           *)
LEMMA ReturnKeepsInv ==
  ASSUME MaxIds \in Nat, ClientInv, NEW c \in Callers, NEW got \in Outcomes,
         call[c].pc \in CallPcs \ {"idle", "done"},
         got.kind = "result" => got.of = call[c].id,
         Return(c, got), UNCHANGED <<ws, made, fut, lastId>>,
         asked' \subseteq Nat \X (1 .. MaxIds)
  PROVE  ClientInv'
<1> USE DEF ClientInv, Return
<1>1. ClientType'
  <2>1. [call[c] EXCEPT !.pc = "done", !.got = got] \in CallStates
    BY DEF ClientType, CallStates, CallPcs
  <2> QED
    BY <2>1 DEF ClientType
<1>2. /\ call'[c].pc = "done" /\ call'[c].got = got /\ call'[c].id = call[c].id
      /\ \A d \in Callers \ {c} : call'[d] = call[d]
  BY DEF ClientType, CallStates
<1>3. IdsAreOwn'
  BY <1>2 DEF IdsAreOwn, UnderWay
<1>4. FuturesAreOwn'
  BY DEF FuturesAreOwn
<1>5. RegisteredOrResolved'
  <2> SUFFICES ASSUME NEW d \in Callers, UnderWay(d)'
               PROVE  call[d].id \in pending' \/ fut[call[d].id] # Unresolved
    BY <1>2 DEF RegisteredOrResolved, UnderWay
  <2>1. d # c /\ UnderWay(d)
    BY <1>2 DEF UnderWay
  <2>2. call[d].id # call[c].id
    <3>1. CASE UnderWay(c)
      BY <2>1, <3>1 DEF IdsAreOwn
    <3>2. CASE ~UnderWay(c)
      BY <2>1, <3>2 DEF IdsAreOwn, UnderWay, CallPcs
    <3> QED
      BY <3>1, <3>2
  <2> QED
    BY <2>1, <2>2 DEF RegisteredOrResolved
<1>6. ReturnedOwn'
  BY <1>2 DEF ReturnedOwn
<1> QED
  BY <1>1, <1>3, <1>4, <1>5, <1>6

(* A call that registers takes an id no call has had.                      *)
LEMMA RegisterKeepsInv ==
  ASSUME MaxIds \in Nat, ClientInv, NEW c \in Callers, NEW sock \in Nat, lastId < MaxIds,
         call[c].pc \in {"idle", "connecting"},
         Register(c, sock), ws' \in Nat, made' \in Nat, UNCHANGED <<fut, asked>>
  PROVE  ClientInv'
<1> USE DEF ClientInv
<1> DEFINE new == [call[c] EXCEPT !.id = lastId + 1,
                                  !.pc = IF lock = "none" THEN "sending" ELSE "locking",
                                  !.sock = IF lock = "none" THEN sock ELSE 0]
<1>1. call' = [call EXCEPT ![c] = new] /\ lastId' = lastId + 1
      /\ pending' = pending \cup {lastId + 1}
  BY DEF Register
<1>2. /\ new.id = lastId + 1 /\ new.pc \in {"sending", "locking"}
      /\ new \in CallStates
  <2> DEFINE to == IF lock = "none" THEN "sending" ELSE "locking"
             so == IF lock = "none" THEN sock ELSE 0
             withId == [call[c] EXCEPT !.id = lastId + 1]
  <2>1. withId \in CallStates /\ withId.id = lastId + 1
    BY DEF ClientType, CallStates
  <2>2. to \in {"sending", "locking"} /\ so \in Nat
    OBVIOUS
  <2>3. new = [withId EXCEPT !.pc = to, !.sock = so]
    OBVIOUS
  <2> HIDE DEF to, so, withId, new
  <2> QED
    BY <2>1, <2>2, <2>3 DEF CallStates, CallPcs
<1>3. call'[c] = new /\ \A d \in Callers \ {c} : call'[d] = call[d]
  BY <1>1 DEF ClientType
<1> HIDE DEF new
<1>4. ClientType'
  BY <1>1, <1>2 DEF ClientType
<1>5. IdsAreOwn'
  BY <1>1, <1>2, <1>3 DEF IdsAreOwn, UnderWay, ClientType
<1>6. FuturesAreOwn'
  BY DEF FuturesAreOwn
<1>7. RegisteredOrResolved'
  BY <1>1, <1>2, <1>3 DEF RegisteredOrResolved, UnderWay
<1>8. ReturnedOwn'
  BY <1>2, <1>3 DEF ReturnedOwn
<1> QED
  BY <1>4, <1>5, <1>6, <1>7, <1>8

LEMMA ClientInvNext ==
  ASSUME MaxIds \in Nat, ClientInv, [Next]_vars
  PROVE  ClientInv'
<1> USE DEF ClientInv
<1>1. ASSUME NEW c \in Callers, CallConnected(c) \/ ConnectFirst(c) PROVE ClientInv'
  <2>1. CASE CallConnected(c)
    BY <2>1, RegisterKeepsInv DEF CallConnected, ClientType
  <2>2. CASE ConnectFirst(c)
    <3>1. made + 1 \in Nat /\ call[c].pc = "connecting" /\ lastId < MaxIds
          /\ made' = made + 1 /\ ws' = made + 1
          /\ Register(c, made + 1) /\ UNCHANGED <<fut, asked>>
      BY <2>2 DEF ConnectFirst, ClientType
    <3> QED
      BY <3>1, RegisterKeepsInv
  <2> QED
    BY <1>1, <2>1, <2>2
<1>2. ASSUME NEW c \in Callers, EnsureConnected(c) \/ Again(c) PROVE ClientInv'
  <2> DEFINE st == IF call[c].pc = "idle" THEN [call[c] EXCEPT !.pc = "connecting"] ELSE Idle
  <2>1. /\ call' = [call EXCEPT ![c] = st]
        /\ UNCHANGED <<ws, made, pending, fut, lastId, asked>>
    BY <1>2 DEF EnsureConnected, Again, ClientType
  <2>2. st \in CallStates /\ st.pc \in {"idle", "connecting"} /\ st.id = 0
    <3>1. Idle \in CallStates /\ Idle.pc = "idle" /\ Idle.id = 0
      BY DEF Idle, CallStates, CallPcs, Outcomes, Unresolved
    <3>2. CASE call[c].pc = "idle"
      <4>1. call[c] \in CallStates /\ call[c].id = 0
        BY <3>2 DEF ClientType, IdsAreOwn
      <4> QED
        BY <3>2, <4>1 DEF CallStates, CallPcs
    <3> QED
      BY <3>1, <3>2
  <2>3. call'[c] = st /\ \A d \in Callers \ {c} : call'[d] = call[d]
    BY <2>1 DEF ClientType
  <2> HIDE DEF st
  <2>4. ClientType'
    BY <2>1, <2>2 DEF ClientType
  <2>5. IdsAreOwn' /\ RegisteredOrResolved' /\ ReturnedOwn' /\ FuturesAreOwn'
    BY <2>1, <2>2, <2>3
    DEF IdsAreOwn, RegisteredOrResolved, ReturnedOwn, FuturesAreOwn, UnderWay
  <2> QED
    BY <2>4, <2>5
<1>3. ASSUME NEW c \in Callers, ConnectFails(c) \/ SendFails(c) \/ TimesOut(c)
      PROVE  ClientInv'
  <2>1. Failure \in Outcomes /\ Failure.kind # "result"
    BY DEF Outcomes, Failure
  <2>2. call[c].pc \in CallPcs \ {"idle", "done"} /\ Return(c, Failure)
        /\ UNCHANGED <<ws, made, fut, lastId>>
    BY <1>3 DEF ConnectFails, SendFails, TimesOut, CallPcs
  <2>3. asked' \subseteq Nat \X (1 .. MaxIds)
    <3>1. CASE SendFails(c)
      <4>1. call[c].sock \in Nat /\ call[c].id \in 1 .. MaxIds
        BY <3>1 DEF SendFails, IdsAreOwn, UnderWay, ClientType, CallStates
      <4> QED
        BY <3>1, <4>1 DEF SendFails, ClientType
    <3> QED
      BY <1>3, <3>1 DEF ConnectFails, TimesOut, ClientType
  <2> QED
    BY <2>1, <2>2, <2>3, ReturnKeepsInv
<1>4. ASSUME NEW c \in Callers, Answered(c) PROVE ClientInv'
  <2>1. PICK reply \in Results :
          Return(c, IF Parses(Method[c], reply) THEN fut[call[c].id] ELSE Failure)
    BY <1>4 DEF Answered
  <2> DEFINE got == IF Parses(Method[c], reply) THEN fut[call[c].id] ELSE Failure
  <2>2. call[c].pc = "waiting" /\ UNCHANGED <<ws, made, fut, lastId, asked>>
    BY <1>4 DEF Answered
  <2>3. call[c].id \in 1 .. MaxIds
    BY <2>2 DEF IdsAreOwn, UnderWay, ClientType
  <2>4. got \in Outcomes /\ (got.kind = "result" => got.of = call[c].id)
    BY <2>3 DEF ClientType, FuturesAreOwn, Failure, Outcomes
  <2> QED
    BY <2>1, <2>2, <2>4, ReturnKeepsInv DEF CallPcs, ClientType
<1>5. ASSUME NEW c \in Callers, Send(c) PROVE ClientInv'
  <2>1. CASE ws = 0
    <3>1. Failure \in Outcomes /\ Failure.kind # "result"
      BY DEF Outcomes, Failure
    <3> QED
      BY <1>5, <2>1, <3>1, ReturnKeepsInv DEF Send, CallPcs, ClientType
  <2>2. CASE ws # 0
    <3> DEFINE st == [call[c] EXCEPT !.pc = "sending", !.sock = ws]
    <3>1. call' = [call EXCEPT ![c] = st] /\ call[c].pc = "locking"
          /\ UNCHANGED <<ws, made, pending, fut, lastId, asked>>
      BY <1>5, <2>2 DEF Send
    <3>2. st \in CallStates /\ st.pc = "sending" /\ st.id = call[c].id
      BY DEF ClientType, CallStates, CallPcs
    <3>3. call'[c] = st /\ \A d \in Callers \ {c} : call'[d] = call[d]
      BY <3>1 DEF ClientType
    <3> HIDE DEF st
    <3>4. ClientType'
      BY <3>1, <3>2 DEF ClientType
    <3>5. IdsAreOwn' /\ RegisteredOrResolved' /\ ReturnedOwn' /\ FuturesAreOwn'
      BY <3>1, <3>2, <3>3
      DEF IdsAreOwn, RegisteredOrResolved, ReturnedOwn, FuturesAreOwn, UnderWay
    <3> QED
      BY <3>4, <3>5
  <2> QED
    BY <2>1, <2>2
<1>6. ASSUME NEW c \in Callers, Sent(c) PROVE ClientInv'
  <2> DEFINE st == [call[c] EXCEPT !.pc = "waiting"]
  <2>1. call' = [call EXCEPT ![c] = st] /\ call[c].pc = "sending"
        /\ asked' = asked \cup {<<call[c].sock, call[c].id>>}
        /\ UNCHANGED <<ws, made, pending, fut, lastId>>
    BY <1>6 DEF Sent, ClientType
  <2>2. st \in CallStates /\ st.pc = "waiting" /\ st.id = call[c].id
    BY DEF ClientType, CallStates, CallPcs
  <2>3. call'[c] = st /\ \A d \in Callers \ {c} : call'[d] = call[d]
    BY <2>1 DEF ClientType
  <2>4. call[c].sock \in Nat /\ call[c].id \in 1 .. MaxIds
    BY <2>1 DEF IdsAreOwn, UnderWay, ClientType, CallStates
  <2> HIDE DEF st
  <2>5. ClientType'
    BY <2>1, <2>2, <2>4 DEF ClientType
  <2>6. IdsAreOwn' /\ RegisteredOrResolved' /\ ReturnedOwn' /\ FuturesAreOwn'
    BY <2>1, <2>2, <2>3
    DEF IdsAreOwn, RegisteredOrResolved, ReturnedOwn, FuturesAreOwn, UnderWay
  <2> QED
    BY <2>5, <2>6
<1>7. CASE Receive
  <2>1. PICK q \in asked :
          /\ asked' = asked \ {q}
          /\ pending' = pending \ Matching(q[2])
          /\ \E answer \in {Failure, [kind |-> "result", of |-> q[2]]} :
               fut' = [i \in 1..MaxIds |->
                         IF i \in Matching(q[2]) /\ fut[i] = Unresolved THEN answer ELSE fut[i]]
    BY <1>7 DEF Receive
  <2>2. PICK answer \in {Failure, [kind |-> "result", of |-> q[2]]} :
          fut' = [i \in 1..MaxIds |->
                    IF i \in Matching(q[2]) /\ fut[i] = Unresolved THEN answer ELSE fut[i]]
    BY <2>1
  <2>3. UNCHANGED <<ws, made, call, lastId>>
    BY <1>7 DEF Receive
  <2>4. q[2] \in 1 .. MaxIds
    BY DEF ClientType
  <2>5. /\ answer \in Outcomes /\ answer # Unresolved
        /\ answer.kind = "result" => answer.of = q[2]
    BY <2>4 DEF Outcomes, Failure, Unresolved
  <2>6. ClientType'
    <3>1. fut' \in [1 .. MaxIds -> Outcomes]
      BY <2>2, <2>5 DEF ClientType
    <3>2. pending' \subseteq 1 .. lastId' /\ asked' \subseteq asked
      BY <2>1, <2>3 DEF ClientType
    <3> QED
      BY <2>3, <3>1, <3>2 DEF ClientType
  <2>7. FuturesAreOwn'
    BY <2>2, <2>5 DEF FuturesAreOwn, Matching, ClientType
  <2>8. RegisteredOrResolved'
    <3> SUFFICES ASSUME NEW c \in Callers, UnderWay(c)
                 PROVE  call[c].id \in pending' \/ fut'[call[c].id] # Unresolved
      BY <2>3 DEF RegisteredOrResolved, UnderWay
    <3>1. call[c].id \in 1 .. MaxIds
      BY DEF IdsAreOwn, ClientType
    <3>2. call[c].id \in pending \/ fut[call[c].id] # Unresolved
      BY DEF RegisteredOrResolved
    <3> QED
      BY <2>1, <2>2, <2>5, <3>1, <3>2 DEF Matching
  <2>9. IdsAreOwn' /\ ReturnedOwn'
    BY <2>3 DEF IdsAreOwn, ReturnedOwn, UnderWay
  <2> QED
    BY <2>6, <2>7, <2>8, <2>9
<1>8. CASE Oversized \/ ConnectionLost \/ Close
  <2>1. FailAllPending /\ UNCHANGED <<call, lastId, made>> /\ ws' = 0 /\ asked' \subseteq asked
    BY <1>8 DEF Oversized, ConnectionLost, Close
  <2> QED
    BY <2>1, FailAllKeepsInv
<1>9. CASE CloseReader
  <2>1. CASE reader.st = "none"
    BY <1>9, <2>1 DEF CloseReader, ClientType, IdsAreOwn, FuturesAreOwn, RegisteredOrResolved,
                      ReturnedOwn, UnderWay
  <2>2. CASE reader.st # "none"
    <3>1. FailAllPending /\ UNCHANGED <<call, lastId, made, asked>> /\ ws' = 0
      BY <1>9, <2>2 DEF CloseReader
    <3> QED
      BY <3>1, FailAllKeepsInv
  <2> QED
    BY <2>1, <2>2
<1>10. CASE ReaderTop \/ ServerCloses \/ UNCHANGED vars
  <2>1. UNCHANGED <<ws, made, pending, fut, call, lastId>> /\ asked' \subseteq asked
    BY <1>10 DEF ReaderTop, ServerCloses, vars
  <2> QED
    BY <2>1 DEF ClientType, IdsAreOwn, FuturesAreOwn, RegisteredOrResolved, ReturnedOwn, UnderWay
<1> QED
  BY <1>1, <1>2, <1>3, <1>4, <1>5, <1>6, <1>7, <1>8, <1>9, <1>10 DEF Next

(* Ids, futures and the map of pending requests fit together whatever      *)
(* calls, answers, time-outs, lost connections and close() overlap.        *)
THEOREM ClientInvariant == Spec => []ClientInv
<1>1. Init => ClientInv
  BY ClientInvInit, IdsAssumption
<1>2. ClientInv /\ [Next]_vars => ClientInv'
  BY ClientInvNext, IdsAssumption
<1> QED
  BY <1>1, <1>2, PTL DEF Spec

(* EveryWaitIsAnswerable: a call returns the answer to its own request or  *)
(* fails, and the future a call waits on is in the map until it is         *)
(* resolved (_call, _reader_loop, _fail_all_pending, close).               *)
THEOREM AnswersReachTheirCallers == Spec => []EveryWaitIsAnswerable
<1>1. ClientInv => EveryWaitIsAnswerable
  BY DEF ClientInv, ReturnedOwn, RegisteredOrResolved, UnderWay, EveryWaitIsAnswerable
<1> QED
  BY <1>1, ClientInvariant, PTL

---------------------------------------------------- (* the Bitcoin readers *)

Answers == {Fail} \cup [ok : {TRUE}, confs : Nat, amount : Nat]
SourceStates == [pc : {"status", "tip", "done"}, h : Nat, ret : Answers]
ReadResults == [done : BOOLEAN, ok : BOOLEAN, confs : Nat, amount : Nat]

ReadersType ==
  /\ chain \in [tip : Nat, at : Nat, reorgs : Nat] /\ chain.at <= chain.tip
  /\ query \in [op : {"none", "amount", "confs", "raw"}, reorged : BOOLEAN, agreed : Nat,
                res : ReadResults]
  /\ src \in [Sources -> SourceStates]

(* What an honest source has answered is so, and deep enough for the read; *)
(* without a reorg since the read began it has not become less deep.       *)
HonestAnswer(s) ==
  s # Liar /\ src[s].ret.ok =>
    /\ src[s].ret.amount = TrueAmount
    /\ ~query.reorged => src[s].ret.confs <= Depth
    /\ query.op = "raw" => src[s].ret.confs >= MinConfs

(* Between its two requests the block of the transaction stays.            *)
HeightStands(s) ==
  src[s].pc = "tip" /\ ~query.reorged => src[s].h = chain.at /\ chain.at # 0

(* A lie about raw bytes does not hash to the txid.                        *)
NoForgedBytes(s) == s = Liar /\ query.op = "raw" => ~src[s].ret.ok

(* An amount above dust that was agreed on is the output's.                *)
AgreedIsTrue == query.agreed > DustCap => query.agreed = TrueAmount

(* A read that is under way has not succeeded.                             *)
OkIsDone == query.res.ok => query.res.done

ReadersInv ==
  /\ ReadersType /\ AgreedIsTrue /\ OkIsDone /\ AboveDustIsCorroborated
  /\ \A s \in Sources : HonestAnswer(s) /\ HeightStands(s) /\ NoForgedBytes(s)

Below == {pair \in Nat \X Nat : pair[1] < pair[2]}

LEMMA BelowIsWellFounded == IsWellFoundedOn(Below, Nat)
<1>1. Below = OpToRel(<, Nat)
  BY Zenon DEF OpToRel, Below
<1> QED
  BY <1>1, NatLessThanWellFounded

(* min() of the depths, as the reader of many sources takes it.            *)
LEMMA MinIsLeast ==
  ASSUME NEW S, S \subseteq Nat, S # {}
  PROVE  Min(S) \in S /\ \A y \in S : Min(S) <= y
<1>1. PICK x \in S : \A y \in S : ~(<<y, x>> \in Below)
  BY BelowIsWellFounded, WFMin
<1>2. ASSUME NEW y \in S PROVE x <= y
  <2>1. x \in Nat /\ y \in Nat /\ ~(y < x)
    BY <1>1 DEF Below
  <2> QED
    BY <2>1
<1>3. \E z \in S : \A y \in S : z =< y
  BY <1>2
<1> QED
  BY <1>3 DEF Min

(* More sources than can be lying have an honest one among them.           *)
LEMMA QuorumHasHonest ==
  ASSUME NEW G, G \subseteq Sources, Cardinality(G) >= Quorum
  PROVE  \E s \in G : s # Liar
<1>1. IsFiniteSet(Sources)
  BY ReadersAssumption, FS_Union DEF Sources
<1>2. IsFiniteSet(G) /\ Cardinality(G) \in Nat /\ Quorum \in Nat \ {0}
  BY <1>1, FS_Subset, FS_CardinalityType, ReadersAssumption
<1>3. G # {}
  BY <1>2, FS_EmptySet
<1>4. CASE Liar \in Sources
  <2>1. Quorum > 1
    BY <1>4, ReadersAssumption DEF Sources
  <2>2. Cardinality(G) # 1
    BY <1>2, <2>1
  <2>3. G # {Liar}
    BY <2>2, FS_Singleton
  <2> QED
    BY <1>3, <2>3
<1>5. CASE Liar \notin Sources
  BY <1>3, <1>5
<1> QED
  BY <1>4, <1>5

LEMMA AnswerIsTyped ==
  ASSUME NEW a \in Answers, a.ok
  PROVE  a.confs \in Nat /\ a.amount \in Nat
<1>1. CASE a = Fail
  <2>1. ~Fail.ok
    BY DEF Fail
  <2> QED
    BY <1>1, <2>1
<1>2. CASE a \in [ok : {TRUE}, confs : Nat, amount : Nat]
  BY <1>2
<1> QED
  BY <1>1, <1>2 DEF Answers

LEMMA ResponseIsTyped ==
  ASSUME ReadersType, NEW s \in Sources, src[s].ret.ok
  PROVE  src[s].ret.confs \in Nat /\ src[s].ret.amount \in Nat
<1>1. src[s].ret \in Answers
  BY DEF ReadersType, SourceStates
<1> QED
  BY <1>1, AnswerIsTyped

LEMMA DepthIsNat == ReadersType => Depth \in Nat
BY DEF ReadersType, Depth

LEMMA ReadersInvInit == ReadersInit => ReadersInv
<1> SUFFICES ASSUME ReadersInit PROVE ReadersInv
  OBVIOUS
<1>1. ReadersType
  <2>1. NoResult \in ReadResults
    BY DEF NoResult, ReadResults
  <2>2. Waiting \in SourceStates
    BY DEF Waiting, SourceStates, Answers
  <2>3. Quiet \in [op : {"none", "amount", "confs", "raw"}, reorged : BOOLEAN, agreed : Nat,
                   res : ReadResults]
    BY <2>1 DEF Quiet
  <2> QED
    BY <2>2, <2>3 DEF ReadersInit, ReadersType
<1>2. AgreedIsTrue /\ OkIsDone /\ AboveDustIsCorroborated
  BY ReadersAssumption
  DEF ReadersInit, Quiet, NoResult, AgreedIsTrue, OkIsDone, AboveDustIsCorroborated
<1>3. ASSUME NEW s \in Sources PROVE HonestAnswer(s) /\ HeightStands(s) /\ NoForgedBytes(s)
  BY DEF ReadersInit, Waiting, Fail, HonestAnswer, HeightStands, NoForgedBytes
<1> QED
  BY <1>1, <1>2, <1>3 DEF ReadersInv

(* One source answers or goes on: the others and the read are as they were.*)
LEMMA SourceSteps ==
  ASSUME ReadersInv, NEW s \in Sources, NEW r, UNCHANGED <<chain, query>>,
         src' = [src EXCEPT ![s] = r], r \in SourceStates,
         s # Liar /\ r.ret.ok =>
           /\ r.ret.amount = TrueAmount
           /\ ~query.reorged => r.ret.confs <= Depth
           /\ query.op = "raw" => r.ret.confs >= MinConfs,
         r.pc = "tip" /\ ~query.reorged => r.h = chain.at /\ chain.at # 0,
         s = Liar /\ query.op = "raw" => ~r.ret.ok
  PROVE  ReadersInv'
<1> USE DEF ReadersInv
<1>1. ReadersType'
  BY DEF ReadersType
<1>2. AgreedIsTrue' /\ OkIsDone' /\ AboveDustIsCorroborated'
  BY DEF AgreedIsTrue, OkIsDone, AboveDustIsCorroborated, Depth
<1>3. ASSUME NEW u \in Sources
      PROVE  HonestAnswer(u)' /\ HeightStands(u)' /\ NoForgedBytes(u)'
  <2>1. src'[u] = IF u = s THEN r ELSE src[u]
    BY DEF ReadersType
  <2> QED
    BY <2>1 DEF HonestAnswer, HeightStands, NoForgedBytes, Depth
<1> QED
  BY <1>1, <1>2, <1>3

(* What a source returns.                                                  *)
LEMMA SourceReturns ==
  ASSUME ReadersInv, NEW s \in Sources, NEW a \in Answers, UNCHANGED <<chain, query>>,
         Returns(s, a),
         s # Liar /\ a.ok =>
           /\ a.amount = TrueAmount
           /\ ~query.reorged => a.confs <= Depth
           /\ query.op = "raw" => a.confs >= MinConfs,
         s = Liar /\ query.op = "raw" => ~a.ok
  PROVE  ReadersInv'
<1> DEFINE r == [src[s] EXCEPT !.pc = "done", !.ret = a]
<1>1. src[s] \in SourceStates /\ src' = [src EXCEPT ![s] = r]
  BY DEF ReadersInv, ReadersType, Returns
<1>2. r \in SourceStates /\ r.pc = "done" /\ r.ret = a
  BY <1>1 DEF SourceStates
<1> HIDE DEF r
<1> QED
  BY <1>1, <1>2, SourceSteps

(* All sources are asked anew.                                             *)
LEMMA AllAskedAgain ==
  ASSUME ReadersInv, chain' = chain, src' = [s \in Sources |-> Waiting]
  PROVE  /\ src' \in [Sources -> SourceStates]
         /\ \A s \in Sources : HonestAnswer(s)' /\ HeightStands(s)' /\ NoForgedBytes(s)'
<1>1. Waiting \in SourceStates
  BY DEF Waiting, SourceStates, Answers
<1>2. ASSUME NEW s \in Sources PROVE HonestAnswer(s)' /\ HeightStands(s)' /\ NoForgedBytes(s)'
  BY DEF Waiting, Fail, HonestAnswer, HeightStands, NoForgedBytes
<1> QED
  BY <1>1, <1>2

(* The reader of many sources: an honest source is among those that        *)
(* corroborate, so the least depth is at most the transaction's.           *)
LEMMA CombinedDepth ==
  ASSUME ReadersInv, NEW v \in Nat, v > DustCap, ~query.reorged,
         MultiConfirmations(v) <= MaxTip
  PROVE  MultiConfirmations(v) <= Depth
<1>1. MaxTip \in Nat
  BY ReadersAssumption
<1>2. ~(Cardinality(Responders) < Quorum) /\ Responders \subseteq Sources
  BY <1>1 DEF MultiConfirmations, Responders
<1>3. Cardinality(Responders) \in Nat /\ Quorum \in Nat
  <2>1. IsFiniteSet(Sources)
    BY ReadersAssumption, FS_Union DEF Sources
  <2>2. IsFiniteSet(Responders)
    BY <1>2, <2>1, FS_Subset
  <2> QED
    BY <2>2, FS_CardinalityType, ReadersAssumption
<1>4. PICK s \in Responders : s # Liar
  BY <1>2, <1>3, QuorumHasHonest
<1>5. src[s].ret.confs <= Depth /\ src[s].ret.confs \in Confs
  BY <1>4 DEF ReadersInv, HonestAnswer, Responders, Confs
<1>6. Confs \subseteq Nat
  <2>1. ASSUME NEW u \in Responders PROVE src[u].ret.confs \in Nat
    BY ResponseIsTyped DEF Responders, ReadersInv
  <2> QED
    BY <2>1 DEF Confs
<1>7. Min(Confs) \in Nat /\ Min(Confs) <= src[s].ret.confs
  BY <1>5, <1>6, MinIsLeast
<1>8. MultiConfirmations(v) = Min(Confs)
  BY <1>2, <1>4 DEF MultiConfirmations
<1>9. src[s].ret.confs \in Nat /\ Depth \in Nat
  BY <1>5, <1>6, DepthIsNat DEF ReadersInv
<1> QED
  BY <1>5, <1>7, <1>8, <1>9

LEMMA CombinedIsNat ==
  ASSUME ReadersInv, NEW v \in Nat
  PROVE  MultiConfirmations(v) \in Nat
<1>1. ASSUME NEW u \in Responders PROVE src[u].ret.confs \in Nat
  BY ResponseIsTyped DEF Responders, ReadersInv
<1>2. Confs \subseteq Nat /\ (Responders # {} => Confs # {})
  BY <1>1 DEF Confs
<1>3. Responders # {} => Min(Confs) \in Nat
  BY <1>2, MinIsLeast
<1> QED
  BY <1>3, ReadersAssumption DEF MultiConfirmations

(* An amount above dust needs a quorum, and honest sources tell the truth. *)
LEMMA AgreedByHonest ==
  ASSUME ReadersInv, NEW a \in AgreedAmounts
  PROVE  a \in Nat /\ (a > DustCap => a = TrueAmount)
<1>1. PICK u \in Responders : a = src[u].ret.amount
  BY DEF AgreedAmounts
<1>2. a \in Nat
  BY <1>1, ResponseIsTyped DEF Responders, ReadersInv
<1>3. ASSUME a > DustCap PROVE a = TrueAmount
  <2>1. Cardinality(Saying(a)) >= Quorum /\ Saying(a) \subseteq Sources
    BY <1>3 DEF AgreedAmounts, Saying, Responders
  <2>2. PICK s \in Saying(a) : s # Liar
    BY <2>1, QuorumHasHonest
  <2> QED
    BY <2>2 DEF Saying, Responders, ReadersInv, HonestAnswer
<1> QED
  BY <1>2, <1>3

LEMMA ReadersInvNext == ReadersInv /\ [ReadersNext]_readersVars => ReadersInv'
<1> SUFFICES ASSUME ReadersInv, [ReadersNext]_readersVars PROVE ReadersInv'
  OBVIOUS
<1> DEFINE AllSources ==
      \A s \in Sources : HonestAnswer(s) /\ HeightStands(s) /\ NoForgedBytes(s)
<1>0. /\ ReadersType /\ AgreedIsTrue /\ OkIsDone /\ AboveDustIsCorroborated /\ AllSources
      /\ Depth \in Nat
  BY DepthIsNat DEF ReadersInv
<1>1. CASE Block
  <2>1. \E b \in {chain.at, chain.tip + 1} :
          /\ b # chain.at => chain.at = 0
          /\ chain' = [chain EXCEPT !.tip = chain.tip + 1, !.at = b]
    <3>1. PICK in \in BOOLEAN :
            /\ in => chain.at = 0
            /\ chain' = [chain EXCEPT !.tip = chain.tip + 1,
                                     !.at = IF in THEN chain.tip + 1 ELSE chain.at]
      BY <1>1 DEF Block
    <3>2. CASE in
      BY <3>1, <3>2, Zenon
    <3>3. CASE ~in
      BY <3>1, <3>3, Zenon
    <3> QED
      BY <3>2, <3>3
  <2>2. query' = query /\ src' = src
    BY <1>1 DEF Block
  <2>3. /\ chain' \in [tip : Nat, at : Nat, reorgs : Nat] /\ chain'.at <= chain'.tip
        /\ chain.at # 0 => chain'.at = chain.at
        /\ chain'.tip = chain.tip + 1
    <3>1. PICK b \in {chain.at, chain.tip + 1} :
            /\ b # chain.at => chain.at = 0
            /\ chain' = [chain EXCEPT !.tip = chain.tip + 1, !.at = b]
      BY <2>1
    <3>0. /\ chain \in [tip : Nat, at : Nat, reorgs : Nat] /\ chain.at <= chain.tip
          /\ chain.tip \in Nat /\ chain.at \in Nat
      BY <1>0 DEF ReadersType
    <3>2. b \in Nat /\ b <= chain.tip + 1
      <4>1. b = chain.at \/ b = chain.tip + 1
        OBVIOUS
      <4> QED
        BY <3>0, <4>1
    <3>3. chain' \in [tip : Nat, at : Nat, reorgs : Nat]
      <4>1. chain' = [tip |-> chain.tip + 1, at |-> b, reorgs |-> chain.reorgs]
        BY <3>0, <3>1
      <4>2. chain.reorgs \in Nat
        BY <3>0
      <4> QED
        BY <3>0, <3>2, <4>1, <4>2
    <3>4. chain'.tip = chain.tip + 1 /\ chain'.at = b
      BY <3>0, <3>1
    <3> QED
      BY <3>0, <3>1, <3>2, <3>3, <3>4
  <2>4. Depth' \in Nat /\ Depth <= Depth'
    BY <1>0, <2>3 DEF ReadersType, Depth
  <2>5. ReadersType' /\ AgreedIsTrue' /\ OkIsDone'
    BY <1>0, <2>2, <2>3 DEF ReadersType, AgreedIsTrue, OkIsDone
  <2>6. AboveDustIsCorroborated'
    BY <1>0, <2>2, <2>4, ReadersAssumption DEF AboveDustIsCorroborated
  <2>7. ASSUME NEW s \in Sources PROVE HonestAnswer(s)' /\ HeightStands(s)' /\ NoForgedBytes(s)'
    <3>1. src[s].ret.ok => src[s].ret.confs \in Nat
      BY <1>0, ResponseIsTyped
    <3>2. HonestAnswer(s)'
      BY <1>0, <2>2, <2>4, <3>1 DEF HonestAnswer
    <3>3. HeightStands(s)' /\ NoForgedBytes(s)'
      BY <1>0, <2>2, <2>3 DEF HeightStands, NoForgedBytes
    <3> QED
      BY <3>2, <3>3
  <2> QED
    BY <2>5, <2>6, <2>7 DEF ReadersInv
<1>2. CASE Reorg
  <2>1. /\ src' = src /\ query' = [query EXCEPT !.reorged = TRUE]
        /\ chain' \in [tip : Nat, at : Nat, reorgs : Nat] /\ chain'.at <= chain'.tip
    BY <1>0, <1>2 DEF Reorg, ReadersType
  <2>2. /\ query'.reorged /\ query'.op = query.op /\ query'.agreed = query.agreed
        /\ query'.res = query.res
    BY <1>0, <2>1 DEF ReadersType
  <2>3. ReadersType'
    BY <1>0, <2>1 DEF ReadersType
  <2>4. AgreedIsTrue' /\ OkIsDone' /\ AboveDustIsCorroborated'
    BY <1>0, <2>2 DEF AgreedIsTrue, OkIsDone, AboveDustIsCorroborated
  <2>5. AllSources'
    BY <1>0, <2>1, <2>2 DEF HonestAnswer, HeightStands, NoForgedBytes
  <2> QED
    BY <2>3, <2>4, <2>5 DEF ReadersInv
<1>3. CASE Lie
  <2>1. PICK c \in 0 .. MaxTip, a \in LiarAmounts :
          Returns(Liar, IF query.op = "raw" THEN Fail ELSE [ok |-> TRUE, confs |-> c, amount |-> a])
    BY <1>3 DEF Lie
  <2>2. Liar \in Sources /\ UNCHANGED <<chain, query>>
    BY <1>3 DEF Lie
  <2>3. c \in Nat /\ a \in Nat
    BY ReadersAssumption
  <2>4. CASE query.op = "raw"
    BY <1>0, <2>1, <2>2, <2>4, SourceReturns DEF Answers, Fail
  <2>5. CASE query.op # "raw"
    <3>1. [ok |-> TRUE, confs |-> c, amount |-> a] \in Answers
      BY <2>3 DEF Answers
    <3> QED
      BY <1>0, <2>1, <2>2, <2>5, <3>1, SourceReturns
  <2> QED
    BY <2>4, <2>5
<1>4. CASE StartRead
  <2>1. PICK op \in {"amount", "raw"} : query' = [Quiet EXCEPT !.op = op]
    BY <1>4 DEF StartRead
  <2>2. chain' = chain /\ src' = [s \in Sources |-> Waiting]
    BY <1>4 DEF StartRead
  <2>3. query' = [op |-> op, reorged |-> FALSE, agreed |-> 0, res |-> NoResult]
    BY <2>1 DEF Quiet
  <2>4. NoResult \in ReadResults /\ ~NoResult.done /\ ~NoResult.ok
    BY DEF NoResult, ReadResults
  <2>5. ReadersType'
    BY <1>0, <2>2, <2>3, <2>4, AllAskedAgain DEF ReadersType
  <2>6. AgreedIsTrue' /\ OkIsDone' /\ AboveDustIsCorroborated'
    BY <2>3, <2>4, ReadersAssumption DEF AgreedIsTrue, OkIsDone, AboveDustIsCorroborated
  <2> QED
    BY <2>2, <2>5, <2>6, AllAskedAgain DEF ReadersInv
<1>5. CASE ReadOutputAmount
  <2>1. chain' = chain
    BY <1>5 DEF ReadOutputAmount
  <2>2. CASE AgreedAmounts = {} /\ query' = [query EXCEPT !.res.done = TRUE] /\ UNCHANGED src
    <3>1. /\ query'.op = query.op /\ query'.reorged = query.reorged /\ query'.agreed = query.agreed
          /\ query'.res = [query.res EXCEPT !.done = TRUE]
      BY <1>0, <2>2 DEF ReadersType
    <3>2. query.res \in ReadResults /\ ~query.res.done
      BY <1>0, <1>5 DEF ReadersType, ReadOutputAmount, AllDone
    <3>3. query'.res \in ReadResults /\ query'.res.done /\ ~query'.res.ok
      BY <1>0, <3>1, <3>2 DEF ReadResults, OkIsDone
    <3>4. ReadersType'
      BY <1>0, <2>1, <2>2, <3>3 DEF ReadersType
    <3>5. AgreedIsTrue' /\ OkIsDone' /\ AboveDustIsCorroborated'
      BY <1>0, <3>1, <3>3 DEF AgreedIsTrue, OkIsDone, AboveDustIsCorroborated
    <3>6. AllSources'
      BY <1>0, <2>1, <2>2, <3>1 DEF HonestAnswer, HeightStands, NoForgedBytes, Depth
    <3> QED
      BY <3>4, <3>5, <3>6 DEF ReadersInv
  <2>3. ASSUME NEW a \in AgreedAmounts, query' = [query EXCEPT !.op = "confs", !.agreed = a],
               src' = [s \in Sources |-> Waiting]
        PROVE  ReadersInv'
    <3>1. a \in Nat /\ (a > DustCap => a = TrueAmount)
      BY AgreedByHonest
    <3>2. /\ query'.reorged = query.reorged /\ query'.agreed = a
          /\ query'.res = query.res
      BY <1>0, <2>3 DEF ReadersType
    <3>3. ReadersType'
      BY <1>0, <2>1, <2>3, <3>1, AllAskedAgain DEF ReadersType
    <3>4. AgreedIsTrue' /\ OkIsDone' /\ AboveDustIsCorroborated'
      BY <1>0, <2>1, <3>1, <3>2 DEF AgreedIsTrue, OkIsDone, AboveDustIsCorroborated, Depth
    <3> QED
      BY <2>1, <2>3, <3>3, <3>4, AllAskedAgain DEF ReadersInv
  <2> QED
    BY <1>5, <2>2, <2>3 DEF ReadOutputAmount
<1>6. CASE ReadConfirmations
  <2> DEFINE c == MultiConfirmations(query.agreed)
             res == [done |-> TRUE, ok |-> c >= MinConfs /\ c <= MaxTip, confs |-> c,
                     amount |-> query.agreed]
  <2>1. query' = [query EXCEPT !.res = res] /\ chain' = chain /\ src' = src
    BY <1>6 DEF ReadConfirmations
  <2>2. query.agreed \in Nat
    BY <1>0 DEF ReadersType
  <2>3. c \in Nat
    BY <2>2, CombinedIsNat
  <2>4. res \in ReadResults
    BY <2>2, <2>3 DEF ReadResults
  <2>5. /\ query'.op = query.op /\ query'.reorged = query.reorged
        /\ query'.agreed = query.agreed /\ query'.res = res
    BY <1>0, <2>1 DEF ReadersType
  <2>6. ReadersType'
    BY <1>0, <2>1, <2>4 DEF ReadersType
  <2>7. AboveDustIsCorroborated'
    <3> SUFFICES ASSUME query'.res.ok, query'.res.amount > DustCap
                 PROVE  query'.res.amount = TrueAmount /\ (~query'.reorged => Depth' >= MinConfs)
      BY DEF AboveDustIsCorroborated
    <3>0. res.ok <=> (c >= MinConfs /\ c <= MaxTip)
      BY Zenon
    <3>1. query.agreed > DustCap /\ c >= MinConfs /\ c <= MaxTip
      BY <2>5, <3>0
    <3>2. query'.res.amount = TrueAmount
      BY <1>0, <2>5, <3>1 DEF AgreedIsTrue
    <3>3. ASSUME ~query.reorged PROVE Depth >= MinConfs
      <4>1. c <= Depth
        BY <2>2, <3>1, <3>3, CombinedDepth
      <4> QED
        BY <1>0, <2>3, <3>1, <4>1, ReadersAssumption
    <3> QED
      BY <2>1, <2>5, <3>2, <3>3 DEF Depth
  <2>8. AgreedIsTrue' /\ OkIsDone'
    BY <1>0, <2>5 DEF AgreedIsTrue, OkIsDone
  <2>9. AllSources'
    BY <1>0, <2>1, <2>5 DEF HonestAnswer, HeightStands, NoForgedBytes, Depth
  <2> QED
    BY <2>6, <2>7, <2>8, <2>9 DEF ReadersInv
<1>7. CASE RequireQuorum
  <2> DEFINE res == [done |-> TRUE, ok |-> Cardinality(Responders) >= Quorum, confs |-> MinConfs,
                     amount |-> TrueAmount]
  <2>1. query' = [query EXCEPT !.res = res] /\ chain' = chain /\ src' = src /\ query.op = "raw"
    BY <1>7 DEF RequireQuorum
  <2>2. res \in ReadResults
    BY ReadersAssumption DEF ReadResults
  <2>3. /\ query'.op = query.op /\ query'.reorged = query.reorged
        /\ query'.agreed = query.agreed /\ query'.res = res
    BY <1>0, <2>1 DEF ReadersType
  <2>4. ReadersType'
    BY <1>0, <2>1, <2>2 DEF ReadersType
  <2>5. AboveDustIsCorroborated'
    <3> SUFFICES ASSUME query'.res.ok, ~query'.reorged
                 PROVE  Depth' >= MinConfs
      BY <2>3 DEF AboveDustIsCorroborated
    <3>0. res.ok <=> Cardinality(Responders) >= Quorum
      BY Zenon
    <3>1. Cardinality(Responders) >= Quorum /\ Responders \subseteq Sources
      BY <2>3, <3>0 DEF Responders
    <3>2. PICK s \in Responders : s # Liar
      BY <3>1, QuorumHasHonest
    <3>3. /\ src[s].ret.confs >= MinConfs /\ src[s].ret.confs <= Depth
      BY <1>0, <2>1, <2>3, <3>2 DEF Responders, HonestAnswer
    <3>4. src[s].ret.confs \in Nat
      BY <1>0, <3>2, ResponseIsTyped DEF Responders
    <3>5. Depth' = Depth
      BY <2>1 DEF Depth
    <3> QED
      BY <1>0, <3>3, <3>4, <3>5, ReadersAssumption
  <2>6. AgreedIsTrue' /\ OkIsDone'
    BY <1>0, <2>3 DEF AgreedIsTrue, OkIsDone
  <2>7. AllSources'
    BY <1>0, <2>1, <2>3 DEF HonestAnswer, HeightStands, NoForgedBytes, Depth
  <2> QED
    BY <2>4, <2>5, <2>6, <2>7 DEF ReadersInv
<1>8. CASE EndRead
  <2>1. query' = Quiet /\ chain' = chain /\ src' = [s \in Sources |-> Waiting]
    BY <1>8 DEF EndRead
  <2>2. NoResult \in ReadResults /\ ~NoResult.done /\ ~NoResult.ok
    BY DEF NoResult, ReadResults
  <2>3. ReadersType'
    BY <1>0, <2>1, <2>2, AllAskedAgain DEF ReadersType, Quiet
  <2>4. AgreedIsTrue' /\ OkIsDone' /\ AboveDustIsCorroborated'
    BY <2>1, <2>2, ReadersAssumption DEF AgreedIsTrue, OkIsDone, AboveDustIsCorroborated, Quiet
  <2> QED
    BY <2>1, <2>3, <2>4, AllAskedAgain DEF ReadersInv
<1>9. ASSUME NEW s \in Sources, TxStatus(s) PROVE ReadersInv'
  <2>1. UNCHANGED <<chain, query>> /\ s # Liar
    BY <1>9 DEF TxStatus, Reading
  <2>2. CASE chain.at = 0 /\ query.op # "raw"
    <3>1. [ok |-> TRUE, confs |-> 0, amount |-> TrueAmount] \in Answers
      BY ReadersAssumption DEF Answers
    <3>2. Returns(s, [ok |-> TRUE, confs |-> 0, amount |-> TrueAmount])
      BY <1>9, <2>2 DEF TxStatus
    <3> QED
      BY <1>0, <2>1, <2>2, <3>1, <3>2, SourceReturns
  <2>3. CASE chain.at = 0 /\ query.op = "raw"
    BY <1>9, <2>1, <2>3, SourceReturns DEF TxStatus, Answers, Fail
  <2>4. CASE chain.at # 0
    <3> DEFINE r == [src[s] EXCEPT !.pc = "tip", !.h = chain.at]
    <3>1. src' = [src EXCEPT ![s] = r]
      BY <1>9, <2>4 DEF TxStatus
    <3>2. r \in SourceStates /\ r.pc = "tip" /\ r.h = chain.at /\ r.ret = src[s].ret
      BY <1>0 DEF ReadersType, SourceStates
    <3> HIDE DEF r
    <3>3. HonestAnswer(s) /\ NoForgedBytes(s)
      BY <1>0
    <3> QED
      BY <2>1, <2>4, <3>1, <3>2, <3>3, SourceSteps DEF HonestAnswer, NoForgedBytes
  <2> QED
    BY <2>2, <2>3, <2>4
<1>10. ASSUME NEW s \in Sources, TipHeight(s) PROVE ReadersInv'
  <2> DEFINE c == chain.tip + 1 - src[s].h
  <2>1. UNCHANGED <<chain, query>> /\ s # Liar /\ src[s].pc = "tip"
    BY <1>10 DEF TipHeight, Reading
  <2>2. src[s].h \in Nat /\ chain.tip \in Nat /\ chain.at \in Nat
    BY <1>0 DEF ReadersType, SourceStates
  <2>3. CASE src[s].h > chain.tip \/ (query.op = "raw" /\ c < MinConfs)
    BY <1>10, <2>1, <2>3, SourceReturns DEF TipHeight, Answers, Fail
  <2>4. CASE ~(src[s].h > chain.tip \/ (query.op = "raw" /\ c < MinConfs))
    <3>1. c \in Nat /\ (query.op = "raw" => c >= MinConfs)
      BY <2>2, <2>4, ReadersAssumption
    <3>2. ~query.reorged => c = Depth
      BY <1>0, <2>1, <2>2 DEF HeightStands, Depth
    <3>3. Returns(s, [ok |-> TRUE, confs |-> c, amount |-> TrueAmount])
      BY <1>10, <2>4 DEF TipHeight
    <3> HIDE DEF c
    <3>4. [ok |-> TRUE, confs |-> c, amount |-> TrueAmount] \in Answers
      BY <3>1, ReadersAssumption DEF Answers
    <3> QED
      BY <1>0, <2>1, <3>1, <3>2, <3>3, <3>4, SourceReturns
  <2> QED
    BY <2>3, <2>4
<1>11. ASSUME NEW s \in Sources, CoreRawTx(s) PROVE ReadersInv'
  <2>1. UNCHANGED <<chain, query>> /\ s # Liar
    BY <1>11 DEF CoreRawTx, Reading
  <2>2. CASE query.op = "raw" /\ Depth < MinConfs
    BY <1>11, <2>1, <2>2, SourceReturns DEF CoreRawTx, Answers, Fail
  <2>3. CASE ~(query.op = "raw" /\ Depth < MinConfs)
    <3>1. [ok |-> TRUE, confs |-> Depth, amount |-> TrueAmount] \in Answers
      BY <1>0, ReadersAssumption DEF Answers
    <3>2. Returns(s, [ok |-> TRUE, confs |-> Depth, amount |-> TrueAmount])
      BY <1>11, <2>3 DEF CoreRawTx
    <3>3. query.op = "raw" => Depth >= MinConfs
      BY <1>0, <2>3, ReadersAssumption
    <3> QED
      BY <1>0, <2>1, <3>1, <3>2, <3>3, SourceReturns
  <2> QED
    BY <2>2, <2>3
<1>12. ASSUME NEW s \in Sources, SourceFails(s) PROVE ReadersInv'
  BY <1>12, SourceReturns DEF SourceFails, Answers, Fail
<1>13. CASE UNCHANGED readersVars
  <2>1. chain' = chain /\ query' = query /\ src' = src
    BY <1>13 DEF readersVars
  <2>2. ReadersType' /\ AgreedIsTrue' /\ OkIsDone' /\ AboveDustIsCorroborated'
    BY <1>0, <2>1 DEF ReadersType, AgreedIsTrue, OkIsDone, AboveDustIsCorroborated, Depth
  <2>3. AllSources'
    BY <1>0, <2>1 DEF HonestAnswer, HeightStands, NoForgedBytes, Depth
  <2> QED
    BY <2>2, <2>3 DEF ReadersInv
<1> QED
  BY <1>1, <1>2, <1>3, <1>4, <1>5, <1>6, <1>7, <1>8, <1>9, <1>10, <1>11, <1>12, <1>13
  DEF ReadersNext

(* The inductive invariant of the Bitcoin readers.                         *)
THEOREM ReadersInvariant == ReadersSpec => []ReadersInv
BY ReadersInvInit, ReadersInvNext, PTL DEF ReadersSpec

(* MultiSourceBtcFundingReader and MultiSourceBtcDataSource, for any       *)
(* sources of which one may lie, any quorum that outnumbers it and any     *)
(* number of blocks and reorgs: an above-dust amount is the output's own,  *)
(* at a depth the transaction has when no block was undone under the read. *)
THEOREM AmountsAreCorroborated == ReadersSpec => []AboveDustIsCorroborated
<1>1. ReadersInv => AboveDustIsCorroborated
  BY DEF ReadersInv
<1> QED
  BY <1>1, ReadersInvariant, PTL

------------------------------------------------------- (* the miner *)

Stride == Cardinality(Workers)

WorkerStates == [st : {"new", "run", "count", "dead"}, n : Nat, tried : Nat, late : Nat]

MinerType ==
  /\ solutions \in SolutionSets /\ cap \in Nat /\ attempts \in Nat /\ deaths \in Nat
  /\ w \in [Workers -> WorkerStates]
  /\ found \in [set : BOOLEAN, value : Nat]
  /\ parent \in {"off", "start", "cleanup", "killed", "done"}
  /\ result \in {"none", "success", "exhausted", "interrupted"}

(* Who runs: the reference miner in the caller's process, or the miner     *)
(* that the caller waits for.                                              *)
OneMiner ==
  /\ caller = "idle" => parent = "off" /\ attempts = 0
  /\ caller = "mining" => parent = "off"
  /\ parent = "off" => result = "none" /\ caller # "waiting" /\ \A i \in Workers : w[i].st = "new"
  /\ parent \in {"start", "cleanup"} => caller = "waiting" /\ result = "none"
  /\ parent # "off" /\ caller = "exhausted" => result = "exhausted"

(* The flag and the answers stand for a solution.                          *)
FoundIsTrue ==
  /\ found.set => found.value \in solutions
  /\ result = "success" \/ caller = "solved" => found.set

(* The reference miner has nothing behind it that solves the target.       *)
ReferenceSwept ==
  /\ caller = "mining" => attempts <= cap /\ \A s \in solutions : s >= attempts
  /\ parent = "off" /\ caller = "exhausted" => \A s \in solutions : s >= cap

(* A worker is on its residue, and while the flag is not set it has no     *)
(* solution of it behind it.                                               *)
OnResidue(i) ==
  /\ w[i].st = "new" => w[i].n = 0
  /\ w[i].st # "new" => \E j \in Nat : w[i].n = i + j * Stride
  /\ ~found.set => \A k \in Nat : i + k * Stride \in solutions => i + k * Stride >= w[i].n

(* Under a parent that waits, a worker that ended unkilled has found, has  *)
(* seen the flag, or is through.                                           *)
EndedThrough(i) ==
  parent = "start" /\ deaths = 0 /\ ~found.set /\ w[i].st \in {"count", "dead"} =>
    w[i].n >= NonceMax

(* An orphan has tried less than a check interval since it became one.     *)
LateBelowLook(i) ==
  /\ w[i].late <= CheckInterval
  /\ w[i].st = "run" => w[i].late <= w[i].tried % CheckInterval
  /\ w[i].st = "new" => w[i].late = 0 /\ w[i].tried = 0

ExhaustedIsTrue == result = "exhausted" /\ deaths = 0 => solutions = {}

MinerInv ==
  /\ MinerType /\ OneMiner /\ FoundIsTrue /\ ReferenceSwept /\ ExhaustedIsTrue
  /\ \A i \in Workers : OnResidue(i) /\ EndedThrough(i) /\ LateBelowLook(i)

---------------------------------------------------- (* residues of a stride *)

LEMMA StrideIsNat == Stride \in Nat \ {0} /\ Workers = 0 .. Stride - 1
BY MinerAssumption DEF Stride

LEMMA MulMonotone ==
  ASSUME NEW a \in Nat, NEW b \in Nat, NEW m \in Nat, a <= b
  PROVE  a * m <= b * m
<1>1. PICK d \in Nat : b = a + d
  <2>1. b - a \in Nat /\ b = a + (b - a)
    OBVIOUS
  <2> QED
    BY <2>1
<1>2. b * m = a * m + d * m
  BY <1>1
<1>3. a * m \in Nat /\ d * m \in Nat
  OBVIOUS
<1> QED
  BY <1>2, <1>3

(* The next number of a residue after one that is excluded.                *)
LEMMA NextOfResidue ==
  ASSUME NEW i \in Nat, NEW j \in Nat, NEW k \in Nat, NEW m \in Nat \ {0},
         i + k * m >= i + j * m, k # j
  PROVE  i + k * m >= i + j * m + m
<1>1. k * m \in Nat /\ j * m \in Nat /\ (j + 1) * m = j * m + m
  OBVIOUS
<1>2. CASE k > j
  <2>1. (j + 1) * m <= k * m
    <3>1. j + 1 \in Nat /\ j + 1 <= k
      BY <1>2
    <3> QED
      BY <3>1, MulMonotone
  <2> QED
    BY <1>1, <2>1
<1>3. CASE k < j
  <2>1. (k + 1) * m <= j * m /\ (k + 1) * m = k * m + m
    <3>1. k + 1 \in Nat /\ k + 1 <= j
      BY <1>3
    <3>2. (k + 1) * m = k * m + m
      OBVIOUS
    <3> QED
      BY <3>1, <3>2, MulMonotone
  <2> QED
    BY <1>1, <2>1
<1> QED
  BY <1>2, <1>3

(* Every nonce is one some worker tries.                                   *)
LEMMA EveryNonceHasAWorker ==
  ASSUME NEW s \in Nat
  PROVE  \E i \in Workers, k \in Nat : s = i + k * Stride
<1>1. s % Stride \in 0 .. Stride - 1 /\ s \div Stride \in Nat
  BY StrideIsNat
<1>2. s = (s % Stride) + (s \div Stride) * Stride
  BY StrideIsNat
<1> QED
  BY <1>1, <1>2, StrideIsNat

(* One more attempt, counted up to the next look.                          *)
LEMMA NextLook ==
  ASSUME NEW t \in Nat, NEW c \in Nat \ {0}
  PROVE  /\ t % c \in 0 .. c - 1 /\ (t + 1) % c \in Nat
         /\ (t + 1) % c = 0 \/ (t + 1) % c = (t % c) + 1
OBVIOUS

------------------------------------------------------- (* the invariant *)

LEMMA MinerInvInit == MinerInit => MinerInv
<1> SUFFICES ASSUME MinerInit PROVE MinerInv
  OBVIOUS
<1>1. MinerType
  BY DEF MinerInit, MinerType, WorkerStates, NotStarted, NotFound
<1>2. OneMiner /\ FoundIsTrue /\ ReferenceSwept /\ ExhaustedIsTrue
  BY DEF MinerInit, OneMiner, FoundIsTrue, ReferenceSwept, ExhaustedIsTrue, NotStarted, NotFound
<1>3. ASSUME NEW i \in Workers PROVE OnResidue(i) /\ EndedThrough(i) /\ LateBelowLook(i)
  <2>1. w[i].st = "new" /\ w[i].n = 0 /\ w[i].tried = 0 /\ w[i].late = 0 /\ parent = "off"
    BY DEF MinerInit, NotStarted
  <2>2. \A k \in Nat : i + k * Stride >= 0
    <3>1. i \in Nat
      BY StrideIsNat
    <3>2. ASSUME NEW k \in Nat PROVE k * Stride \in Nat
      BY StrideIsNat
    <3> QED
      BY <3>1, <3>2
  <2>3. OnResidue(i)
    BY <2>1, <2>2 DEF OnResidue
  <2> QED
    BY <2>1, <2>3, MinerAssumption DEF EndedThrough, LateBelowLook
<1> QED
  BY <1>1, <1>2, <1>3 DEF MinerInv

(* What is true of a worker stays true when the worker, the solutions and  *)
(* what the parent knows do not change against it.                         *)
LEMMA WorkerKept ==
  ASSUME NEW i \in Workers, OnResidue(i), EndedThrough(i), LateBelowLook(i),
         w'[i] = w[i], solutions' = solutions, found' = found \/ found'.set,
         \/ parent' = "start" /\ deaths' = 0 => parent = "start" /\ deaths = 0
         \/ w[i].st = "new"
  PROVE  OnResidue(i)' /\ EndedThrough(i)' /\ LateBelowLook(i)'
<1>1. OnResidue(i)'
  BY DEF OnResidue, Stride
<1>2. EndedThrough(i)'
  BY DEF EndedThrough
<1>3. LateBelowLook(i)'
  BY DEF LateBelowLook
<1> QED
  BY <1>1, <1>2, <1>3

(* A worker that stops where it is, with a reason the parent may take for  *)
(* an end.                                                                 *)
LEMMA WorkerStops ==
  ASSUME NEW i \in Workers, OnResidue(i), LateBelowLook(i), w \in [Workers -> WorkerStates],
         NEW s \in {"count", "dead"}, w' = [w EXCEPT ![i].st = s], w[i].st # "new",
         solutions' = solutions, found' = found,
         parent' = "start" /\ deaths' = 0 /\ ~found.set => w[i].n >= NonceMax
  PROVE  OnResidue(i)' /\ EndedThrough(i)' /\ LateBelowLook(i)'
<1>1. w'[i].st = s /\ w'[i].n = w[i].n /\ w'[i].tried = w[i].tried /\ w'[i].late = w[i].late
  BY DEF WorkerStates
<1>2. OnResidue(i)'
  BY <1>1 DEF OnResidue, Stride
<1>3. EndedThrough(i)'
  BY <1>1 DEF EndedThrough
<1>4. LateBelowLook(i)'
  BY <1>1 DEF LateBelowLook
<1> QED
  BY <1>2, <1>3, <1>4

(* One nonce tried: the worker is still on its residue, and the one it has *)
(* now behind it is no solution unless the flag is set.                    *)
LEMMA TriedKeepsResidue ==
  ASSUME MinerInv, NEW i \in Workers, Try(i)
  PROVE  OnResidue(i)'
<1>1. /\ w[i].st = "run" /\ w'[i].st # "new" /\ w'[i].n = w[i].n + Stride
      /\ solutions' = solutions /\ (~found'.set => ~found.set /\ w[i].n \notin solutions)
  BY DEF MinerInv, MinerType, WorkerStates, Try, VerifySolution, Stride
<1>2. PICK j \in Nat : w[i].n = i + j * Stride
  BY <1>1 DEF MinerInv, OnResidue
<1>3. i \in Nat /\ Stride \in Nat \ {0}
  BY StrideIsNat
<1>4. j + 1 \in Nat /\ w'[i].n = i + (j + 1) * Stride
  <2>1. (j + 1) * Stride = j * Stride + Stride /\ j * Stride \in Nat
    BY <1>3
  <2> QED
    BY <1>1, <1>2, <1>3, <2>1
<1>5. ASSUME ~found'.set, NEW k \in Nat, i + k * Stride \in solutions
      PROVE  i + k * Stride >= w'[i].n
  <2>1. i + k * Stride >= i + j * Stride /\ k # j
    BY <1>1, <1>2, <1>5 DEF MinerInv, OnResidue
  <2>2. i + k * Stride >= i + j * Stride + Stride
    BY <2>1, <1>3, NextOfResidue
  <2> QED
    BY <2>2, <1>1, <1>2
<1>6. \E l \in Nat : w'[i].n = i + l * Stride
  BY <1>4
<1> QED
  BY <1>1, <1>5, <1>6 DEF OnResidue, Stride

(* An orphan stops at its next look at the latest.                         *)
LEMMA TriedKeepsLate ==
  ASSUME MinerInv, NEW i \in Workers, Try(i)
  PROVE  LateBelowLook(i)'
<1> DEFINE c == CheckInterval
           t == w[i].tried
<1>1. /\ c \in Nat \ {0} /\ t \in Nat /\ w[i].late \in Nat
      /\ w[i].late <= t % c
  BY MinerAssumption DEF MinerInv, MinerType, WorkerStates, LateBelowLook, Try
<1>2. /\ w'[i].tried = t + 1
      /\ w'[i].late = IF ParentGone THEN w[i].late + 1 ELSE 0
      /\ w'[i].st # "new"
      /\ w'[i].st = "run" /\ ParentGone => (t + 1) % c # 0
  BY DEF Try, MinerInv, MinerType
<1> HIDE DEF c, t
<1>3. /\ t % c \in 0 .. c - 1 /\ (t + 1) % c \in Nat
      /\ (t + 1) % c = 0 \/ (t + 1) % c = (t % c) + 1
  BY <1>1, NextLook
<1>4. w'[i].late <= c /\ (w'[i].st = "run" => w'[i].late <= (t + 1) % c)
  BY <1>1, <1>2, <1>3
<1> QED
  BY <1>2, <1>4 DEF LateBelowLook, c, t

(* While the parent waits, a worker ends for a reason.                     *)
LEMMA TriedKeepsEnds ==
  ASSUME MinerInv, NEW i \in Workers, Try(i)
  PROVE  EndedThrough(i)'
<1> SUFFICES ASSUME parent' = "start", ~found'.set, w'[i].st \in {"count", "dead"}
             PROVE  FALSE
  BY DEF EndedThrough
<1>1. parent = "start" /\ ~ParentGone
  BY DEF Try, ParentGone
<1> QED
  BY <1>1 DEF Try, MinerInv, MinerType

LEMMA MinerInvNext == MinerInv /\ [MinerNext]_minerVars => MinerInv'
<1> SUFFICES ASSUME MinerInv, [MinerNext]_minerVars PROVE MinerInv'
  OBVIOUS
<1> USE DEF MinerInv
<1> DEFINE AllWorkers == \A i \in Workers : OnResidue(i) /\ EndedThrough(i) /\ LateBelowLook(i)
           Whole == MinerType /\ OneMiner /\ FoundIsTrue /\ ReferenceSwept /\ ExhaustedIsTrue
<1>1. CASE StartMiner
  <2>1. Whole'
    BY <1>1 DEF StartMiner, MinerType, OneMiner, FoundIsTrue, ReferenceSwept, ExhaustedIsTrue
  <2>2. AllWorkers'
    BY <1>1, WorkerKept DEF StartMiner, OneMiner
  <2> QED
    BY <2>1, <2>2
<1>2. CASE StartReferenceMiner
  <2>1. MinerType' /\ OneMiner' /\ FoundIsTrue' /\ ExhaustedIsTrue'
    BY <1>2, MinerAssumption
    DEF StartReferenceMiner, MinerType, OneMiner, FoundIsTrue, ExhaustedIsTrue
  <2>2. ReferenceSwept'
    <3>1. attempts' = 0 /\ cap' \in Nat /\ solutions' = solutions /\ caller' = "mining"
      BY <1>2, MinerAssumption DEF StartReferenceMiner, OneMiner
    <3>2. \A s \in solutions : s >= 0
      BY MinerAssumption DEF MinerType
    <3> QED
      BY <3>1, <3>2 DEF ReferenceSwept
  <2>3. AllWorkers'
    BY <1>2, WorkerKept DEF StartReferenceMiner
  <2> QED
    BY <2>1, <2>2, <2>3
<1>3. CASE MineSolution
  <2>1. MinerType'
    <3>1. found' \in [set : BOOLEAN, value : Nat]
      <4>1. found' = found \/ found' = [set |-> TRUE, value |-> attempts]
        BY <1>3 DEF MineSolution
      <4>2. attempts \in Nat /\ TRUE \in BOOLEAN /\ found \in [set : BOOLEAN, value : Nat]
        BY DEF MinerType
      <4>3. [set |-> TRUE, value |-> attempts] \in [set : BOOLEAN, value : Nat]
        BY <4>2
      <4> QED
        BY <4>1, <4>2, <4>3
    <3>2. attempts' \in Nat
      BY <1>3 DEF MineSolution, MinerType
    <3> QED
      BY <1>3, <3>1, <3>2 DEF MineSolution, MinerType
  <2>2. OneMiner'
    BY <1>3 DEF MineSolution, OneMiner
  <2>3. FoundIsTrue'
    BY <1>3 DEF MineSolution, VerifySolution, OneMiner, FoundIsTrue
  <2>4. ExhaustedIsTrue'
    BY <1>3 DEF MineSolution, ExhaustedIsTrue
  <2>5. ReferenceSwept'
    <3>1. \A s \in solutions : s \in Int
      BY MinerAssumption DEF MinerType
    <3> QED
      BY <1>3, <3>1 DEF MineSolution, VerifySolution, MinerType, ReferenceSwept
  <2>6. AllWorkers'
    BY <1>3, WorkerKept DEF MineSolution
  <2> QED
    BY <2>1, <2>2, <2>3, <2>4, <2>5, <2>6
<1>4. CASE CallerTimeout
  <2>1. Whole'
    BY <1>4 DEF CallerTimeout, MinerType, OneMiner, FoundIsTrue, ReferenceSwept, ExhaustedIsTrue
  <2>2. AllWorkers'
    BY <1>4, WorkerKept DEF CallerTimeout
  <2> QED
    BY <2>1, <2>2
<1>5. CASE ParseAnswer
  <2>1. Whole'
    BY <1>5 DEF ParseAnswer, MinerType, OneMiner, FoundIsTrue, ReferenceSwept, ExhaustedIsTrue
  <2>2. AllWorkers'
    BY <1>5, WorkerKept DEF ParseAnswer
  <2> QED
    BY <2>1, <2>2
<1>6. CASE Join
  <2>1. MinerType' /\ OneMiner' /\ FoundIsTrue' /\ ReferenceSwept'
    BY <1>6 DEF Join, MinerType, OneMiner, FoundIsTrue, ReferenceSwept
  <2>2. ExhaustedIsTrue'
    <3> SUFFICES ASSUME result' = "exhausted", deaths' = 0 PROVE solutions' = {}
      BY DEF ExhaustedIsTrue
    <3>1. ~found.set /\ deaths = 0 /\ parent = "start" /\ solutions' = solutions
      BY <1>6 DEF Join
    <3>2. ASSUME NEW s \in solutions PROVE FALSE
      <4>1. s \in Nat /\ s < NonceMax /\ NonceMax \in Nat
        BY MinerAssumption DEF MinerType
      <4>2. PICK i \in Workers, k \in Nat : s = i + k * Stride
        BY <4>1, EveryNonceHasAWorker
      <4>3. s >= w[i].n
        BY <3>1, <3>2, <4>2 DEF OnResidue
      <4>4. w[i].n >= NonceMax /\ w[i].n \in Nat
        BY <1>6, <3>1 DEF Join, EndedThrough, MinerType, WorkerStates
      <4> QED
        BY <4>1, <4>3, <4>4
    <3> QED
      BY <3>1, <3>2
  <2>3. AllWorkers'
    BY <1>6, WorkerKept DEF Join
  <2> QED
    BY <2>1, <2>2, <2>3
<1>7. CASE Interrupt
  <2>1. Whole'
    BY <1>7 DEF Interrupt, MinerType, OneMiner, FoundIsTrue, ReferenceSwept, ExhaustedIsTrue
  <2>2. AllWorkers'
    BY <1>7, WorkerKept DEF Interrupt
  <2> QED
    BY <2>1, <2>2
<1>8. CASE EnsureWorkersTerminated
  <2>1. ASSUME NEW i \in Workers
        PROVE  /\ w'[i] \in WorkerStates
               /\ w'[i].n = w[i].n /\ w'[i].tried = w[i].tried /\ w'[i].late = w[i].late
               /\ w'[i].st = IF w[i].st = "new" THEN "new" ELSE "dead"
    BY <1>8 DEF EnsureWorkersTerminated, MinerType, WorkerStates
  <2>2. w' \in [Workers -> WorkerStates]
    BY <1>8, <2>1 DEF EnsureWorkersTerminated
  <2>3. MinerType'
    BY <1>8, <2>2 DEF EnsureWorkersTerminated, MinerType
  <2>4. OneMiner' /\ FoundIsTrue' /\ ReferenceSwept' /\ ExhaustedIsTrue'
    BY <1>8 DEF EnsureWorkersTerminated, OneMiner, FoundIsTrue, ReferenceSwept, ExhaustedIsTrue
  <2>5. ASSUME NEW i \in Workers PROVE OnResidue(i)' /\ EndedThrough(i)' /\ LateBelowLook(i)'
    <3>1. solutions' = solutions /\ found' = found /\ parent' = "done"
      BY <1>8 DEF EnsureWorkersTerminated
    <3>2. OnResidue(i)'
      BY <2>1, <3>1 DEF OnResidue, Stride
    <3>3. EndedThrough(i)' /\ LateBelowLook(i)'
      BY <2>1, <3>1 DEF EndedThrough, LateBelowLook
    <3> QED
      BY <3>2, <3>3
  <2> QED
    BY <2>3, <2>4, <2>5
<1>9. ASSUME NEW i \in Workers, StartWorker(i) PROVE MinerInv'
  <2>1. /\ w'[i].st = "run" /\ w'[i].n = i /\ w'[i].tried = 0 /\ w'[i].late = 0
        /\ \A j \in Workers \ {i} : w'[j] = w[j]
        /\ solutions' = solutions /\ found' = found /\ parent' = parent /\ deaths' = deaths
    BY <1>9 DEF StartWorker, NotStarted, MinerType
  <2>2. w' \in [Workers -> WorkerStates]
    <3>1. i \in Nat
      BY StrideIsNat
    <3>2. [NotStarted EXCEPT !.st = "run", !.n = i] \in WorkerStates
      <4>1. NotStarted \in WorkerStates
        BY DEF NotStarted, WorkerStates
      <4> QED
        BY <3>1, <4>1 DEF WorkerStates
    <3> QED
      BY <1>9, <3>2 DEF StartWorker, MinerType
  <2>3. Whole'
    BY <1>9, <2>2
    DEF StartWorker, MinerType, OneMiner, FoundIsTrue, ReferenceSwept, ExhaustedIsTrue
  <2>4. OnResidue(i)'
    <3>1. i \in Nat /\ Stride \in Nat /\ i = i + 0 * Stride
      BY StrideIsNat
    <3>2. ASSUME NEW k \in Nat PROVE i + k * Stride >= i
      <4>1. k * Stride \in Nat
        BY <3>1
      <4> QED
        BY <3>1, <4>1
    <3>3. \E j \in Nat : w'[i].n = i + j * Stride
      BY <2>1, <3>1
    <3> QED
      BY <2>1, <3>2, <3>3 DEF OnResidue, Stride
  <2>5. EndedThrough(i)' /\ LateBelowLook(i)'
    BY <2>1, MinerAssumption, NextLook DEF EndedThrough, LateBelowLook
  <2>6. ASSUME NEW j \in Workers \ {i} PROVE OnResidue(j)' /\ EndedThrough(j)' /\ LateBelowLook(j)'
    BY <2>1, WorkerKept
  <2> QED
    BY <2>3, <2>4, <2>5, <2>6
<1>10. ASSUME NEW i \in Workers, Try(i) PROVE MinerInv'
  <2>1. /\ \A j \in Workers \ {i} : w'[j] = w[j]
        /\ solutions' = solutions /\ parent' = parent /\ deaths' = deaths
        /\ found' = found \/ found'.set
    BY <1>10 DEF Try, MinerType
  <2>2. w' \in [Workers -> WorkerStates]
    BY <1>10, StrideIsNat DEF Try, MinerType, WorkerStates, Stride
  <2>3. MinerType'
    BY <1>10, <2>2 DEF Try, MinerType, WorkerStates
  <2>4. OneMiner' /\ FoundIsTrue' /\ ReferenceSwept' /\ ExhaustedIsTrue'
    BY <1>10, <2>1
    DEF Try, VerifySolution, MinerType, OneMiner, FoundIsTrue, ReferenceSwept, ExhaustedIsTrue
  <2>5. OnResidue(i)' /\ EndedThrough(i)' /\ LateBelowLook(i)'
    BY <1>10, TriedKeepsResidue, TriedKeepsEnds, TriedKeepsLate
  <2>6. ASSUME NEW j \in Workers \ {i} PROVE OnResidue(j)' /\ EndedThrough(j)' /\ LateBelowLook(j)'
    BY <2>1, WorkerKept
  <2> QED
    BY <2>3, <2>4, <2>5, <2>6
<1>11. ASSUME NEW i \in Workers,
              RangeDone(i) \/ Count(i) \/ ParentDeathSignal(i) \/ WorkerDies(i)
       PROVE  MinerInv'
  <2>1. PICK s \in {"count", "dead"} : w' = [w EXCEPT ![i].st = s]
    BY <1>11 DEF RangeDone, Count, ParentDeathSignal, WorkerDies
  <2>2. /\ w[i].st # "new" /\ solutions' = solutions /\ found' = found /\ parent' = parent
        /\ deaths' \in Nat /\ (deaths' = 0 => deaths = 0)
        /\ cap' = cap /\ result' = result /\ caller' = caller /\ attempts' \in Nat
        /\ \A j \in Workers \ {i} : w'[j] = w[j]
    BY <1>11, <2>1
    DEF RangeDone, Count, ParentDeathSignal, WorkerDies, Alive, MinerType, WorkerStates
  <2>3. w' \in [Workers -> WorkerStates]
    BY <2>1 DEF MinerType, WorkerStates
  <2>4. parent' = "start" /\ deaths' = 0 /\ ~found.set => w[i].n >= NonceMax
    BY <1>11, <2>2
    DEF RangeDone, Count, ParentDeathSignal, WorkerDies, ParentGone, EndedThrough, MinerType
  <2>5. parent # "off"
    BY <2>2 DEF OneMiner
  <2>6. Whole'
    BY <2>2, <2>3, <2>5
    DEF MinerType, OneMiner, FoundIsTrue, ReferenceSwept, ExhaustedIsTrue
  <2>7. OnResidue(i)' /\ EndedThrough(i)' /\ LateBelowLook(i)'
    BY <2>1, <2>2, <2>4, WorkerStops DEF MinerType
  <2>8. ASSUME NEW j \in Workers \ {i} PROVE OnResidue(j)' /\ EndedThrough(j)' /\ LateBelowLook(j)'
    BY <2>2, WorkerKept
  <2> QED
    BY <2>6, <2>7, <2>8
<1>12. CASE UNCHANGED minerVars
  <2>1. Whole'
    BY <1>12 DEF minerVars, MinerType, OneMiner, FoundIsTrue, ReferenceSwept, ExhaustedIsTrue
  <2>2. AllWorkers'
    BY <1>12, WorkerKept DEF minerVars
  <2> QED
    BY <2>1, <2>2
<1> QED
  BY <1>1, <1>2, <1>3, <1>4, <1>5, <1>6, <1>7, <1>8, <1>9, <1>10, <1>11, <1>12
  DEF MinerNext, MineSolutionDispatch

(* The inductive invariant of the parallel miner.                          *)
THEOREM MinerInvariant == MinerSpec => []MinerInv
BY MinerInvInit, MinerInvNext, PTL DEF MinerSpec

(* pyrxd-miner and mine_solution_dispatch, for any number of workers and   *)
(* any nonce space: a nonce handed to the caller solves the target; unless *)
(* a worker was killed, "exhausted" is said only when no nonce that had to *)
(* be tried does, whatever the order in which the workers find, look and   *)
(* end; and no worker hashes on for more than a check interval after the   *)
(* miner is gone.                                                          *)
THEOREM MinersAnswerTruly == MinerSpec => []MiningIsSound
<1>1. MinerInv => MiningIsSound
  <2> SUFFICES ASSUME MinerInv PROVE MiningIsSound
    OBVIOUS
  <2>1. result = "success" \/ caller = "solved" => found.value \in solutions
    BY DEF MinerInv, FoundIsTrue
  <2>2. caller = "exhausted" /\ deaths = 0 => solutions = Untried
    <3>1. CASE parent = "off"
      BY <3>1 DEF MinerInv, ReferenceSwept, Untried
    <3>2. CASE parent # "off"
      BY <3>2 DEF MinerInv, OneMiner, ExhaustedIsTrue, Untried
    <3> QED
      BY <3>1, <3>2
  <2>3. OrphansStop
    BY DEF MinerInv, LateBelowLook, OrphansStop
  <2> QED
    BY <2>1, <2>2, <2>3 DEF MiningIsSound, AnswersAreTrue
<1> QED
  BY <1>1, MinerInvariant, PTL

----------------------------------------------------- (* the signing agent *)

(* What a process of the agent can be doing.                               *)
Pcs == {"off", "bind", "listen", "serve", "confirm", "zeroize", "unlink", "atexit", "gone"}

(* The outputs of a request that pay somebody else, whatever it claims.    *)
Paid(req) == {i \in Outs : req.to[i] \in {"payee", "script"}}

(* A prompt lists every output that pays somebody else.                    *)
ShownCovers(req, outs) == outs \subseteq Outs /\ Paid(req) \subseteq outs

(* The inductive invariant: what is shown covers what is paid from the     *)
(* request on, until it is signed; and a process that has set its locked   *)
(* flag is on its way through zeroize, so that no exit is reached with a   *)
(* seed in place, unless a signal landed inside lock().                    *)
AgentInv ==
  /\ pc \in [Daemons -> Pcs] /\ seed \in [Daemons -> BOOLEAN]
  /\ locked \in [Daemons -> BOOLEAN] /\ broken \in BOOLEAN
  /\ DOMAIN request = Daemons /\ DOMAIN shown = Daemons
  /\ \A d \in Daemons : ShownCovers(request[d], shown[d])
  /\ ShownCovers(signed.req, signed.shown)
  /\ signed.by = "threshold" => TotalOf(signed.shown) <= Threshold
  /\ \A d \in Daemons :
       /\ locked[d] => pc[d] \in {"zeroize", "unlink", "atexit", "gone"}
       /\ pc[d] = "gone" /\ ~broken => ~seed[d]
       /\ locked[d] /\ seed[d] /\ ~broken => pc[d] = "zeroize"

(* A set of outputs is worth a number, and no more than a larger one.      *)
LEMMA TotalGrows ==
  ASSUME NEW S \in SUBSET Outs, NEW T \in SUBSET S
  PROVE  TotalOf(T) \in Nat /\ TotalOf(S) \in Nat /\ TotalOf(T) <= TotalOf(S)
  <1> DEFINE C(i) == {i} \X (1..Amounts[i])
             U(R) == UNION {C(i) : i \in R}
  <1>1. ASSUME NEW R \in SUBSET Outs PROVE IsFiniteSet(U(R))
    <2> DEFINE f == [i \in R |-> C(i)]
    <2>1. IsFiniteSet(R)
      BY AmountsAreSats, FS_Subset DEF Outs
    <2>2. f \in Surjection(R, {C(i) : i \in R})
      BY DEF Surjection
    <2>3. IsFiniteSet({C(i) : i \in R})
      BY <2>1, <2>2, FS_Surjection
    <2>4. ASSUME NEW i \in R PROVE IsFiniteSet(C(i))
      <3>1. Amounts[i] \in Int
        BY AmountsAreSats DEF Outs
      <3>2. IsFiniteSet(1..Amounts[i])
        BY <3>1, FS_Interval
      <3>3. IsFiniteSet({i})
        BY FS_Singleton
      <3> QED BY <3>2, <3>3, FS_Product
    <2>5. \A V \in {C(i) : i \in R} : IsFiniteSet(V)
      BY <2>4
    <2> QED BY <2>3, <2>5, FS_UNION
  <1>2. IsFiniteSet(U(S)) /\ IsFiniteSet(U(T))
    BY <1>1
  <1>3. U(T) \subseteq U(S)
    OBVIOUS
  <1>4. TotalOf(S) = Cardinality(U(S)) /\ TotalOf(T) = Cardinality(U(T))
    BY DEF TotalOf
  <1> HIDE DEF U
  <1> QED BY <1>2, <1>3, <1>4, FS_Subset, FS_CardinalityType

(* An empty request pays nobody.                                           *)
LEMMA NothingPaid == Paid(NoRequest) = {}
  BY DEF Paid, NoRequest

(* A request that is not refused hides no payment in its change.           *)
LEMMA SummaryCovers ==
  ASSUME NEW req \in Requests, Summarize(req) # {0}
  PROVE  ShownCovers(req, Summarize(req))
  <1>1. ClaimsHold(req) /\ Summarize(req) = Outs \ req.claims
    BY DEF Summarize
  <1>2. \A i \in Paid(req) : i \in Outs /\ i \notin req.claims
    BY <1>1 DEF Paid, ClaimsHold
  <1> QED BY <1>1, <1>2 DEF ShownCovers, Paid

(* Processes that were not started yet.                                    *)
LEMMA AgentInvInit == AgentInit => AgentInv
  <1> SUFFICES ASSUME AgentInit PROVE AgentInv
    OBVIOUS
  <1>1. /\ pc \in [Daemons -> Pcs] /\ seed \in [Daemons -> BOOLEAN]
        /\ locked \in [Daemons -> BOOLEAN] /\ broken \in BOOLEAN
        /\ DOMAIN request = Daemons /\ DOMAIN shown = Daemons
    BY DEF AgentInit, Pcs
  <1>2. \A d \in Daemons : ShownCovers(request[d], shown[d])
    BY NothingPaid DEF AgentInit, ShownCovers
  <1>3. signed.req = NoRequest /\ signed.shown = {} /\ signed.by = "none"
    BY DEF AgentInit, NotSigned
  <1>4. ShownCovers(signed.req, signed.shown) /\ signed.by # "threshold"
    BY <1>3, NothingPaid DEF ShownCovers
  <1>5. \A d \in Daemons : ~locked[d] /\ pc[d] = "off"
    BY DEF AgentInit
  <1> QED BY <1>1, <1>2, <1>4, <1>5 DEF AgentInv

(* The invariant gives both halves of the property; the sum under the      *)
(* threshold is the larger one.                                            *)
LEMMA AgentInvSuffices == AgentInv => AgentIsTrustworthy
  <1> SUFFICES ASSUME AgentInv PROVE AgentIsTrustworthy
    OBVIOUS
  <1>1. ExitScrubs
    BY DEF AgentInv, ExitScrubs
  <1>2. /\ signed.shown \subseteq Outs /\ Paid(signed.req) \subseteq signed.shown
        /\ signed.by = "threshold" => TotalOf(signed.shown) <= Threshold
    BY DEF AgentInv, ShownCovers
  <1>3. signed.by = "threshold" => TotalOf(Paid(signed.req)) <= Threshold
    BY <1>2, TotalGrows, AmountsAreSats
  <1>4. SignedAsShown
    BY <1>2, <1>3 DEF SignedAsShown, Paid
  <1> QED BY <1>1, <1>4 DEF AgentIsTrustworthy

(* lock(), its callers and the start of a process: nothing is shown or     *)
(* signed.                                                                 *)
LEMMA LockKeeps ==
  ASSUME AgentInv, NEW d \in Daemons,
         Unlock(d) \/ BindProbe(d) \/ Bind(d) \/ Zeroize(d) \/ CloseSocket(d) \/ AtExit(d)
         \/ Signal(d) \/ Kill(d) \/ AutoLock(d) \/ LockOp(d)
  PROVE  AgentInv'
  <1> USE DEF Same, Goto, LockFlag
  <1>1. request' = request /\ shown' = shown /\ signed' = signed
    BY DEF Unlock, BindProbe, Bind, Zeroize, CloseSocket, AtExit, Signal, Kill, AutoLock, LockOp
  <1>2. PICK p \in Pcs : pc' = [pc EXCEPT ![d] = p]
    BY DEF Unlock, BindProbe, Bind, Zeroize, CloseSocket, AtExit, Signal, Kill, AutoLock, LockOp,
       Pcs
  <1>3. PICK s \in BOOLEAN : seed' = [seed EXCEPT ![d] = s]
    <2>1. seed[d] \in BOOLEAN /\ seed = [seed EXCEPT ![d] = seed[d]]
      BY DEF AgentInv
    <2>2. \/ seed' = seed \/ seed' = [seed EXCEPT ![d] = TRUE]
          \/ seed' = [seed EXCEPT ![d] = FALSE]
      BY DEF Unlock, BindProbe, Bind, Zeroize, CloseSocket, AtExit, Signal, Kill, AutoLock, LockOp
    <2> QED BY <2>1, <2>2
  <1>4. PICK l \in BOOLEAN : locked' = [locked EXCEPT ![d] = l]
    BY DEF Unlock, BindProbe, Bind, Zeroize, CloseSocket, AtExit, Signal, Kill, AutoLock, LockOp,
       AgentInv
  <1>5. broken' \in BOOLEAN /\ (broken => broken')
    BY DEF Unlock, BindProbe, Bind, Zeroize, CloseSocket, AtExit, Signal, Kill, AutoLock, LockOp,
       AgentInv
  <1>6. /\ pc' \in [Daemons -> Pcs] /\ seed' \in [Daemons -> BOOLEAN]
        /\ locked' \in [Daemons -> BOOLEAN]
        /\ pc'[d] = p /\ seed'[d] = s /\ locked'[d] = l
        /\ \A e \in Daemons \ {d} :
             pc'[e] = pc[e] /\ seed'[e] = seed[e] /\ locked'[e] = locked[e]
    BY <1>2, <1>3, <1>4 DEF AgentInv
  <1>7. /\ l => p \in {"zeroize", "unlink", "atexit", "gone"}
        /\ p = "gone" /\ ~broken' => ~s
        /\ l /\ s /\ ~broken' => p = "zeroize"
    <2> USE <1>2, <1>3, <1>4, <1>5, <1>6 DEF AgentInv
    <2>1. CASE Unlock(d) \/ BindProbe(d) \/ Bind(d)
      BY <2>1 DEF Unlock, BindProbe, Bind
    <2>2. CASE Zeroize(d) \/ CloseSocket(d) \/ AtExit(d)
      BY <2>2 DEF Zeroize, CloseSocket, AtExit
    <2>3. CASE Signal(d)
      BY <2>3 DEF Signal
    <2>4. CASE Kill(d) \/ AutoLock(d) \/ LockOp(d)
      BY <2>4 DEF Kill, AutoLock, LockOp
    <2> QED BY <2>1, <2>2, <2>3, <2>4
  <1>8. \A e \in Daemons :
          /\ locked'[e] => pc'[e] \in {"zeroize", "unlink", "atexit", "gone"}
          /\ pc'[e] = "gone" /\ ~broken' => ~seed'[e]
          /\ locked'[e] /\ seed'[e] /\ ~broken' => pc'[e] = "zeroize"
    BY <1>5, <1>6, <1>7 DEF AgentInv
  <1> QED BY <1>1, <1>5, <1>6, <1>8 DEF AgentInv

(* A request, its summary, and what comes of the prompt.                   *)
LEMMA ServeKeeps ==
  ASSUME AgentInv, NEW d \in Daemons, SignRequest(d) \/ Confirm(d)
  PROVE  AgentInv'
  <1>1. seed' = seed /\ locked' = locked /\ broken' = broken
    BY DEF SignRequest, Confirm
  <1>2. PICK p \in {"serve", "confirm"} : pc' = [pc EXCEPT ![d] = p]
    BY DEF SignRequest, Confirm, Goto
  <1>3. pc[d] \in {"serve", "confirm"}
    BY DEF SignRequest, Confirm
  <1>4. /\ pc' \in [Daemons -> Pcs]
        /\ \A e \in Daemons :
             /\ locked'[e] => pc'[e] \in {"zeroize", "unlink", "atexit", "gone"}
             /\ pc'[e] = "gone" /\ ~broken' => ~seed'[e]
             /\ locked'[e] /\ seed'[e] /\ ~broken' => pc'[e] = "zeroize"
    BY <1>1, <1>2, <1>3 DEF AgentInv, Pcs
  <1>5. ASSUME NEW req, NEW outs, ShownCovers(req, outs),
               request' = [request EXCEPT ![d] = req], shown' = [shown EXCEPT ![d] = outs],
               ShownCovers(signed'.req, signed'.shown),
               signed'.by = "threshold" => TotalOf(signed'.shown) <= Threshold
        PROVE  AgentInv'
    <2>1. \A e \in Daemons : ShownCovers(request'[e], shown'[e])
      BY <1>5 DEF AgentInv
    <2> QED BY <1>1, <1>4, <1>5, <2>1 DEF AgentInv, TotalOf
  <1>6. CASE SignRequest(d)
    <2>1. PICK req \in Requests :
            /\ Summarize(req) # {0} /\ request' = [request EXCEPT ![d] = req]
            /\ shown' = [shown EXCEPT ![d] = Summarize(req)]
      BY <1>6 DEF SignRequest
    <2>2. signed' = signed
      BY <1>6 DEF SignRequest
    <2> QED BY <1>5, <2>1, <2>2, SummaryCovers DEF AgentInv
  <1>7. CASE Confirm(d)
    <2>1. /\ request' = [request EXCEPT ![d] = NoRequest] /\ shown' = [shown EXCEPT ![d] = {}]
      BY <1>7 DEF Confirm
    <2>2. PICK by \in {"operator", "threshold", "nobody"} :
            /\ (by = "threshold") = (Threshold > 0 /\ TotalOf(shown[d]) <= Threshold)
            /\ signed' = IF by = "nobody" THEN signed
                         ELSE [req |-> request[d], shown |-> shown[d], by |-> by]
      BY <1>7 DEF Confirm
    <2>3. /\ ShownCovers(signed'.req, signed'.shown)
          /\ signed'.by = "threshold" => TotalOf(signed'.shown) <= Threshold
      <3>1. CASE by = "nobody"
        BY <2>2, <3>1 DEF AgentInv
      <3>2. CASE by # "nobody"
        <4>1. signed'.req = request[d] /\ signed'.shown = shown[d] /\ signed'.by = by
          BY <2>2, <3>2
        <4>2. by = "threshold" => TotalOf(shown[d]) <= Threshold
          BY <2>2
        <4> QED BY <4>1, <4>2 DEF AgentInv
      <3> QED BY <3>1, <3>2
    <2>4. ShownCovers(NoRequest, {})
      BY NothingPaid DEF ShownCovers
    <2> QED BY <1>5, <2>1, <2>3, <2>4
  <1> QED BY <1>6, <1>7

(* Every step of every process.                                            *)
LEMMA AgentInvNext == AgentInv /\ [AgentNext]_agentVars => AgentInv'
  <1> SUFFICES ASSUME AgentInv, [AgentNext]_agentVars PROVE AgentInv'
    OBVIOUS
  <1>1. CASE UNCHANGED agentVars
    BY <1>1 DEF agentVars, AgentInv, ShownCovers, Paid, TotalOf
  <1>2. CASE AgentNext
    BY <1>2, LockKeeps, ServeKeeps DEF AgentNext
  <1> QED BY <1>1, <1>2

(* The signing agent (agent/daemon.py, agent/signer.py): what it signs     *)
(* pays only what the operator was shown or the threshold covers, and no   *)
(* exit leaves a seed, for any number of processes, outputs, amounts and   *)
(* signals.                                                                *)
THEOREM AgentHolds == AgentSpec => []AgentIsTrustworthy
  <1>1. AgentInit => AgentInv
    BY AgentInvInit
  <1>2. AgentInv /\ [AgentNext]_agentVars => AgentInv'
    BY AgentInvNext
  <1>3. AgentInv => AgentIsTrustworthy
    BY AgentInvSuffices
  <1> QED BY <1>1, <1>2, <1>3, PTL DEF AgentSpec

-------------------------------------------------------- (* sealed content *)

(* Hashes as the minter's stub and the proofs on the chain hold them.      *)
Hashes ==
  [prefix : {"", "sha256:", "SHA256:", "Sha256:"}, digits : {"", "lower", "upper"},
   of : Keys \cup {"nothing"}]
(* TimelockParams, EncryptedContentStub and the reveal proofs, as the code *)
(* builds them.                                                            *)
Locks == [mode : {"none", "block", "time"}, unlockAt : Int, cekHash : Hashes]
Stubs == [p : SUBSET {"NFT", "ENCRYPTED", "TIMELOCK"}, cekHash : Hashes, timelock : Locks]
RevealProofs ==
  [magic : {TRUE}, version : {2}, marker : {8, 9}, action : {"reveal"}, ref : Refs,
   cek : Keys, cekHash : Hashes]
Openings == [key : Keys, block : Nat, time : Nat]

(* The types of the state.                                                 *)
SealType ==
  /\ key \in Keys /\ stub \in Stubs /\ proofs \in SUBSET RevealProofs
  /\ minted \in {<<>>} \cup {<<d>> : d \in Stubs}
  /\ block \in Nat /\ time \in Nat /\ opened \in SUBSET Openings

(* A timelock carries the hash of the content's key, in one spelling.      *)
Bound(st) ==
  "TIMELOCK" \in st.p => st.timelock.mode # "none" /\ st.timelock.cekHash = FormatCekHash(key)

(* Until then there is none.                                               *)
Unbound(st) == "TIMELOCK" \notin st.p => st.timelock = NoLock

(* A hash in a proof is that of a key, well written, or none.              *)
Readable(h) == h = NoHash \/ (h.prefix # "" /\ h.digits # "" /\ h.of \in Keys)

(* The inductive invariant. A wallet judges a proof by the hash in the     *)
(* minted stub; that this hash is the one of the content's key has to be   *)
(* carried from the first lock() through every to_dict and from_dict to    *)
(* the minting.                                                            *)
SealInv ==
  /\ SealType
  /\ Bound(stub) /\ Unbound(stub)
  /\ minted = <<>> => proofs = {} /\ opened = {}
  /\ minted # <<>> => "TIMELOCK" \in minted[1].p /\ Bound(minted[1])
  /\ \A x \in proofs : Readable(x.cekHash)
  /\ \A o \in opened :
       /\ o.key = key
       /\ ClockOf(minted[1].timelock, o.block, o.time) >= minted[1].timelock.unlockAt

(* The values that stand for nothing, and what the formatting functions    *)
(* make, are of these types.                                               *)
LEMMA NoHashIsHash == NoHash \in Hashes
  BY DEF NoHash, Hashes

LEMMA NoLockIsLock == NoLock \in Locks
  BY NoHashIsHash DEF NoLock, Locks

LEMMA FormatIsHash == \A k \in Keys : FormatCekHash(k) \in Hashes
  BY DEF FormatCekHash, Hash, Hashes

LEMMA PrefixedIsHash ==
  ASSUME NEW h \in Hashes
  PROVE  Sha256Prefix(h) \in Hashes
  BY DEF Sha256Prefix, Hashes

(* What the stub's dictionary keeps of a timelock.                         *)
LEMMA StoringKeepsTheLock ==
  ASSUME NEW k \in Keys, NEW st \in Stubs
  PROVE  /\ StubToDict(st) \in Stubs
         /\ StubToDict(st).p = st.p
         /\ st.timelock.mode = "none" => StubToDict(st).timelock = st.timelock
         /\ st.timelock.mode # "none" /\ st.timelock.cekHash = FormatCekHash(k) =>
              StubToDict(st).timelock = st.timelock
  <1> DEFINE d == StubToDict(st)
             l == IF st.timelock.mode = "none" THEN st.timelock ELSE LockToDict(st.timelock)
  <1>1. st.timelock \in Locks /\ st.cekHash \in Hashes /\ st.timelock.cekHash \in Hashes
    BY DEF Stubs, Locks
  <1>2. Sha256Prefix(st.cekHash) \in Hashes /\ Sha256Prefix(st.timelock.cekHash) \in Hashes
    BY <1>1, PrefixedIsHash
  <1>3. LockToDict(st.timelock) \in Locks
    BY <1>1, <1>2 DEF LockToDict, Locks
  <1>4. l \in Locks
    BY <1>1, <1>3
  <1>5. d = [st EXCEPT !.cekHash = Sha256Prefix(st.cekHash), !.timelock = l]
    BY DEF StubToDict
  <1> HIDE DEF l
  <1>6. d \in Stubs /\ d.p = st.p /\ d.timelock = l
    BY <1>2, <1>4, <1>5 DEF Stubs
  <1>7. ASSUME st.timelock.cekHash = FormatCekHash(k)
        PROVE  LockToDict(st.timelock) = st.timelock
    <2> DEFINE h == FormatCekHash(k)
    <2>2. h \in Hashes /\ h.prefix = "sha256:" /\ h.digits = "lower"
      BY FormatIsHash DEF FormatCekHash, Hash
    <2> HIDE DEF h
    <2>1. Sha256Prefix(h) = h
      BY <2>2 DEF Sha256Prefix, Hashes
    <2> QED BY <1>1, <1>7, <2>1 DEF LockToDict, Locks, h
  <1> QED BY <1>6, <1>7 DEF l

(* add_timelock puts the hash of the key it is given into the lock.        *)
LEMMA LockingBinds ==
  ASSUME NEW k \in Keys, NEW st \in Stubs, NEW mode \in {"block", "time"}, NEW u \in Int
  PROVE  /\ AddTimelock(st, k, mode, u) \in Stubs
         /\ "TIMELOCK" \in AddTimelock(st, k, mode, u).p
         /\ AddTimelock(st, k, mode, u).timelock.mode # "none"
         /\ AddTimelock(st, k, mode, u).timelock.cekHash = FormatCekHash(k)
  <1> DEFINE l == [mode |-> mode, unlockAt |-> u, cekHash |-> FormatCekHash(k)]
             c == IF Truthy(st.cekHash) THEN st.cekHash ELSE FormatCekHash(k)
             q == st.p \cup {"TIMELOCK"}
  <1>1. l \in Locks
    BY FormatIsHash DEF Locks
  <1>2. c \in Hashes /\ q \in SUBSET {"NFT", "ENCRYPTED", "TIMELOCK"}
    BY FormatIsHash DEF Stubs
  <1>3. AddTimelock(st, k, mode, u) = [st EXCEPT !.p = q, !.timelock = l, !.cekHash = c]
    BY DEF AddTimelock
  <1>4. l.mode = mode /\ l.cekHash = FormatCekHash(k) /\ "TIMELOCK" \in q
    OBVIOUS
  <1> HIDE DEF l, c, q
  <1> QED BY <1>1, <1>2, <1>3, <1>4 DEF Stubs

(* What is published can be parsed, whoever made it.                       *)
LEMMA HandMadeIsReadable ==
  ASSUME NEW ref \in Refs, NEW k \in Keys, NEW h \in Hashes, NEW mk \in {8, 9}
  PROVE  /\ HandMade(ref, k, h, mk) \in RevealProofs
         /\ HandMade(ref, k, h, mk).cekHash = h
  <1> DEFINE y == CreateRevealProof(ref, k, NoHash)
  <1>1. ProofHash(k, NoHash) \in Hashes
    BY FormatIsHash DEF ProofHash
  <1>2. y \in RevealProofs
    BY <1>1 DEF CreateRevealProof, RevealProofs
  <1> HIDE DEF y
  <1>3. /\ [y EXCEPT !.cekHash = h, !.marker = mk] \in RevealProofs
        /\ [y EXCEPT !.cekHash = h, !.marker = mk].cekHash = h
    BY <1>2 DEF RevealProofs
  <1> QED BY <1>3 DEF HandMade, y

(* create_reveal_proof publishes the hash of the key it is given.          *)
LEMMA CreatedIsReadable ==
  ASSUME NEW ref \in Refs, NEW k \in Keys, NEW o \in Overrides, OverrideOk(k, o)
  PROVE  /\ CreateRevealProof(ref, k, o) \in RevealProofs
         /\ Readable(CreateRevealProof(ref, k, o).cekHash)
  <1>1. FormatCekHash(k) \in Hashes /\ Readable(FormatCekHash(k))
    BY DEF FormatCekHash, Hash, Hashes, Readable
  <1>3. ProofHash(k, o) \in Hashes /\ Readable(ProofHash(k, o))
    <2>1. CASE o = NoHash
      BY <1>1, <2>1 DEF ProofHash
    <2>2. CASE o # NoHash
      <3>1. /\ o \in Hashes
            /\ o.prefix \in {"", "sha256:", "SHA256:", "Sha256:"}
            /\ o.digits \in {"lower", "upper"} /\ o.of \in Keys
        BY <2>2 DEF Overrides, Hashes
      <3>2. CASE o.prefix = ""
        BY <1>1, <2>2, <3>2 DEF ProofHash
      <3>3. CASE o.prefix # ""
        <4>1. ProofHash(k, o) = o
          BY <2>2, <3>3 DEF ProofHash
        <4> QED BY <3>1, <3>3, <4>1 DEF Readable
      <3> QED BY <3>2, <3>3
    <2> QED BY <2>1, <2>2
  <1> QED BY <1>3 DEF CreateRevealProof, RevealProofs

(* A stub that nobody has stored yet.                                      *)
LEMMA SealInvInit == SealInit => SealInv
  <1> SUFFICES ASSUME SealInit PROVE SealInv
    OBVIOUS
  <1>1. PICK h \in {NoHash, FormatCekHash(key), Hash("", "upper", key)} :
          stub = [p |-> {"NFT", "ENCRYPTED"}, cekHash |-> h, timelock |-> NoLock]
    BY DEF SealInit
  <1>2. key \in Keys /\ h \in Hashes /\ NoLock \in Locks
    <2>1. key \in Keys
      BY DEF SealInit
    <2>2. Hash("", "upper", key) \in Hashes
      BY <2>1 DEF Hash, Hashes
    <2> QED BY <2>1, <2>2, NoHashIsHash, FormatIsHash, NoLockIsLock
  <1>3. stub \in Stubs
    BY <1>1, <1>2 DEF Stubs
  <1>4. "TIMELOCK" \notin stub.p /\ stub.timelock = NoLock
    BY <1>1
  <1> QED BY <1>2, <1>3, <1>4 DEF SealInit, SealInv, SealType, Bound, Unbound

(* One step per operation of the minter, the publishers, the clock and the *)
(* wallets.                                                                *)
LEMMA SealInvNext == SealInv /\ [SealNext]_sealVars => SealInv'
  <1> SUFFICES ASSUME SealInv, [SealNext]_sealVars PROVE SealInv'
    OBVIOUS
  <1> USE DEF SealInv
  <1>1. CASE StoreStub
    <2>1. stub' = StubToDict(stub) /\ minted = <<>> /\ stub \in Stubs /\ key \in Keys
      BY <1>1 DEF StoreStub, StubFromDict, SealType
    <2>2. stub' \in Stubs /\ stub'.p = stub.p
      BY <2>1, StoringKeepsTheLock
    <2>3. stub'.timelock = stub.timelock
      <3>1. CASE "TIMELOCK" \in stub.p
        BY <2>1, <3>1, StoringKeepsTheLock DEF Bound
      <3>2. CASE "TIMELOCK" \notin stub.p
        BY <2>1, <3>2, StoringKeepsTheLock DEF Unbound, NoLock
      <3> QED BY <3>1, <3>2
    <2>4. UNCHANGED <<key, minted, proofs, block, time, opened>>
      BY <1>1 DEF StoreStub
    <2> QED BY <2>1, <2>2, <2>3, <2>4 DEF SealType, Bound, Unbound
  <1>2. CASE Lock
    <2>1. UNCHANGED <<key, minted, proofs, block, time, opened>> /\ minted = <<>>
      BY <1>2 DEF Lock
    <2>2. PICK mode \in {"block", "time"}, u \in UnlockAt : stub' = AddTimelock(stub, key, mode, u)
      BY <1>2 DEF Lock
    <2>3. u \in Int /\ stub \in Stubs /\ key \in Keys
      BY UnlockPoints DEF SealType
    <2>4. /\ stub' \in Stubs /\ "TIMELOCK" \in stub'.p /\ stub'.timelock.mode # "none"
          /\ stub'.timelock.cekHash = FormatCekHash(key)
      BY <2>2, <2>3, LockingBinds
    <2> QED BY <2>1, <2>4 DEF SealType, Bound, Unbound
  <1>3. CASE Mint
    <2>1. /\ UNCHANGED <<key, stub, proofs, block, time, opened>>
          /\ minted = <<>> /\ minted' = <<StubToDict(stub)>> /\ "TIMELOCK" \in stub.p
      BY <1>3 DEF Mint
    <2>2. stub \in Stubs /\ key \in Keys
      BY DEF SealType
    <2>3. /\ StubToDict(stub) \in Stubs /\ StubToDict(stub).p = stub.p
          /\ StubToDict(stub).timelock = stub.timelock
      BY <2>1, <2>2, StoringKeepsTheLock DEF Bound
    <2>4. minted'[1] = StubToDict(stub) /\ minted' # <<>>
      BY <2>1
    <2>5. minted' \in {<<d>> : d \in Stubs}
      BY <2>1, <2>3
    <2> QED BY <2>1, <2>3, <2>4, <2>5 DEF SealType, Bound, Unbound
  <1>4. CASE Publish
    <2>1. UNCHANGED <<key, stub, minted, block, time, opened>> /\ minted # <<>>
      BY <1>4 DEF Publish
    <2>2. PICK ref \in Refs, k \in Keys :
            \/ \E o \in Overrides :
                 OverrideOk(k, o) /\ proofs' = proofs \cup {CreateRevealProof(ref, k, o)}
            \/ \E h \in {FormatCekHash(j) : j \in Keys} \cup {NoHash}, m \in {8, 9} :
                 proofs' = proofs \cup {HandMade(ref, k, h, m)}
      BY <1>4, Zenon DEF Publish
    <2>3. PICK y \in RevealProofs : Readable(y.cekHash) /\ proofs' = proofs \cup {y}
      <3>1. ASSUME NEW o \in Overrides,
                   OverrideOk(k, o), proofs' = proofs \cup {CreateRevealProof(ref, k, o)}
            PROVE  \E y \in RevealProofs : Readable(y.cekHash) /\ proofs' = proofs \cup {y}
        BY <3>1, CreatedIsReadable
      <3>2. ASSUME NEW h \in {FormatCekHash(j) : j \in Keys} \cup {NoHash}, NEW m \in {8, 9},
                   proofs' = proofs \cup {HandMade(ref, k, h, m)}
            PROVE  \E y \in RevealProofs : Readable(y.cekHash) /\ proofs' = proofs \cup {y}
        <4>1. h \in Hashes /\ Readable(h)
          <5>1. CASE h = NoHash
            BY <5>1, NoHashIsHash DEF Readable
          <5>2. CASE h # NoHash
            <6>1. PICK j \in Keys : h = FormatCekHash(j)
              BY <5>2
            <6> QED BY <6>1, FormatIsHash DEF FormatCekHash, Hash, Readable
          <5> QED BY <5>1, <5>2
        <4> QED BY <3>2, <4>1, HandMadeIsReadable
      <3> QED BY <2>2, <3>1, <3>2
    <2>4. proofs' \in SUBSET RevealProofs /\ \A x \in proofs' : Readable(x.cekHash)
      BY <2>3 DEF SealType
    <2> QED BY <2>1, <2>4 DEF SealType, Bound, Unbound
  <1>5. CASE Tick
    BY <1>5 DEF Tick, SealType, Bound, Unbound
  <1>6. CASE Open
    <2>1. UNCHANGED <<key, stub, minted, proofs, block, time>> /\ minted # <<>>
      BY <1>6 DEF Open
    <2>2. PICK b \in {block, -1}, t \in {time, -1}, x \in proofs :
            /\ IsUnlocked(minted[1], b, t)
            /\ Validates(x, "token", minted[1].timelock.cekHash)
            /\ opened' = {[key |-> x.cek, block |-> block, time |-> time]}
      BY <1>6 DEF Open, StubFromDict
    <2>3. x.cek = key /\ key \in Keys
      <3>1. minted[1].timelock.cekHash = FormatCekHash(key)
        BY <2>1 DEF Bound
      <3>2. ParseCekHash(FormatCekHash(key)) = key
        BY DEF ParseCekHash, FormatCekHash, Hash
      <3> QED BY <2>2, <3>1, <3>2 DEF Validates, SealType
    <2>4. /\ minted[1].timelock.unlockAt \in Int /\ block \in Nat /\ time \in Nat
      BY <2>1 DEF SealType, Stubs, Locks
    <2>5. ClockOf(minted[1].timelock, block, time) >= minted[1].timelock.unlockAt
      BY <2>1, <2>2, <2>4 DEF IsUnlocked, ClockOf
    <2>6. opened' \in SUBSET Openings
      BY <2>2, <2>3, <2>4 DEF Openings
    <2>7. \A o \in opened' : o.key = key /\ o.block = block /\ o.time = time
      BY <2>2, <2>3
    <2> QED BY <2>1, <2>5, <2>6, <2>7 DEF SealType, Bound, Unbound
  <1>7. CASE UNCHANGED sealVars
    BY <1>7 DEF sealVars, SealType, Bound, Unbound
  <1> QED BY <1>1, <1>2, <1>3, <1>4, <1>5, <1>6, <1>7 DEF SealNext

(* For any keys, unlock points and bounds, the invariant holds throughout. *)
THEOREM SealInvariant == SealSpec => []SealInv
  BY SealInvInit, SealInvNext, PTL DEF SealSpec

(* In a state of the invariant, a proof is accepted exactly when it is of  *)
(* the key, and the clocks of a wallet that opened had come.               *)
LEMMA SealInvImplies == SealInv => SealOpensExactly
  <1> SUFFICES ASSUME SealInv PROVE SealOpensExactly
    OBVIOUS
  <1> DEFINE st == minted[1]
  <1>1. ASSUME minted # <<>>
        PROVE  /\ st.timelock.unlockAt \in Int /\ st.timelock.mode \in {"block", "time"}
               /\ st.timelock.cekHash = FormatCekHash(key) /\ key \in Keys
               /\ "TIMELOCK" \in st.p
    BY <1>1 DEF SealInv, SealType, Stubs, Locks, Bound
  <1>2. ASSUME minted # <<>>, NEW x \in proofs
        PROVE  Validates(x, "token", st.timelock.cekHash) <=>
                 x.ref = "token" /\ x.cek = key /\ x.cekHash.of = key /\ x.marker = 9
    <2>1. x \in RevealProofs /\ Readable(x.cekHash)
      BY DEF SealInv, SealType
    <2>2. ParseCekHash(FormatCekHash(key)) = key
      BY DEF ParseCekHash, FormatCekHash, Hash
    <2>3. ParseRevealProof(x) <=> x.marker = 9
      BY <2>1 DEF ParseRevealProof, RevealProofs
    <2>4. x.cek \in Keys /\ x.cek \notin {"nothing", "malformed"}
      BY <2>1, KeysAreKeys DEF RevealProofs
    <2>5. ParseCekHash(x.cekHash) = x.cek <=> x.cekHash.of = x.cek
      <3>1. CASE x.cekHash = NoHash
        <4>1. ParseCekHash(NoHash) = "malformed" /\ NoHash.of = "nothing"
          BY DEF NoHash, ParseCekHash
        <4> QED BY <2>4, <3>1, <4>1
      <3>2. CASE x.cekHash # NoHash
        <4>1. ParseCekHash(x.cekHash) = x.cekHash.of
          BY <2>1, <3>2 DEF Readable, ParseCekHash, RevealProofs, Hashes
        <4> QED BY <4>1
      <3> QED BY <3>1, <3>2
    <2> QED BY <1>1, <1>2, <2>2, <2>3, <2>5 DEF Validates
  <1>3. ASSUME minted # <<>>, NEW b \in {block, -1}, NEW t \in {time, -1}, IsUnlocked(st, b, t)
        PROVE  UnlockRemaining(st, block, time) = 0
    <2>1. block \in Nat /\ time \in Nat
      BY DEF SealInv, SealType
    <2>2. ClockOf(st.timelock, block, time) >= st.timelock.unlockAt
      BY <1>1, <1>3, <2>1 DEF IsUnlocked, ClockOf
    <2> QED BY <1>1, <1>3, <2>1, <2>2 DEF UnlockRemaining, ClockOf
  <1>4. ASSUME NEW o \in opened
        PROVE  UnlockRemaining(minted[1], o.block, o.time) = 0
    <2>1. minted # <<>> /\ ClockOf(st.timelock, o.block, o.time) >= st.timelock.unlockAt
      BY DEF SealInv
    <2>2. o.block \in Nat /\ o.time \in Nat
      BY DEF SealInv, SealType, Openings
    <2> QED BY <1>1, <2>1, <2>2 DEF UnlockRemaining, ClockOf
  <1> QED BY <1>2, <1>3, <1>4 DEF SealInv, SealOpensExactly, StubFromDict

(* Sealed content (glyph/timelock.py): a wallet accepts a proof exactly    *)
(* when it publishes the content's key for the token's ref, and opens only *)
(* from the unlock point on, for any keys, unlock points, proofs and order *)
(* of storing, locking, minting and publishing.                            *)
THEOREM SealsOpenExactly == SealSpec => []SealOpensExactly
  BY SealInvariant, SealInvImplies, PTL

--------------------------------------------------------- (* the HD wallet *)

(* Unspent outputs, wallets, scans, what was gathered and what was built.  *)
Coins == HdChains \X Nat \X Nat
Wallets == [recs : [HdChains -> SUBSET Nat], tip : [HdChains -> Nat]]
Scans == [mode : {"off", "refresh", "watch"}, chain : HdChains, index : Nat, unused : Nat]
Gatherings ==
  [coins : SUBSET Coins, change : Nat,
   by : {"none", "recover", "report", "agent", "wallet", "single"}, since : Nat]
Builts ==
  [ins : SUBSET Coins, pay : Int, back : Nat, at : HdChains \X Nat, fee : Int,
   selectedAll : BOOLEAN, error : {"none", "funds", "fee"}]

(* The types of the state, and that there are finitely many coins.         *)
WalletType ==
  /\ unspent \subseteq Coins /\ IsFiniteSet(unspent)
  /\ history \in [HdChains -> SUBSET Nat] /\ handed \subseteq HdChains \X Nat
  /\ mem \in Wallets \cup {NoWallet} /\ savedFile \in Wallets \cup {NoWallet}
  /\ scan \in Scans /\ gathered \in Gatherings /\ IsFiniteSet(gathered.coins)
  /\ built \in Builts /\ payments \in Nat

(* Every index of a chain below i has history.                             *)
FilledBelow(c, i) == \A j \in Nat : j < i => j \in history[c]

(* The heart of the argument: each chain has history on a first segment of *)
(* its indexes, the wallet's coins are there, and an address that was      *)
(* handed out is the next one or an earlier one.                           *)
ChainIsFilled ==
  /\ \A c \in HdChains : \A i \in history[c] : FilledBelow(c, i)
  /\ \A c \in HdChains : \E n \in Nat : \A i \in history[c] : i < n
  /\ \A x \in unspent : x[2] \in history[x[1]]
  /\ \A a \in handed : FilledBelow(a[1], a[2])

(* A used record, in memory or in the file, is one the chain confirms.     *)
RecordsAreTrue(wal) == wal # NoWallet => \A c \in HdChains : wal.recs[c] \subseteq history[c]

(* The same of the index change will go to.                                *)
ChangeIsNext ==
  /\ FilledBelow(1, gathered.change) /\ FilledBelow(built.at[1], built.at[2])

(* Who can be at what: wallet recover has a wallet in memory and builds    *)
(* nothing.                                                                *)
ModesAgree ==
  /\ scan.mode = "refresh" \/ gathered.by \in {"recover", "report", "wallet"} => mem # NoWallet
  /\ gathered.by \in {"recover", "report"} => built = NotBuilt /\ scan.mode # "watch"
  /\ gathered.since <= payments

(* What a recovery has behind it, as long as nothing was paid since it     *)
(* began: the first chain, the indexes below the one it asks for next, and *)
(* an unused one just below if it has begun to count.                      *)
SeenSoFar ==
  /\ scan.chain = 1 => history[0] \subseteq mem.recs[0]
  /\ \A i \in history[scan.chain] : i < scan.index => i \in mem.recs[scan.chain]
  /\ scan.unused > 0 => scan.index > 0 /\ (scan.index - 1) \notin history[scan.chain]

(* A recovery between two queries, and after the last.                     *)
RecoveryIsOnItsWay ==
  gathered.by = "recover" /\ gathered.since = payments =>
    /\ scan.mode = "off" => \A c \in HdChains : history[c] \subseteq mem.recs[c]
    /\ scan.mode = "refresh" => SeenSoFar

(* The inductive invariant.                                                *)
WalletInv ==
  /\ WalletType /\ ChainIsFilled /\ RecordsAreTrue(mem) /\ RecordsAreTrue(savedFile)
  /\ ChangeIsNext /\ ModesAgree /\ RecoveryIsOnItsWay /\ ReportIsComplete /\ EarlyStopPays

(* A wallet is not the absence of one.                                     *)
LEMMA WalletsAreWallets ==
  /\ EmptyWallet \in Wallets /\ \A wal \in Wallets : wal # NoWallet
<1>1. EmptyWallet \in Wallets
  BY DEF EmptyWallet, Wallets, HdChains
<1>2. ASSUME NEW wal \in Wallets PROVE wal # NoWallet
  <2>1. DOMAIN wal = {"recs", "tip"}
    BY DEF Wallets
  <2>2. DOMAIN NoWallet = {"none"}
    BY DEF NoWallet
  <2> QED
    BY <2>1, <2>2
<1> QED
  BY <1>1, <1>2

(* The values that stand for nothing are of these types.                   *)
LEMMA NothingIsTyped ==
  NoScan \in Scans /\ NothingFound \in Gatherings /\ NotBuilt \in Builts
<1>1. NoScan \in Scans
  BY DEF NoScan, ScanOf, Scans, HdChains
<1>2. NothingFound \in Gatherings
  BY DEF NothingFound, FoundBy, Gatherings
<1>3. NotBuilt \in Builts
  BY DEF NotBuilt, Builts, HdChains
<1> QED
  BY <1>1, <1>2, <1>3

(* The default of -1 leaves the maximum of a bounded set alone.            *)
LEMMA MaxIsGreatest ==
  ASSUME NEW S, S \subseteq Nat, S # {}, NEW n \in Nat, \A x \in S : x < n
  PROVE  Max({-1} \cup S) \in S /\ \A y \in S : y <= Max({-1} \cup S)
<1> DEFINE D == {n - x : x \in S}
<1>1. D \subseteq Nat /\ D # {}
  OBVIOUS
<1>2. Min(D) \in D /\ \A y \in D : Min(D) <= y
  BY <1>1, MinIsLeast
<1>3. PICK x \in S : Min(D) = n - x
  BY <1>2
<1>4. ASSUME NEW y \in S PROVE x >= y
  <2>1. n - y \in D /\ x \in Nat /\ y \in Nat
    OBVIOUS
  <2>2. n - x <= n - y
    BY <1>2, <1>3, <2>1
  <2> QED
    BY <2>1, <2>2
<1>5. \A y \in {-1} \cup S : x >= y
  BY <1>4
<1>6. Max({-1} \cup S) \in {-1} \cup S /\ \A y \in {-1} \cup S : Max({-1} \cup S) >= y
  BY <1>5 DEF Max
<1>7. Max({-1} \cup S) >= x /\ x \in Nat
  BY <1>6
<1> QED
  BY <1>6, <1>7

(* And is the maximum of nothing.                                          *)
LEMMA NoMax == Max({-1} \cup {}) = -1
<1>1. {-1} \cup {} = {-1}
  OBVIOUS
<1>2. \E z \in {-1} : \A y \in {-1} : z >= y
  OBVIOUS
<1> QED
  BY <1>1, <1>2 DEF Max

(* _scan_chain's tip is a number: the records are bounded by the chain.    *)
LEMMA TipIsNat ==
  ASSUME WalletType, ChainIsFilled, NEW wal \in Wallets, RecordsAreTrue(wal), NEW c \in HdChains
  PROVE  LastUsed(wal, c) + 1 \in Nat
<1>1. wal.recs[c] \subseteq history[c] /\ wal.recs[c] \subseteq Nat
  BY WalletsAreWallets DEF RecordsAreTrue, Wallets
<1>2. CASE wal.recs[c] = {}
  BY <1>2, NoMax DEF LastUsed
<1>3. CASE wal.recs[c] # {}
  <2>1. PICK n \in Nat : \A i \in history[c] : i < n
    BY DEF ChainIsFilled
  <2>2. Max({-1} \cup wal.recs[c]) \in wal.recs[c]
    BY <1>1, <1>3, <2>1, MaxIsGreatest
  <2> QED
    BY <1>1, <2>2 DEF LastUsed
<1> QED
  BY <1>2, <1>3

(* Whatever the tip says, all indexes below the one that is chosen have    *)
(* used records, and with them history.                                    *)
LEMMA FirstUnusedIsNext ==
  ASSUME WalletType, NEW wal \in Wallets, RecordsAreTrue(wal), NEW c \in HdChains
  PROVE  FirstUnused(wal, c) \in Nat /\ FilledBelow(c, FirstUnused(wal, c))
<1> DEFINE free == {i \in 0 .. wal.tip[c] + Gap - 1 : i \notin wal.recs[c]}
<1>1. wal.recs[c] \subseteq history[c] /\ wal.tip[c] \in Nat /\ Gap \in Nat
  BY WalletsAreWallets, WalletSizes DEF RecordsAreTrue, Wallets
<1>2. free \subseteq Nat
  BY <1>1
<1>3. CASE free # {}
  <2>1. Min(free) \in free /\ \A y \in free : Min(free) <= y
    BY <1>2, <1>3, MinIsLeast
  <2>2. FirstUnused(wal, c) = Min(free)
    BY <1>3 DEF FirstUnused
  <2>3. ASSUME NEW j \in Nat, j < Min(free) PROVE j \in history[c]
    <3>1. j \notin free
      BY <1>2, <2>1, <2>3
    <3>2. j \in 0 .. wal.tip[c] + Gap - 1
      BY <1>1, <2>1, <2>3
    <3> QED
      BY <1>1, <3>1, <3>2
  <2> QED
    BY <1>2, <2>1, <2>2, <2>3 DEF FilledBelow
<1>4. CASE free = {}
  <2>1. FirstUnused(wal, c) = wal.tip[c] + Gap
    BY <1>4 DEF FirstUnused
  <2>2. ASSUME NEW j \in Nat, j < wal.tip[c] + Gap PROVE j \in history[c]
    <3>1. j \in 0 .. wal.tip[c] + Gap - 1
      BY <1>1, <2>2
    <3> QED
      BY <1>1, <1>4, <3>1
  <2> QED
    BY <1>1, <2>1, <2>2 DEF FilledBelow
<1> QED
  BY <1>3, <1>4

(* The sum of finitely many coins is a number.                             *)
LEMMA TotalIsNat ==
  ASSUME NEW S \in SUBSET Coins, IsFiniteSet(S)
  PROVE  Total(S) \in Nat /\ Cardinality(S) \in Nat
<1> DEFINE C(x) == {x} \X (1 .. x[3])
           f == [x \in S |-> C(x)]
<1>1. f \in Surjection(S, {C(x) : x \in S})
  BY DEF Surjection
<1>2. IsFiniteSet({C(x) : x \in S})
  BY <1>1, FS_Surjection
<1>3. ASSUME NEW x \in S PROVE IsFiniteSet(C(x))
  <2>1. 1 \in Int /\ x[3] \in Int
    BY DEF Coins
  <2>2. IsFiniteSet(1 .. x[3])
    BY <2>1, FS_Interval, Zenon
  <2>3. IsFiniteSet({x})
    BY FS_Singleton
  <2> QED
    BY <2>2, <2>3, FS_Product
<1>4. \A V \in {C(x) : x \in S} : IsFiniteSet(V)
  BY <1>3
<1>5. IsFiniteSet(UNION {C(x) : x \in S})
  BY <1>2, <1>4, FS_UNION
<1> QED
  BY <1>5, FS_CardinalityType DEF Total

(* A step that leaves the chain alone, and hands out next addresses.       *)
LEMMA ChainKept ==
  ASSUME ChainIsFilled, SameChain,
         \A a \in handed' : a \in handed \/ FilledBelow(a[1], a[2])
  PROVE  ChainIsFilled'
BY DEF ChainIsFilled, SameChain, FilledBelow

(* One chain's records of a wallet are replaced.                           *)
LEMMA ScanRecords ==
  ASSUME NEW wal \in Wallets, NEW c \in HdChains, NEW R \in SUBSET Nat
  PROVE  /\ [wal EXCEPT !.recs[c] = R] \in Wallets
         /\ \A b \in HdChains :
              [wal EXCEPT !.recs[c] = R].recs[b] = IF b = c THEN R ELSE wal.recs[b]
BY DEF Wallets

(* A tip is set.                                                           *)
LEMMA TipRecords ==
  ASSUME NEW wal \in Wallets, NEW c \in HdChains, NEW n \in Nat
  PROVE  /\ [wal EXCEPT !.tip[c] = n] \in Wallets
         /\ [wal EXCEPT !.tip[c] = n].recs = wal.recs
BY DEF Wallets

(* A wallet nobody has created yet.                                        *)
LEMMA WalletInvInit == WalletInit => WalletInv
<1> SUFFICES ASSUME WalletInit PROVE WalletInv
  OBVIOUS
<1>1. WalletType
  BY NothingIsTyped, FS_EmptySet DEF WalletInit, WalletType, NothingFound, FoundBy, HdChains
<1>2. ChainIsFilled /\ RecordsAreTrue(mem) /\ RecordsAreTrue(savedFile)
  BY DEF WalletInit, ChainIsFilled, RecordsAreTrue, HdChains
<1>3. ChangeIsNext /\ ModesAgree
  BY DEF WalletInit, ChangeIsNext, ModesAgree, FilledBelow, NothingFound, FoundBy,
         NotBuilt, NoScan, ScanOf
<1>4. RecoveryIsOnItsWay /\ ReportIsComplete /\ EarlyStopPays
  BY DEF WalletInit, RecoveryIsOnItsWay, ReportIsComplete, EarlyStopPays, NothingFound,
         FoundBy, NotBuilt
<1> QED
  BY <1>1, <1>2, <1>3, <1>4 DEF WalletInv

(* Creating, loading, saving and losing a wallet.                          *)
LEMMA FileSteps ==
  ASSUME WalletInv,
         WalletNew \/ LoadWallet \/ FromMnemonic \/ SaveWallet \/ ExitWallet
  PROVE  WalletInv'
<1>1. SameChain /\ \A a \in handed' : a \in handed \/ FilledBelow(a[1], a[2])
  BY DEF WalletNew, LoadWallet, FromMnemonic, SaveWallet, ExitWallet, FilledBelow
<1>2. ChainIsFilled'
  BY <1>1, ChainKept DEF WalletInv
<1>3. CASE mem = NoWallet /\ (WalletNew \/ LoadWallet \/ FromMnemonic)
  <2>1. /\ mem' \in Wallets /\ RecordsAreTrue(mem')
        /\ savedFile' \in Wallets \cup {NoWallet} /\ RecordsAreTrue(savedFile')
    <3>0. RecordsAreTrue(EmptyWallet)
      BY DEF RecordsAreTrue, EmptyWallet
    <3>1. CASE WalletNew \/ FromMnemonic
      BY <3>0, <3>1, WalletsAreWallets DEF WalletInv, WalletType, WalletNew, FromMnemonic
    <3>2. CASE LoadWallet
      BY <3>2, WalletsAreWallets
      DEF WalletInv, WalletType, LoadWallet, LoadExisting, RecordsAreTrue, Wallets
    <3> QED
      BY <1>3, <3>1, <3>2
  <2>2. UNCHANGED <<scan, gathered, built>> /\ handed' \subseteq HdChains \X Nat
    BY <1>3 DEF WalletInv, WalletType, WalletNew, LoadWallet, FromMnemonic, HdChains
  <2>3. WalletType'
    BY <1>1, <2>1, <2>2 DEF WalletInv, WalletType, SameChain
  <2>4. (RecordsAreTrue(mem) /\ RecordsAreTrue(savedFile) /\ ChangeIsNext)'
    BY <1>1, <2>1, <2>2 DEF WalletInv, SameChain, RecordsAreTrue, ChangeIsNext, FilledBelow
  <2>5. ModesAgree'
    BY <1>1, <1>3, <2>1, <2>2, WalletsAreWallets DEF WalletInv, SameChain, ModesAgree
  <2>6. (RecoveryIsOnItsWay /\ ReportIsComplete /\ EarlyStopPays)'
    BY <1>1, <1>3, <2>2
    DEF WalletInv, SameChain, ModesAgree, RecoveryIsOnItsWay, ReportIsComplete, EarlyStopPays
  <2> QED
    BY <1>2, <2>3, <2>4, <2>5, <2>6 DEF WalletInv
<1>4. CASE SaveWallet
  <2>1. WalletType'
    BY <1>4 DEF WalletInv, WalletType, SaveWallet, SameChain
  <2>2. (RecordsAreTrue(mem) /\ RecordsAreTrue(savedFile) /\ ChangeIsNext)'
    BY <1>4 DEF WalletInv, SaveWallet, SameChain, RecordsAreTrue, ChangeIsNext, FilledBelow
  <2>3. ModesAgree'
    BY <1>4 DEF WalletInv, SaveWallet, SameChain, ModesAgree
  <2>4. (RecoveryIsOnItsWay /\ ReportIsComplete /\ EarlyStopPays)'
    BY <1>4 DEF WalletInv, SaveWallet, Driven, SameChain, RecoveryIsOnItsWay, ReportIsComplete,
                EarlyStopPays
  <2> QED
    BY <1>2, <2>1, <2>2, <2>3, <2>4 DEF WalletInv
<1>5. CASE ExitWallet
  <2>1. WalletType'
    BY <1>5, NothingIsTyped, FS_EmptySet
    DEF WalletInv, WalletType, ExitWallet, SameChain, NothingFound, FoundBy
  <2>2. (RecordsAreTrue(mem) /\ RecordsAreTrue(savedFile) /\ ChangeIsNext)'
    BY <1>5 DEF WalletInv, ExitWallet, SameChain, RecordsAreTrue, ChangeIsNext, FilledBelow,
                NothingFound, FoundBy, NotBuilt
  <2>3. ModesAgree'
    BY <1>5 DEF WalletInv, WalletType, ExitWallet, SameChain, ModesAgree, NothingFound,
                FoundBy, NoScan, ScanOf
  <2>4. (RecoveryIsOnItsWay /\ ReportIsComplete /\ EarlyStopPays)'
    BY <1>5 DEF ExitWallet, RecoveryIsOnItsWay, ReportIsComplete, EarlyStopPays,
                NothingFound, FoundBy, NotBuilt
  <2> QED
    BY <1>2, <2>1, <2>2, <2>3, <2>4 DEF WalletInv
<1> QED
  BY <1>3, <1>4, <1>5 DEF WalletNew, LoadWallet, FromMnemonic

(* Handing out an address, with its record set to unused.                  *)
LEMMA AddressSteps ==
  ASSUME WalletInv, NextReceiveAddress \/ NextInternalAddress
  PROVE  WalletInv'
<1>1. PICK c \in HdChains : HandOut(c, FirstUnused(mem, c))
  BY DEF NextReceiveAddress, NextInternalAddress, HdChains
<1> DEFINE i == FirstUnused(mem, c)
<1>2. mem \in Wallets /\ RecordsAreTrue(mem)
  BY <1>1 DEF HandOut, Driven, WalletInv, WalletType
<1>3. i \in Nat /\ FilledBelow(c, i)
  BY <1>2, FirstUnusedIsNext DEF WalletInv
<1> HIDE DEF i
<1>4. /\ mem' = [mem EXCEPT !.recs[c] = mem.recs[c] \ {i}] /\ handed' = handed \cup {<<c, i>>}
      /\ UNCHANGED <<savedFile, scan, gathered, built>> /\ SameChain /\ Driven
  BY <1>1, <1>2 DEF HandOut, i, Wallets
<1>5. mem.recs[c] \ {i} \subseteq Nat
  BY <1>2 DEF Wallets
<1>6. /\ mem' \in Wallets
      /\ \A b \in HdChains : mem'.recs[b] = IF b = c THEN mem.recs[c] \ {i} ELSE mem.recs[b]
  <2> DEFINE R == mem.recs[c] \ {i}
  <2>1. R \in SUBSET Nat /\ mem' = [mem EXCEPT !.recs[c] = R]
    BY <1>4, <1>5
  <2> HIDE DEF R
  <2>2. /\ [mem EXCEPT !.recs[c] = R] \in Wallets
        /\ \A b \in HdChains :
             [mem EXCEPT !.recs[c] = R].recs[b] = IF b = c THEN R ELSE mem.recs[b]
    BY <1>2, <2>1, ScanRecords, Zenon
  <2> QED
    BY <2>1, <2>2 DEF R
<1>7. ChainIsFilled'
  <2>1. \A a \in handed' : a \in handed \/ FilledBelow(a[1], a[2])
    BY <1>3, <1>4
  <2> QED
    BY <1>4, <2>1, ChainKept DEF WalletInv
<1>8. WalletType'
  BY <1>3, <1>4, <1>6 DEF WalletInv, WalletType, SameChain
<1>9. RecordsAreTrue(mem)'
  BY <1>2, <1>4, <1>6, WalletsAreWallets DEF RecordsAreTrue, SameChain
<1>10. RecordsAreTrue(savedFile)' /\ ChangeIsNext'
  BY <1>4 DEF WalletInv, SameChain, RecordsAreTrue, ChangeIsNext, FilledBelow
<1>11. ModesAgree'
  BY <1>4, <1>6, WalletsAreWallets DEF WalletInv, SameChain, ModesAgree
<1>12. (RecoveryIsOnItsWay /\ ReportIsComplete /\ EarlyStopPays)'
  BY <1>4 DEF WalletInv, Driven, SameChain, RecoveryIsOnItsWay, ReportIsComplete, EarlyStopPays
<1> QED
  BY <1>7, <1>8, <1>9, <1>10, <1>11, <1>12 DEF WalletInv

(* Where a scan begins.                                                    *)
LEMMA ScanStarts ==
  ASSUME NEW md \in {"off", "refresh", "watch"}, NEW c \in HdChains
  PROVE  /\ ScanOf(md, c) \in Scans /\ ScanOf(md, c).mode = md /\ ScanOf(md, c).chain = c
         /\ ScanOf(md, c).index = 0 /\ ScanOf(md, c).unused = 0
BY DEF ScanOf, Scans

(* Where it goes from one query to the next.                               *)
LEMMA AfterQueryIs ==
  ASSUME scan \in Scans, NEW used \in BOOLEAN
  PROVE  /\ AfterQuery(used) \in Scans
         /\ AfterQuery(used).mode = scan.mode /\ AfterQuery(used).chain = scan.chain
         /\ AfterQuery(used).index = scan.index + 1
         /\ used => AfterQuery(used).unused = 0
<1> DEFINE n == IF used THEN 0 ELSE scan.unused + 1
<1>1. scan.index + 1 \in Nat /\ n \in Nat
  BY DEF Scans
<1>2. AfterQuery(used) = [scan EXCEPT !.index = scan.index + 1, !.unused = n]
  BY DEF AfterQuery, Scans
<1>3. used => n = 0
  OBVIOUS
<1> HIDE DEF n
<1>4. [scan EXCEPT !.index = scan.index + 1, !.unused = n] \in Scans
  BY <1>1 DEF Scans
<1>5. /\ AfterQuery(used).mode = scan.mode /\ AfterQuery(used).chain = scan.chain
      /\ AfterQuery(used).index = scan.index + 1 /\ AfterQuery(used).unused = n
  BY <1>2 DEF Scans
<1> QED
  BY <1>2, <1>3, <1>4, <1>5

(* One query of _scan_chain records what the chain says of one index.      *)
LEMMA ScanStep ==
  ASSUME WalletInv, ScanChain
  PROVE  WalletInv'
<1> DEFINE c == scan.chain
           k == scan.index
           used == k \in history[c]
           R == IF used THEN mem.recs[c] \cup {k} ELSE mem.recs[c] \ {k}
<1>1. /\ mem \in Wallets /\ RecordsAreTrue(mem) /\ c \in HdChains /\ k \in Nat
      /\ history \in [HdChains -> SUBSET Nat] /\ scan \in Scans
  BY DEF WalletInv, WalletType, ScanChain, ModesAgree, Scans
<1>2. /\ mem' = [mem EXCEPT !.recs[c] = R] /\ scan' = AfterQuery(used)
      /\ UNCHANGED <<handed, savedFile, gathered, built>> /\ SameChain
  BY <1>1 DEF ScanChain, Wallets
<1>3. R \in SUBSET Nat /\ R \subseteq history[c] /\ used \in BOOLEAN
  BY <1>1, WalletsAreWallets DEF RecordsAreTrue, Wallets
<1>4. /\ \A i \in mem.recs[c] : i # k => i \in R
      /\ k \in history[c] => k \in R
  OBVIOUS
<1>5. (used <=> k \in history[c]) /\ scan.mode = "refresh"
  BY DEF ScanChain
<1> HIDE DEF R, used
<1>6. /\ mem' \in Wallets
      /\ \A b \in HdChains : mem'.recs[b] = IF b = c THEN R ELSE mem.recs[b]
  <2>1. /\ [mem EXCEPT !.recs[c] = R] \in Wallets
        /\ \A b \in HdChains :
             [mem EXCEPT !.recs[c] = R].recs[b] = IF b = c THEN R ELSE mem.recs[b]
    BY <1>1, <1>3, ScanRecords, Zenon
  <2> QED
    BY <1>2, <2>1
<1>7. /\ scan' \in Scans /\ scan'.mode = "refresh" /\ scan'.chain = c /\ scan'.index = k + 1
      /\ used => scan'.unused = 0
  BY <1>1, <1>2, <1>3, <1>5, AfterQueryIs
<1>8. ChainIsFilled'
  BY <1>2, ChainKept DEF WalletInv
<1>9. WalletType'
  BY <1>2, <1>6, <1>7 DEF WalletInv, WalletType, SameChain
<1>10. RecordsAreTrue(mem)'
  BY <1>1, <1>2, <1>3, <1>6, WalletsAreWallets DEF RecordsAreTrue, SameChain
<1>11. RecordsAreTrue(savedFile)' /\ ChangeIsNext'
  BY <1>2 DEF WalletInv, SameChain, RecordsAreTrue, ChangeIsNext, FilledBelow
<1>12. ModesAgree'
  BY <1>2, <1>5, <1>6, <1>7, WalletsAreWallets DEF WalletInv, SameChain, ModesAgree
<1>13. ReportIsComplete' /\ EarlyStopPays'
  BY <1>2 DEF WalletInv, SameChain, ReportIsComplete, EarlyStopPays
<1>14. RecoveryIsOnItsWay'
  <2> SUFFICES ASSUME gathered.by = "recover", gathered.since = payments PROVE SeenSoFar'
    BY <1>2, <1>7 DEF RecoveryIsOnItsWay, SameChain
  <2>1. SeenSoFar
    BY <1>5 DEF WalletInv, RecoveryIsOnItsWay
  <2>2. c = 1 => history'[0] \subseteq mem'.recs[0]
    BY <1>2, <1>6, <2>1 DEF SeenSoFar, SameChain, HdChains
  <2>3. ASSUME NEW i \in history[c], i < k + 1 PROVE i \in R
    <3>1. i \in Nat
      BY <1>1
    <3>2. i < k \/ i = k
      BY <1>1, <2>3, <3>1
    <3> QED
      BY <1>4, <2>1, <3>1, <3>2 DEF SeenSoFar
  <2>4. scan'.unused > 0 => k \notin history[c]
    BY <1>5, <1>7
  <2>5. k + 1 > 0 /\ k + 1 - 1 = k
    BY <1>1
  <2> QED
    BY <1>1, <1>2, <1>6, <1>7, <2>2, <2>3, <2>4, <2>5 DEF SeenSoFar, SameChain
<1> QED
  BY <1>8, <1>9, <1>10, <1>11, <1>12, <1>13, <1>14 DEF WalletInv

(* At the end of a chain the gap stands for all that follows: one index    *)
(* without history has none with history above it.                         *)
LEMMA ScanEnds ==
  ASSUME WalletInv, ScanChainEnds
  PROVE  WalletInv'
<1> DEFINE c == scan.chain
           n == LastUsed(mem, c) + 1
<1>1. /\ mem \in Wallets /\ RecordsAreTrue(mem) /\ c \in HdChains /\ scan.mode = "refresh"
      /\ history \in [HdChains -> SUBSET Nat] /\ scan \in Scans /\ scan.unused = Gap
  BY DEF WalletInv, WalletType, ScanChainEnds, ModesAgree, Scans
<1>2. n \in Nat
  BY <1>1, TipIsNat DEF WalletInv
<1> HIDE DEF n
<1>3. /\ mem' = [mem EXCEPT !.tip[c] = n]
      /\ UNCHANGED <<handed, savedFile, gathered, built>> /\ SameChain
  BY DEF ScanChainEnds, n
<1>4. mem' \in Wallets /\ mem'.recs = mem.recs
  BY <1>1, <1>2, <1>3, TipRecords
<1>5. /\ scan' \in Scans
      /\ c = 0 => scan'.mode = "refresh" /\ scan'.chain = 1 /\ scan'.index = 0 /\ scan'.unused = 0
      /\ c = 1 => scan'.mode = "off"
  <2>1. CASE c = 0
    BY <2>1, ScanStarts DEF ScanChainEnds, HdChains
  <2>2. CASE c = 1
    BY <2>2, ScanStarts DEF ScanChainEnds, NoScan, HdChains
  <2> QED
    BY <1>1, <2>1, <2>2 DEF HdChains
<1>6. ChainIsFilled'
  BY <1>3, ChainKept DEF WalletInv
<1>7. WalletType'
  BY <1>3, <1>4, <1>5 DEF WalletInv, WalletType, SameChain
<1>8. RecordsAreTrue(mem)'
  BY <1>1, <1>3, <1>4, WalletsAreWallets DEF RecordsAreTrue, SameChain
<1>9. RecordsAreTrue(savedFile)' /\ ChangeIsNext'
  BY <1>3 DEF WalletInv, SameChain, RecordsAreTrue, ChangeIsNext, FilledBelow
<1>10. ModesAgree'
  BY <1>1, <1>3, <1>4, <1>5, WalletsAreWallets DEF WalletInv, SameChain, ModesAgree, HdChains
<1>11. ReportIsComplete' /\ EarlyStopPays'
  BY <1>3 DEF WalletInv, SameChain, ReportIsComplete, EarlyStopPays
<1>12. RecoveryIsOnItsWay'
  <2> SUFFICES ASSUME gathered.by = "recover", gathered.since = payments
               PROVE  /\ scan'.mode = "off" => \A b \in HdChains : history[b] \subseteq mem.recs[b]
                      /\ scan'.mode = "refresh" => SeenSoFar'
    BY <1>3, <1>4 DEF RecoveryIsOnItsWay, SameChain
  <2>1. SeenSoFar
    BY <1>1 DEF WalletInv, RecoveryIsOnItsWay
  <2>2. ASSUME NEW i \in history[c] PROVE i \in mem.recs[c]
    <3>1. i \in Nat /\ scan.index \in Nat
      BY <1>1 DEF Scans
    <3>2. scan.index > 0 /\ (scan.index - 1) \notin history[c]
      BY <1>1, <2>1, WalletSizes DEF SeenSoFar
    <3>3. scan.index - 1 \in Nat
      BY <3>1, <3>2
    <3>4. ~(scan.index - 1 < i)
      BY <1>1, <3>2, <3>3 DEF WalletInv, ChainIsFilled, FilledBelow
    <3>5. i # scan.index - 1
      BY <3>2
    <3>6. i < scan.index
      BY <3>1, <3>4, <3>5
    <3> QED
      BY <2>1, <3>6 DEF SeenSoFar
  <2>3. CASE c = 0
    <3>1. SeenSoFar'
      BY <1>1, <1>3, <1>4, <1>5, <2>2, <2>3 DEF SeenSoFar, SameChain, HdChains
    <3> QED
      BY <1>5, <2>3, <3>1
  <2>4. CASE c = 1
    BY <1>5, <2>1, <2>2, <2>4 DEF SeenSoFar, HdChains
  <2> QED
    BY <1>1, <2>3, <2>4 DEF HdChains
<1> QED
  BY <1>6, <1>7, <1>8, <1>9, <1>10, <1>11, <1>12 DEF WalletInv

(* What is gathered has its type.                                          *)
LEMMA FoundIsTyped ==
  ASSUME NEW md \in {"none", "agent", "wallet", "single"}, NEW S \in SUBSET Coins
  PROVE  /\ FoundBy(md, S) \in Gatherings /\ FoundBy(md, S).coins = S
         /\ FoundBy(md, S).change = 0 /\ FoundBy(md, S).by = md /\ FoundBy(md, S).since = 0
BY DEF FoundBy, Gatherings

(* Gathering anew by an application or the agent.                          *)
LEMMA GatherSteps ==
  ASSUME WalletInv, SameChain, UNCHANGED <<handed, savedFile, mem>>,
         built' = built, scan' \in Scans, scan'.mode = "refresh" => mem # NoWallet,
         NEW md \in {"none", "agent", "wallet", "single"}, md = "wallet" => mem # NoWallet,
         NEW S \in SUBSET unspent, gathered' = FoundBy(md, S)
  PROVE  WalletInv'
<1>1. S \in SUBSET Coins /\ IsFiniteSet(S)
  BY FS_Subset DEF WalletInv, WalletType
<1>2. /\ gathered' \in Gatherings /\ gathered'.coins = S /\ gathered'.change = 0
      /\ gathered'.by = md /\ gathered'.since = 0
  BY <1>1, FoundIsTyped
<1>3. ChainIsFilled'
  BY ChainKept DEF WalletInv
<1>4. WalletType'
  BY <1>1, <1>2 DEF WalletInv, WalletType, SameChain
<1>5. RecordsAreTrue(mem)' /\ RecordsAreTrue(savedFile)'
  BY DEF WalletInv, SameChain, RecordsAreTrue
<1>6. ChangeIsNext'
  BY <1>2 DEF WalletInv, SameChain, ChangeIsNext, FilledBelow
<1>7. ModesAgree'
  BY <1>2 DEF WalletInv, WalletType, SameChain, ModesAgree
<1>8. RecoveryIsOnItsWay' /\ ReportIsComplete' /\ EarlyStopPays'
  BY <1>2 DEF WalletInv, RecoveryIsOnItsWay, ReportIsComplete, EarlyStopPays
<1> QED
  BY <1>3, <1>4, <1>5, <1>6, <1>7, <1>8 DEF WalletInv

(* The actions that do so.                                                 *)
LEMMA GatheringSteps ==
  ASSUME WalletInv,
         \/ RefreshFails \/ WatchOnlyScan \/ RxdWalletUtxos
         \/ \E failed \in SUBSET HdChains : CollectSpendable(failed)
  PROVE  WalletInv'
<1>0. scan \in Scans /\ NoScan \in Scans /\ NoScan.mode = "off"
  BY NothingIsTyped DEF WalletInv, WalletType, NoScan, ScanOf
<1>1. CASE RefreshFails
  <2>1. gathered' = FoundBy("none", {}) /\ {} \in SUBSET unspent
    BY <1>1 DEF RefreshFails, NothingFound
  <2> QED
    BY <1>0, <1>1, <2>1, GatherSteps DEF RefreshFails
<1>2. CASE WatchOnlyScan
  <2>1. gathered' = FoundBy("agent", {}) /\ {} \in SUBSET unspent
    BY <1>2 DEF WatchOnlyScan
  <2>2. scan' \in Scans /\ scan'.mode = "watch"
    BY <1>2, ScanStarts DEF WatchOnlyScan, HdChains
  <2> QED
    BY <1>2, <2>1, <2>2, GatherSteps DEF WatchOnlyScan
<1>3. CASE RxdWalletUtxos
  <2> DEFINE S == {x \in unspent : x[1] = 0 /\ x[2] = 0}
  <2>1. gathered' = FoundBy("single", S) /\ S \in SUBSET unspent
    BY <1>3 DEF RxdWalletUtxos
  <2> HIDE DEF S
  <2> QED
    BY <1>0, <1>3, <2>1, GatherSteps DEF RxdWalletUtxos, Driven
<1>4. ASSUME NEW failed \in SUBSET HdChains, CollectSpendable(failed) PROVE WalletInv'
  <2> DEFINE S == {x \in CoinsOf(mem) : x[1] \notin failed}
  <2>1. gathered' = FoundBy("wallet", S) /\ S \in SUBSET unspent
    BY <1>4 DEF CollectSpendable, CoinsOf
  <2> HIDE DEF S
  <2> QED
    BY <1>0, <1>4, <2>1, GatherSteps DEF CollectSpendable, Driven
<1> QED
  BY <1>1, <1>2, <1>3, <1>4

(* Steps of a scan that leave what was gathered.                           *)
LEMMA ScanModes ==
  ASSUME WalletInv, Refresh \/ WatchOnlyEnds
  PROVE  WalletInv'
<1>1. UNCHANGED <<handed, mem, savedFile, gathered, built>> /\ SameChain
  BY DEF Refresh, WatchOnlyEnds
<1>2. /\ scan' \in Scans /\ gathered.by # "recover"
      /\ scan'.mode = "refresh" => mem # NoWallet
      /\ gathered.by = "report" => scan'.mode # "watch"
  <2>1. CASE Refresh
    BY <2>1, ScanStarts DEF Refresh, Driven, HdChains
  <2>2. CASE WatchOnlyEnds
    <3>1. scan.mode = "watch" /\ (scan' = ScanOf("watch", 1) \/ scan' = ScanOf("off", 0))
      BY <2>2 DEF WatchOnlyEnds, NoScan
    <3> QED
      BY <3>1, ScanStarts DEF WalletInv, ModesAgree, HdChains
  <2> QED
    BY <2>1, <2>2
<1>3. ChainIsFilled'
  BY <1>1, ChainKept DEF WalletInv
<1>4. WalletType'
  BY <1>1, <1>2 DEF WalletInv, WalletType, SameChain
<1>5. RecordsAreTrue(mem)' /\ RecordsAreTrue(savedFile)' /\ ChangeIsNext'
  BY <1>1 DEF WalletInv, SameChain, RecordsAreTrue, ChangeIsNext, FilledBelow
<1>6. ModesAgree'
  BY <1>1, <1>2 DEF WalletInv, SameChain, ModesAgree
<1>7. RecoveryIsOnItsWay' /\ ReportIsComplete' /\ EarlyStopPays'
  BY <1>1, <1>2 DEF WalletInv, SameChain, RecoveryIsOnItsWay, ReportIsComplete, EarlyStopPays
<1> QED
  BY <1>3, <1>4, <1>5, <1>6, <1>7 DEF WalletInv

(* wallet recover starts, and reports: by then its records are the         *)
(* chain's.                                                                *)
LEMMA RecoverSteps ==
  ASSUME WalletInv, WalletRecover \/ Discover
  PROVE  WalletInv'
<1>1. CASE WalletRecover
  <2>1. /\ UNCHANGED <<handed, savedFile, built>> /\ SameChain /\ mem' = EmptyWallet
        /\ scan' = ScanOf("refresh", 0) /\ built = NotBuilt
        /\ gathered' = [FoundBy("recover", {}) EXCEPT !.since = payments]
    BY <1>1 DEF WalletRecover
  <2>2. /\ gathered' \in Gatherings /\ gathered'.coins = {} /\ gathered'.change = 0
        /\ gathered'.by = "recover" /\ gathered'.since = payments
    <3>1. payments \in Nat
      BY DEF WalletInv, WalletType
    <3>2. gathered' = [coins |-> {}, change |-> 0, by |-> "recover", since |-> payments]
      BY <2>1 DEF FoundBy
    <3> QED
      BY <3>1, <3>2 DEF Gatherings
  <2>3. /\ scan' \in Scans /\ scan'.mode = "refresh" /\ scan'.chain = 0
        /\ scan'.index = 0 /\ scan'.unused = 0
    BY <2>1, ScanStarts DEF HdChains
  <2>4. mem' \in Wallets /\ RecordsAreTrue(EmptyWallet)
    BY <2>1, WalletsAreWallets DEF RecordsAreTrue, EmptyWallet
  <2>5. ChainIsFilled'
    BY <2>1, ChainKept DEF WalletInv
  <2>6. WalletType'
    BY <2>1, <2>2, <2>3, <2>4, FS_EmptySet DEF WalletInv, WalletType, SameChain
  <2>7. RecordsAreTrue(mem)' /\ RecordsAreTrue(savedFile)'
    BY <2>1, <2>4 DEF WalletInv, SameChain, RecordsAreTrue
  <2>8. ChangeIsNext'
    BY <2>1, <2>2 DEF WalletInv, SameChain, ChangeIsNext, FilledBelow
  <2>9. ModesAgree'
    BY <2>1, <2>2, <2>3, <2>4, WalletsAreWallets
    DEF WalletInv, WalletType, SameChain, ModesAgree
  <2>10. SeenSoFar'
    <3>1. history \in [HdChains -> SUBSET Nat]
      BY DEF WalletInv, WalletType
    <3> QED
      BY <2>1, <2>3, <3>1 DEF SeenSoFar, SameChain, HdChains
  <2>11. RecoveryIsOnItsWay' /\ ReportIsComplete' /\ EarlyStopPays'
    BY <2>1, <2>2, <2>3, <2>10
    DEF WalletInv, SameChain, RecoveryIsOnItsWay, ReportIsComplete, EarlyStopPays
  <2> QED
    BY <2>5, <2>6, <2>7, <2>8, <2>9, <2>11 DEF WalletInv
<1>2. CASE Discover
  <2> DEFINE S == CoinsOf(mem)
  <2>1. /\ UNCHANGED <<handed, mem, savedFile, scan, built>> /\ SameChain
        /\ scan.mode = "off" /\ gathered.by = "recover" /\ gathered \in Gatherings
        /\ gathered' = [gathered EXCEPT !.by = "report", !.coins = S]
    BY <1>2 DEF Discover, WalletInv, WalletType
  <2>2. S \in SUBSET unspent /\ S \in SUBSET Coins /\ IsFiniteSet(S)
    BY FS_Subset DEF CoinsOf, WalletInv, WalletType
  <2>3. gathered.since = payments => unspent \subseteq S
    BY <2>1 DEF WalletInv, WalletType, RecoveryIsOnItsWay, ChainIsFilled, CoinsOf, Coins
  <2> HIDE DEF S
  <2>4. [gathered EXCEPT !.by = "report", !.coins = S] \in Gatherings
    BY <2>1, <2>2 DEF Gatherings
  <2>5. /\ gathered'.by = "report" /\ gathered'.coins = S
        /\ gathered'.change = gathered.change /\ gathered'.since = gathered.since
    BY <2>1 DEF Gatherings
  <2>6. ChainIsFilled'
    BY <2>1, ChainKept DEF WalletInv
  <2>7. WalletType'
    BY <2>1, <2>2, <2>4, <2>5 DEF WalletInv, WalletType, SameChain
  <2>8. RecordsAreTrue(mem)' /\ RecordsAreTrue(savedFile)' /\ ChangeIsNext'
    BY <2>1, <2>5 DEF WalletInv, SameChain, RecordsAreTrue, ChangeIsNext, FilledBelow
  <2>9. ModesAgree'
    BY <2>1, <2>5 DEF WalletInv, SameChain, ModesAgree
  <2>10. RecoveryIsOnItsWay' /\ ReportIsComplete' /\ EarlyStopPays'
    BY <2>1, <2>3, <2>5
    DEF WalletInv, SameChain, RecoveryIsOnItsWay, ReportIsComplete, EarlyStopPays
  <2> QED
    BY <2>6, <2>7, <2>8, <2>9, <2>10 DEF WalletInv
<1> QED
  BY <1>1, <1>2

(* The watch-only scan takes the index after the last used one it saw.     *)
LEMMA WatchStep ==
  ASSUME WalletInv, WatchOnlyStep
  PROVE  WalletInv'
<1> DEFINE used == scan.index \in history[scan.chain]
           S == gathered.coins \cup {x \in unspent : x[1] = scan.chain /\ x[2] = scan.index}
           n == IF used /\ scan.chain = 1 THEN scan.index + 1 ELSE gathered.change
<1>1. /\ UNCHANGED <<handed, mem, savedFile, built>> /\ SameChain
      /\ scan \in Scans /\ gathered \in Gatherings /\ scan.mode = "watch"
      /\ scan' = AfterQuery(used)
  BY DEF WatchOnlyStep, WalletInv, WalletType
<1>2. gathered' = [gathered EXCEPT !.coins = S, !.change = n]
  BY <1>1 DEF WatchOnlyStep, Gatherings
<1>3. S \in SUBSET Coins /\ IsFiniteSet(S)
  <2>1. {x \in unspent : x[1] = scan.chain /\ x[2] = scan.index} \in SUBSET unspent
    OBVIOUS
  <2>2. IsFiniteSet({x \in unspent : x[1] = scan.chain /\ x[2] = scan.index})
    BY <2>1, FS_Subset DEF WalletInv, WalletType
  <2> QED
    BY <1>1, <2>1, <2>2, FS_Union DEF WalletInv, WalletType, Gatherings
<1>4. n \in Nat /\ FilledBelow(1, n)
  <2>1. CASE used /\ scan.chain = 1
    <3>1. scan.index \in Nat /\ scan.index \in history[1] /\ 1 \in HdChains
      BY <1>1, <2>1 DEF Scans, HdChains
    <3>2. FilledBelow(1, scan.index)
      BY <3>1 DEF WalletInv, ChainIsFilled
    <3>3. ASSUME NEW j \in Nat, j < scan.index + 1 PROVE j \in history[1]
      <4>1. j < scan.index \/ j = scan.index
        BY <3>1, <3>3
      <4> QED
        BY <3>1, <3>2, <4>1 DEF FilledBelow
    <3> QED
      BY <2>1, <3>1, <3>3 DEF FilledBelow
  <2>2. CASE ~(used /\ scan.chain = 1)
    BY <1>1, <2>2 DEF WalletInv, ChangeIsNext, Gatherings
  <2> QED
    BY <2>1, <2>2
<1>5. used \in BOOLEAN
  OBVIOUS
<1> HIDE DEF S, n, used
<1>6. [gathered EXCEPT !.coins = S, !.change = n] \in Gatherings
  BY <1>1, <1>3, <1>4 DEF Gatherings
<1>7. /\ gathered'.by = gathered.by /\ gathered'.coins = S
      /\ gathered'.change = n /\ gathered'.since = gathered.since
  BY <1>1, <1>2 DEF Gatherings
<1>8. scan' \in Scans /\ scan'.mode = "watch"
  BY <1>1, <1>5, AfterQueryIs
<1>9. gathered.by \notin {"recover", "report"}
  BY <1>1 DEF WalletInv, ModesAgree
<1>10. ChainIsFilled'
  BY <1>1, ChainKept DEF WalletInv
<1>11. WalletType'
  BY <1>1, <1>2, <1>3, <1>6, <1>7, <1>8 DEF WalletInv, WalletType, SameChain
<1>12. RecordsAreTrue(mem)' /\ RecordsAreTrue(savedFile)' /\ ChangeIsNext'
  BY <1>1, <1>4, <1>7 DEF WalletInv, SameChain, RecordsAreTrue, ChangeIsNext, FilledBelow
<1>13. ModesAgree'
  BY <1>1, <1>7, <1>8, <1>9 DEF WalletInv, SameChain, ModesAgree
<1>14. RecoveryIsOnItsWay' /\ ReportIsComplete' /\ EarlyStopPays'
  BY <1>1, <1>7, <1>9
  DEF WalletInv, SameChain, RecoveryIsOnItsWay, ReportIsComplete, EarlyStopPays
<1> QED
  BY <1>10, <1>11, <1>12, <1>13, <1>14 DEF WalletInv

(* A transaction is built from what was gathered.                          *)
LEMMA BuildKeeps ==
  ASSUME WalletInv, SameChain, UNCHANGED <<handed, mem, savedFile, scan, gathered>>,
         gathered.by \notin {"recover", "report"}, built' \in Builts,
         FilledBelow(built'.at[1], built'.at[2]), EarlyStopPays'
  PROVE  WalletInv'
<1>1. ChainIsFilled'
  BY ChainKept DEF WalletInv
<1>2. WalletType'
  BY DEF WalletInv, WalletType, SameChain
<1>3. RecordsAreTrue(mem)' /\ RecordsAreTrue(savedFile)' /\ ChangeIsNext'
  BY DEF WalletInv, SameChain, RecordsAreTrue, ChangeIsNext, FilledBelow
<1>4. ModesAgree'
  BY DEF WalletInv, SameChain, ModesAgree
<1>5. RecoveryIsOnItsWay' /\ ReportIsComplete'
  BY DEF WalletInv, SameChain, RecoveryIsOnItsWay, ReportIsComplete
<1> QED
  BY <1>1, <1>2, <1>3, <1>4, <1>5 DEF WalletInv

(* Its change goes to a next index, or to an earlier one.                  *)
LEMMA ChangeAtIsNext ==
  ASSUME WalletInv
  PROVE  ChangeAt \in HdChains \X Nat /\ FilledBelow(ChangeAt[1], ChangeAt[2])
<1>1. CASE gathered.by = "single"
  BY <1>1 DEF ChangeAt, FilledBelow, HdChains
<1>2. CASE gathered.by = "wallet"
  <2>1. mem \in Wallets /\ RecordsAreTrue(mem) /\ 1 \in HdChains
    BY <1>2 DEF WalletInv, WalletType, ModesAgree, HdChains
  <2>2. FirstUnused(mem, 1) \in Nat /\ FilledBelow(1, FirstUnused(mem, 1))
    BY <2>1, FirstUnusedIsNext DEF WalletInv
  <2> QED
    BY <1>2, <2>1, <2>2 DEF ChangeAt
<1>3. CASE gathered.by \notin {"single", "wallet"}
  BY <1>3 DEF ChangeAt, WalletInv, WalletType, ChangeIsNext, Gatherings, HdChains
<1> QED
  BY <1>1, <1>2, <1>3

(* A selection that stopped early covers the fee: the cushion is no less   *)
(* than what the trial measures.                                           *)
LEMMA PaymentKeeps ==
  ASSUME WalletInv, NEW p \in Nat, NEW cushion \in Nat, NEW sh \in 0 .. 1,
         cushion >= Overhead + 2 * OutBytes,
         gathered.by \notin {"recover", "report"}, Payment(p, cushion, sh)
  PROVE  WalletInv'
<1>1. PICK ins \in GreedySelect(gathered.coins, p, cushion) :
        LET fee == TxSize(Cardinality(ins), 2, sh)
            rest == Total(ins) - p - fee
        IN  /\ sh <= Cardinality(ins)
            /\ built' = [ins |-> ins, pay |-> p, at |-> ChangeAt,
                         back |-> IF rest >= SendDust THEN rest ELSE 0,
                         fee |-> IF rest >= SendDust THEN fee ELSE fee + rest,
                         selectedAll |-> ins = gathered.coins,
                         error |-> IF Total(ins) < p THEN "funds"
                                   ELSE IF rest < 0 THEN "fee" ELSE "none"]
  BY DEF Payment
<1>2. /\ ins \in SUBSET gathered.coins
      /\ Covers(ins, p, cushion) \/ ins = gathered.coins
  BY <1>1 DEF GreedySelect
<1>3. ins \in SUBSET Coins /\ IsFiniteSet(ins)
  BY <1>2, FS_Subset DEF WalletInv, WalletType, Gatherings
<1>4. Total(ins) \in Nat /\ Cardinality(ins) \in Nat
  BY <1>3, TotalIsNat
<1> DEFINE cost == InBytes * Cardinality(ins)
           fee == TxSize(Cardinality(ins), 2, sh)
           rest == Total(ins) - p - fee
           back == IF rest >= SendDust THEN rest ELSE 0
           paid == IF rest >= SendDust THEN fee ELSE fee + rest
           all == ins = gathered.coins
           err == IF Total(ins) < p THEN "funds" ELSE IF rest < 0 THEN "fee" ELSE "none"
<1>5. cost \in Nat
  BY <1>4, WalletSizes
<1>6. fee = Overhead + 2 * OutBytes + cost - sh
  BY DEF TxSize
<1>7. ins # gathered.coins => Total(ins) >= p + cushion + cost
  BY <1>2 DEF Covers
<1> HIDE DEF cost
<1>8. fee \in Int /\ fee <= Overhead + 2 * OutBytes + cost
  BY <1>5, <1>6, WalletSizes
<1> HIDE DEF fee
<1>9. rest \in Int /\ back \in Nat /\ paid \in Int /\ err \in {"none", "funds", "fee"}
  BY <1>4, <1>8, WalletSizes
<1>10. ins # gathered.coins => err = "none"
  <2> SUFFICES ASSUME ins # gathered.coins PROVE err = "none"
    OBVIOUS
  <2>1. Total(ins) >= p + cushion + cost
    BY <1>7
  <2>2. ~(Total(ins) < p) /\ ~(rest < 0)
    BY <1>4, <1>5, <1>8, <2>1, WalletSizes
  <2> HIDE DEF rest
  <2> QED
    BY <2>2
<1>11. built' = [ins |-> ins, pay |-> p, at |-> ChangeAt, back |-> back, fee |-> paid,
                 selectedAll |-> all, error |-> err]
  BY <1>1 DEF fee
<1>12. all \in BOOLEAN /\ (~all => err = "none")
  BY <1>10
<1> HIDE DEF rest, back, paid, err, all
<1>13. built' \in Builts
  BY <1>3, <1>9, <1>11, <1>12, ChangeAtIsNext DEF Builts
<1>14. built'.at = ChangeAt /\ built'.error = err /\ built'.selectedAll = all
  BY <1>11
<1>15. EarlyStopPays'
  BY <1>12, <1>14 DEF EarlyStopPays
<1>16. UNCHANGED <<handed, mem, savedFile, scan, gathered>> /\ SameChain
  BY DEF Payment
<1> QED
  BY <1>13, <1>14, <1>15, <1>16, ChangeAtIsNext, BuildKeeps

(* A sweep takes everything.                                               *)
LEMMA SweepKeeps ==
  ASSUME WalletInv, NEW sh \in 0 .. 1, gathered.by \notin {"recover", "report"}, Sweep(sh)
  PROVE  WalletInv'
<1> DEFINE fee == TxSize(Cardinality(gathered.coins), 1, sh)
           out == Total(gathered.coins) - fee
           err == IF out < SendDust THEN "fee" ELSE "none"
<1>1. gathered.coins \in SUBSET Coins /\ IsFiniteSet(gathered.coins)
  BY DEF WalletInv, WalletType, Gatherings
<1>2. Total(gathered.coins) \in Nat /\ Cardinality(gathered.coins) \in Nat
  BY <1>1, TotalIsNat
<1>3. fee \in Int
  BY <1>2, WalletSizes DEF TxSize
<1>4. out \in Int /\ err \in {"none", "fee"}
  BY <1>2, <1>3
<1>5. built' = [NotBuilt EXCEPT !.ins = gathered.coins, !.pay = out, !.fee = fee, !.error = err]
  BY DEF Sweep
<1> HIDE DEF fee, out, err
<1>6. built' = [ins |-> gathered.coins, pay |-> out, back |-> 0, at |-> <<1, 0>>, fee |-> fee,
                selectedAll |-> TRUE, error |-> err]
  BY <1>5 DEF NotBuilt
<1>7. built' \in Builts
  BY <1>1, <1>3, <1>4, <1>6 DEF Builts, HdChains
<1>8. built'.at = <<1, 0>> /\ built'.selectedAll
  BY <1>6
<1>9. EarlyStopPays' /\ FilledBelow(built'.at[1], built'.at[2])
  BY <1>8 DEF EarlyStopPays, FilledBelow
<1>10. UNCHANGED <<handed, mem, savedFile, scan, gathered>> /\ SameChain
  BY DEF Sweep
<1> QED
  BY <1>7, <1>9, <1>10, BuildKeeps

(* A payment or a change output: history at the next index, or at an       *)
(* earlier one.                                                            *)
LEMMA ChainGrows ==
  ASSUME WalletInv, NEW c \in HdChains, NEW i \in Nat, FilledBelow(c, i),
         history' \in [HdChains -> SUBSET Nat],
         \A b \in HdChains : history[b] \subseteq history'[b],
         \A b \in HdChains : \A j \in history'[b] : j \in history[b] \/ (b = c /\ j = i),
         unspent' \subseteq Coins, IsFiniteSet(unspent'),
         \A x \in unspent' :
           x \in unspent \/ (x[1] = c /\ x[2] = i /\ i \in history'[c]),
         payments' = payments + 1, UNCHANGED <<handed, mem, savedFile, scan>>,
         \/ gathered' = gathered /\ built' = built
         \/ gathered' = NothingFound /\ built' = NotBuilt
  PROVE  WalletInv'
<1>1. \A b \in HdChains, n \in Nat : FilledBelow(b, n) => FilledBelow(b, n)'
  BY DEF FilledBelow
<1>2. ChainIsFilled'
  <2>1. ASSUME NEW b \in HdChains, NEW j \in history'[b] PROVE FilledBelow(b, j)'
    <3>1. j \in Nat
      BY <2>1
    <3>2. CASE j \in history[b]
      BY <1>1, <3>1, <3>2 DEF WalletInv, ChainIsFilled
    <3>3. CASE b = c /\ j = i
      BY <1>1, <3>3
    <3> QED
      BY <3>2, <3>3
  <2>2. ASSUME NEW b \in HdChains PROVE \E n \in Nat : \A j \in history'[b] : j < n
    <3>1. PICK n \in Nat : \A j \in history[b] : j < n
      BY DEF WalletInv, ChainIsFilled
    <3>2. n + i + 1 \in Nat
      OBVIOUS
    <3>3. ASSUME NEW j \in history'[b] PROVE j < n + i + 1
      <4>1. j \in Nat /\ (j < n \/ j = i)
        BY <3>1
      <4> QED
        BY <4>1
    <3> QED
      BY <3>2, <3>3
  <2>3. ASSUME NEW x \in unspent' PROVE x[2] \in history'[x[1]]
    <3>1. CASE x \in unspent
      <4>1. x[1] \in HdChains
        BY <2>3 DEF Coins
      <4> QED
        BY <3>1, <4>1 DEF WalletInv, ChainIsFilled
    <3>2. CASE x \notin unspent
      BY <3>2
    <3> QED
      BY <3>1, <3>2
  <2>4. ASSUME NEW a \in handed PROVE FilledBelow(a[1], a[2])'
    <3>1. a[1] \in HdChains /\ a[2] \in Nat
      BY DEF WalletInv, WalletType
    <3> QED
      BY <1>1, <3>1 DEF WalletInv, ChainIsFilled
  <2> QED
    BY <2>1, <2>2, <2>3, <2>4 DEF ChainIsFilled
<1>3. gathered' \in Gatherings /\ IsFiniteSet(gathered'.coins) /\ built' \in Builts
  <2>1. IsFiniteSet(NothingFound.coins)
    BY FS_EmptySet DEF NothingFound, FoundBy
  <2> QED
    BY <2>1, NothingIsTyped DEF WalletInv, WalletType
<1>4. WalletType'
  BY <1>3 DEF WalletInv, WalletType
<1>5. RecordsAreTrue(mem)' /\ RecordsAreTrue(savedFile)'
  BY DEF WalletInv, RecordsAreTrue
<1>6. ChangeIsNext'
  <2>1. CASE gathered' = gathered /\ built' = built
    <3>1. /\ 1 \in HdChains /\ gathered.change \in Nat
          /\ built.at[1] \in HdChains /\ built.at[2] \in Nat
      BY DEF WalletInv, WalletType, Gatherings, Builts, HdChains
    <3> QED
      BY <1>1, <2>1, <3>1 DEF WalletInv, ChangeIsNext
  <2>2. CASE gathered' = NothingFound /\ built' = NotBuilt
    BY <2>2 DEF ChangeIsNext, NothingFound, FoundBy, NotBuilt, FilledBelow
  <2> QED
    BY <2>1, <2>2
<1>7. gathered'.since <= payments /\ payments \in Nat /\ gathered'.since \in Nat
  BY <1>3 DEF WalletInv, WalletType, ModesAgree, NothingFound, FoundBy, Gatherings
<1>8. gathered'.since # payments' /\ gathered'.since <= payments'
  BY <1>7
<1>9. ModesAgree'
  BY <1>8 DEF WalletInv, ModesAgree, NothingFound, FoundBy
<1>10. RecoveryIsOnItsWay' /\ ReportIsComplete'
  BY <1>8 DEF RecoveryIsOnItsWay, ReportIsComplete
<1>11. EarlyStopPays'
  BY DEF WalletInv, EarlyStopPays, NotBuilt
<1> QED
  BY <1>2, <1>4, <1>5, <1>6, <1>9, <1>10, <1>11 DEF WalletInv

(* A payer pays to an address it was given.                                *)
LEMMA PayKeeps ==
  ASSUME WalletInv, NEW a \in handed, NEW v \in PayValues, PayTo(a, v)
  PROVE  WalletInv'
<1> DEFINE c == a[1]
           i == a[2]
<1>1. c \in HdChains /\ i \in Nat /\ FilledBelow(c, i) /\ v \in Nat
  BY WalletSizes DEF WalletInv, WalletType, ChainIsFilled
<1>2. /\ unspent' = unspent \cup {<<c, i, v>>}
      /\ history' = [history EXCEPT ![c] = history[c] \cup {i}]
      /\ payments' = payments + 1 /\ UNCHANGED <<handed, mem, savedFile, scan, gathered, built>>
  BY DEF PayTo
<1>3. /\ history \in [HdChains -> SUBSET Nat] /\ unspent \subseteq Coins /\ IsFiniteSet(unspent)
  BY DEF WalletInv, WalletType
<1> HIDE DEF c, i
<1>4. /\ history' \in [HdChains -> SUBSET Nat] /\ i \in history'[c]
      /\ \A b \in HdChains : history[b] \subseteq history'[b]
      /\ \A b \in HdChains : \A j \in history'[b] : j \in history[b] \/ (b = c /\ j = i)
  BY <1>1, <1>2, <1>3
<1>5. /\ unspent' \subseteq Coins
      /\ \A x \in unspent' : x \in unspent \/ (x[1] = c /\ x[2] = i /\ i \in history'[c])
  BY <1>1, <1>2, <1>3, <1>4 DEF Coins
<1>6. IsFiniteSet(unspent')
  BY <1>2, <1>3, FS_AddElement
<1> QED
  BY <1>1, <1>2, <1>4, <1>5, <1>6, ChainGrows

(* A transaction goes out.                                                 *)
LEMMA BroadcastKeeps ==
  ASSUME WalletInv, BroadcastBuilt
  PROVE  WalletInv'
<1> DEFINE c == built.at[1]
           i == built.at[2]
           kept == unspent \ built.ins
<1>1. c \in HdChains /\ i \in Nat /\ FilledBelow(c, i) /\ built.back \in Nat
  BY DEF WalletInv, WalletType, ChangeIsNext, Builts
<1>2. /\ history \in [HdChains -> SUBSET Nat] /\ kept \subseteq Coins
      /\ kept \subseteq unspent /\ IsFiniteSet(kept)
  BY FS_Difference DEF WalletInv, WalletType
<1>3. /\ payments' = payments + 1 /\ UNCHANGED <<handed, mem, savedFile, scan>>
      /\ gathered' = NothingFound /\ built' = NotBuilt
  BY DEF BroadcastBuilt
<1>4. CASE built.back > 0
  <2>1. /\ unspent' = kept \cup {<<c, i, built.back>>}
        /\ history' = [history EXCEPT ![c] = history[c] \cup {i}]
    BY <1>4 DEF BroadcastBuilt
  <2> HIDE DEF c, i, kept
  <2>2. /\ history' \in [HdChains -> SUBSET Nat] /\ i \in history'[c]
        /\ \A b \in HdChains : history[b] \subseteq history'[b]
        /\ \A b \in HdChains : \A j \in history'[b] : j \in history[b] \/ (b = c /\ j = i)
    BY <1>1, <1>2, <2>1
  <2>3. /\ unspent' \subseteq Coins
        /\ \A x \in unspent' : x \in unspent \/ (x[1] = c /\ x[2] = i /\ i \in history'[c])
    BY <1>1, <1>2, <2>1, <2>2 DEF Coins
  <2>4. IsFiniteSet(unspent')
    BY <1>2, <2>1, FS_AddElement
  <2> QED
    BY <1>1, <1>3, <2>2, <2>3, <2>4, ChainGrows
<1>5. CASE ~(built.back > 0)
  <2>1. unspent' = kept /\ history' = history
    BY <1>5 DEF BroadcastBuilt
  <2> HIDE DEF c, i, kept
  <2>2. /\ history' \in [HdChains -> SUBSET Nat]
        /\ \A b \in HdChains : history[b] \subseteq history'[b]
        /\ \A b \in HdChains : \A j \in history'[b] : j \in history[b] \/ (b = c /\ j = i)
        /\ unspent' \subseteq Coins /\ IsFiniteSet(unspent')
        /\ \A x \in unspent' : x \in unspent \/ (x[1] = c /\ x[2] = i /\ i \in history'[c])
    BY <1>2, <2>1
  <2> QED
    BY <1>1, <1>3, <2>2, ChainGrows
<1> QED
  BY <1>4, <1>5

(* The builders of transactions.                                           *)
LEMMA SendSteps ==
  ASSUME WalletInv, NEW sh \in 0 .. 1,
         \/ \E p \in SendAmounts : WalletSend(p, sh) \/ RxdBuildSendTx(p, sh)
         \/ BuildSendMaxTx(sh) \/ RxdBuildSendMaxTx(sh)
  PROVE  WalletInv'
<1>0. /\ 0 \in 0 .. 1 /\ Overhead + 2 * OutBytes \in Nat /\ Overhead + 2 * OutBytes + 2 \in Nat
      /\ Overhead + 2 * OutBytes >= Overhead + 2 * OutBytes
      /\ Overhead + 2 * OutBytes + 2 >= Overhead + 2 * OutBytes
  BY WalletSizes
<1>1. ASSUME NEW p \in SendAmounts, WalletSend(p, sh) \/ RxdBuildSendTx(p, sh) PROVE WalletInv'
  <2>1. p \in Nat
    BY WalletSizes
  <2>2. CASE WatchOnlyBuildSend(p)
    <3>1. gathered.by \notin {"recover", "report"} /\ Payment(p, Overhead + 2 * OutBytes, 0)
      BY <2>2 DEF WatchOnlyBuildSend
    <3> QED
      BY <1>0, <2>1, <3>1, PaymentKeeps
  <2>3. CASE BuildSendTx(p, sh) \/ RxdBuildSendTx(p, sh)
    <3>1. gathered.by \notin {"recover", "report"} /\ Payment(p, Overhead + 2 * OutBytes + 2, sh)
      BY <2>3 DEF BuildSendTx, RxdBuildSendTx
    <3> QED
      BY <1>0, <2>1, <3>1, PaymentKeeps
  <2> QED
    BY <1>1, <2>2, <2>3 DEF WalletSend
<1>2. CASE BuildSendMaxTx(sh) \/ RxdBuildSendMaxTx(sh)
  BY <1>2, SweepKeeps DEF BuildSendMaxTx, RxdBuildSendMaxTx
<1> QED
  BY <1>1, <1>2

(* Every step of the wallet, its payers and its server.                    *)
LEMMA WalletInvNext == WalletInv /\ [WalletNext]_walletVars => WalletInv'
<1> SUFFICES ASSUME WalletInv, [WalletNext]_walletVars PROVE WalletInv'
  OBVIOUS
<1>1. CASE UNCHANGED walletVars
  <2>1. WalletType' /\ ChainIsFilled' /\ RecordsAreTrue(mem)' /\ RecordsAreTrue(savedFile)'
    BY <1>1 DEF walletVars, WalletInv, WalletType, ChainIsFilled, RecordsAreTrue, FilledBelow
  <2>2. ChangeIsNext' /\ ModesAgree' /\ RecoveryIsOnItsWay'
    BY <1>1 DEF walletVars, WalletInv, ChangeIsNext, ModesAgree, RecoveryIsOnItsWay, SeenSoFar,
                FilledBelow
  <2>3. ReportIsComplete' /\ EarlyStopPays'
    BY <1>1 DEF walletVars, WalletInv, ReportIsComplete, EarlyStopPays
  <2> QED
    BY <2>1, <2>2, <2>3 DEF WalletInv
<1>2. CASE WalletNew \/ LoadWallet \/ FromMnemonic \/ SaveWallet \/ ExitWallet
  BY <1>2, FileSteps
<1>3. CASE NextReceiveAddress \/ NextInternalAddress
  BY <1>3, AddressSteps
<1>4. ASSUME NEW a \in handed, NEW v \in PayValues, PayTo(a, v) PROVE WalletInv'
  BY <1>4, PayKeeps
<1>5. CASE Refresh \/ WatchOnlyEnds
  BY <1>5, ScanModes
<1>6. CASE ScanChain
  BY <1>6, ScanStep
<1>7. CASE ScanChainEnds
  BY <1>7, ScanEnds
<1>8. CASE WalletRecover \/ Discover
  BY <1>8, RecoverSteps
<1>9. CASE \/ RefreshFails \/ WatchOnlyScan \/ RxdWalletUtxos
           \/ \E failed \in SUBSET HdChains : CollectSpendable(failed)
  BY <1>9, GatheringSteps
<1>10. CASE WatchOnlyStep
  BY <1>10, WatchStep
<1>11. ASSUME NEW sh \in 0 .. 1,
              \/ \E p \in SendAmounts : WalletSend(p, sh) \/ RxdBuildSendTx(p, sh)
              \/ BuildSendMaxTx(sh) \/ RxdBuildSendMaxTx(sh)
       PROVE  WalletInv'
  BY <1>11, SendSteps
<1>12. CASE BroadcastBuilt
  BY <1>12, BroadcastKeeps
<1> QED
  BY <1>1, <1>2, <1>3, <1>4, <1>5, <1>6, <1>7, <1>8, <1>9, <1>10, <1>11, <1>12 DEF WalletNext

(* On a first segment the gap is never reached.                            *)
LEMMA WalletInvSuffices == WalletInv => CoinsAreKept
<1> SUFFICES ASSUME WalletInv PROVE CoinsAreRecoverable
  BY DEF WalletInv, CoinsAreKept
<1> SUFFICES ASSUME NEW x \in unspent, NEW k \in Gap .. x[2]
             PROVE  \E j \in k - Gap .. k - 1 : j \in history[x[1]]
  BY DEF CoinsAreRecoverable, Reached
<1>1. x[1] \in HdChains /\ x[2] \in Nat /\ Gap \in Nat \ {0}
  BY WalletSizes DEF WalletInv, WalletType, Coins
<1>2. FilledBelow(x[1], x[2])
  BY <1>1 DEF WalletInv, ChainIsFilled
<1>3. k - 1 \in Nat /\ k - 1 < x[2] /\ k - 1 \in k - Gap .. k - 1
  BY <1>1
<1>4. k - 1 \in history[x[1]]
  BY <1>2, <1>3 DEF FilledBelow
<1> QED
  BY <1>3, <1>4

(* For any gap limit, payments, amounts and sizes the invariant holds      *)
(* throughout: however processes are lost, scans break off and files are   *)
(* stale, history is on a first segment of each chain.                     *)
THEOREM WalletInvariant == WalletSpec => []WalletInv
<1>1. WalletInit => WalletInv
  BY WalletInvInit
<1>2. WalletInv /\ [WalletNext]_walletVars => WalletInv'
  BY WalletInvNext
<1> QED
  BY <1>1, <1>2, PTL DEF WalletSpec

(* The HD wallet (hd/wallet.py, hd/discovery.py, agent/discover.py,        *)
(* agent/watch_only.py): every coin is within the gap limit of a scan from *)
(* the mnemonic, what wallet recover reports is complete if nothing moved  *)
(* meanwhile, and a selection that stops early pays its fee.               *)
THEOREM CoinsAreFoundAgain == WalletSpec => []CoinsAreKept
<1>1. WalletInv => CoinsAreKept
  BY WalletInvSuffices
<1> QED
  BY <1>1, WalletInvariant, PTL
==============================================================================
