----------------------------- MODULE ElectrumX -----------------------------
(***************************************************************************)
(* network/electrumx.py: one ElectrumXClient shared by several coroutines. *)
(* Every call registers a future under its JSON-RPC id, sends under a lock *)
(* and waits; one reader task reads the socket and resolves the futures.   *)
(* A step is what runs between two awaits.  A socket is a number; 0 stands *)
(* for no socket, no reader socket, no request.                            *)
(***************************************************************************)
EXTENDS Naturals, FiniteSets

CONSTANTS
  Callers,   \* coroutines that share the client
  Method,    \* the request each of them makes
  MaxIds,    \* bound on requests
  MaxSockets \* bound on connections made

ASSUME IdsAssumption == MaxIds \in Nat

VARIABLES
  ws,       \* self._ws
  open,     \* history: sockets neither side has closed
  made,     \* history: sockets made so far
  reader,   \* the reader task: state and the socket it waits on
  pending,  \* the ids registered in self._pending
  fut,      \* what each future was resolved with
  call,     \* the coroutines
  lock,     \* holder of _send_lock
  lastId,   \* _id_counter
  asked,    \* requests a server has received and may answer, on their sockets
  closing   \* close(): where it is suspended

vars == <<ws, open, made, reader, pending, fut, call, lock, lastId, asked, closing>>

(* What the type of a result is for each request, and whether the shape    *)
(* inside it is checked too (get_transaction_verbose returns any object).  *)
ResultType ==
  [get_transaction |-> "str", get_transaction_verbose |-> "dict",
   get_transaction_merkle |-> "dict", broadcast |-> "str", get_balance |-> "dict",
   get_utxos |-> "list", get_history |-> "list", get_block_header |-> "str",
   get_tip_height |-> "dict", call_extension |-> "any"]

Parses(method, result) ==
  \/ ResultType[method] = "any"
  \/ method = "get_transaction_verbose" /\ result.type = "dict"
  \/ result.type = ResultType[method] /\ result.wellFormed

NoReader == [st |-> "none", on |-> 0]
Unresolved == [kind |-> "none", of |-> 0]
Failure == [kind |-> "error", of |-> 0]
Results == {[type |-> t, wellFormed |-> w] : t \in {"str", "dict", "list"}, w \in BOOLEAN}
Idle == [pc |-> "idle", id |-> 0, sock |-> 0, got |-> Unresolved]

Init ==
  /\ ws = 0 /\ open = {} /\ made = 0 /\ reader = NoReader
  /\ pending = {} /\ fut = [i \in 1..MaxIds |-> Unresolved]
  /\ call = [c \in Callers |-> Idle] /\ lock = "none" /\ lastId = 0
  /\ asked = {} /\ closing = "no"

------------------------------------------------------- (* the pending map *)

(* Mutation: the map is cleared and the futures are forgotten.             *)
ForgetAllPending ==
  /\ pending' = {}
  /\ UNCHANGED fut

(* Every registered future that is not done fails, and the map is empty.   *)
FailAllPending ==
  /\ fut' = [i \in 1..MaxIds |->
              IF i \in pending /\ fut[i] = Unresolved THEN Failure ELSE fut[i]]
  /\ pending' = {}

(* The caller leaves _call: its finally pops its entry.                    *)
Return(c, got) ==
  /\ call' = [call EXCEPT ![c] = [@ EXCEPT !.pc = "done", !.got = got]]
  /\ pending' = pending \ {call[c].id}

----------------------------------------------------------- (* connecting *)

(* From _ensure_connected to the first await of the send: the reader is    *)
(* started if none runs, the id is taken, the future registered, and the   *)
(* send starts if the lock is free.                                        *)
Register(c, sock) ==
  /\ reader' = IF reader.st = "none" THEN [st |-> "start", on |-> 0] ELSE reader
  /\ lastId' = lastId + 1 /\ pending' = pending \cup {lastId + 1}
  /\ lock' = IF lock = "none" THEN c ELSE lock
  /\ call' = [call EXCEPT ![c] =
                [@ EXCEPT !.id = lastId + 1,
                          !.pc = IF lock = "none" THEN "sending" ELSE "locking",
                          !.sock = IF lock = "none" THEN sock ELSE 0]]

(* A call on a client that has a socket.                                   *)
CallConnected(c) ==
  /\ call[c].pc = "idle" /\ lastId < MaxIds /\ ws # 0
  /\ Register(c, ws)
  /\ UNCHANGED <<ws, open, made, fut, asked, closing>>

(* A client without one connects first; nothing keeps two calls apart.     *)
EnsureConnected(c) ==
  /\ call[c].pc = "idle" /\ lastId < MaxIds /\ ws = 0
  /\ call' = [call EXCEPT ![c].pc = "connecting"]
  /\ UNCHANGED <<ws, open, made, reader, pending, fut, lock, lastId, asked, closing>>

(* _connect_first: of the endpoints that connect by the deadline one wins  *)
(* and the others are closed.                                              *)
ConnectFirst(c) ==
  /\ call[c].pc = "connecting" /\ lastId < MaxIds /\ made < MaxSockets
  /\ made' = made + 1 /\ open' = open \cup {made + 1} /\ ws' = made + 1
  /\ Register(c, made + 1)
  /\ UNCHANGED <<fut, asked, closing>>

ConnectFails(c) ==
  /\ call[c].pc = "connecting"
  /\ Return(c, Failure)
  /\ UNCHANGED <<ws, open, made, reader, fut, lock, lastId, asked, closing>>

--------------------------------------------------------------- (* a call *)

(* The lock comes free: without a socket by now the call fails.            *)
Send(c) ==
  /\ call[c].pc = "locking" /\ lock = "none"
  /\ IF ws = 0
     THEN Return(c, Failure) /\ UNCHANGED lock
     ELSE /\ lock' = c
          /\ call' = [call EXCEPT ![c] = [@ EXCEPT !.pc = "sending", !.sock = ws]]
          /\ UNCHANGED pending
  /\ UNCHANGED <<ws, open, made, reader, fut, lastId, asked, closing>>

Sent(c) ==
  /\ call[c].pc = "sending" /\ call[c].sock \in open
  /\ lock' = "none"
  /\ asked' = asked \cup {<<call[c].sock, call[c].id>>}
  /\ call' = [call EXCEPT ![c].pc = "waiting"]
  /\ UNCHANGED <<ws, open, made, reader, pending, fut, lastId, closing>>

(* A send error, or the send's own timeout: the request may have left.     *)
SendFails(c) ==
  /\ call[c].pc = "sending" /\ lock' = "none"
  /\ \/ UNCHANGED asked
     \/ call[c].sock \in open /\ asked' = asked \cup {<<call[c].sock, call[c].id>>}
  /\ Return(c, Failure)
  /\ UNCHANGED <<ws, open, made, reader, fut, lastId, closing>>

(* The future is resolved: the caller parses the result, or fails.         *)
Answered(c) ==
  /\ call[c].pc = "waiting" /\ fut[call[c].id] # Unresolved
  /\ \E result \in Results :
       Return(c, IF Parses(Method[c], result) THEN fut[call[c].id] ELSE Failure)
  /\ UNCHANGED <<ws, open, made, reader, fut, lock, lastId, asked, closing>>

(* Or the request times out.                                              *)
TimesOut(c) ==
  /\ call[c].pc = "waiting" /\ fut[call[c].id] = Unresolved
  /\ Return(c, Failure)
  /\ UNCHANGED <<ws, open, made, reader, fut, lock, lastId, asked, closing>>

(* The coroutine calls again.                                              *)
Again(c) ==
  /\ call[c].pc = "done" /\ lastId < MaxIds
  /\ call' = [call EXCEPT ![c] = Idle]
  /\ UNCHANGED <<ws, open, made, reader, pending, fut, lock, lastId, asked, closing>>

------------------------------------------------------------- (* the reader *)

(* The top of the loop: without a socket the reader ends.                  *)
ReaderTop ==
  /\ reader.st = "start"
  /\ reader' = IF ws = 0 THEN NoReader ELSE [st |-> "recv", on |-> ws]
  /\ UNCHANGED <<ws, open, made, pending, fut, call, lock, lastId, asked, closing>>

(* Mutation: the answer goes to whoever asked first.                       *)
FirstAsked(i) == {j \in pending : \A k \in pending : j <= k}

(* The future an answer to request i resolves: the one registered under i. *)
Matching(i) == pending \cap {i}

(* A message: an answer (a result or an error), or one to skip.  An answer *)
(* nobody waits for any more is dropped.                                   *)
Receive ==
  /\ reader.st = "recv"
  /\ \E q \in asked :
       /\ q[1] = reader.on /\ asked' = asked \ {q}
       /\ pending' = pending \ Matching(q[2])
       /\ \E answer \in {Failure, [kind |-> "result", of |-> q[2]]} :
            fut' = [i \in 1..MaxIds |->
                      IF i \in Matching(q[2]) /\ fut[i] = Unresolved THEN answer ELSE fut[i]]
  /\ reader' = [st |-> "start", on |-> 0]
  /\ UNCHANGED <<ws, open, made, call, lock, lastId, closing>>

(* Oversized message: every call fails, the reader ends, the socket stays  *)
(* open.                                                                   *)
Oversized ==
  /\ reader.st = "recv" /\ reader.on \in open
  /\ FailAllPending
  /\ reader' = NoReader /\ ws' = 0
  /\ UNCHANGED <<open, made, call, lock, lastId, asked, closing>>

(* The connection ends under the reader.                                   *)
ConnectionLost ==
  /\ reader.st = "recv" /\ reader.on \notin open
  /\ FailAllPending
  /\ reader' = NoReader /\ ws' = 0
  /\ UNCHANGED <<open, made, call, lock, lastId, asked, closing>>

(* External: a server closes a connection.                                 *)
ServerCloses ==
  /\ \E s \in open :
       /\ open' = open \ {s}
       /\ asked' = {q \in asked : q[1] # s}
  /\ UNCHANGED <<ws, made, reader, pending, fut, call, lock, lastId, closing>>

-------------------------------------------------------------- (* close() *)

(* The reader is cancelled and awaited: it fails every pending call.       *)
CloseReader ==
  /\ closing = "no" /\ (ws # 0 \/ reader.st # "none")
  /\ closing' = "socket"
  /\ IF reader.st = "none"
     THEN UNCHANGED <<ws, pending, fut>>
     ELSE ws' = 0 /\ FailAllPending
  /\ reader' = NoReader
  /\ UNCHANGED <<open, made, call, lock, lastId, asked>>

(* Then the socket that is left is closed, and whatever is pending fails.  *)
Close ==
  /\ closing = "socket"
  /\ closing' = "closed"
  /\ open' = open \ {ws} /\ asked' = {q \in asked : q[1] # ws}
  /\ ws' = 0 /\ FailAllPending
  /\ UNCHANGED <<made, reader, call, lock, lastId>>

Next ==
  \/ \E c \in Callers :
       \/ CallConnected(c) \/ EnsureConnected(c) \/ ConnectFirst(c) \/ ConnectFails(c)
       \/ Send(c) \/ Sent(c) \/ SendFails(c) \/ Answered(c) \/ TimesOut(c) \/ Again(c)
  \/ ReaderTop \/ Receive \/ Oversized \/ ConnectionLost \/ ServerCloses
  \/ CloseReader \/ Close

Spec == Init /\ [][Next]_vars

------------------------------------------------------------ (* properties *)

(* Every call gets the answer to its own request or an error, whatever     *)
(* overlaps; and a call that waits is one the reader, or the end of the    *)
(* connection, can still wake: its future is in the map until it is        *)
(* resolved (_call, _reader_loop, _fail_all_pending).                      *)
EveryWaitIsAnswerable ==
  \A c \in Callers :
    /\ call[c].pc = "done" /\ call[c].got.kind = "result" => call[c].got.of = call[c].id
    /\ call[c].pc = "waiting" => call[c].id \in pending \/ fut[call[c].id] # Unresolved

(* Refuted: the single reader task dispatches the answers of every         *)
(* connection a caller waits on (_call's and _reader_loop's docstrings).   *)
ReaderOnEveryWait ==
  \A c \in Callers :
    call[c].pc = "waiting" /\ fut[call[c].id] = Unresolved /\ call[c].sock \in open
    => reader.st = "start" \/ reader.on = call[c].sock
=============================================================================
