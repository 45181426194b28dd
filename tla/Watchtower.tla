----------------------------- MODULE Watchtower -----------------------------
(***************************************************************************)
(* The watchtower process and its dead-man's switch: run_loop              *)
(* (watch/daemon.py) ticks the Reconciler (watch/reconciler.py), which     *)
(* lists the records, observes and decides each swap, runs the executor    *)
(* and hands the decision to the DedupAlerter (watch/alerts.py); after a   *)
(* tick the FileHeartbeat is written, and the DeadMansSwitch of another    *)
(* process (watch/heartbeat.py) reads it.  The operator acknowledges pages *)
(* through the FileAckInbox.                                               *)
(*                                                                         *)
(* What observe() and decide() would conclude about a swap now is sit[s],  *)
(* which changes by itself; "ERROR" stands for an observe or decide that   *)
(* raises, "CORRUPT" for a record file that does not parse, "DONE" for a   *)
(* terminal record.  sit[Store] says whether the records directory can be  *)
(* listed.  A tick may exceed its budget at any of its awaits.             *)
(***************************************************************************)
EXTENDS Integers

CONSTANTS
  Swaps,        \* the ids of the records in the directory
  Store,        \* the swap_id of pages about the records store
  Situations,   \* the situations a swap can be in
  RepageEvery,  \* repage_critical_every_ticks
  MaxSilence,   \* max_silence_s, in intervals of the monitor
  Tolerance,    \* _CLOCK_SKEW_TOLERANCE_S, in the same unit
  MaxSkew,      \* how far the tower's clock ever runs ahead of the monitor's
  Skews,        \* the leads it can have when it dates a heartbeat
  AckIds,       \* the ids the operator acknowledges
  MaxCrashes    \* bound on crashes of the tower

Ids == Swaps \cup {Store}

AllSituations == {"WATCH", "PAGE_CLAIM", "PAGE_SQUEEZED", "PAGE_REFUND", "ERROR",
                  "CORRUPT", "DONE"}
Intents == {"WATCH", "PAGE_CLAIM", "PAGE_SQUEEZED", "PAGE_REFUND"}
NoIntent == "none"

ASSUME WatchtowerAssumption ==
  /\ Store \notin Swaps
  /\ Situations \subseteq AllSituations /\ "WATCH" \in Situations
  /\ RepageEvery \in Nat \ {0} /\ MaxSilence \in Nat \ {0} /\ Tolerance \in Nat
  /\ MaxSkew \in Nat /\ Skews \subseteq 0 .. MaxSkew /\ Skews # {}
  /\ AckIds \subseteq Ids /\ MaxCrashes \in Nat

VARIABLES
  sit,                      \* what the tower would conclude about each id now
  pc,                       \* the await (or file operation) the loop is at
  queue,                    \* the swaps this tick still has to reconcile
  current,                  \* the id it is at
  decided,                  \* the situation behind the current decision
  inflight,                 \* Reconciler._inflight
  last, acked, criticalTicks,             \* DedupAlerter
  undelivered,              \* some page of this tick was not delivered
  inbox, draining, append,  \* FileAckInbox and the operator's echo
  beat, since,              \* the heartbeat file and the time since it was written
  fired,                    \* DeadMansSwitch._fired
  alarmed, sendFailed,      \* since the last beat: its page stood, a send failed
  delivered,                \* the situation the operator was last paged about
  crashes

tick    == <<queue, current, decided, inflight>>
alerter == <<last, acked, criticalTicks>>
ackFile == <<inbox, draining, append>>
monitor == <<since, fired, alarmed, sendFailed>>
vars == <<sit, pc, tick, alerter, undelivered, ackFile, beat, monitor, delivered, crashes>>

(* No verdict of the monitor changes after this much silence.              *)
Horizon == MaxSilence + Tolerance + MaxSkew + 2

Beats == [exists : BOOLEAN, skew : Nat, undelivered : BOOLEAN]

TypeOK ==
  /\ sit \in [Ids -> AllSituations]
  /\ pc \in {"down", "start", "drain", "unlink", "list", "next", "observe", "execute",
             "handle"}
  /\ queue \subseteq Swaps /\ current \in Ids /\ decided \in AllSituations
  /\ inflight \subseteq Swaps
  /\ last \in [Ids -> Intents \cup {NoIntent}] /\ acked \in [Ids -> Intents \cup {NoIntent}]
  /\ criticalTicks \in [Ids -> 0 .. RepageEvery]
  /\ undelivered \in BOOLEAN
  /\ inbox \subseteq Ids /\ draining \subseteq Ids
  /\ append \in [to : {"none", "inbox", "draining", "orphan"}, id : Ids]
  /\ beat \in Beats /\ since \in 0 .. Horizon
  /\ fired \in BOOLEAN /\ alarmed \in BOOLEAN /\ sendFailed \in BOOLEAN
  /\ delivered \in [Ids -> AllSituations \cup {NoIntent}]
  /\ crashes \in 0 .. MaxCrashes

Init ==
  /\ sit = [i \in Ids |-> "WATCH"]
  /\ pc = "start" /\ queue = {} /\ current = Store /\ decided = "WATCH" /\ inflight = {}
  /\ last = [i \in Ids |-> NoIntent] /\ acked = last
  /\ criticalTicks = [i \in Ids |-> 0]
  /\ undelivered = FALSE
  /\ inbox = {} /\ draining = {}
  /\ append = [to |-> "none", id |-> Store]
  /\ beat = [exists |-> FALSE, skew |-> 0, undelivered |-> FALSE] /\ since = 0
  /\ fired = FALSE /\ alarmed = FALSE /\ sendFailed = FALSE
  /\ delivered = [i \in Ids |-> NoIntent]
  /\ crashes = 0

(* An observe or decide that raises, or an unreadable store, becomes a     *)
(* PAGE_SQUEEZED decision.                                                 *)
IntentOf(situation) == IF situation = "ERROR" THEN "PAGE_SQUEEZED" ELSE situation

Critical(intent) == intent \in {"PAGE_CLAIM", "PAGE_SQUEEZED"}

----------------------------------------------------- (* FileAckInbox *)

(* The operator's shell opens the inbox for appending, then writes the id. *)
OperatorOpens ==
  /\ append.to = "none"
  /\ \E i \in AckIds : append' = [to |-> "inbox", id |-> i]
  /\ UNCHANGED <<sit, pc, tick, alerter, undelivered, inbox, draining, beat,
                 monitor, delivered, crashes>>

(* The write goes to the file that was opened, whatever its name is now; a *)
(* file that was read already, or unlinked, has no reader any more.        *)
OperatorWrites ==
  /\ append.to # "none" /\ append' = [append EXCEPT !.to = "none"]
  /\ CASE append.to = "inbox" ->
            inbox' = inbox \cup {append.id} /\ UNCHANGED draining
       [] append.to = "draining" /\ pc = "drain" ->
            draining' = draining \cup {append.id} /\ UNCHANGED inbox
       [] OTHER -> UNCHANGED <<inbox, draining>>
  /\ UNCHANGED <<sit, pc, tick, alerter, undelivered, beat, monitor, delivered, crashes>>

(* drain: os.replace takes the inbox aside.  What a crash in the middle of *)
(* the last drain left there is not read any more.                         *)
DrainRename ==
  /\ pc = "start" /\ pc' = "drain"
  /\ draining' = inbox /\ inbox' = {}
  /\ append' = IF append.to = "inbox" THEN [append EXCEPT !.to = "draining"]
               ELSE IF append.to = "draining" THEN [append EXCEPT !.to = "orphan"] ELSE append
  /\ UNCHANGED <<sit, tick, alerter, undelivered, beat, monitor, delivered, crashes>>

(* Mutation: the intent that the swap is in now is acknowledged.           *)
AcksCurrentIntent(ids) ==
  [i \in Ids |-> IF i \in ids /\ Critical(IntentOf(sit[i])) THEN IntentOf(sit[i])
                 ELSE acked[i]]

(* DedupAlerter.ack for every id read: the intent of its last page.  The   *)
(* ids are acknowledged once the file is unlinked; until then only a crash *)
(* could tell, and it forgets them either way.                             *)
AckAll(ids) == [i \in Ids |-> IF i \in ids /\ Critical(last[i]) THEN last[i] ELSE acked[i]]

DrainRead ==
  /\ pc = "drain" /\ pc' = "unlink"
  /\ acked' = AckAll(draining) /\ draining' = {}
  /\ UNCHANGED <<sit, tick, last, criticalTicks, undelivered, inbox, append, beat, monitor,
                 delivered, crashes>>

DrainUnlink ==
  /\ pc = "unlink" /\ pc' = "list"
  /\ append' = IF append.to = "draining" THEN [append EXCEPT !.to = "orphan"] ELSE append
  /\ UNCHANGED <<sit, tick, alerter, undelivered, inbox, draining, beat, monitor,
                 delivered, crashes>>

------------------------------------------------------- (* Reconciler *)

Readable(s) == sit[s] # "CORRUPT"

(* JsonDirRecordStore.list_active raises: no directory, or not one of its  *)
(* records parses.                                                         *)
StoreUnreadable ==
  \/ sit[Store] = "ERROR"
  \/ Swaps # {} /\ \A s \in Swaps : ~Readable(s)

(* Mutation: the store's page goes through _reconcile_one.                 *)
StoreReconciledAsSwap ==
  /\ pc = "list"
  /\ undelivered' = FALSE
  /\ queue' = IF StoreUnreadable THEN {Store} ELSE {s \in Swaps : Readable(s)}
  /\ pc' = "next"
  /\ UNCHANGED <<sit, current, decided, inflight, alerter, ackFile, beat, monitor,
                 delivered, crashes>>

ListActive ==
  /\ pc = "list"
  /\ undelivered' = FALSE
  /\ IF StoreUnreadable
     THEN queue' = {} /\ current' = Store /\ decided' = "ERROR" /\ pc' = "handle"
     ELSE /\ queue' = {s \in Swaps : Readable(s) /\ sit[s] # "DONE"}
          /\ pc' = "next"
          /\ UNCHANGED <<current, decided>>
  /\ UNCHANGED <<sit, inflight, alerter, ackFile, beat, monitor, delivered, crashes>>

(* The finally of _reconcile_one.                                          *)
DoneWithSwap ==
  /\ pc' = "next" /\ inflight' = inflight \ {current}
  /\ current' = Store /\ decided' = "WATCH"
  /\ UNCHANGED queue

(* _reconcile_one: a swap that is in flight already is skipped.  The order *)
(* of the swaps is that of their file names; any order is allowed here.    *)
SingleFlight ==
  /\ pc = "next"
  /\ \E s \in queue :
       /\ queue' = queue \ {s}
       /\ IF s \in inflight THEN UNCHANGED <<pc, current, inflight>>
          ELSE pc' = "observe" /\ current' = s /\ inflight' = inflight \cup {s}
  /\ UNCHANGED <<sit, decided, alerter, undelivered, ackFile, beat, monitor, delivered,
                 crashes>>

(* A record that became terminal (or unreadable) after it was listed is    *)
(* decided on as it was listed.                                            *)
Conclusions(s) ==
  IF sit[s] \in {"DONE", "CORRUPT"} THEN Situations \ {"DONE", "CORRUPT"} ELSE {sit[s]}

(* The observation is in and decided on; only a routed intent goes on, and *)
(* only a refund or a claim to the executor.                               *)
ObserveAndDecide ==
  /\ pc = "observe"
  /\ \E now \in Conclusions(current) :
       IF now = "WATCH" THEN DoneWithSwap
       ELSE /\ decided' = now /\ UNCHANGED <<queue, current, inflight>>
            /\ pc' = IF now \in {"PAGE_CLAIM", "PAGE_REFUND"} THEN "execute" ELSE "handle"
  /\ UNCHANGED <<sit, alerter, undelivered, ackFile, beat, monitor, delivered, crashes>>

(* _safe_execute: whatever the executor returns or raises, the alerter is  *)
(* next.                                                                   *)
Execute ==
  /\ pc = "execute" /\ pc' = "handle"
  /\ UNCHANGED <<sit, tick, alerter, undelivered, ackFile, beat, monitor, delivered,
                 crashes>>

----------------------------------------------------- (* DedupAlerter *)

(* handle: the same WARN, an acknowledged CRITICAL, or a CRITICAL whose    *)
(* re-page is not due yet, is not sent.                                    *)
HandleQuiet ==
  /\ pc = "handle"
  /\ last[current] = IntentOf(decided)
  /\ LET unacked == Critical(last[current]) /\ acked[current] # last[current] IN
       /\ ~unacked \/ criticalTicks[current] + 1 < RepageEvery
       /\ criticalTicks' = IF unacked THEN [criticalTicks EXCEPT ![current] = @ + 1]
                           ELSE criticalTicks
  /\ DoneWithSwap
  /\ UNCHANGED <<sit, last, acked, undelivered, ackFile, beat, monitor, delivered, crashes>>

PageDue ==
  \/ last[current] # IntentOf(decided)
  \/ /\ Critical(last[current]) /\ acked[current] # last[current]
     /\ criticalTicks[current] + 1 >= RepageEvery

(* The page went out: only now is the dedup state updated.                 *)
SendPage ==
  /\ pc = "handle" /\ PageDue
  /\ last' = [last EXCEPT ![current] = IntentOf(decided)]
  /\ criticalTicks' = [criticalTicks EXCEPT ![current] = 0]
  /\ delivered' = [delivered EXCEPT ![current] = decided]
  /\ DoneWithSwap
  /\ UNCHANGED <<sit, acked, undelivered, ackFile, beat, monitor, crashes>>

(* Mutation: the dedup state is updated before the send.                   *)
RecordedBeforeSend ==
  /\ pc = "handle" /\ PageDue
  /\ undelivered' = TRUE
  /\ last' = [last EXCEPT ![current] = IntentOf(decided)]
  /\ criticalTicks' = [criticalTicks EXCEPT ![current] = 0]
  /\ DoneWithSwap
  /\ UNCHANGED <<sit, acked, ackFile, beat, monitor, delivered, crashes>>

(* The channel raised: _safe_handle reports False.  The counter of a due   *)
(* re-page was already advanced.                                           *)
SendFails ==
  /\ pc = "handle" /\ PageDue
  /\ undelivered' = TRUE
  /\ criticalTicks' = IF last[current] = IntentOf(decided)
                      THEN [criticalTicks EXCEPT ![current] = RepageEvery] ELSE criticalTicks
  /\ DoneWithSwap
  /\ UNCHANGED <<sit, last, acked, ackFile, beat, monitor, delivered, crashes>>

--------------------------------------------------------- (* run_loop *)

(* The heartbeat file is replaced; the sink may fail, which is logged.     *)
Heartbeat ==
  /\ pc = "next" /\ queue = {} /\ pc' = "start"
  /\ \/ /\ \E skew \in Skews :
             beat' = [exists |-> TRUE, skew |-> skew, undelivered |-> undelivered]
        /\ since' = 0 /\ alarmed' = fired /\ sendFailed' = FALSE
     \/ UNCHANGED <<beat, since, alarmed, sendFailed>>
  /\ UNCHANGED <<sit, tick, alerter, undelivered, ackFile, fired, delivered, crashes>>

(* The awaits of a tick; a handle() that does not send has none.           *)
AtAwait == pc \in {"observe", "execute"} \/ (pc = "handle" /\ PageDue)

(* Mutation: a tick that saw nothing still beats.                          *)
BeatingTickTimeout ==
  /\ AtAwait /\ pc' = "next"
  /\ queue' = {} /\ current' = Store /\ decided' = "WATCH" /\ inflight' = inflight \ {current}
  /\ UNCHANGED <<sit, alerter, undelivered, ackFile, beat, monitor, delivered, crashes>>

(* wait_for cancels the tick at its await: the rest of the swaps are not   *)
(* reconciled, and no heartbeat is written.                                *)
TickTimeout ==
  /\ AtAwait /\ pc' = "start"
  /\ queue' = {} /\ current' = Store /\ decided' = "WATCH" /\ inflight' = inflight \ {current}
  /\ UNCHANGED <<sit, alerter, undelivered, ackFile, beat, monitor, delivered, crashes>>

Crash ==
  /\ pc # "down" /\ pc' = "down"
  /\ crashes < MaxCrashes /\ crashes' = crashes + 1
  /\ queue' = {} /\ current' = Store /\ decided' = "WATCH" /\ inflight' = {}
  /\ last' = [i \in Ids |-> NoIntent] /\ acked' = [i \in Ids |-> NoIntent]
  /\ criticalTicks' = [i \in Ids |-> 0]
  /\ UNCHANGED <<sit, undelivered, ackFile, beat, monitor, delivered>>

Restart ==
  /\ pc = "down" /\ pc' = "start"
  /\ UNCHANGED <<sit, tick, alerter, undelivered, ackFile, beat, monitor, delivered,
                 crashes>>

--------------------------------------------------- (* DeadMansSwitch *)

(* Mutation: no guard against a heartbeat from the future.                 *)
StaleWithoutSkewGuard(b, silence) == ~b.exists \/ silence - b.skew > MaxSilence

Stale(b, silence) ==
  \/ ~b.exists
  \/ silence - b.skew > MaxSilence
  \/ silence - b.skew < -Tolerance

(* One interval passes and check() runs: it pages on the edge to stale and *)
(* on the edge back, and an undelivered page is tried again at the next.   *)
MonitorCheck(sent) ==
  /\ since' = IF since < Horizon THEN since + 1 ELSE since
  /\ LET edge == Stale(beat, since') # fired IN
       /\ fired' = IF edge /\ sent THEN ~fired ELSE fired
       /\ alarmed' = (alarmed \/ fired')
       /\ sendFailed' = (sendFailed \/ (edge /\ ~sent))
  /\ UNCHANGED <<sit, pc, tick, alerter, undelivered, ackFile, beat, delivered, crashes>>

----------------------------------------------------------------------------

(* A swap comes into another situation; a terminal record stays terminal.  *)
SituationChanges ==
  /\ \/ \E s \in Swaps, to \in Situations :
          sit[s] \notin {"DONE", to} /\ sit' = [sit EXCEPT ![s] = to]
     \/ /\ "ERROR" \in Situations
        /\ sit' = [sit EXCEPT ![Store] = IF @ = "ERROR" THEN "WATCH" ELSE "ERROR"]
  /\ UNCHANGED <<pc, tick, alerter, undelivered, ackFile, beat, monitor, delivered,
                 crashes>>

LoopStep ==
  \/ DrainRename \/ DrainRead \/ DrainUnlink \/ ListActive \/ SingleFlight
  \/ ObserveAndDecide \/ Execute \/ HandleQuiet \/ SendPage \/ SendFails
  \/ Heartbeat \/ TickTimeout

Next ==
  \/ LoopStep \/ Crash \/ Restart
  \/ OperatorOpens \/ OperatorWrites
  \/ \E sent \in BOOLEAN : MonitorCheck(sent)
  \/ SituationChanges

Spec == Init /\ [][Next]_vars

(* The loop of a live tower goes on (a tick has a budget), the monitor     *)
(* goes on, and its channel works now and then.  Nothing is assumed of the *)
(* tower's own channel, of its sources, or of a restart.                   *)
FairSpec == Spec /\ WF_vars(LoopStep) /\ SF_vars(MonitorCheck(TRUE))
-----------------------------------------------------------------------------
(* The operator hears that something is wrong with the tower itself.       *)
TowerAlarm == fired \/ beat.undelivered

(* A claim or squeeze race that goes on, not acknowledged, is paged again  *)
(* and again, unless the dead-man's switch or the undelivered count of the *)
(* heartbeat says that the tower is not doing it: no slow source, failing  *)
(* channel, timed-out tick or crash makes it silently stop.                *)
UnackedCriticalIsRepaged ==
  \A s \in Swaps :
    \A i \in {"PAGE_CLAIM", "PAGE_SQUEEZED"} :
      <>[](sit[s] = i /\ sit[Store] = "WATCH" /\ acked[s] # i /\ ~TowerAlarm)
        => []<><<SendPage /\ current = s>>_vars

(* A refund page (WARN, sent once) is not lost: while the situation lasts  *)
(* it is delivered, or the tower is known to be failing.                   *)
RefundPageIsDelivered ==
  \A s \in Swaps :
    <>[](sit[s] = "PAGE_REFUND" /\ sit[Store] = "WATCH" /\ ~TowerAlarm)
      => <>(delivered[s] = "PAGE_REFUND")

(* A tower that is not heard of for longer than max_silence_s, the skew    *)
(* tolerance and one interval was paged about, whatever the clock that     *)
(* dated its last heartbeat, unless the monitor's own page failed.         *)
SilenceIsPaged == since > MaxSilence + Tolerance + 1 => alarmed \/ sendFailed

(* An ACK only ever suppresses a page that the operator was sent.          *)
AckOnlySeenPages ==
  [][\A i \in Ids : acked'[i] # acked[i] /\ acked'[i] # NoIntent =>
       delivered[i] # NoIntent /\ IntentOf(delivered[i]) = acked'[i]]_vars
-----------------------------------------------------------------------------
(* A statement of the code that these definitions refute.                  *)

(* alerts.py: "the operator is paged once per distinct situation".         *)
EverySituationIsPaged ==
  \A s \in Swaps :
    <>[](sit[s] = "PAGE_SQUEEZED" /\ sit[Store] = "WATCH" /\ ~TowerAlarm)
      => <>(delivered[s] = "PAGE_SQUEEZED")
=============================================================================
