-------------------------- MODULE WatchtowerProofs --------------------------
(***************************************************************************)
(* Theorems about Watchtower, for every set of swaps, re-page interval,    *)
(* silence bound, clock skew and number of crashes.                        *)
(***************************************************************************)
EXTENDS Watchtower, TLAPS

------------------------------------------------------- (* well-typedness *)

(* What the tick is at: a swap from observe on, and a situation that is    *)
(* paged when it reaches the alerter.                                      *)
TickOK ==
  /\ pc \in {"observe", "execute"} => current \in Swaps
  /\ pc \in {"execute", "handle"} =>
       decided \in {"PAGE_CLAIM", "PAGE_SQUEEZED", "PAGE_REFUND", "ERROR"}

TypeInv == TypeOK /\ TickOK

(* The intent of a situation that is paged.                                *)
LEMMA IntentOfPage ==
  ASSUME NEW d \in {"PAGE_CLAIM", "PAGE_SQUEEZED", "PAGE_REFUND", "ERROR"}
  PROVE  IntentOf(d) \in {"PAGE_CLAIM", "PAGE_SQUEEZED", "PAGE_REFUND"}
BY DEF IntentOf

(* The monitor's horizon is a natural number.                              *)
LEMMA HorizonType == Horizon \in Nat
BY WatchtowerAssumption DEF Horizon

(* A heartbeat of the loop is a heartbeat.                                 *)
LEMMA BeatType ==
  ASSUME NEW skew \in Nat, NEW u \in BOOLEAN
  PROVE  [exists |-> TRUE, skew |-> skew, undelivered |-> u] \in Beats
BY DEF Beats

(* The tower starts in a well-typed state.                                 *)
LEMMA InitTypeInv == Init => TypeInv
<1> SUFFICES ASSUME Init PROVE TypeInv
  OBVIOUS
<1>1. Store \in Ids /\ Horizon \in Nat /\ RepageEvery \in Nat /\ MaxCrashes \in Nat
  BY HorizonType, WatchtowerAssumption DEF Ids
<1>2. /\ sit \in [Ids -> AllSituations] /\ criticalTicks \in [Ids -> 0 .. RepageEvery]
      /\ last \in [Ids -> Intents \cup {NoIntent}] /\ acked \in [Ids -> Intents \cup {NoIntent}]
      /\ delivered \in [Ids -> AllSituations \cup {NoIntent}]
  BY <1>1 DEF Init, AllSituations
<1>3. append \in [to : {"none", "inbox", "draining", "orphan"}, id : Ids]
  BY <1>1 DEF Init
<1>4. beat \in Beats
  BY DEF Init, Beats
<1>5. /\ queue \subseteq Swaps /\ current \in Ids /\ decided \in AllSituations
      /\ inflight \subseteq Swaps
      /\ inbox \subseteq Ids /\ draining \subseteq Ids
      /\ since \in 0 .. Horizon /\ crashes \in 0 .. MaxCrashes /\ pc = "start"
  BY <1>1 DEF Init, AllSituations
<1>6. /\ undelivered \in BOOLEAN
      /\ fired \in BOOLEAN /\ alarmed \in BOOLEAN /\ sendFailed \in BOOLEAN
  BY DEF Init
<1>7. QED
  BY <1>2, <1>3, <1>4, <1>5, <1>6 DEF TypeInv, TypeOK, TickOK

(* Every action keeps the types.                                           *)
LEMMA NextTypeInv == TypeInv /\ [Next]_vars => TypeInv'
<1> SUFFICES ASSUME TypeInv, [Next]_vars PROVE TypeInv'
  OBVIOUS
<1>0. /\ Store \in Ids /\ Swaps \subseteq Ids /\ Horizon \in Nat /\ RepageEvery \in Nat \ {0}
      /\ MaxCrashes \in Nat /\ AckIds \subseteq Ids
      /\ Situations \subseteq AllSituations /\ Skews \subseteq Nat
  BY HorizonType, WatchtowerAssumption DEF Ids
<1> USE DEF TypeInv, TypeOK, TickOK, Intents, NoIntent
<1>1. CASE OperatorOpens
  BY <1>0, <1>1 DEF OperatorOpens, tick, alerter, monitor
<1>2. CASE OperatorWrites
  BY <1>0, <1>2 DEF OperatorWrites, tick, alerter, monitor
<1>3. CASE DrainRename
  BY <1>0, <1>3 DEF DrainRename, tick, alerter, monitor
<1>4. CASE DrainRead
  BY <1>0, <1>4 DEF DrainRead, AckAll, Critical, tick, monitor
<1>5. CASE DrainUnlink
  BY <1>0, <1>5 DEF DrainUnlink, tick, alerter, monitor
<1>6. CASE ListActive
  BY <1>0, <1>6 DEF ListActive, AllSituations, alerter, ackFile, monitor
<1>7. CASE SingleFlight
  BY <1>0, <1>7 DEF SingleFlight, alerter, ackFile, monitor
<1>8. CASE ObserveAndDecide
  <2>1. PICK now \in Conclusions(current) :
          IF now = "WATCH" THEN DoneWithSwap
          ELSE /\ decided' = now /\ UNCHANGED <<queue, current, inflight>>
               /\ pc' = IF now \in {"PAGE_CLAIM", "PAGE_REFUND"} THEN "execute" ELSE "handle"
    BY <1>8 DEF ObserveAndDecide
  <2>2. now \in AllSituations \ {"DONE", "CORRUPT"}
    BY <1>0, <2>1 DEF Conclusions
  <2>3. QED
    BY <1>0, <1>8, <2>1, <2>2
       DEF ObserveAndDecide, DoneWithSwap, AllSituations, alerter, ackFile, monitor
<1>9. CASE Execute
  BY <1>9 DEF Execute, tick, alerter, ackFile, monitor
<1>10. CASE HandleQuiet
  BY <1>0, <1>10 DEF HandleQuiet, DoneWithSwap, AllSituations, ackFile, monitor
<1>11. CASE SendPage
  BY <1>0, <1>11, IntentOfPage
     DEF SendPage, DoneWithSwap, AllSituations, ackFile, monitor
<1>12. CASE SendFails
  BY <1>0, <1>12 DEF SendFails, DoneWithSwap, AllSituations, ackFile, monitor
<1>13. CASE Heartbeat
  <2>1. beat' \in Beats
    BY <1>0, <1>13, BeatType DEF Heartbeat
  <2>2. since' \in 0 .. Horizon
    BY <1>0, <1>13 DEF Heartbeat
  <2>3. alarmed' \in BOOLEAN /\ sendFailed' \in BOOLEAN
    BY <1>13 DEF Heartbeat
  <2>4. QED
    BY <1>13, <2>1, <2>2, <2>3 DEF Heartbeat, tick, alerter, ackFile
<1>14. CASE TickTimeout
  BY <1>0, <1>14 DEF TickTimeout, AllSituations, alerter, ackFile, monitor
<1>15. CASE Crash
  BY <1>0, <1>15 DEF Crash, AllSituations, ackFile, monitor
<1>16. CASE Restart
  BY <1>16 DEF Restart, tick, alerter, ackFile, monitor
<1>17. CASE \E sent \in BOOLEAN : MonitorCheck(sent)
  <2>1. since' \in 0 .. Horizon
    BY <1>0, <1>17 DEF MonitorCheck
  <2>2. fired' \in BOOLEAN /\ alarmed' \in BOOLEAN /\ sendFailed' \in BOOLEAN
    BY <1>17, Zenon DEF MonitorCheck
  <2>3. QED
    BY <1>17, <2>1, <2>2 DEF MonitorCheck, tick, alerter, ackFile
<1>18. CASE SituationChanges
  <2>1. sit' \in [Ids -> AllSituations]
    BY <1>0, <1>18 DEF SituationChanges, AllSituations
  <2>2. QED
    BY <1>18, <2>1 DEF SituationChanges, tick, alerter, ackFile, monitor
<1>19. CASE UNCHANGED vars
  BY <1>19 DEF vars, tick, alerter, ackFile, monitor
<1>20. QED
  BY <1>1, <1>2, <1>3, <1>4, <1>5, <1>6, <1>7, <1>8, <1>9, <1>10, <1>11, <1>12, <1>13,
     <1>14,
     <1>15, <1>16, <1>17, <1>18, <1>19 DEF Next, LoopStep

(* The state of loop, reconciler, alerter, ACK inbox, heartbeat file and   *)
(* monitor always has its type.                                            *)
THEOREM WatchtowerTyped == Spec => []TypeOK
<1>1. Spec => []TypeInv
  BY InitTypeInv, NextTypeInv, PTL DEF Spec
<1>2. TypeInv => TypeOK
  BY DEF TypeInv
<1>3. QED
  BY <1>1, <1>2, PTL

------------------------------------------------- (* the dead-man's switch *)

(* The monitor had a check at which the heartbeat was stale whatever its   *)
(* date: there was none, it was from the future, or it is too old.         *)
Overdue ==
  \/ since >= 1 /\ (~beat.exists \/ beat.skew > Tolerance + 1)
  \/ since > MaxSilence + Tolerance + 1

MonitorInv == (fired => alarmed) /\ (Overdue => alarmed \/ sendFailed)

(* At the first check after which the tower is overdue its beat is stale.  *)
LEMMA OverdueIsStale ==
  ASSUME TypeInv, NEW sent \in BOOLEAN, MonitorCheck(sent), Overdue'
  PROVE  Overdue \/ Stale(beat, since')
<1>1. since \in Nat /\ beat.skew \in Nat /\ beat.exists \in BOOLEAN
  BY HorizonType DEF TypeInv, TypeOK, Beats
<1>2. since' \in Nat /\ (since' = since \/ since' = since + 1) /\ beat' = beat
  BY <1>1 DEF MonitorCheck
<1>3. MaxSilence \in Nat /\ Tolerance \in Nat
  BY WatchtowerAssumption
<1>4. CASE since' = since
  BY <1>2, <1>4 DEF Overdue
<1>5. CASE since' = since + 1 /\ ~Overdue
  BY <1>1, <1>2, <1>3, <1>5 DEF Overdue, Stale
<1>6. QED
  BY <1>2, <1>4, <1>5

(* A check of a stale beat pages, has paged, or fails to send.             *)
LEMMA StaleIsPaged ==
  ASSUME TypeInv, MonitorInv, NEW sent \in BOOLEAN, MonitorCheck(sent),
         Stale(beat, since')
  PROVE  alarmed' \/ sendFailed'
<1>1. CASE fired
  BY <1>1 DEF MonitorInv, MonitorCheck
<1>2. CASE ~fired
  <2>1. Stale(beat, since') # fired
    BY <1>2, Zenon
  <2>2. CASE sent
    BY <1>2, <2>1, <2>2, Zenon DEF MonitorCheck
  <2>3. CASE ~sent
    BY <2>1, <2>3, Zenon DEF MonitorCheck
  <2>4. QED
    BY <2>2, <2>3
<1>3. QED
  BY <1>1, <1>2

(* A beat clears the silence, and only the monitor lengthens it.           *)
LEMMA NextMonitorInv == TypeInv /\ MonitorInv /\ [Next]_vars => MonitorInv'
<1> SUFFICES ASSUME TypeInv, MonitorInv, [Next]_vars PROVE MonitorInv'
  OBVIOUS
<1>1. CASE \E sent \in BOOLEAN : MonitorCheck(sent)
  <2>1. PICK sent \in BOOLEAN : MonitorCheck(sent)
    BY <1>1
  <2>2. fired' => alarmed'
    BY <2>1 DEF MonitorCheck
  <2>3. Overdue => alarmed' \/ sendFailed'
    BY <2>1 DEF MonitorInv, MonitorCheck
  <2>4. Overdue' => alarmed' \/ sendFailed'
    BY <2>1, <2>3, OverdueIsStale, StaleIsPaged
  <2>5. QED
    BY <2>2, <2>4 DEF MonitorInv
<1>2. CASE Heartbeat
  <2>1. CASE UNCHANGED <<beat, since, alarmed, sendFailed>>
    BY <1>2, <2>1 DEF Heartbeat, MonitorInv, Overdue
  <2>2. CASE since' = 0 /\ alarmed' = fired /\ sendFailed' = FALSE
    <3>1. MaxSilence \in Nat /\ Tolerance \in Nat
      BY WatchtowerAssumption
    <3>2. ~Overdue'
      BY <2>2, <3>1 DEF Overdue
    <3>3. fired' => alarmed'
      BY <1>2, <2>2 DEF Heartbeat
    <3>4. QED
      BY <3>2, <3>3 DEF MonitorInv
  <2>3. QED
    BY <1>2, <2>1, <2>2 DEF Heartbeat
<1>3. CASE UNCHANGED <<beat, monitor>>
  BY <1>3 DEF MonitorInv, Overdue, monitor
<1>4. QED
  <2>1. CASE UNCHANGED vars
    BY <1>3, <2>1 DEF vars
  <2>2. CASE Crash \/ Restart \/ OperatorOpens \/ OperatorWrites \/ SituationChanges
    BY <1>3, <2>2 DEF Crash, Restart, OperatorOpens, OperatorWrites, SituationChanges
  <2>3. CASE DrainRename \/ DrainRead \/ DrainUnlink \/ ListActive \/ SingleFlight
    BY <1>3, <2>3 DEF DrainRename, DrainRead, DrainUnlink, ListActive, SingleFlight
  <2>4. CASE ObserveAndDecide \/ Execute \/ HandleQuiet \/ SendPage \/ SendFails \/ TickTimeout
    BY <1>3, <2>4
       DEF ObserveAndDecide, Execute, HandleQuiet, SendPage, SendFails, TickTimeout
  <2>5. QED
    BY <1>1, <1>2, <2>1, <2>2, <2>3, <2>4 DEF Next, LoopStep

(* DeadMansSwitch.check: a tower silent for longer than max_silence_s, the *)
(* clock-skew tolerance and one interval was paged about or the monitor's  *)
(* page failed, whatever the clock that dated the last heartbeat.          *)
THEOREM TowerSilenceIsPaged == Spec => []SilenceIsPaged
<1>1. Init => MonitorInv
  <2>1. SUFFICES ASSUME Init PROVE MonitorInv
    OBVIOUS
  <2>2. MaxSilence \in Nat /\ Tolerance \in Nat
    BY WatchtowerAssumption
  <2>3. ~Overdue /\ ~fired
    BY <2>1, <2>2 DEF Init, Overdue
  <2>4. QED
    BY <2>3 DEF MonitorInv
<1>2. MonitorInv => SilenceIsPaged
  BY DEF MonitorInv, Overdue, SilenceIsPaged
<1>3. QED
  BY <1>1, <1>2, InitTypeInv, NextTypeInv, NextMonitorInv, PTL DEF Spec

---------------------------------------------------- (* acknowledgements *)

(* The intent the alerter deduplicates on is that of the page the operator *)
(* was last sent; a restart forgets it.                                    *)
SeenInv ==
  \A i \in Ids : last[i] # NoIntent =>
                    delivered[i] # NoIntent /\ IntentOf(delivered[i]) = last[i]

(* Only a delivered page is recorded as the last one.                      *)
LEMMA NextSeenInv == TypeInv /\ SeenInv /\ [Next]_vars => SeenInv'
<1> SUFFICES ASSUME TypeInv, SeenInv, [Next]_vars PROVE SeenInv'
  OBVIOUS
<1>1. CASE SendPage
  <2>1. decided \in {"PAGE_CLAIM", "PAGE_SQUEEZED", "PAGE_REFUND", "ERROR"}
    BY <1>1 DEF SendPage, TypeInv, TickOK
  <2>2. /\ last' = [last EXCEPT ![current] = IntentOf(decided)]
        /\ delivered' = [delivered EXCEPT ![current] = decided]
        /\ last \in [Ids -> Intents \cup {NoIntent}]
        /\ delivered \in [Ids -> AllSituations \cup {NoIntent}]
    BY <1>1 DEF SendPage, TypeInv, TypeOK
  <2>3. QED
    BY <2>1, <2>2 DEF SeenInv, NoIntent, IntentOf
<1>2. CASE Crash
  BY <1>2 DEF Crash, SeenInv
<1>3. CASE UNCHANGED <<last, delivered>>
  BY <1>3 DEF SeenInv
<1>4. QED
  <2>1. CASE UNCHANGED vars
    BY <1>3, <2>1 DEF vars, alerter
  <2>2. CASE Restart \/ OperatorOpens \/ OperatorWrites \/ SituationChanges
    BY <1>3, <2>2 DEF Restart, OperatorOpens, OperatorWrites, SituationChanges, alerter
  <2>3. CASE DrainRename \/ DrainRead \/ DrainUnlink \/ ListActive \/ SingleFlight
    BY <1>3, <2>3
       DEF DrainRename, DrainRead, DrainUnlink, ListActive, SingleFlight, alerter
  <2>4. CASE ObserveAndDecide \/ Execute \/ HandleQuiet \/ SendFails \/ TickTimeout \/ Heartbeat
    BY <1>3, <2>4 DEF ObserveAndDecide, Execute, HandleQuiet, SendFails, TickTimeout,
                      Heartbeat, alerter
  <2>5. CASE \E sent \in BOOLEAN : MonitorCheck(sent)
    BY <1>3, <2>5 DEF MonitorCheck, alerter
  <2>6. QED
    BY <1>1, <1>2, <2>1, <2>2, <2>3, <2>4, <2>5 DEF Next, LoopStep

(* What a step may do to the acknowledgements.                             *)
AckStep ==
  \A i \in Ids : acked'[i] # acked[i] /\ acked'[i] # NoIntent =>
                    delivered[i] # NoIntent /\ IntentOf(delivered[i]) = acked'[i]

(* Only a drain acknowledges, and it acknowledges what was delivered.      *)
LEMMA NextAckStep == TypeInv /\ SeenInv /\ [Next]_vars => [AckStep]_vars
<1> SUFFICES ASSUME TypeInv, SeenInv, Next PROVE AckStep
  OBVIOUS
<1>1. CASE DrainRead
  BY <1>1 DEF DrainRead, AckAll, Critical, SeenInv, AckStep, NoIntent
<1>2. CASE Crash
  BY <1>2 DEF Crash, AckStep
<1>3. CASE UNCHANGED acked
  BY <1>3 DEF AckStep
<1>4. QED
  <2>1. CASE Restart \/ OperatorOpens \/ OperatorWrites \/ SituationChanges
    BY <1>3, <2>1 DEF Restart, OperatorOpens, OperatorWrites, SituationChanges, alerter
  <2>2. CASE DrainRename \/ DrainUnlink \/ ListActive \/ SingleFlight \/ ObserveAndDecide
    BY <1>3, <2>2
       DEF DrainRename, DrainUnlink, ListActive, SingleFlight, ObserveAndDecide, alerter
  <2>3. CASE Execute \/ HandleQuiet \/ SendPage \/ SendFails \/ TickTimeout \/ Heartbeat
    BY <1>3, <2>3
       DEF Execute, HandleQuiet, SendPage, SendFails, TickTimeout, Heartbeat, alerter
  <2>4. CASE \E sent \in BOOLEAN : MonitorCheck(sent)
    BY <1>3, <2>4 DEF MonitorCheck, alerter
  <2>5. QED
    BY <1>1, <1>2, <2>1, <2>2, <2>3, <2>4 DEF Next, LoopStep

(* FileAckInbox and DedupAlerter.ack: an ACK suppresses only an intent of  *)
(* which the operator was sent a page, whenever the ACK is drained.        *)
THEOREM AcksAreOfSeenPages == Spec => AckOnlySeenPages
<1>1. Init => SeenInv
  BY DEF Init, SeenInv
<1>2. Spec => [][AckStep]_vars
  BY <1>1, InitTypeInv, NextTypeInv, NextSeenInv, NextAckStep, PTL DEF Spec
<1>3. QED
  BY <1>2 DEF AckOnlySeenPages, AckStep
=============================================================================
