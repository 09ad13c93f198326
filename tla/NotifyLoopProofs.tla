-------------------------- MODULE NotifyLoopProofs --------------------------
(***************************************************************************)
(* Theorems about NotifyLoop, for every number of sources, changes and     *)
(* faults, and all sync settings.                                          *)
(***************************************************************************)
EXTENDS NotifyLoop, TLAPS

LEMMA TypeNext == TypeOK /\ [Next]_vars => TypeOK'
<1> SUFFICES ASSUME TypeOK, [Next]_vars PROVE TypeOK'
  OBVIOUS
<1> USE NotifyAssumption DEF NotifyAssumption, TypeOK, Sources
<1>1. CASE Notified
  BY <1>1 DEF Notified, StartPass, notifiers
<1>2. CASE Debounced \/ Ticked
  BY <1>2 DEF Debounced, Ticked, StartPass, notifiers
<1>3. CASE Shutdown
  BY <1>3 DEF Shutdown, notifiers
<1>4. ASSUME NEW s \in Sources, Snapshot(s) PROVE TypeOK'
  BY <1>4 DEF Snapshot, notifiers
<1>5. ASSUME NEW s \in Sources, SnapshotFails(s) PROVE TypeOK'
  BY <1>5 DEF SnapshotFails, Fault, notifiers
<1>6. CASE PassEnds
  BY <1>6 DEF PassEnds, notifiers
<1>7. CASE PassAbandoned
  BY <1>7 DEF PassAbandoned, Fault, notifiers
<1>8. ASSUME NEW s \in Sources, Subscribe(s) PROVE TypeOK'
  BY <1>8 DEF Subscribe, Fault, RunRest, run
<1>9. ASSUME NEW s \in Sources, Watch(s) PROVE TypeOK'
  BY <1>9 DEF Watch, Fault, RunRest, run
<1>10. ASSUME NEW s \in Sources, Receive(s) PROVE TypeOK'
  BY <1>10 DEF Receive, RunRest, run
<1>11. ASSUME NEW s \in Sources, Settle(s) \/ Poll(s) \/ Stop(s) PROVE TypeOK'
  BY <1>11 DEF Settle, Poll, Stop, RunRest, run
<1>12. ASSUME NEW s \in Sources, StreamError(s) PROVE TypeOK'
  BY <1>12 DEF StreamError, RunRest, run
<1>13. ASSUME NEW s \in Sources, Resubscribe(s) PROVE TypeOK'
  BY <1>13 DEF Resubscribe, Fault, RunRest, run
<1>14. ASSUME NEW s \in Sources, Signal(s) PROVE TypeOK'
  BY <1>14 DEF Signal
<1>15. ASSUME NEW s \in Sources, Change(s) PROVE TypeOK'
  BY <1>15 DEF Change
<1>20. ASSUME NEW s \in Sources, ChangeUnwatched(s) PROVE TypeOK'
  BY <1>20 DEF ChangeUnwatched, notifiers
<1>21. ASSUME NEW s \in Sources, LoseWatch(s) PROVE TypeOK'
  BY <1>21 DEF LoseWatch, Fault, RunRest, run
<1>16. ASSUME NEW s \in Sources, LoseStream(s) PROVE TypeOK'
  BY <1>16 DEF LoseStream, Fault, RunRest, run
<1>17. ASSUME NEW s \in Sources, Overflow(s) PROVE TypeOK'
  BY <1>17 DEF Overflow, Fault, RunRest, run
<1>18. CASE TimerFires \/ Tick \/ Cancel
  BY <1>18 DEF TimerFires, Tick, Cancel, run, notifiers
<1>19. CASE UNCHANGED vars
  BY <1>19 DEF vars, run, notifiers
<1>. QED
  BY <1>1, <1>2, <1>3, <1>4, <1>5, <1>6, <1>7, <1>8, <1>9, <1>10, <1>11, <1>12,
     <1>13, <1>14, <1>15, <1>16, <1>17, <1>18, <1>19, <1>20, <1>21 DEF Next, Pass, Notifier

\* The loop and the notifiers stay well typed; the sources of a pass are forgotten
\* when it ends, and the debounce timer is only used if there is a debounce delay.
THEOREM TypeCorrect == Spec => []TypeOK
<1>1. Init => TypeOK
  BY NotifyAssumption DEF NotifyAssumption, Init, TypeOK, Sources
<1>. QED
  BY <1>1, TypeNext, PTL DEF Spec
-----------------------------------------------------------------------------
(* No wake-up is lost *)

\* A notifier that has not started has no stream, so that opening the first one
\* cannot pass over a broken one.
NoStreamYet == \A s \in Sources : at[s] = "start" => stream[s] = "none"

LEMMA StreamNext == TypeOK /\ NoStreamYet /\ [Next]_vars => NoStreamYet'
<1> SUFFICES ASSUME TypeOK, NoStreamYet, [Next]_vars PROVE NoStreamYet'
  OBVIOUS
<1> USE DEF TypeOK, NoStreamYet
<1>1. ASSUME NEW s \in Sources, Subscribe(s) \/ Watch(s) PROVE NoStreamYet'
  BY <1>1 DEF Subscribe, Watch
<1>2. ASSUME NEW s \in Sources, Receive(s) \/ Settle(s) \/ Poll(s) \/ Signal(s) \/ Stop(s)
      PROVE  NoStreamYet'
  BY <1>2 DEF Receive, Settle, Poll, Signal, Stop
<1>3. ASSUME NEW s \in Sources, StreamError(s) \/ Resubscribe(s) \/ LoseStream(s) \/ LoseWatch(s)
      PROVE  NoStreamYet'
  BY <1>3 DEF StreamError, Resubscribe, LoseStream, LoseWatch
<1>4. ASSUME NEW s \in Sources, Change(s) \/ ChangeUnwatched(s) \/ Overflow(s)
      PROVE  NoStreamYet'
  BY <1>4 DEF Change, ChangeUnwatched, Overflow, notifiers
<1>5. CASE Notified \/ Debounced \/ Ticked \/ Shutdown \/ Pass
  BY <1>5 DEF Notified, Debounced, Ticked, Shutdown, Pass, PassEnds, PassAbandoned,
              Snapshot, SnapshotFails, notifiers
<1>6. CASE TimerFires \/ Tick \/ Cancel \/ UNCHANGED vars
  BY <1>6 DEF TimerFires, Tick, Cancel, vars, notifiers
<1>. QED
  BY <1>1, <1>2, <1>3, <1>4, <1>5, <1>6 DEF Next, Notifier

LEMMA LostNext == TypeOK /\ NoStreamYet /\ NothingLost /\ [Next]_vars => NothingLost'
<1> SUFFICES ASSUME TypeOK, NoStreamYet, NothingLost, [Next]_vars, ~canceled',
                    NEW q \in dirty', q \notin missed'
             PROVE  OnItsWay(q)'
  BY DEF NothingLost
<1> USE DEF TypeOK, NothingLost, OnItsWay
<1>0. ~canceled
  BY DEF Next, Notified, Debounced, Ticked, Shutdown, Pass, PassEnds, PassAbandoned,
         Snapshot, SnapshotFails, Notifier, Subscribe, Watch, Receive, Settle, Poll,
         StreamError, Resubscribe, Signal, Stop, RunRest, Change, ChangeUnwatched,
         LoseStream, LoseWatch, Overflow, TimerFires, Tick, Cancel, vars
<1>1. CASE Notified
  BY <1>0, <1>1 DEF Notified, StartPass, notifiers
<1>2. CASE Debounced \/ Ticked
  BY <1>0, <1>2 DEF Debounced, Ticked, StartPass, notifiers
<1>3. CASE Shutdown
  BY <1>0, <1>3 DEF Shutdown
<1>4. ASSUME NEW s \in Sources, Snapshot(s) \/ SnapshotFails(s) PROVE OnItsWay(q)'
  BY <1>0, <1>4 DEF Snapshot, SnapshotFails, notifiers
<1>5. CASE PassEnds \/ PassAbandoned
  BY <1>0, <1>5 DEF PassEnds, PassAbandoned, notifiers
<1>6. ASSUME NEW s \in Sources, Subscribe(s) \/ Watch(s) PROVE OnItsWay(q)'
  BY <1>0, <1>6 DEF Subscribe, Watch, RunRest, run, NoStreamYet
<1>7. ASSUME NEW s \in Sources, Receive(s) \/ Settle(s) \/ Poll(s) PROVE OnItsWay(q)'
  BY <1>0, <1>7 DEF Receive, Settle, Poll, RunRest, run
<1>8. ASSUME NEW s \in Sources, StreamError(s) \/ Resubscribe(s) PROVE OnItsWay(q)'
  BY <1>0, <1>8 DEF StreamError, Resubscribe, RunRest, run
<1>9. ASSUME NEW s \in Sources, Signal(s) PROVE OnItsWay(q)'
  BY <1>9 DEF Signal
<1>10. ASSUME NEW s \in Sources, Stop(s) PROVE OnItsWay(q)'
  BY <1>0, <1>10 DEF Stop
<1>11. ASSUME NEW s \in Sources, Change(s) PROVE OnItsWay(q)'
  BY <1>0, <1>11 DEF Change
<1>14. ASSUME NEW s \in Sources, ChangeUnwatched(s) PROVE OnItsWay(q)'
  BY <1>0, <1>14 DEF ChangeUnwatched, notifiers
<1>12. ASSUME NEW s \in Sources, LoseStream(s) \/ LoseWatch(s) \/ Overflow(s)
       PROVE  OnItsWay(q)'
  BY <1>0, <1>12 DEF LoseStream, LoseWatch, Overflow, RunRest, run
<1>13. CASE TimerFires \/ Tick \/ Cancel \/ UNCHANGED vars
  BY <1>0, <1>13 DEF TimerFires, Tick, Cancel, vars, run, notifiers
<1>. QED
  BY <1>1, <1>2, <1>3, <1>4, <1>5, <1>6, <1>7, <1>8, <1>9, <1>10, <1>11, <1>12, <1>13, <1>14
     DEF Next, Pass, Notifier

\* Between a change at a source and the pass that takes it in, no wake-up is lost: not
\* in the channel of capacity 1, nor in the debounce timers, nor across a broken event
\* stream.
THEOREM NoWakeupLost == Spec => []NothingLost
<1>1. Init => NothingLost /\ NoStreamYet
  BY DEF Init, NothingLost, OnItsWay, NoStreamYet
<1>. QED
  BY <1>1, TypeCorrect, StreamNext, LostNext, PTL DEF Spec
=============================================================================
