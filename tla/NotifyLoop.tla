----------------------------- MODULE NotifyLoop -----------------------------
(***************************************************************************)
(* How a change at a source comes to be reconciled: the Notify goroutines  *)
(* of the Docker and YAML sources (pkg/source), the channel they share,    *)
(* and the select loop of Reconciler.Run with its debounce timer and its   *)
(* ticker (internal/reconcile/reconcile.go).  Reconcile models the inside  *)
(* of a pass and lets it start at any time; here a pass only snapshots the *)
(* sources and ends.                                                       *)
(*                                                                         *)
(* Timers expire by steps of their own.  A change is a container that      *)
(* starts or ends, or a matching file that is written, with its event.     *)
(***************************************************************************)
EXTENDS Naturals

CONSTANTS Docker, Yaml,   \* the sources
          Syncs,          \* the sync settings a process may have
          MaxChanges,     \* bound on changes at the sources
          MaxFaults       \* bound on faults

Sources == Docker \cup Yaml

\* poll_interval, use_events, reconcile_interval and debounce_ms, on or off.
Sync == [poll : BOOLEAN, events : BOOLEAN, ticker : BOOLEAN, debounce : BOOLEAN]

ASSUME NotifyAssumption ==
  /\ Docker \cap Yaml = {}
  /\ Syncs # {} /\ Syncs \subseteq Sync
  /\ MaxChanges \in Nat /\ MaxFaults \in Nat

VARIABLES
  sync, canceled,
  loop, todo, got,         \* Run: where it is; sources this pass still has to
                           \* snapshot, and those it has, unchanged since
  notify, timer, tick,     \* the channel, of capacity 1; debounce; the ticker
  at, stream, queued,      \* Notify of each source: where it is, its event stream
  settling,                \* or watcher, events not yet received, reloadDebounce
  dirty, missed,           \* history: changed since the last pass that took it
                           \* in; with no promise that another pass will
  changes, faults          \* environment steps left

run == <<loop, todo, got, notify, timer, tick>>
notifiers == <<at, stream, queued, settling>>
vars == <<sync, canceled, run, notifiers, dirty, missed, changes, faults>>

TypeOK ==
  /\ sync \in Sync /\ canceled \in BOOLEAN
  /\ loop \in {"select", "pass", "stopped"}
  /\ todo \subseteq Sources /\ got \subseteq Sources
  /\ loop # "pass" => todo = {} /\ got = {}
  /\ notify \in BOOLEAN /\ tick \in BOOLEAN
  /\ timer \in {"off", "armed", "fired"} /\ (timer # "off" => sync.debounce)
  /\ at \in [Sources -> {"start", "select", "signal", "stopped"}]
  /\ stream \in [Sources -> {"none", "open", "broken", "waiting"}]
  /\ queued \subseteq Sources /\ settling \subseteq Yaml
  /\ dirty \subseteq Sources /\ missed \subseteq Sources
  /\ changes \in Nat /\ faults \in Nat

Fault == faults > 0 /\ faults' = faults - 1
-----------------------------------------------------------------------------
(* Reconciler.Run *)

\* reconcile is entered; with a canceled ctx it returns at once.
StartPass ==
  /\ loop = "select"
  /\ loop' = IF canceled THEN "select" ELSE "pass"
  /\ todo' = IF canceled THEN {} ELSE Sources
  /\ UNCHANGED got

\* A notification restarts the debounce timer, or starts a pass if there is none.
Notified ==
  /\ loop = "select" /\ notify /\ notify' = FALSE
  /\ \/ ~sync.debounce /\ StartPass /\ UNCHANGED timer
     \/ sync.debounce /\ timer' = "armed" /\ UNCHANGED <<loop, todo, got>>
  /\ UNCHANGED <<sync, canceled, tick, notifiers, dirty, missed, changes, faults>>

Debounced ==
  /\ timer = "fired" /\ timer' = "off" /\ StartPass
  /\ UNCHANGED <<sync, canceled, notify, tick, notifiers, dirty, missed, changes, faults>>

\* The ticker starts a pass whatever has happened.  Before it, a variant that spares
\* a pass nobody asked for.
TickIfNotified ==
  /\ loop = "select" /\ tick /\ tick' = FALSE
  /\ IF notify THEN StartPass ELSE UNCHANGED <<loop, todo, got>>
  /\ UNCHANGED <<sync, canceled, notify, timer, notifiers, dirty, missed, changes, faults>>
Ticked ==
  /\ tick /\ tick' = FALSE /\ StartPass
  /\ UNCHANGED <<sync, canceled, notify, timer, notifiers, dirty, missed, changes, faults>>

\* ctx.Done is chosen.
Shutdown ==
  /\ loop = "select" /\ canceled /\ loop' = "stopped" /\ timer' = "off"
  /\ UNCHANGED <<sync, canceled, todo, got, notify, tick>>
  /\ UNCHANGED <<notifiers, dirty, missed, changes, faults>>

\* One source in Collector.Collect.  A failed read is not tried again before the
\* next pass.
Snapshot(s) ==
  /\ loop = "pass" /\ s \in todo /\ todo' = todo \ {s}
  /\ got' = got \cup {s}
  /\ UNCHANGED <<sync, canceled, loop, notify, timer, tick>>
  /\ UNCHANGED <<notifiers, dirty, missed, changes, faults>>

SnapshotFails(s) ==
  /\ loop = "pass" /\ s \in todo /\ todo' = todo \ {s}
  /\ (canceled /\ UNCHANGED faults) \/ Fault
  /\ missed' = missed \cup ({s} \cap dirty)
  /\ UNCHANGED <<sync, canceled, loop, got, notify, timer, tick>>
  /\ UNCHANGED <<notifiers, dirty, changes>>

PassEnds ==
  /\ loop = "pass" /\ todo = {} /\ loop' = "select"
  /\ dirty' = dirty \ got /\ missed' = missed \ got /\ got' = {}
  /\ UNCHANGED <<sync, canceled, todo, notify, timer, tick, notifiers, changes, faults>>

\* The store cannot be read (a delay follows), or a panic is recovered.  Before it,
\* a variant that goes on where the pass broke off.
AbandonedHalfway ==
  /\ loop = "pass" /\ Fault /\ loop' = "select" /\ missed' = missed \cup dirty
  /\ UNCHANGED <<sync, canceled, todo, got, notify, timer, tick, notifiers, dirty, changes>>
PassAbandoned ==
  /\ loop = "pass" /\ Fault /\ loop' = "select"
  /\ todo' = {} /\ got' = {} /\ missed' = missed \cup dirty
  /\ UNCHANGED <<sync, canceled, notify, timer, tick, notifiers, dirty, changes>>
-----------------------------------------------------------------------------
(* Notify *)

RunRest == UNCHANGED <<sync, canceled, run, dirty, changes>>

\* The Docker source opens its event stream, if it is to use events; a stream that
\* cannot be opened delivers an error.
Subscribe(s) ==
  /\ at[s] = "start" /\ s \in Docker /\ at' = [at EXCEPT ![s] = "select"]
  /\ \/ sync.events /\ stream' = [stream EXCEPT ![s] = "open"] /\ UNCHANGED faults
     \/ sync.events /\ stream' = [stream EXCEPT ![s] = "broken"] /\ Fault
     \/ ~sync.events /\ UNCHANGED <<stream, faults>>
  /\ UNCHANGED <<queued, settling, missed>> /\ RunRest

\* The YAML source sets up its watcher, once, for the directories the glob matches then.
\* Without a watcher it gives up, and a directory that cannot be added is only logged.
Watch(s) ==
  /\ at[s] = "start" /\ s \in Yaml
  /\ \/ /\ at' = [at EXCEPT ![s] = "select"] /\ stream' = [stream EXCEPT ![s] = "open"]
        /\ UNCHANGED faults
     \/ /\ \E pc \in {"select", "stopped"} : at' = [at EXCEPT ![s] = pc]
        /\ Fault /\ UNCHANGED stream
  /\ UNCHANGED <<queued, settling, missed>> /\ RunRest

\* An event arrives: it is passed on, or starts the debounce of the file.
Receive(s) ==
  /\ at[s] = "select" /\ s \in queued /\ queued' = queued \ {s}
  /\ \/ s \in Docker /\ at' = [at EXCEPT ![s] = "signal"] /\ UNCHANGED settling
     \/ s \in Yaml /\ settling' = settling \cup {s} /\ UNCHANGED at
  /\ UNCHANGED <<stream, missed, faults>> /\ RunRest

\* reloadDebounce has passed.
Settle(s) ==
  /\ at[s] = "select" /\ s \in settling /\ settling' = settling \ {s}
  /\ at' = [at EXCEPT ![s] = "signal"]
  /\ UNCHANGED <<stream, queued, missed, faults>> /\ RunRest

\* The poll ticker of the Docker source.
Poll(s) ==
  /\ at[s] = "select" /\ s \in Docker /\ sync.poll
  /\ at' = [at EXCEPT ![s] = "signal"]
  /\ UNCHANGED <<stream, queued, settling, missed, faults>> /\ RunRest

\* The stream's error is received: its messages are dropped with it, and
\* resubscribing is scheduled unless the process is stopping.
StreamError(s) ==
  /\ at[s] = "select" /\ stream[s] = "broken" /\ queued' = queued \ {s}
  /\ stream' = [stream EXCEPT ![s] = IF canceled THEN "none" ELSE "waiting"]
  /\ UNCHANGED <<at, settling, missed, faults>> /\ RunRest

\* Subscribe again, then ask for a pass.  Before it, a variant that does not ask.
ResubscribeOnly(s) ==
  /\ at[s] = "select" /\ stream[s] = "waiting"
  /\ \/ stream' = [stream EXCEPT ![s] = "open"] /\ UNCHANGED faults
     \/ stream' = [stream EXCEPT ![s] = "broken"] /\ Fault
  /\ UNCHANGED <<at, queued, settling, missed>> /\ RunRest
Resubscribe(s) ==
  /\ at[s] = "select" /\ stream[s] = "waiting"
  /\ at' = [at EXCEPT ![s] = "signal"]
  /\ \/ stream' = [stream EXCEPT ![s] = "open"] /\ UNCHANGED faults
     \/ stream' = [stream EXCEPT ![s] = "broken"] /\ Fault
  /\ UNCHANGED <<queued, settling, missed>> /\ RunRest

\* signal(): blocks while the channel is full.
Signal(s) ==
  /\ at[s] = "signal" /\ ~notify /\ notify' = TRUE
  /\ at' = [at EXCEPT ![s] = "select"]
  /\ UNCHANGED <<sync, canceled, loop, todo, got, timer, tick, stream, queued, settling>>
  /\ UNCHANGED <<dirty, missed, changes, faults>>

\* ctx.Done is chosen, also while waiting to signal.  Before it, a variant whose
\* signal does not watch ctx.
StopUnlessSignaling(s) ==
  /\ canceled /\ at[s] = "select" /\ at' = [at EXCEPT ![s] = "stopped"]
  /\ UNCHANGED <<stream, queued, settling, missed, faults>> /\ RunRest
Stop(s) ==
  /\ canceled /\ at[s] \in {"select", "signal"} /\ at' = [at EXCEPT ![s] = "stopped"]
  /\ UNCHANGED <<stream, queued, settling, missed, faults>> /\ RunRest
-----------------------------------------------------------------------------
(* The clock and the environment *)

TimerFires ==
  /\ timer = "armed" /\ timer' = "fired"
  /\ UNCHANGED <<sync, canceled, loop, todo, got, notify, tick>>
  /\ UNCHANGED <<notifiers, dirty, missed, changes, faults>>

Tick ==
  /\ sync.ticker /\ ~tick /\ tick' = TRUE
  /\ UNCHANGED <<sync, canceled, loop, todo, got, notify, timer>>
  /\ UNCHANGED <<notifiers, dirty, missed, changes, faults>>

\* A source changes.  There is an event if somebody listens, a new subscription
\* asks for a pass, and the first pass may still be about to look; else the change
\* is missed.
Change(s) ==
  /\ changes > 0 /\ changes' = changes - 1
  /\ dirty' = dirty \cup {s} /\ got' = got \ {s}
  /\ queued' = IF stream[s] = "open" THEN queued \cup {s} ELSE queued
  /\ missed' = IF stream[s] = "none" /\ s \notin todo
               THEN missed \cup {s} ELSE missed
  /\ UNCHANGED <<sync, canceled, loop, todo, notify, timer, tick>>
  /\ UNCHANGED <<at, stream, settling, faults>>

\* A file changes in a directory that the glob did not match when the watcher was set
\* up: there is no event.
ChangeUnwatched(s) ==
  /\ s \in Yaml /\ changes > 0 /\ changes' = changes - 1
  /\ dirty' = dirty \cup {s} /\ got' = got \ {s}
  /\ missed' = IF s \notin todo THEN missed \cup {s} ELSE missed
  /\ UNCHANGED <<sync, canceled, loop, todo, notify, timer, tick, notifiers, faults>>

\* A watched directory goes away, and the watch with it: if it comes back, nobody
\* watches it.  What happens to its files are changes of their own.
LoseWatch(s) ==
  /\ s \in Yaml /\ stream[s] = "open" /\ Fault
  /\ stream' = [stream EXCEPT ![s] = "none"]
  /\ UNCHANGED <<at, queued, settling, missed>> /\ RunRest

\* The Docker event stream breaks off, with or without the events on their way.
LoseStream(s) ==
  /\ s \in Docker /\ stream[s] = "open" /\ Fault
  /\ stream' = [stream EXCEPT ![s] = "broken"]
  /\ queued' \in {queued, queued \ {s}}
  /\ UNCHANGED <<at, settling, missed>> /\ RunRest

\* The kernel's queue of file events overflows; the watcher's error is only logged.
Overflow(s) ==
  /\ s \in Yaml \cap queued /\ Fault /\ queued' = queued \ {s}
  /\ missed' = missed \cup ({s} \cap dirty)
  /\ UNCHANGED <<at, stream, settling>> /\ RunRest

\* SIGTERM.
Cancel ==
  /\ ~canceled /\ canceled' = TRUE
  /\ UNCHANGED <<sync, run, notifiers, dirty, missed, changes, faults>>

Init ==
  /\ sync \in Syncs /\ canceled = FALSE
  /\ loop = "pass" /\ todo = Sources /\ got = {}
  /\ notify = FALSE /\ timer = "off" /\ tick = FALSE
  /\ at = [s \in Sources |-> "start"] /\ stream = [s \in Sources |-> "none"]
  /\ queued = {} /\ settling = {}
  /\ dirty = Sources /\ missed = {}
  /\ changes = MaxChanges /\ faults = MaxFaults

Pass == PassEnds \/ PassAbandoned \/ \E s \in Sources : Snapshot(s) \/ SnapshotFails(s)
Notifier(s) ==
  \/ Subscribe(s) \/ Watch(s) \/ Receive(s) \/ Settle(s) \/ Poll(s)
  \/ StreamError(s) \/ Resubscribe(s) \/ Signal(s) \/ Stop(s)

Next ==
  \/ Notified \/ Debounced \/ Ticked \/ Shutdown \/ Pass
  \/ \E s \in Sources : Notifier(s) \/ Change(s) \/ ChangeUnwatched(s)
  \/ \E s \in Sources : LoseStream(s) \/ LoseWatch(s) \/ Overflow(s)
  \/ TimerFires \/ Tick \/ Cancel

Spec == Init /\ [][Next]_vars

\* What a notifier does about its events, each of which ends with them, and what
\* the loop does until it is to stop.
Consume(s) == Receive(s) \/ Settle(s) \/ StreamError(s) \/ Resubscribe(s)
Work == Notified \/ Debounced \/ Ticked \/ Pass

\* Goroutines run and timers expire; a case of a select that stays ready is chosen in
\* the end.  Nothing is assumed of the environment.
FairSpec ==
  /\ Spec
  /\ WF_vars(Work) /\ WF_vars(Shutdown) /\ WF_vars(TimerFires) /\ WF_vars(Tick)
  /\ \A s \in Sources :
       /\ WF_vars(Subscribe(s) \/ Watch(s) \/ Poll(s))
       /\ WF_vars(Consume(s)) /\ WF_vars(Signal(s)) /\ WF_vars(Stop(s))
-----------------------------------------------------------------------------
(* Properties *)

\* Somewhere between the source and the loop there is still something that leads
\* to a pass which will look at source s.
OnItsWay(s) ==
  \/ s \in queued \cup settling \cup todo \cup got
  \/ at[s] = "signal" \/ stream[s] \in {"broken", "waiting"}
  \/ notify \/ timer # "off"

\* No wake-up is lost: a change that was not missed for one of the stated reasons
\* (no stream or watcher yet, any more or at all, a directory that is not watched, an
\* overflow, a failed read, an abandoned pass) is always on its way, through coalesced
\* signals, a full channel, timers that are reset, and a stream that breaks and is
\* opened again.
NothingLost == ~canceled => \A s \in dirty \ missed : OnItsWay(s)

\* Every change is taken in by a later pass; a missed one too if there is a ticker,
\* or polling.
Promised(s) == s \notin missed \/ sync.ticker \/ (sync.poll /\ s \in Docker)
ChangesSeen ==
  \A s \in Sources :
    s \in dirty /\ Promised(s) ~> s \notin dirty \/ ~Promised(s) \/ canceled

\* After a signal the loop and every notifier stop, one that is blocked on the
\* channel of the stopped loop included.
EverybodyStops ==
  canceled ~> loop = "stopped" /\ \A s \in Sources : at[s] = "stopped"
=============================================================================
