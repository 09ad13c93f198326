------------------------------ MODULE Reconcile ------------------------------
(***************************************************************************)
(* The reconcile loop of Beacons: a single goroutine that snapshots the    *)
(* sources, reads the store, optionally reads the upstreams back, diffs,   *)
(* and lets the executor apply the plan with concurrent workers            *)
(* (internal/reconcile), over a store that is flushed once per pass        *)
(* (internal/registry) and upstreams that may fail, apply an operation and *)
(* lose the answer, or panic (pkg/upstream).                               *)
(*                                                                         *)
(* What the model keeps of time is which retry gates are closed and which  *)
(* upstreams are due for verification; both reopen by steps of their own.  *)
(* When a pass starts (notification, debounce, ticker) is left open: it    *)
(* may start whenever the loop is idle.                                    *)
(***************************************************************************)
EXTENDS Diff, FiniteSets

CONSTANTS Configs,     \* configurations a process may be started with
          Verified,    \* upstreams with verify_interval > 0
          Persistent,  \* TRUE for the file store, FALSE for the memory store
          MaxConc,     \* MaxConcurrency of the executor
          Faults,      \* the kinds of fault the environment may cause
          MaxEdits,    \* bound on source edits and out-of-band zone edits
          MaxFaults,   \* bound on faults
          MaxRetries   \* bound on the retries of a record that keeps failing;
                       \* only a disabled upstream gets there

Modes == {"absent", "live", "dry", "disabled"}
Config == [sources : SUBSET Sources, mode : [Upstreams -> Modes]]

\* An op of the plan and how far its worker has got.
OpState == {"queued", "running", "effected", "ok", "failed", "panicked", "skipped"}
Op == [kind : {"create", "update", "delete", "noop"}, rec : Record, st : OpState]

ASSUME ReconcileAssumption ==
  /\ Configs # {} /\ Configs \subseteq Config
  \* sync.dry_run wraps every upstream that initialises, or none
  /\ \A c \in Configs : \A u, v \in Upstreams : c.mode[u] = "dry" => c.mode[v] # "live"
  /\ Verified \subseteq Upstreams
  /\ Persistent \in BOOLEAN
  /\ MaxConc \in Nat \ {0}
  /\ None \notin Op /\ None \notin Upstreams
  /\ MaxEdits \in Nat /\ MaxFaults \in Nat /\ MaxRetries \in Nat

VARIABLES
  src,          \* key -> the record its source declares now, or None
  zone,         \* upstream -> what the DNS provider holds
  cfg,          \* configuration of the running process
  canceled,     \* ctx was canceled: the process is shutting down
  store, disk,  \* key -> store entry, in memory and in the state file
  lastGood,     \* Collector.lastGood, per key
  gate,         \* keys whose nextRetry lies in the future
  due,          \* upstreams whose nextCheck has passed
  pc, todo, cur,                          \* control of the pass
  desired, snapshotted, actual, ops,      \* its local data
  drifted, unrecorded, unflushed,         \* history variables, see below
  dropped, left, streak,
  edits, faults                           \* environment steps left

\* The history variables: keys whose zone content was last changed (or, in a
\* dry run, left unchanged) behind the back of Beacons; keys whose upstream
\* content an operation changed without the in-memory store, or the state
\* file, having learnt it; keys somebody removed (from the source, with the
\* source, or by editing the zone); per key, the slots that may hold something the
\* store does not describe: the outcome of a call is not recorded, a failed update
\* or a rename has overwritten the entry, a delete for an upstream that is not
\* configured or a dry run has changed the entry alone, or somebody has edited the
\* slot; failed attempts in a row per key.
history == <<drifted, unrecorded, unflushed, dropped, left, streak>>
world == <<src, zone, cfg>>
memory == <<lastGood, gate, due>>
pass == <<pc, todo, cur, desired, snapshotted, actual, ops>>
vars == <<world, canceled, store, disk, memory, pass, history, edits, faults>>

Nothing == [k \in Keys |-> None]
NotFetched == [u \in Upstreams |-> None]
KeysOf(s) == {k \in Keys : SourceOf[k] = s}
Settled == {"ok", "failed", "panicked", "skipped"}

Fault(f) == f \in Faults /\ faults > 0 /\ faults' = faults - 1

TypeOK ==
  /\ src \in [Keys -> Maybe(Record)] /\ \A k \in Keys : src[k] \in Maybe(RecordOf(k))
  /\ zone \in [Upstreams -> Zone]
  /\ cfg \in Config /\ canceled \in BOOLEAN
  /\ store \in [Keys -> Maybe(Entry)] /\ disk \in [Keys -> Maybe(Entry)]
  /\ lastGood \in [Keys -> Maybe(Record)]
  /\ gate \subseteq Keys /\ due \subseteq Upstreams
  /\ pc \in {"idle", "collect", "verify", "apply", "run"}
  /\ todo \subseteq Sources \cup Upstreams /\ cur \in Maybe(Upstreams)
  /\ desired \in [Keys -> Maybe(Record)] /\ snapshotted \subseteq Sources
  /\ actual \in [Upstreams -> Maybe(Zone)]
  /\ ops \in [Keys -> Maybe(Op)]
  /\ drifted \subseteq Keys /\ unrecorded \subseteq Keys /\ unflushed \subseteq Keys
  /\ dropped \subseteq Keys /\ left \in [Keys -> SUBSET Slots] /\ streak \in [Keys -> Nat]
  /\ edits \in Nat /\ faults \in Nat
-----------------------------------------------------------------------------
(* The pass: locals of reconcile() are reset when it returns. *)

ResetPass ==
  /\ pc' = "idle" /\ todo' = {} /\ cur' = None /\ desired' = Nothing
  /\ snapshotted' = {} /\ actual' = NotFetched /\ ops' = Nothing

StartPass ==
  /\ pc = "idle" /\ ~canceled
  /\ pc' = "collect" /\ todo' = cfg.sources
  /\ UNCHANGED <<cur, desired, snapshotted, actual, ops>>
  /\ UNCHANGED <<world, canceled, store, disk, memory, history, edits, faults>>

\* Collector.Collect, one source: a clean snapshot.
SnapshotOk(s) ==
  /\ pc = "collect" /\ s \in todo
  /\ desired' = [k \in Keys |-> IF k \in KeysOf(s) THEN src[k] ELSE desired[k]]
  /\ lastGood' = [k \in Keys |-> IF k \in KeysOf(s) THEN src[k] ELSE lastGood[k]]
  /\ snapshotted' = snapshotted \cup {s}
  /\ todo' = todo \ {s}
  /\ UNCHANGED <<pc, cur, actual, ops, gate, due>>
  /\ UNCHANGED <<world, canceled, store, disk, history, edits, faults>>

\* Collector.Collect, one source: the read fails, its last good records are
\* reused and its name is left out of snapshotted.
SnapshotFails(s) ==
  /\ pc = "collect" /\ s \in todo
  /\ \/ canceled /\ UNCHANGED faults
     \/ Fault("snapshot")
  /\ desired' = [k \in Keys |-> IF k \in KeysOf(s) THEN lastGood[k] ELSE desired[k]]
  /\ todo' = todo \ {s}
  /\ UNCHANGED <<pc, cur, snapshotted, actual, ops>>
  /\ UNCHANGED <<world, canceled, store, disk, memory, history, edits>>

\* Source names found in the store but no longer configured; before it, two
\* faulty variants: one that never marks any, one that forgets "configured".
noOrphanSources == {}
allRecordedSources == {SourceOf[k] : k \in {j \in Keys : store[j] # None}}
markOrphanSources == {SourceOf[k] : k \in {j \in Keys : store[j] # None}} \ cfg.sources

\* Upstreams UpstreamCollector.Collect will list this pass: dry-run and
\* disabled upstreams are no Listers.
VerifyDue == {u \in Verified \cap due : cfg.mode[u] = "live"}

\* store.List succeeds; the orphan sources join the snapshotted ones.
ReadStore ==
  /\ pc = "collect" /\ todo = {}
  /\ snapshotted' = snapshotted \cup markOrphanSources
  /\ pc' = "verify" /\ todo' = VerifyDue
  /\ UNCHANGED <<cur, desired, actual, ops>>
  /\ UNCHANGED <<world, canceled, store, disk, memory, history, edits, faults>>

\* UpstreamCollector.Collect, one upstream: List answers.
ListOk(u) ==
  /\ pc = "verify" /\ u \in todo
  /\ actual' = [actual EXCEPT ![u] = Listed(u, zone[u])]
  /\ due' = due \ {u}
  /\ todo' = todo \ {u}
  /\ UNCHANGED <<pc, cur, desired, snapshotted, ops, lastGood, gate>>
  /\ UNCHANGED <<world, canceled, store, disk, history, edits, faults>>

\* List fails: the store is trusted this pass, and the check stays due.
ListFails(u) ==
  /\ pc = "verify" /\ u \in todo
  /\ \/ canceled /\ UNCHANGED faults
     \/ Fault("list")
  /\ todo' = todo \ {u}
  /\ UNCHANGED <<pc, cur, desired, snapshotted, actual, ops>>
  /\ UNCHANGED <<world, canceled, store, disk, memory, history, edits>>

\* store.List fails, or a source or a Lister panics: the pass is given up.
AbandonPass ==
  /\ pc \in {"collect", "verify"} /\ Fault("abandon")
  /\ ResetPass
  /\ UNCHANGED <<world, canceled, store, disk, memory, history, edits>>
-----------------------------------------------------------------------------
(* The executor. *)

\* diff, then the gate test of applyUpstream, which compares every nextRetry
\* with the time read once when apply starts.
InitialState(k, kind) ==
  IF kind = "noop" \/ k \in gate THEN "skipped" ELSE "queued"

MakePlan ==
  /\ pc = "verify" /\ todo = {}
  /\ LET plan == diff(desired, store, snapshotted, actual) IN
       /\ ops' = [k \in Keys |->
                    IF plan[k] = None THEN None
                    ELSE [kind |-> plan[k].kind, rec |-> plan[k].rec,
                          st |-> InitialState(k, plan[k].kind)]]
       /\ todo' = {UpstreamOf[k] : k \in {j \in Keys : plan[j] # None}}
  /\ pc' = "apply"
  /\ desired' = Nothing /\ snapshotted' = {} /\ actual' = NotFetched
  /\ UNCHANGED cur
  /\ UNCHANGED <<world, canceled, store, disk, memory, history, edits, faults>>

\* Removes the ops of upstream u from the plan, once they are dealt with.
Finish(u) ==
  /\ ops' = [k \in Keys |-> IF UpstreamOf[k] = u THEN None ELSE ops[k]]
  /\ todo' = todo \ {u} /\ pc' = "apply" /\ cur' = None
  /\ UNCHANGED <<desired, snapshotted, actual>>

\* The slot the store has for key k.
RecordedSlot(k) == IF store[k] = None THEN {} ELSE {store[k].rec.slot}

\* An upstream that is not configured: deletes drop the store entry, the rest
\* is skipped.
applyUnknownUpstream(u) ==
  /\ pc = "apply" /\ u \in todo /\ cfg.mode[u] = "absent"
  /\ store' = [k \in Keys |->
                 IF UpstreamOf[k] = u /\ ops[k] # None /\ ops[k].kind = "delete"
                 THEN None ELSE store[k]]
  /\ left' = [k \in Keys |->
                IF UpstreamOf[k] = u /\ ops[k] # None /\ ops[k].kind = "delete"
                THEN left[k] \cup RecordedSlot(k) ELSE left[k]]
  /\ Finish(u)
  /\ UNCHANGED <<drifted, unrecorded, unflushed, dropped, streak>>
  /\ UNCHANGED <<world, canceled, disk, memory, edits, faults>>

\* apply moves on to the next upstream of the plan (a random map order).
applyUpstream(u) ==
  /\ pc = "apply" /\ u \in todo /\ cfg.mode[u] # "absent"
  /\ pc' = "run" /\ cur' = u
  /\ UNCHANGED <<todo, desired, snapshotted, actual, ops>>
  /\ UNCHANGED <<world, canceled, store, disk, memory, history, edits, faults>>

OpIn(k, states) ==
  pc = "run" /\ UpstreamOf[k] = cur /\ ops[k] # None /\ ops[k].st \in states
InFlight == {k \in Keys : OpIn(k, {"running", "effected"})}
Become(k, s) == ops' = [ops EXCEPT ![k].st = s]
PassRest == UNCHANGED <<pc, todo, cur, desired, snapshotted, actual>>

\* A worker is started under the semaphore; with a canceled ctx its request
\* fails before it leaves, and the failure is skipped (a dry run has no request).
StartOp(k) ==
  /\ OpIn(k, {"queued"}) /\ Cardinality(InFlight) < MaxConc
  /\ Become(k, IF canceled /\ cfg.mode[cur] # "dry" THEN "skipped" ELSE "running")
  /\ PassRest
  /\ UNCHANGED <<world, canceled, store, disk, memory, history, edits, faults>>

\* What an adapter does to the zone.  Upsert replaces what the (type, name)
\* holds; Delete removes it only if the value is the one given, and succeeds
\* when there is nothing to remove.
Upsert(u, z, r) == [z EXCEPT ![r.slot] = Stored(u, r)]
Delete(z, r) ==
  IF z[r.slot] # None /\ z[r.slot].val = r.val THEN [z EXCEPT ![r.slot] = None] ELSE z

\* The provider carries out the operation; the answer is still on its way.
Effect(k) ==
  /\ OpIn(k, {"running"}) /\ cfg.mode[cur] = "live"
  /\ zone' = [zone EXCEPT ![cur] =
                IF ops[k].kind = "delete" THEN Delete(zone[cur], ops[k].rec)
                                          ELSE Upsert(cur, zone[cur], ops[k].rec)]
  /\ Become(k, "effected") /\ PassRest
  /\ drifted' = drifted \ {k}
  /\ unrecorded' = unrecorded \cup {k} /\ unflushed' = unflushed \cup {k}
  /\ left' = [left EXCEPT ![k] =
                IF ops[k].kind = "delete"
                THEN IF zone' = zone THEN @ ELSE @ \ {ops[k].rec.slot}
                ELSE @ \cup {ops[k].rec.slot} \cup RecordedSlot(k)]
  /\ UNCHANGED <<dropped, streak>>
  /\ UNCHANGED <<src, cfg, canceled, store, disk, memory, edits, faults>>

\* The call returns nil: after the effect, or at once in a dry run.
ReturnOk(k) ==
  /\ \/ /\ OpIn(k, {"effected"})
        /\ UNCHANGED <<drifted, left>>
     \/ /\ OpIn(k, {"running"}) /\ cfg.mode[cur] = "dry"
        /\ drifted' = drifted \cup {k}
        /\ left' = [left EXCEPT ![k] = @ \cup RecordedSlot(k)]
  /\ Become(k, "ok") /\ PassRest
  /\ streak' = [streak EXCEPT ![k] = 0]
  /\ UNCHANGED <<unrecorded, unflushed, dropped>>
  /\ UNCHANGED <<world, canceled, store, disk, memory, edits, faults>>

\* The call returns an error: the provider refused or was never reached, the
\* answer to a carried-out operation was lost, the upstream is disabled, or
\* ctx was canceled, in which case the result is not counted.
ReturnErr(k) ==
  /\ \/ OpIn(k, {"running"}) /\ cfg.mode[cur] = "live" /\ Fault("upstream")
     \/ OpIn(k, {"effected"}) /\ Fault("lost")
     \/ OpIn(k, {"running"}) /\ cfg.mode[cur] = "disabled" /\ UNCHANGED faults
     \/ OpIn(k, {"running", "effected"}) /\ cfg.mode[cur] = "live"
          /\ canceled /\ UNCHANGED faults
  /\ Become(k, IF canceled THEN "skipped" ELSE "failed") /\ PassRest
  /\ streak' = IF canceled THEN streak ELSE [streak EXCEPT ![k] = @ + 1]
  /\ UNCHANGED <<drifted, unrecorded, unflushed, dropped, left>>
  /\ UNCHANGED <<world, canceled, store, disk, memory, edits>>

\* The adapter panics; the worker recovers.
PanicOp(k) ==
  /\ OpIn(k, {"running", "effected"}) /\ cfg.mode[cur] = "live" /\ Fault("panic")
  /\ Become(k, "panicked") /\ PassRest
  /\ streak' = [streak EXCEPT ![k] = @ + 1]
  /\ UNCHANGED <<drifted, unrecorded, unflushed, dropped, left>>
  /\ UNCHANGED <<world, canceled, store, disk, memory, edits>>

\* The recorded failure count; a faulty variant does not carry it forward.
noPrior(k) == 0
Prior(k) == IF store[k] = None THEN 0 ELSE store[k].failures

\* Faulty variants of resultEntry: the error of a failed op is overlooked; a
\* recovered panic is taken for success; a failed delete is stored as pending.
errorOverlooked(k, o) ==
  IF o.st = "skipped" THEN store[k]
  ELSE IF o.kind = "delete" THEN None
  ELSE [rec |-> o.rec, status |-> "synced", failures |-> 0]
panicOverlooked(k, o) ==
  IF o.st \in {"ok", "panicked"} THEN errorOverlooked(k, o)
  ELSE IF o.st = "skipped" THEN store[k]
  ELSE [rec |-> o.rec, status |-> "failed", failures |-> Prior(k) + 1]
storedAsPending(k, o) ==
  IF o.st = "failed" THEN [rec |-> o.rec, status |-> "pending", failures |-> Prior(k) + 1]
  ELSE errorOverlooked(k, o)

\* The store entry an op's result leads to.  do() carries the recorded failure
\* count onto the desired record; the panic handler starts from op.Record,
\* which for an upsert is the desired record and has no failures.
resultEntry(k, o) ==
  CASE o.st = "ok" /\ o.kind = "delete" -> None
    [] o.st = "ok" /\ o.kind # "delete" ->
         [rec |-> o.rec, status |-> "synced", failures |-> 0]
    [] o.st = "failed" ->
         [rec |-> o.rec, failures |-> Prior(k) + 1,
          status |-> IF o.kind = "delete" THEN "pending_delete" ELSE "failed"]
    [] o.st = "panicked" ->
         [rec |-> o.rec, status |-> "failed",
          failures |-> IF o.kind = "delete" THEN Prior(k) + 1 ELSE 1]
    [] OTHER -> store[k]

Results == {k \in Keys : UpstreamOf[k] = cur /\ ops[k] # None}
Reported == {k \in Results : ops[k].st # "skipped"}
everyResult == Reported
FailedNow == {k \in Reported : ops[k].st # "ok"}

\* An upsert that succeeded is described by its new entry, unless the slot was edited
\* since.  One that failed has replaced the entry that described what is still there, if
\* it was about another record.
LeftBy(k) ==
  CASE k \in Reported \ drifted /\ ops[k].kind # "delete" /\ ops[k].st = "ok" ->
         left[k] \ {ops[k].rec.slot}
    [] k \in FailedNow /\ ops[k].kind # "delete" /\ store[k] # None
         /\ (ops[k].rec.slot # store[k].rec.slot \/ ops[k].rec.val # store[k].rec.val) ->
         left[k] \cup {store[k].rec.slot}
    [] OTHER -> left[k]

\* After wg.Wait: all store writes and retry gates of this upstream, serially.
persist ==
  /\ pc = "run" /\ \A k \in Results : ops[k].st \in Settled
  /\ store' = [k \in Keys |->
                 IF k \in Results THEN resultEntry(k, ops[k]) ELSE store[k]]
  /\ gate' = (gate \ Reported) \cup FailedNow
  /\ unrecorded' = unrecorded \ Reported
  /\ left' = [k \in Keys |-> LeftBy(k)]
  /\ Finish(cur)
  /\ UNCHANGED <<lastGood, due, drifted, unflushed, dropped, streak>>
  /\ UNCHANGED <<world, canceled, disk, edits, faults>>

\* The end of Batch: one flush of the whole store.  Apply drops its error.
FinishPass ==
  /\ pc = "apply" /\ todo = {}
  /\ \/ /\ disk' = IF Persistent THEN store ELSE disk
        /\ unflushed' = IF Persistent THEN unrecorded ELSE unflushed
        /\ UNCHANGED faults
     \/ Persistent /\ Fault("flush") /\ UNCHANGED <<disk, unflushed>>
  /\ ResetPass
  /\ UNCHANGED <<drifted, unrecorded, dropped, left, streak>>
  /\ UNCHANGED <<world, canceled, store, memory, edits>>
-----------------------------------------------------------------------------
(* The clock and the environment. *)

\* A retry gate opens: its nextRetry has passed.
GateOpens(k) ==
  /\ k \in gate /\ streak[k] <= MaxRetries
  /\ gate' = gate \ {k}
  /\ UNCHANGED <<lastGood, due>>
  /\ UNCHANGED <<world, canceled, store, disk, pass, history, edits, faults>>

\* verify_interval has passed since the last successful List.
CheckDue(u) ==
  /\ u \in Verified \ due /\ due' = due \cup {u}
  /\ UNCHANGED <<lastGood, gate>>
  /\ UNCHANGED <<world, canceled, store, disk, pass, history, edits, faults>>

\* Somebody adds, changes, renames or removes the record behind key k.
EditSource(k) ==
  /\ edits > 0 /\ edits' = edits - 1
  /\ \E r \in Maybe(RecordOf(k)) \ {src[k]} :
       /\ src' = [src EXCEPT ![k] = r]
       /\ dropped' = IF r = None THEN dropped \cup {k} ELSE dropped
  /\ UNCHANGED <<drifted, unrecorded, unflushed, left, streak, zone, cfg>>
  /\ UNCHANGED <<canceled, store, disk, memory, pass, faults>>

\* Somebody edits, deletes or adds a record directly at the provider (which, if
\* it does not keep attr or the priority, has none to edit).
OutOfBand(u, s) ==
  /\ "drift" \in Faults /\ edits > 0 /\ edits' = edits - 1
  /\ \E r \in Maybe({x \in Record : x.slot = s /\ x = Stored(u, x)}) \ {zone[u][s]} :
       zone' = [zone EXCEPT ![u][s] = r]
  /\ LET hit == {k \in Keys : UpstreamOf[k] = u /\ s \in SlotsOf[k]} IN
       /\ drifted' = drifted \cup hit /\ dropped' = dropped \cup hit
       /\ left' = [k \in Keys |-> IF k \in hit THEN left[k] \cup {s} ELSE left[k]]
  /\ UNCHANGED <<unrecorded, unflushed, streak, src, cfg>>
  /\ UNCHANGED <<canceled, store, disk, memory, pass, faults>>

\* The process starts over: everything but the state file is forgotten.
Boot(c) ==
  /\ cfg' = c /\ canceled' = FALSE
  /\ store' = disk /\ lastGood' = Nothing /\ gate' = {} /\ due' = Upstreams
  /\ ResetPass
  /\ unrecorded' = unflushed
  /\ streak' = [k \in Keys |-> IF disk[k] = None THEN 0 ELSE disk[k].failures]
  /\ left' = [k \in Keys |-> IF k \in unflushed THEN left[k] \cup RecordedSlot(k) ELSE left[k]]
  /\ dropped' = dropped \cup {k \in Keys : SourceOf[k] \notin c.sources}
  /\ UNCHANGED <<src, zone, disk, drifted, unflushed, edits>>

Crash(c) == Fault("crash") /\ Boot(c)

\* SIGTERM: ctx is canceled, at any point of a pass.
Cancel ==
  /\ ~canceled /\ Fault("cancel")
  /\ canceled' = TRUE
  /\ UNCHANGED <<world, store, disk, memory, pass, history, edits>>

\* Run returns once the pass in progress is over.
Exit(c) == canceled /\ pc = "idle" /\ Boot(c) /\ UNCHANGED faults
-----------------------------------------------------------------------------
Init ==
  /\ src \in [Keys -> Maybe(Record)] /\ \A k \in Keys : src[k] \in Maybe(RecordOf(k))
  /\ zone = [u \in Upstreams |-> EmptyZone]
  /\ cfg \in Configs /\ canceled = FALSE
  /\ store = Nothing /\ disk = Nothing
  /\ lastGood = Nothing /\ gate = {} /\ due = Upstreams
  /\ pc = "idle" /\ todo = {} /\ cur = None /\ desired = Nothing
  /\ snapshotted = {} /\ actual = NotFetched /\ ops = Nothing
  /\ drifted = {} /\ unrecorded = {} /\ unflushed = {}
  /\ dropped = {k \in Keys : SourceOf[k] \notin cfg.sources}
  /\ left = [k \in Keys |-> {}] /\ streak = [k \in Keys |-> 0]
  /\ edits = MaxEdits /\ faults = MaxFaults

\* The steps of the process itself, and of the providers answering it.
System ==
  \/ StartPass \/ ReadStore \/ MakePlan \/ persist \/ FinishPass \/ AbandonPass
  \/ \E s \in Sources : SnapshotOk(s) \/ SnapshotFails(s)
  \/ \E u \in Upstreams :
       ListOk(u) \/ ListFails(u) \/ applyUnknownUpstream(u) \/ applyUpstream(u)
  \/ \E k \in Keys :
       StartOp(k) \/ Effect(k) \/ ReturnOk(k) \/ ReturnErr(k) \/ PanicOp(k)
  \/ \E c \in Configs : Exit(c)

Next ==
  \/ System
  \/ \E k \in Keys : GateOpens(k) \/ EditSource(k)
  \/ \E u \in Upstreams : CheckDue(u)
  \/ \E u \in Upstreams, s \in Slots : OutOfBand(u, s)
  \/ \E c \in Configs : Crash(c)
  \/ Cancel

Spec == Init /\ [][Next]_vars

\* The loop keeps running passes (the ticker), every worker's call returns
\* (attempt timeouts), and timers expire.  Nothing is assumed of the edits
\* and the faults.
Fairness ==
  /\ WF_vars(System)
  /\ \A k \in Keys : WF_vars(GateOpens(k))
  /\ \A u \in Upstreams : WF_vars(CheckDue(u))

FairSpec == Spec /\ Fairness
-----------------------------------------------------------------------------
(* Properties *)

\* Two keys of one upstream never name the same (type, name): what the labels
\* and files of a deployment without round-robin or re-created containers say.
DisjointSlots ==
  \A j, k \in Keys : j # k /\ UpstreamOf[j] = UpstreamOf[k]
                        => SlotsOf[j] \cap SlotsOf[k] = {}

Synced(e) == e # None /\ e.status = "synced"
InZone(k, r) == zone[UpstreamOf[k]][r.slot] = Stored(UpstreamOf[k], r)

\* An entry the store or the state file calls synced is what the provider
\* holds, unless the provider was edited out of band (or the run was dry), or
\* a crash or shutdown kept the outcome of an operation from being recorded.
\* Failed and lost calls, panics, failed flushes and stale files included.
SyncedIsApplied ==
  \A k \in Keys \ drifted :
    /\ Synced(store[k]) /\ k \notin unrecorded => InZone(k, store[k].rec)
    /\ Synced(disk[k]) /\ k \notin unflushed => InZone(k, disk[k].rec)

\* "No data means no change": while nobody removes a key's record, no failed
\* source read, crash, restart, panic, error or lost answer ever makes Beacons
\* delete it at the provider.
NoDataNoChange ==
  [][\A k \in Keys \ dropped' : \A s \in SlotsOf[k] :
        zone[UpstreamOf[k]][s] # None => zone'[UpstreamOf[k]][s] # None]_vars

\* A retry gate stands for a failure the store knows of: a gate never outlives
\* the failure and holds back a record that is synced or was deleted.
GateOnlyOnFailure ==
  \A k \in gate : store[k] # None /\ store[k].status # "synced"

\* Record.Failures is the number of failed attempts in a row, whatever mix of
\* creates, updates and deletes they were, and counted on from what the state file
\* says after a restart.
FailuresCounted ==
  \A k \in Keys : store[k] # None /\ ops[k] = None => store[k].failures = streak[k]

\* Verification only corrects real drift, of records that List gives back as they were
\* written: such a record, if the store calls it synced and the source still declares
\* it, is written again only if the provider was edited or an outcome was not recorded.
CorrectsOnlyDrift ==
  \A k \in Keys \ (drifted \cup unrecorded) :
    /\ ops[k] # None /\ ops[k].kind \in {"create", "update"} /\ Synced(store[k])
    /\ GivenBack(UpstreamOf[k], store[k].rec)
    => ~appliedEqual(ops[k].rec, store[k].rec)

Declared(k) == src[k] # None /\ SourceOf[k] \in cfg.sources
Wanted(k) == Declared(k) /\ cfg.mode[UpstreamOf[k]] = "live"

\* Once edits and faults cease, every record a configured source declares for
\* a live upstream ends up at the provider, and stays there.
DesiredServed == <>[](\A k \in Keys : Wanted(k) => InZone(k, src[k]))

\* Once edits and faults cease, the store and the provider hold nothing but
\* what the configured sources declare: removed records and the records of
\* removed sources are cleaned up, except in a slot where a failed update, a rename
\* or an unrecorded outcome has made the store forget what it left, or that was
\* edited out of band.
OnlyDeclared ==
  <>[](\A k \in Keys :
         cfg.mode[UpstreamOf[k]] = "live" =>
           /\ store[k] # None => Declared(k)
           /\ \A s \in SlotsOf[k] \ left[k] : zone[UpstreamOf[k]][s] # None =>
                Declared(k) /\ src[k].slot = s)
=============================================================================
