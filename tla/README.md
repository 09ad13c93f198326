# Beacons in TLA+

Beacons watches *sources* (Docker labels, YAML files) that declare DNS records and
keeps *upstreams* (Cloudflare, Technitium, Pi-hole) in step with them. This
directory holds TLA+ models of the parts of Beacons where concurrency, failures
and restarts meet, the TLC instances that check them, and TLAPS proofs of the
results that matter most. `PROJECT.json` maps every definition to the lines it
models and lists runs, findings, hazards and theorems.

1. [The system](#1-the-system)
2. [Modules, state and actions](#2-modules-state-and-actions)
3. [What the runs check](#3-what-the-runs-check)
4. [What is proved](#4-what-is-proved)
5. [Findings](#5-findings)
6. [Abstractions and bounds](#6-abstractions-and-bounds)
7. [Plan](#7-plan)

To check a model, `tlc -config MCReconcile_safety.cfg MCReconcile`; to check the
proofs, `tlapm ReconcileProofs.tla`.

## 1. The system

One process. A single goroutine, `Reconciler.Run`, runs *passes* one after
another; inside a pass, one upstream at a time, up to `MaxConcurrency` (4)
workers call the upstream's adapter. Sources notify the loop from goroutines of
their own. An HTTP server reads the store.

| Component | State | Operations | Interacts with |
|---|---|---|---|
| reconcile loop (`internal/reconcile/reconcile.go`) | debounce timer, store-read backoff | Run, reconcile, markOrphanSources | called by notifications and the ticker; calls collectors, planner, executor |
| source collector (`collect.go`) | `lastGood` per source | Collect | sources' Snapshot |
| upstream collector (`upstream_collect.go`) | `nextCheck` per upstream | Collect | upstreams' List |
| planner (`diff.go`, `plan.go`) | none | diff, driftCorrection, appliedEqual | the adapters' DriftEqual |
| executor (`executor.go`) | `nextRetry`, per key | apply, applyUpstream, do, persist | adapters, store |
| store (`internal/registry`) | map of records, `batching`, state file | Upsert, Delete, DeleteRecord, List, Batch, flush, load | file system |
| adapters (`pkg/upstream/*`) | session (Pi-hole, Technitium) | Upsert, Delete, List | provider APIs, transport |
| transport (`pkg/upstream/transport`) | token, breaker counters | retry, circuit breaker, session auth | providers |
| Docker and YAML sources (`pkg/source/*`) | event subscription, watcher | Snapshot, Run | reconcile loop |
| lifecycle (`cmd/beacons`, `internal/server`) | context | start, signal, shutdown | everything |
| configuration, metrics, health check | none that outlives a call | parse, validate, report | - |

**What is hard.** A pass is a sequence of reads of things that change while it
runs: sources, providers, the store. Its workers touch one provider at the same
time. Each call can fail before or after it took effect; adapters can panic; the
process can be killed, or canceled by a signal, between any two of these steps; and
the only thing that survives is a file that is written once per pass. Hazards are
listed with their lines in `PROJECT.json`.

**What makes each part correct.**

- *Collector*: a source that cannot be read changes nothing (`NoDataNoChange`).
- *Upstream collector and planner*: verification finds every drift
  (`DesiredServed`) and invents none of records that `List` gives back as they were
  written (`CorrectsOnlyDrift`; for the others see `FalseDriftHarmless` below); removed
  records and the records of removed sources are cleaned up, as far as the store knows
  of them (`OnlyDeclared`).
- *Executor*: what is stored as synced has been applied (`SyncedIsApplied`);
  failures are counted (`FailuresCounted`), gated only while they last
  (`GateOnlyOnFailure`) and made good in the end (`DesiredServed`).
- *File store*: a restart finds a complete file (`NeverTorn`), and exactly what was
  last acknowledged (`ImplementsDurableMap`).
- *Pi-hole adapter*: whole-list updates by concurrent workers leave no two entries for a
  name, and lose no line written by hand and bring none back unless it was edited while a
  worker had a copy of the list (`ListsSound`); they leave store and lists in agreement where a record has no rival
  (`SoleWriterTruth`), and list what is declared in the end (`DesiredListed`).
- *Transport*: concurrent requests share logins (`NoNeedlessLogin`) and do not repeat a
  rejected token (`NewerAfterRejection`); the circuit opens on wrong credentials
  (`WrongPasswordTrips`) and not on a dropped session (`NoFalseAlarm`); every request
  returns (`RequestsReturn`).
- *Sources and loop*: a change at a source is always on its way to a pass
  (`NothingLost`) and taken in by one (`ChangesSeen`); a signal stops everybody
  (`EverybodyStops`).
- *Sources' snapshots*: a snapshot that mixes moments still gives every record as it
  was at one of them (`SnapshotRegular`), what could not be read is not deleted
  (`DeletedOnlyIfGone`; both but for a directory the glob could not list and that then
  turns out to be there), and the store follows the source (`InStepInTheEnd`).
- *Cloudflare and Technitium adapters*: repeated and racing requests pile up no records
  (`NoPileUp`); what is stored as synced is served (`SyncedServed`); a listing that is
  torn, names records differently or lacks their priority puts no record at risk and, with
  one exception, sends no request (`FalseDriftHarmless`); what is
  declared is served in the end (`DeclaredServed`).
- *All three adapters*, towards the executor: a call for a record nobody else has to do
  with has its effect at once or not at all, and has had it if it returns nil
  (`ImplementsUpstream`).
- *Lifecycle*: the requests in progress are answered before the process exits
  (`NeverCutShort`; section 5).
- *Backoff lengths*: waits stay within their bounds in 64-bit arithmetic (`RetryWaits`,
  `StoreReadWaits`, `RetryAfterHonoured`).

## 2. Modules, state and actions

| Module | Models |
|---|---|
| `Diff` | records, keys, statuses, and the planner as operators |
| `Reconcile` | a pass from start to flush, the executor's workers, retry gates, verification, restarts; EXTENDS `Diff` |
| `DurableMap` | abstract: what a persistent store promises |
| `FileStore` | the file store, one system call at a time; instantiates `DurableMap` |
| `Upstream` | abstract: what the executor takes an upstream for |
| `Adapter` | what the Cloudflare and Technitium adapters have in common: the pass and the workers around them, the provider's zone, repeated requests |
| `Cloudflare`, `Technitium` | their lookups and requests, one at a time; EXTEND `Adapter` |
| `Adapters` | the two under one set of properties: EXTENDS `Cloudflare`, instantiates `Technitium` and `Upstream` |
| `SourceSnapshot` | `Snapshot` of the YAML source, file by file, and of the Docker source, under `Collector.Collect` |
| `Lifecycle` | main and the HTTP server from start to exit |
| `Backoff` | the lengths of waits, in 64-bit arithmetic, with theorems about them |
| `PiHole` | the Pi-hole adapter's GET-edit-PATCH under concurrent workers; instantiates `Upstream` |
| `Transport` | circuit breaker, retry and session authentication under concurrent requests |
| `NotifyLoop` | from a change at a source to the pass that takes it in: the sources' notifiers, the channel, debounce and ticker |
| `MCReconcile`, `MCFileStore`, `MCAdapters`, `MCPiHole`, `MCNotifyLoop` | constants for TLC (`Transport`, `SourceSnapshot` and `Lifecycle` need none) |
| `ReconcileProofs`, `FileStoreProofs`, `PiHoleProofs`, `TransportProofs`, `NotifyLoopProofs`, `SourceSnapshotProofs`, `AdaptersProofs` | theorems |

### Diff and Reconcile

A record key belongs to one source and one upstream (`SourceOf`, `UpstreamOf`).
A record is a *slot* (type and name), a value, a priority, which a source may declare for
any type, and `attr`, which stands for TTL and comment. What a provider keeps of it is
`Stored`, and what `List` makes of that is `Listed`: a priority comes back only with a type
that has one (`PrioKept`: MX), comments not from the upstreams in `AttrBlind`, and a name
written in full (`FullNames`) not under that name. `GivenBack` are the records that survive
this unchanged. `SlotsOf[k]` are the slots key `k` may name over its life.
`diff` is the planner: for each key, from the desired record, the store entry, the
set of cleanly snapshotted sources and the fetched zone, the op to carry out.

| `Reconcile` | code |
|---|---|
| `StartPass` | `reconcile()` is entered |
| `SnapshotOk`, `SnapshotFails` | one source in `Collector.Collect`; `lastGood` |
| `ReadStore`, `markOrphanSources` | `store.List`, orphan sources |
| `ListOk`, `ListFails`, `CheckDue` | `UpstreamCollector.Collect`; `due` is the set of upstreams whose `nextCheck` has passed |
| `AbandonPass` | the pass's early returns and its `recover` |
| `MakePlan` | `diff` and the `nextRetry` test of `applyUpstream` |
| `applyUpstream`, `applyUnknownUpstream` | the loop of `apply` over upstreams |
| `StartOp`, `Effect`, `ReturnOk`, `ReturnErr`, `PanicOp` | one worker: semaphore, the provider acting, and each way the call can end |
| `persist`, `resultEntry` | the serial writes after `wg.Wait`: store and retry gates |
| `FinishPass` | the end of `Batch`: one flush, whose error is dropped |
| `GateOpens` | `nextRetry` passes |
| `Crash`, `Cancel`, `Exit`, `Boot` | kill, signal, orderly end, and the next start, possibly with another configuration |
| `EditSource`, `OutOfBand` | users, at the source and at the provider |

The mode of an upstream in a configuration is `live`, `dry` (`sync.dry_run`),
`disabled` (it failed to initialise) or `absent` (removed).

Six *history variables* record what the code does not know, so that properties
can say under which circumstances something must hold; no action of the system
reads them, except that `GateOpens` uses `streak` for its bound.

- `drifted`: keys whose zone content was last changed by somebody else, or whose
  last operation was a dry run;
- `unrecorded`, `unflushed`: keys for which an operation took effect and the store
  in memory, or the state file, has not learnt its outcome;
- `dropped`: keys whose record somebody removed, at the source, with the source, or
  at the provider;
- `left`: per key, the slots that may hold something the store does not describe: the
  outcome of a call is not recorded, a failed update or a rename has overwritten the entry,
  a delete for an upstream that is not configured or a dry run has changed the entry alone,
  or somebody has edited the slot;
- `streak`: failed attempts in a row.

### DurableMap and FileStore

`DurableMap` has a map in memory and the set of maps a restart may find. `FileStore`
has the fields of the Go type (`records`, `batching`), the active `Batch` calls,
the step `flush` has reached (`write`, `sync`, `rename`, `syncDir`), the temporary
file, the content the path shows (`visible`) and the set of contents it may show
after a power loss (`survivors`): a rename becomes durable with the fsync of the
directory, the data with the fsync of the file. `Kill` restarts from `visible`,
`PowerLoss` from a member of `survivors`. The refinement maps the map in memory to
`records`, the saved maps to `survivors`, and an acknowledgement to a nil result
given while `batching` is not stuck: after a recovered panic inside `Batch`
nothing clears the flag, and the store goes on returning nil without flushing
(section 5).

`Reconcile` uses the store as one flush per pass, which either happens or leaves the
old file: that is what `FileStoreCorrect` justifies, `FinishPass` being one
`Batch`. A panic inside `Batch` is the exception, and `Reconcile` has none there.

### Adapter, Cloudflare, Technitium and Adapters

In `Reconcile` an adapter call is one effect on a zone with one record per type and name.
Here the zone is a set of records that may share a type and name (a slot), and a call is a
lookup followed by one request per change, between which other workers and other people
act. `Content` is what the provider keeps of the data a source declares, which is without a
priority unless the type has one. An op holds what the lookup found: the id the next request is about (Cloudflare), the
data that names the record (Technitium), the ids still to be deleted. `api` is chosen at
the start and never changes.

| | code |
|---|---|
| `StartPass`, `ListFails`, `Plan`, `Finish` | the pass: verification, `diff`, `persist` |
| `paginateDNSRecords`, `listZoneRecords` | `List`: Cloudflare page by page, Technitium in one answer |
| `Upsert`, `Delete` | the adapter's function up to the first request that changes something |
| `createDNSRecord`, `updateDNSRecord`, `deleteDNSRecord`; `addRecord`, `updateRecord`, `deleteRecord` | the provider carrying out, or refusing, a request |
| `Answered`, `Resend`, `Fails` | the answer arrives; is lost and the transport sends the request again; is lost, or an error, for good |
| `Edit`, `OutOfBand` | users |

The providers are external. Cloudflare refuses a record identical to another one (code
81058, which the adapter treats as success for a POST, and only there) and a second CNAME;
ids are never reused while somebody remembers them. Of Technitium's API the code shows
less, so `addRecord` may refuse what is there already or replace it, and `deleteRecord` of a
record that is not there may succeed or fail.

### Upstream

`Reconcile` takes a call of `Upsert` or `Delete` for one effect and one result. `Upstream`
says what that amounts to, per key: `Begin` when the op is planned, `Effect` (an upsert
leaves the record as the only one of its name, a deletion leaves none like it), `Return`
with nil, only if the name is as the call wants it, or with an error, whatever it had for
an effect, and `End` when the outcome is stored. It promises this to the keys in `alone`:
in `Adapters` those with a name of their own that nobody edited, in `PiHole` those of a
list with one writer at a time. The mapping gives it the data of the name's
records (`Served`), the op without the steps the adapter has taken (`Call`) and the store
entry (`KeptEntry`), both with what the provider keeps of their data. "Like" means equal value and priority, because that is what a deletion goes
by and what tells records apart; comments count only where the provider gives them back
(`comments`). An effect that comes more than once, after a lost answer, is a further
`Effect` of the same call.

### SourceSnapshot

A unit is a file or a container, a key a record in one. `Glob`, `Stat` (if nothing matched)
and `parseFile` are the YAML source, with edits possible before every file and between the
glob and the stat; `ContainerList` is the Docker source;
`CollectOk` and `CollectFails` are the collector, with the effect of the pass on the store,
every operation taken to succeed. The base directory may be readable, gone, or (`hidden`)
there but impossible to list. The history variable `during` collects what each key has said
since the snapshot began; a file that cannot be read says nothing. `base` is `"back"` if the
glob could not list the directory and it is there afterwards.

### Lifecycle and Backoff

`Lifecycle` has main (`Start`, `ReconcilerReturns`, `Exit`), the goroutine of `Server.Run`
(`Listen`, `ServerFails`, `ServeReturns`), the goroutine that shuts it down (`Shutdown`,
`ShutdownEnds`) and its requests (`Accept`, `Answer`). `Backoff` has no state: it defines
`defaultBackoff`, `storeReadBackoff` and the Retry-After part of `calcDelay` with the
wrap-around of an `int64`. Its numbers are beyond TLC's integers, so it has theorems and
no run.

### PiHole

`Get` is the GET with the decision whether anything has to change, `Patch` the
provider replacing the list, `Answer` and `Fail` the end of the call, `Resend` the
transport sending the same list again when an answer is lost. `Plan` and
`Finish` are what is left of the pass around it: which keys are due, and what is
stored. The lists also hold lines that people write and remove by hand, at any time
(`EditByHand`), and that have no record's name. The history variables are `meant`, the lines
people want there, and `raced`, those they edited last while a worker had a copy of the
list that it could still send. `Upstream` sees a value as data without priority and
comment.

### Transport

A request goes through the circuit breaker, the retry loop and the session
middleware; the state is that of the Go types (`authFailures`, `disabled`; `mu`,
`haveToken`, `generation`, and `fresh` for "before `expiresAt`"), one record per
request in flight, and the provider's sessions. A token is the number of the login
that produced it, which is its generation.

| `Transport` | code |
|---|---|
| `RoundTrip`, `ResetFailures`, `recordAuthFailure`, `Trip` | `circuitBreakerTransport`; the counter and the switch are two atomic steps |
| `AttemptFailed`, `NextAttempt` | `retryTransport.RoundTrip`; after the last attempt an error passes the breaker unnoticed, while a 429 or 5xx response resets its counter |
| `ensureToken`, `UseCached` | `ensureToken` up to the login, which is made with `mu` held |
| `Authenticated`, `AuthFailed`, `LoginFails` | the ends of a login (`authenticate` of the Pi-hole adapter): a session, `ErrAuthFailed`, another error |
| `Answered`, `Forbidden`, `Unauthorized`, `SendFails` | the answers to an attempt, and its timeout; the first 401 of an attempt leads back to `ensureToken` |
| `Expire`, `DropSession`, `ChangePassword` | the clock and the provider |

### NotifyLoop

`loop` is where `Run` is (`select`, in a pass, stopped), `at[s]` where `Notify` of source
`s` is (not started, `select`, blocked in `signal()`, stopped), `stream[s]` its event
stream or watcher. Of a pass only the snapshots are left: `todo` and `got`. The
history variables are `dirty`, the sources changed since a pass took them in, and
`missed`, those of which nothing promises another pass: they changed while nobody was
listening (no stream or watcher yet, or at all, a directory that is not watched, a watch
that ended with its directory), their event was dropped in an overflow, their snapshot
failed or the pass was abandoned.

| `NotifyLoop` | code |
|---|---|
| `Notified`, `Debounced`, `Ticked`, `Shutdown` | the cases of the select in `Run` |
| `StartPass`, `Snapshot`, `SnapshotFails`, `PassEnds`, `PassAbandoned` | `reconcile` and `Collect`, seen from outside |
| `Subscribe`, `StreamError`, `Resubscribe`, `Poll` | `Notify` of the Docker source |
| `Watch`, `Settle` | `Notify` of the YAML source; the directories to watch are chosen once |
| `Receive`, `Signal`, `Stop` | both |
| `ChangeUnwatched`, `LoseWatch`, `Overflow` | what the watcher does not report: a directory the glob matched only later, one that was removed and made again, a full queue |
| `TimerFires`, `Tick`, `Change`, `LoseStream`, `Cancel` | clock and environment |

`Reconcile` lets a pass start whenever the loop is idle, and assumes (`Fairness`) that
passes keep starting; `NotifyLoop` is about when they do.

## 3. What the runs check

Passing runs:

| Run | Checks | Instance |
|---|---|---|
| `safety` | `TypeOK`, `SyncedIsApplied`, `GateOnlyOnFailure`, `FailuresCounted`, `CorrectsOnlyDrift`, `NoDataNoChange` | two records, one with its name written in full, two workers, verification, file store; failed reads, refused and lost operations, failed flushes, crashes, signals, out-of-band edits |
| `config` | `SyncedIsApplied`, `CorrectsOnlyDrift`, `NoDataNoChange` | two sources, two upstreams, five configurations; one upstream gives no comments back; priorities, of a type that has one and of one that has none; panics |
| `live` | `DesiredServed`, `OnlyDeclared` | verification, one record with two values and two names, a source removed and added at restarts, faults of every kind |
| `selfheal` | `DesiredServed` | no verification, memory store, two records, one of which may be renamed; refused operations, panics, failed reads, abandoned passes, crashes |
| `durable` | `NeverTorn`, `ImplementsDurableMap` | three keys, nested batches, failing system calls, panics inside `Batch`, kills, power losses |
| `workers` | `TypeOK`, `ListsSound`, `SoleWriterTruth`, `DesiredListed`, `ImplementsUpstream` | three Pi-hole records over two lists, two workers, verification; two edits, at a source or by hand in a list; a failed or lost call, or a list sent again. No other worker has to do with the list of `alias`, which is thus the one record `SoleWriterTruth` and `ImplementsUpstream` are about |
| `transport` | `TypeOK`, `NewerAfterRejection`, `NoFalseAlarm`, `NoNeedlessLogin`, `RequestsReturn`, `WrongPasswordTrips` | two requests, two attempts each, a breaker that opens after two failures; two failed calls or expiries, two dropped sessions, a changed password |
| `notify` | `TypeOK`, `NothingLost`, `ChangesSeen`, `EverybodyStops` | a Docker and a YAML source, two changes, one fault (two also pass, in five minutes); events with debounce, events with ticker, polling alone |
| `adapters` | `TypeOK`, `NoPileUp`, `SyncedServed`, `FalseDriftHarmless`, `DeclaredServed`, `ImplementsUpstream` | both adapters; two keys that compete for an MX name, one with a CNAME of its own, now and then written in full or with a priority, one of an unsupported type; pages of one record, two workers; two edits at a source, edits at the provider, or faults |
| `sources` | `TypeOK`, `SnapshotRegular`, `DeletedOnlyIfGone`, `InStepInTheEnd` | both sources, two units with two records each, valid and invalid, strict and lenient; a directory that vanishes, returns or cannot be listed; two edits, failed calls or restarts |

Runs that end in a counterexample are in section 5. Every property of a passing
run has a mutant in `PROJECT.json`: a plausible mistake in the modelled code
under which the same run fails.

**Fairness.** `FairSpec` assumes that the loop and its workers make progress
(`WF_vars(System)`: the reconcile ticker starts passes, every request has an
attempt timeout and every call thus returns) and that time passes
(`GateOpens`, `CheckDue`). Because `System` includes the ways a step can fail, and
those are limited only by `MaxFaults`, fairness never forces a success while
faults remain. Nothing is assumed about edits, crashes or signals. With
`reconcile_interval` 0 there is no ticker, so the liveness results are about
deployments that have one (the default).

In `Transport`, workers keep issuing requests (failed records are retried), each step of
a request happens because the attempt timeout ends every call, and `ensureToken` has
strong fairness, because a `sync.Mutex` hands itself over to a waiter that has waited for
too long. In `NotifyLoop`, weak fairness suffices: goroutines run, timers expire, and a
case of a select that stays ready is chosen in the end. In `Adapters` and
`SourceSnapshot`, passes keep coming and every call returns; edits and faults are not
fair, and `MaxEvents` ends them.

**Deadlock** is checked in every run but `notify` and `shutdown`: with no fault and no edit
left the loop still has a pass to start. In `notify` everybody may have stopped, in
`shutdown` the process has ended.

## 4. What is proved

For every set of keys, sources, upstreams, values and configurations, every number of
workers, edits and faults, under the `ASSUME`s of the modules (types of the constants,
`None` and `Torn` distinct from data, ops, calls and store entries, `dry_run` being global,
finitely many records in `Adapter` and `PiHole`, and hand-written Pi-hole lines naming none of them):

| Theorem | Statement | Argument |
|---|---|---|
| `TypeCorrect` (`Reconcile`, `Transport`, `NotifyLoop`, `SourceSnapshot`, `Adapters`, `PiHole`) | `Spec => []TypeOK` | `TypeOK` is inductive; in `Adapters` with `PhaseInv` (no ops outside the workers' phase) and `IdInv` |
| `GatesAreFailures` | `Spec => []GateOnlyOnFailure` | `GateInv`: a gated key's upstream is configured, and so is the one being run; otherwise `applyUnknownUpstream` could drop the entry under a gate |
| `SyncedCorrect` | `DisjointSlots /\ Spec => []SyncedIsApplied` | `KeyInv`: every copy of a record names a slot of its key. `FlightInv`: between taking effect and being persisted an upsert is what the provider holds, and an op that took effect is unrecorded. `EffectLocal`: an op of another key leaves the slots alone |
| `NothingDropped` | `DisjointSlots /\ Spec => NoDataNoChange` | `DropInv`: of a key nobody dropped, any copy anywhere means the source still declares it; a source is snapshotted cleanly only with the key's record among the desired ones; hence no delete is ever planned for it |
| `OnlyDriftCorrected` | `DisjointSlots /\ Spec => []CorrectsOnlyDrift` | `FetchInv`, on top of `SyncedCorrect`'s: what was fetched is held only until the plan is made, and until then agrees with what the store calls synced, because no op is in flight that could part them. What `List` does to a record it does not give back (`Listed`, `Stored`) is left out by `GivenBack`. `NoNeedlessWrite`: `diff` then finds nothing to write |
| `FailuresAreCounted` | `"panic" \notin Faults /\ Spec => []FailuresCounted` | `CountInv`: the count the store will have once a worker's outcome is persisted (`Outcome`) equals the attempts in a row at every step in between, so that cancellation, which skips `persist`, loses none. Only an upstream that is absent takes entry and count away |
| `NoFailureOvercounted` | `Spec => []NeverOvercounted`: with panics the count is too small at most | the other half of `CountInv` |
| `FileNeverTorn` | `Spec => []NeverTorn` | `FileInv`: the file reaches `rename` only with the whole map, fsynced |
| `FileStoreCorrect` | `Spec => ImplementsDurableMap` | `FileInv` and `BatchInv`: `batching` stays on while a `Batch` is active, only an active one owns it, and no flush runs meanwhile; then every step is a step of `DurableMap` or a stutter |
| `ListsStaySound` | `Spec => []ListsSound` | `SoundInv`: not only the lists but every copy a worker holds and may send, or send again, is sound, so whichever copy is sent last, the result is. A line edited by hand while there are copies joins `raced`, which leaves it open in all of them (`HandEditsApart`: such an edit touches no record's entry) |
| `SoleWritersAgree` | `DistinctNames /\ Spec => []SoleWriterTruth` | `OneInFlight`: one worker has one call in flight, since it starts only when there is room. `Agrees`: then the copy it is about to edit still has what the list holds of the record's name (`CopyFits`), after a hand edit and when it is sent again too, and its edit leaves the entries of other names alone |
| `PiHoleIsUpstream` | `DistinctNames /\ Spec => ImplementsUpstream` | the same invariant, before and after a step: a PATCH is the effect, of its own name only (`OthersKept`), and a call that returns nil has had it |
| `SecondTryNewer` | `Spec => []NewerAfterRejection` | `RejectedInv`: a rejected token is a number already given out and no session any more, and no later login brings it back; a request that sends holds a newer one |
| `LoginsShared` | `Spec => NoNeedlessLogin` | `RejectedInv`: a login after a rejection means the cache still holds the rejected token, which is no session |
| `OneLossNoAlarm` | `Spec => []NoFalseAlarm` | `LostInv`: with one session dropped, one token at most is no session, so that the second try, which has a newer one, is not rejected as well. `AlarmInv`: the failures counted and those about to be counted are together no more than the refusals, since other requests may be between the refusal and the counter |
| `NoWakeupLost` | `Spec => []NothingLost` | `NothingLost` itself, and `NoStreamYet`: a notifier that has not started has no stream, so that its first one replaces none that is broken |
| `SnapshotsRegular` | `Spec => []SnapshotRegular` | `RegularInv`: while a snapshot is being taken, the history has what every key says now, and what was collected of every unit that is not still to be read, so that a file missing from the glob counts as read. Between `Glob` and `Stat`, either the directory was listed, or it was not there and is not, or `base` is `"back"` |
| `NoDataNoDelete` | `Spec => DeletedOnlyIfGone` | only `CollectOk` deletes, and `SnapshotRegular` says what it deletes |
| `SyncedIsServed` | `Spec => []SyncedServed`, for both adapters | `Lookup` and `Request` say what both adapters' steps have in common. `IdInv`: Cloudflare's ids are unique and the ids an op holds are of its own name, so that a request touches no other. `QuietInv`: a name of one key that nobody edits has at most one record, and the record that a repeated create meets is the one an earlier attempt made |
| `FalseDriftDoesNoHarm` | `Spec => []FalseDriftHarmless`, for both adapters | `QuietInv`: what is stored as synced is served while the op is on its way, for the op writes the same data; with at most one record the lookup finds it up to date, at Cloudflare if the declared priority is one the provider gives back (`PriorityFits`) |
| `NothingPilesUp` | `Spec => []NoPileUp`, for both adapters | `Bounded`: a create adds a record, so the bound is no induction on its own; but a worker creates only after it has seen the name empty, and from then on every record of the name is like one an op of this pass wants (`FromPass`). No two records are alike, so there is one per key at most (`OneEach`). An update replaces at least one (`PutSize`) |
| `AdaptersAreUpstreams` | `Spec => ImplementsUpstream`, for both adapters | `QuietInv`, with what a deletion has achieved once its request is carried out: every `Lookup`, `Request` and answer is a step of `Upstream` or a stutter, a request of another key or an edit of another name a stutter |
| `RetryWaits`, `StoreReadWaits` | bounds of the backoffs, for every number of failures | the shift is capped before the product can leave 64 bits (`DefaultBackoff`, `NoOverflow`) |
| `RetryAfterHonoured`, `RetryAfterWraps` | the delay for a Retry-After, up to and beyond 9223372036 s | `NoOverflow`, `Overflow` |

`DisjointSlots` says that no two keys of an upstream name the same type and name.
It is a hypothesis, not an assumption, because the run `recreate` shows that
`SyncedIsApplied` fails without it. So is `DistinctNames`, that no two Pi-hole records of a
list have the same name: each update drops the other's entry. `FailuresAreCounted` supposes
that no adapter panics (section 5, panics in a row); `NoFailureOvercounted` does not.

Only model-checked: the liveness properties (`DesiredServed`, `OnlyDeclared`,
`DesiredListed`, `RequestsReturn`, `WrongPasswordTrips`, `ChangesSeen`,
`EverybodyStops`, `DeclaredServed`, `InStepInTheEnd`): they need fairness, which is beyond
the prover. Every invariant, action property and refinement of a passing run is proved.

## 5. Findings

Each is a run in which TLC finds the property violated by what the code does; the
quoted line it disagrees with is in `PROJECT.json`.

| Run | Violates | What happens |
|---|---|---|
| `recreate` | `SyncedIsApplied` | one container takes the place of another with the same labels, which has another key (`OneContainer`: the two are never declared at once). The create under the new key and the delete under the old one are in one plan and run on the same name and value in any order; if the delete comes last, the record is gone and stored as synced |
| `shutdown` | `NeverCutShort` | `Serve` returns as soon as `Shutdown` is called, so `Server.Run` and `wg.Wait` return while `Shutdown` still waits for requests, and main exits under them |

With verification (`verify_interval`) on, records that are missing or changed at the
provider are put back by a later pass (`live`, `workers`, `adapters`), the missing record of
`recreate` among them.

More sequences limit what the passing runs can claim. They follow directly from the
actions named, and TLC finds each when the instance is changed as described:

- *A failed update* (`internal/reconcile/executor.go:193`) stores the new value; removing the
  record then deletes by that value, finds nothing and succeeds, and the old value stays at
  the provider. Verification does not help, for it looks at declared records only.
  `OnlyDeclared` therefore leaves out the slots in `left`; without `\ left[k]` it is violated
  in `live`, also with `Configs <- FixedConfig`, `SlotsOf <- OwnSlot`, `Slots = {"n1", "n2"}` and
  `Faults = {"upstream"}`, where this is the only way.
- *A rename* (`internal/reconcile/diff.go:63`): a changed name is one update under the
  same key; `Effect` upserts the new name and nothing deletes the old one. The same change of
  `OnlyDeclared` shows it in `live` with `Configs <- FixedConfig`, `Vals = {"a"}` and
  `Faults = {}`.
- *An unrecorded create* (`internal/reconcile/executor.go:98`): a create takes effect, the
  process is killed before the flush, and the source withdraws the record before the next
  pass: nobody remembers it. Also in `left`, and what `live` itself finds first without it.
- *Two keys for one record* (`pkg/upstream/cloudflare/cloudflare.go:216`): two containers, or a
  container and a file, declare the same name and value; when one of them withdraws it, its
  delete removes the record of the other, without any race. `recreate` under `Spec` violates
  `SyncedIsApplied` this way.
- *A dry run* (`pkg/upstream/upstream.go:76`): what it "synced" is a noop after `dry_run` is
  switched off, although `docs/docs/getting-started.md:29` recommends it for the first
  run. `selfheal` with one key, `Persistent = TRUE`, `Configs <- DryOrLive` and
  `Faults = {"cancel"}` violates `DesiredServed`.
- *A lost update* (`pkg/upstream/pihole/pihole.go:202`): two Pi-hole workers read the same
  list, and the second PATCH undoes the first, which is stored as synced. `workers` with
  `Verify = FALSE` and `StoreTellsTruth` as the invariant finds it. With verification,
  declared records are put back (`DesiredListed`).
- *A line written by hand* (`pkg/upstream/pihole/pihole.go:202`): what somebody adds to a
  Pi-hole list between the GET and the PATCH (line 223), or a PATCH that is sent again
  (`pkg/upstream/transport/retry.go:105`), is lost, and what they remove comes back; nothing
  makes it good. `ListsSound` leaves such lines open; without `\ raced[l]` in `Sound` it is
  violated in `workers`.
- *A directory that cannot be listed, or that returns* (`pkg/source/yaml/yaml.go:61`): the
  comment on `Snapshot` says that "a vanished directory (dropped mount, perm blip) is treated
  as a read failure, not a signal to delete everything", but `filepath.Glob` passes over a
  directory it may not read and `os.Stat` of it (line 68) succeeds, as it does for the empty
  mount point a dropped mount leaves behind, and for a directory that was gone when the glob
  was evaluated and is back a moment later: the snapshot is clean and empty, and every record
  of the source is deleted. `SnapshotRegular` and `DeletedOnlyIfGone` except these two cases;
  without `base # "back"`, `sources` violates them, and with `Dirs` reduced to
  `{"up", "gone"}` still does.
- *Directories that are not watched* (`pkg/source/yaml/yaml.go:118-135`): the directories to
  watch are found once. What happens in a directory the glob matches only later, or in one that
  was removed and made again, is reported by nobody (`ChangeUnwatched`, `LoseWatch`) and seen
  only if there is a ticker, or if something else asks for a pass.
- *Strict validation of labels* (`pkg/source/docker/docker.go:87`): `docs/docs/sources/docker.md:45`
  calls errors fatal under `strict_validation`, but they only skip the container, so that
  switching it on deletes the valid records of a container with one invalid label
  (`parseLabels`). In `SourceSnapshot` that counts as said by the source (`Says`).
- *A record moved to another file* has another key, because the key has the file's path; the
  file-by-file read may meet it in neither file (`Glob`, edit, `parseFile`), and then it is
  deleted and created again. `SnapshotRegular` is about keys and allows it.
- *Names written in full* (`pkg/upstream/cloudflare/cloudflare.go:198`): sources may give fully
  qualified names (`docs/docs/sources/yaml.md:35`), `List` always strips the zone, and every
  verification reports such a record as missing. `FalseDriftHarmless` shows that nothing is
  sent on that account; a listing torn between two pages (`cloudflare.go:461`) is the same.
- *Priorities of types that have none* (`pkg/upstream/technitium/technitium.go:174`): a source,
  or its `defaults`, may declare a priority for any record, and verification compares it;
  but Technitium's `List` reports 0 for everything but MX (line 225), and Cloudflare's has a
  priority for MX and SRV alone (`cloudflare.go:205`, `:282`). Every verification plans an update
  for such a record. Technitium's `recordUpToDate` (line 247) then finds nothing to do;
  Cloudflare's compares the priorities (`cloudflare.go:289`) and sends a PUT each time that
  changes nothing, and so it is with an MX declared without a priority if the provider keeps
  one for it. Without `GivenBack` in `CorrectsOnlyDrift`, `safety` (a name in full) and `config`
  (a priority) violate it; without the condition on `PriorityFits` in `FalseDriftHarmless`,
  `adapters` does.
- *A PUT refused as identical* (`pkg/upstream/cloudflare/cloudflare.go:159`): if somebody has
  added a record with the new value next to the managed one, and the provider lists the
  managed one first, `updateDNSRecord` fails in every pass; 81058 is taken for success
  only after a POST. This is why `DeclaredServed` asks for the value and not for all the data.
- *Comments at Technitium* (`pkg/upstream/technitium/technitium.go:249`): `recordUpToDate`
  does not look at the comment, so a change of the comment alone is stored as synced and
  never sent. `SameAs` leaves it out for this reason.
- *A Retry-After of centuries* (`pkg/upstream/transport/retry.go:141`): beyond 9223372036 s the
  product overflows, the delay is negative and the request is repeated at once, though
  the comment says the delay is "capped at opts.MaxDelay" (`RetryAfterWraps`).
- *A lost delete* (`internal/reconcile/diff.go:56`): a delete takes effect, its answer is
  lost, the record is declared again unchanged. The `pending_delete` entry has equal
  fields, so `OpKind` is a noop for ever. `selfheal` with one key, `Faults = {"lost"}`
  and `MaxEdits = 2` violates `DesiredServed`.
- *A and AAAA of one name* (`pkg/upstream/pihole/pihole.go:313`): they share `dns.hosts`,
  and `applyByName` drops every entry with the name, so they replace each other in every
  pass. `workers` with two keys and `NameOf <- OneName` violates `DesiredListed`.
- *Panics in a row* (`executor.go:154`): the panic handler starts from the desired
  record, whose failure count is 0, so `resultEntry` stores 1 each time and the backoff
  does not grow. `safety` with `"panic"` among the `Faults` violates `FailuresCounted`.
- *A panic inside `Batch`* (`internal/registry/file.go:95`): `BatchPanic` leaves
  `batching` set. Mapping `acked` to `acked` itself in `Abstract` violates
  `ImplementsDurableMap`.
- *Two dropped sessions* (`pkg/upstream/transport/sessionauth.go:139`): a second session
  that is dropped between a login and the second try, or a cached token that another
  request has seen rejected, makes the second 401 count as a credentials problem.
  `NoFalseAlarm` without `lost <= 1` is violated in `transport`.
- *An error answer to a login* (`pkg/upstream/pihole/pihole.go:413`): `authenticate` does
  not look at the status; a 5xx or 429 with a JSON body has no valid session, is taken
  for refused credentials (`AuthFailed` by `Fault`) and counted, although the breaker
  is said never to trip on 5xx (`circuitbreaker.go:36`). `denied` includes such answers.
- *Debounce without end* (`internal/reconcile/reconcile.go:152`): every notification
  restarts the timer. `notify` with `poll` and `debounce` and no ticker violates
  `ChangesSeen`: notifications that keep arriving before the timer's case is chosen
  postpone the pass for ever. With the default values (300 s, 500 ms) polling does not.
- *Between first snapshot and subscription* (`pkg/source/docker/docker.go:128`): a
  container that starts there has no event, and the first `Subscribe` does not signal.
  `Change` puts it among the `missed`; without ticker and polling nothing brings it
  in.

## 6. Abstractions and bounds

- *The zone in `Reconcile`* has one record per type and name, which is what adapters that
  update "only the first" match leave behind; `NoPileUp` is what justifies it where nobody
  edits the provider. In `Adapter` a zone may hold several.
- *An adapter call in `Reconcile`* is one effect, though adapters look a record up
  and then write. `Delete` removes by value, as Cloudflare and Technitium do.
  `ImplementsUpstream` shows for the separate requests what `Reconcile` takes for granted of
  the one, for keys with a name, or a list, of their own; `PiHole` models its deletion by
  name.
- *In `Adapter`* every pass verifies, there are no retry gates, crashes or panics (`Reconcile`
  has them), and a source is edited between passes only. TTL is treated like the
  priority, except that it does not tell records apart. The lookup of Cloudflare's `Upsert`
  and `Delete` is one step, though it is paged as well: one name has fewer than 100 records.
- *A request the client has given up* takes effect before that, or never; the transport's
  second attempt never meets the first one still on its way.
- *In `SourceSnapshot`* a Docker snapshot is one call and one step, so `SnapshotRegular` says
  something about the YAML source only; the environment variables a file refers to are part of its body, a
  label never changes during a container's life, and the pass succeeds.
- *In `Lifecycle`* keep-alive connections are requests in progress or nothing.
- *`attr`* merges TTL and comment. An upstream in `AttrBlind` neither gives
  it back nor compares it; the TTL, which Technitium does compare, is then left out.
- *A name* is written in full or not, in `Reconcile` by slot (`FullNames`), in `Adapter` by what
  is declared (`FullName`); a key that changes from one form to the other without changing its
  record is `Adapter`'s matter.
- *An MX without priority* is sent to Cloudflare without the field; what the provider makes of
  it is its business, and `Adapter` takes it for 0.
- *Time*: gates and checks reopen by steps of their own; backoff lengths and the
  start of a pass are left open, so every timing is included.
- *A failed flush* leaves the old file in `Reconcile`; `FileStore` has the case in
  which the rename happened and the directory fsync failed.
- *A Pi-hole list* is a set of entries; order plays no part in what is compared.
- *In `Transport`* bodies can be replayed (those of all adapters can), an upstream without
  password is left out, as are the lengths of backoffs; cancellation is left to
  `Reconcile`. A login is one call, though its client retries by itself.
- *In `NotifyLoop`* the events of a source are one flag, because a signal stands for
  any number of them; opening an event stream waits for the daemon's answer.
- *`failures`* is unbounded in the code; it only grows without limit for a disabled
  upstream, where `MaxRetries` stops the gate from reopening.

Bounds: `FewRecords` keeps `config` to some of the combinations of priority and comment, `MaxEdits` and `MaxFaults` limit users and faults, `MaxConc` is the number of
workers, `MaxNest` of nested batches, `MaxRetries` as above; in `Transport`, `MaxLost`
limits the dropped sessions, in `NotifyLoop`, `MaxChanges` the changes, in `Adapter` and
`SourceSnapshot`, `MaxEvents` edits, faults and restarts together, `MaxId` the ids (one per
key and event is enough, for ids nobody remembers are given out again) and `PerPage` is the page size,
1 so that every record but the first can be missed. Two keys are the
least with an interaction between workers or sources; the interactions in the code
are pairwise (two ops on one name, two GETs of one list, a failed and a clean
source). Two faults allow a fault while the first is being made good, such as a
crash after a lost answer or a failed retry; two edits allow add-change,
add-remove and remove-restore. `NoFalseAlarm` compares with all refusals so far, not with
those in a row, so that it would not notice a counter that is reset too rarely. Every counterexample of section 5 needs no more
than that. `SyncedCorrect`, `NothingDropped`, `GatesAreFailures`,
`FileStoreCorrect`, `ListsStaySound`, `SoleWritersAgree`, `SecondTryNewer`, `LoginsShared`, `NoWakeupLost`,
`SnapshotsRegular`, `NoDataNoDelete`, `SyncedIsServed`, `FalseDriftDoesNoHarm`,
`OnlyDriftCorrected`, `FailuresAreCounted`, `OneLossNoAlarm`, `NothingPilesUp`,
`AdaptersAreUpstreams` and `PiHoleIsUpstream` do without the bounds altogether.

## 7. Plan

Done so far, in this order: the reconcile core (`Diff`, `Reconcile`), its type and
safety theorems, the file store with its refinement, the Pi-hole adapter, the transport
chain, the notification loop, the Cloudflare and Technitium adapters one request at a
time with their theorems, the sources' snapshots with theirs, the process from start to exit, the
lengths of backoffs; then the proofs of the remaining invariants, and `Upstream` as the
abstract specification that all three adapters are proved to implement.

Next: an abstract specification of one record's life (declared, applied, recorded) that
`Reconcile` refines when slots are disjoint, and one of "a pass after every change" that
`NotifyLoop` refines.

Not modelled: configuration parsing, environment overrides and validation (stateless
checks of strings before anything runs; of their outcome the models have what matters: a
record is valid or not, a configuration is one of several); metrics, logging and the health
check (output only); what the HTTP handlers answer (one read of the store, in the JSON
form of its records); TLS, headers and debug output of the transport; the exponential
delay with jitter of `calcDelay`, which is floating-point arithmetic on a random number and
whose conversion to an integer Go leaves open beyond 64 bits.
