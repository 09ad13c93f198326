----------------------------- MODULE FileStore ------------------------------
(***************************************************************************)
(* The persistent store, internal/registry/file.go: a map in memory that   *)
(* is written to a JSON file by flush, one system call at a time, with the *)
(* per-write flush put off while a Batch is running.                       *)
(*                                                                         *)
(* A map is its function from keys to records; a state file that does not  *)
(* exist reads as the empty map.  Callers other than the reconcile loop    *)
(* only read.  A flush runs under the lock, so no call starts during one.  *)
(***************************************************************************)
EXTENDS Naturals

CONSTANTS Keys, SourceIDs, SourceIDOf, Recs, None,
          Torn,        \* content of a file whose data did not all reach it
          MaxNest      \* bound on nested Batch calls

ASSUME FileStoreAssumption ==
  /\ SourceIDOf \in [Keys -> SourceIDs]
  /\ None \notin Recs /\ MaxNest \in Nat
  /\ Torn \notin [Keys -> Recs \cup {None}]

Contents == [Keys -> Recs \cup {None}]
Empty == [k \in Keys |-> None]

VARIABLES
  records, batching,   \* the fields of FileStore
  calls, owner,        \* active Batch calls; whether the outermost set batching
  pc,                  \* how far flush has got
  tmp, synced,         \* content of the temporary file, and whether it is fsynced
  visible, survivors,  \* what the path reads as; as what after a power loss
  acked                \* the last call of the reconcile loop returned nil

fields == <<records, batching>>
files == <<tmp, synced, visible, survivors>>
vars == <<fields, calls, owner, pc, files, acked>>

Steps == {"idle", "write", "sync", "rename", "syncDir"}

TypeOK ==
  /\ records \in Contents /\ batching \in BOOLEAN
  /\ calls \in 0..MaxNest /\ owner \in BOOLEAN
  /\ pc \in Steps
  /\ tmp \in Contents \cup {Torn} /\ synced \in BOOLEAN
  /\ visible \in Contents \cup {Torn}
  /\ survivors \subseteq Contents \cup {Torn}
  /\ acked \in BOOLEAN
-----------------------------------------------------------------------------
(* The calls *)

\* flush starts: the temporary file is opened and truncated.
OpenTmp == pc' = "write" /\ tmp' = Torn /\ synced' = FALSE /\ UNCHANGED <<visible, survivors>>

\* flushLocked: nothing while batching, and the call returns nil.
flushLocked ==
  \/ ~batching /\ OpenTmp /\ acked' = FALSE
  \/ batching /\ acked' = (calls = 0) /\ UNCHANGED <<pc, files>>

\* A writer changes the map and flushes.
Mutate(m) ==
  /\ pc = "idle" /\ records' = m /\ flushLocked
  /\ UNCHANGED <<batching, calls, owner>>

Upsert(k, r) == Mutate([records EXCEPT ![k] = r])
DeleteRecord(k) == Mutate([records EXCEPT ![k] = None])
Delete(sourceID) ==
  Mutate([k \in Keys |-> IF SourceIDOf[k] = sourceID THEN None ELSE records[k]])

\* Batch, up to the call of fn.
BatchBegin ==
  /\ pc = "idle" /\ calls < MaxNest
  /\ calls' = calls + 1
  /\ owner' = IF calls = 0 THEN ~batching ELSE owner
  /\ batching' = TRUE
  /\ UNCHANGED <<records, pc, files, acked>>

\* Batch, after fn: the outermost call flushes whatever fn returned, a nested
\* one returns at once.
BatchEnd ==
  /\ pc = "idle" /\ calls = 1 /\ owner
  /\ calls' = 0 /\ owner' = FALSE /\ batching' = FALSE
  /\ OpenTmp /\ acked' = FALSE
  /\ UNCHANGED records

NestedBatchEnd ==
  /\ pc = "idle" /\ calls > 0 /\ ~(calls = 1 /\ owner)
  /\ calls' = calls - 1
  /\ acked' = (acked \/ calls = 1)
  /\ UNCHANGED <<records, batching, owner, pc, files>>

\* fn panics, and the reconcile pass that called Batch recovers; batching stays
\* set.
BatchPanic ==
  /\ pc = "idle" /\ calls > 0
  /\ calls' = 0 /\ owner' = FALSE /\ acked' = FALSE
  /\ UNCHANGED <<records, batching, pc, files>>
-----------------------------------------------------------------------------
(* flush *)

FlushRest == UNCHANGED <<fields, calls, owner>>

Write ==
  /\ pc = "write" /\ pc' = "sync" /\ tmp' = records
  /\ UNCHANGED <<synced, visible, survivors, acked>> /\ FlushRest

\* Sync and Close; before it, a variant that leaves out the fsync.
closeOnly ==
  /\ pc = "sync" /\ pc' = "rename"
  /\ UNCHANGED <<tmp, synced, visible, survivors, acked>> /\ FlushRest
Sync ==
  /\ pc = "sync" /\ pc' = "rename" /\ synced' = TRUE
  /\ UNCHANGED <<tmp, visible, survivors, acked>> /\ FlushRest

\* The rename is visible at once.  Until the directory is fsynced a power loss
\* may undo it, and of a file that was not fsynced it may leave anything.
Rename ==
  /\ pc = "rename" /\ pc' = "syncDir"
  /\ visible' = tmp
  /\ survivors' = survivors \cup {tmp} \cup (IF synced THEN {} ELSE {Torn})
  /\ UNCHANGED <<tmp, synced, acked>> /\ FlushRest

\* Before it, a variant of the last step that leaves out the fsync.
noDirSync ==
  /\ pc = "syncDir" /\ pc' = "idle" /\ acked' = TRUE
  /\ UNCHANGED files /\ FlushRest
syncDir ==
  /\ pc = "syncDir" /\ pc' = "idle" /\ acked' = TRUE
  /\ survivors' = {visible}
  /\ UNCHANGED <<tmp, synced, visible>> /\ FlushRest

\* Any of these calls fails, and with it the flush.
FlushFails ==
  /\ pc # "idle" /\ pc' = "idle" /\ acked' = FALSE
  /\ UNCHANGED files /\ FlushRest
-----------------------------------------------------------------------------
\* NewFileStore and load after the process died at any point: a file that does
\* not parse keeps Beacons from starting.
NewFileStore(v) ==
  /\ v # Torn /\ records' = v
  /\ batching' = FALSE /\ calls' = 0 /\ owner' = FALSE /\ pc' = "idle"
  /\ acked' = FALSE

Kill == NewFileStore(visible) /\ UNCHANGED files

PowerLoss ==
  \E v \in survivors :
    NewFileStore(v) /\ visible' = v /\ survivors' = {v} /\ UNCHANGED <<tmp, synced>>

Init ==
  /\ records = Empty /\ batching = FALSE /\ calls = 0 /\ owner = FALSE /\ pc = "idle"
  /\ tmp = Torn /\ synced = FALSE /\ visible = Empty /\ survivors = {Empty}
  /\ acked = TRUE

Next ==
  \/ \E k \in Keys : DeleteRecord(k) \/ \E r \in Recs : Upsert(k, r)
  \/ \E s \in SourceIDs : Delete(s)
  \/ BatchBegin \/ BatchEnd \/ NestedBatchEnd \/ BatchPanic
  \/ Write \/ Sync \/ Rename \/ syncDir \/ FlushFails
  \/ Kill \/ PowerLoss

Spec == Init /\ [][Next]_vars
-----------------------------------------------------------------------------
\* Whatever call fails and wherever the process or the machine stops, the state
\* file is one complete map, so load can read it.
NeverTorn == visible # Torn /\ Torn \notin survivors

\* After a panic inside it, no Batch is left to clear batching: until a restart
\* every flush is suppressed, and the nil that a call returns means nothing.
Stuck == batching /\ ~owner

Abstract == INSTANCE DurableMap WITH mem <- records, saved <- survivors,
                                     acked <- acked /\ ~Stuck

\* The store keeps the promise of DurableMap: once a write outside a Batch, or a
\* Batch, has returned nil to the reconcile loop, the map in memory is what any
\* restart will find, unless a Batch has panicked since the start; and before
\* that, a restart finds a map the store held, none older than the last one
\* acknowledged.
ImplementsDurableMap == Abstract!Spec
=============================================================================
