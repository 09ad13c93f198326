--------------------------- MODULE FileStoreProofs ---------------------------
(***************************************************************************)
(* Theorems about FileStore, for every set of keys and records.            *)
(***************************************************************************)
EXTENDS FileStore, TLAPS

\* While flush is under way it works on the map in memory, which no call can
\* change meanwhile, and what is renamed has been fsynced.
FileInv ==
  /\ TypeOK
  /\ visible \in survivors /\ Torn \notin survivors
  /\ pc \in {"sync", "rename"} => tmp = records
  /\ pc = "rename" => synced
  /\ pc = "syncDir" => visible = records

LEMMA MutateTyped ==
  ASSUME TypeOK, NEW m \in Contents, Mutate(m)
  PROVE  /\ records' \in Contents /\ pc = "idle" /\ pc' \in {"idle", "write"}
         /\ UNCHANGED <<batching, calls, owner, visible, survivors>>
         /\ tmp' \in Contents \cup {Torn} /\ synced' \in BOOLEAN /\ acked' \in BOOLEAN
         /\ acked' => batching /\ calls = 0
BY DEF Mutate, flushLocked, OpenTmp, files, TypeOK

LEMMA WritersMutate ==
  ASSUME TypeOK,
         \/ \E k \in Keys : DeleteRecord(k) \/ \E r \in Recs : Upsert(k, r)
         \/ \E s \in SourceIDs : Delete(s)
  PROVE  \E m \in Contents : Mutate(m)
<1>1. ASSUME NEW k \in Keys, DeleteRecord(k) PROVE \E m \in Contents : Mutate(m)
  BY <1>1 DEF DeleteRecord, TypeOK, Contents
<1>2. ASSUME NEW k \in Keys, NEW r \in Recs, Upsert(k, r) PROVE \E m \in Contents : Mutate(m)
  BY <1>2 DEF Upsert, TypeOK, Contents
<1>3. ASSUME NEW s \in SourceIDs, Delete(s) PROVE \E m \in Contents : Mutate(m)
  <2>1. [k \in Keys |-> IF SourceIDOf[k] = s THEN None ELSE records[k]] \in Contents
    BY DEF TypeOK, Contents
  <2>. QED
    BY <1>3, <2>1 DEF Delete
<1>. QED
  BY <1>1, <1>2, <1>3

LEMMA FileInit == Init => FileInv
<1> SUFFICES ASSUME Init PROVE FileInv
  OBVIOUS
<1> USE FileStoreAssumption DEF FileStoreAssumption, Init
<1>1. calls \in 0..MaxNest
  OBVIOUS
<1>2. Empty \in Contents /\ Empty # Torn
  BY DEF Empty, Contents
<1>. QED
  BY <1>1, <1>2 DEF FileInv, TypeOK, Steps

LEMMA FileNext == FileInv /\ [Next]_vars => FileInv'
<1> SUFFICES ASSUME FileInv, [Next]_vars PROVE FileInv'
  OBVIOUS
<1> USE FileStoreAssumption DEF FileStoreAssumption, FileInv, Steps
<1>0. 0 \in 0..MaxNest
  OBVIOUS
<1>1. ASSUME NEW m \in Contents, Mutate(m) PROVE FileInv'
  BY <1>1, MutateTyped DEF TypeOK
<1>2. CASE BatchBegin
  <2>1. calls' \in 0..MaxNest /\ batching' \in BOOLEAN /\ acked' \in BOOLEAN
    BY <1>2 DEF BatchBegin, TypeOK
  <2>2. owner' \in BOOLEAN
    BY <1>2, Zenon DEF BatchBegin, TypeOK
  <2>. QED
    BY <1>2, <2>1, <2>2 DEF BatchBegin, TypeOK, files
<1>3. CASE BatchEnd
  BY <1>0, <1>3 DEF BatchEnd, OpenTmp, TypeOK
<1>4. CASE NestedBatchEnd
  <2>1. calls' \in 0..MaxNest /\ acked' \in BOOLEAN
    BY <1>4 DEF NestedBatchEnd, TypeOK
  <2>. QED
    BY <1>4, <2>1 DEF NestedBatchEnd, TypeOK, files
<1>5. CASE BatchPanic
  BY <1>0, <1>5 DEF BatchPanic, TypeOK, files
<1>6. CASE Write
  BY <1>6 DEF Write, FlushRest, fields, TypeOK
<1>7. CASE Sync
  BY <1>7 DEF Sync, FlushRest, fields, TypeOK
<1>8. CASE Rename
  <2>1. records \in Contents /\ records # Torn
    BY DEF TypeOK, Contents
  <2>. QED
    BY <1>8, <2>1 DEF Rename, FlushRest, fields, TypeOK
<1>9. CASE syncDir \/ FlushFails
  BY <1>9 DEF syncDir, FlushFails, FlushRest, fields, files, TypeOK
<1>10. CASE Kill
  BY <1>0, <1>10 DEF Kill, NewFileStore, files, TypeOK
<1>11. CASE PowerLoss
  BY <1>0, <1>11 DEF PowerLoss, NewFileStore, TypeOK
<1>12. CASE UNCHANGED vars
  BY <1>12 DEF vars, fields, files, TypeOK
<1>. QED
  BY <1>1, <1>2, <1>3, <1>4, <1>5, <1>6, <1>7, <1>8, <1>9, <1>10, <1>11, <1>12,
     WritersMutate DEF Next

\* Whatever call fails, panics or is cut short by a stop of the process or of the
\* machine, the state file is one complete map.
THEOREM FileNeverTorn == Spec => []NeverTorn
<1>1. FileInv => NeverTorn
  BY DEF FileInv, NeverTorn
<1>. QED
  BY <1>1, FileInit, FileNext, PTL DEF Spec

\* While batching is on nothing flushes, and nothing is acknowledged that counts:
\* either a Batch is running, or batching is stuck.
BatchInv ==
  /\ calls > 0 => batching
  /\ owner => calls > 0
  /\ batching => pc = "idle"
  /\ pc # "idle" => ~acked

LEMMA BatchNext == FileInv /\ BatchInv /\ [Next]_vars => BatchInv'
<1> SUFFICES ASSUME FileInv, BatchInv, [Next]_vars PROVE BatchInv'
  OBVIOUS
<1> USE FileStoreAssumption DEF FileStoreAssumption, FileInv, BatchInv, TypeOK
<1>1. ASSUME NEW m \in Contents, Mutate(m) PROVE BatchInv'
  BY <1>1 DEF Mutate, flushLocked, OpenTmp, files
<1>2. CASE BatchBegin
  BY <1>2 DEF BatchBegin
<1>3. CASE BatchEnd
  BY <1>3 DEF BatchEnd, OpenTmp
<1>4. CASE NestedBatchEnd
  BY <1>4 DEF NestedBatchEnd
<1>5. CASE BatchPanic
  BY <1>5 DEF BatchPanic
<1>6. CASE Write \/ Sync \/ Rename \/ syncDir \/ FlushFails
  BY <1>6 DEF Write, Sync, Rename, syncDir, FlushFails, FlushRest, fields
<1>7. CASE Kill \/ PowerLoss
  BY <1>7 DEF Kill, PowerLoss, NewFileStore
<1>8. CASE UNCHANGED vars
  BY <1>8 DEF vars, fields
<1>. QED
  BY <1>1, <1>2, <1>3, <1>4, <1>5, <1>6, <1>7, <1>8, WritersMutate DEF Next

\* Every step of the store is a step of DurableMap, or changes nothing there.
LEMMA FileStep ==
  FileInv /\ BatchInv /\ [Next]_vars => [Abstract!Next]_(Abstract!vars)
<1> SUFFICES ASSUME FileInv, BatchInv, [Next]_vars
             PROVE  Abstract!Next \/ UNCHANGED Abstract!vars
  OBVIOUS
<1> USE DEF Abstract!Next, Abstract!vars, FileInv, BatchInv, Stuck
<1>1. ASSUME NEW m \in Contents, Mutate(m) PROVE Abstract!Next
  <2>1. acked' => batching' /\ ~owner'
    BY <1>1, MutateTyped DEF TypeOK
  <2>2. (acked /\ ~Stuck)' = FALSE /\ records' \in Contents /\ UNCHANGED survivors
    BY <1>1, <2>1, MutateTyped DEF Stuck
  <2>. QED
    BY <2>2 DEF Abstract!Change
<1>2. CASE BatchBegin
  <2>1. UNCHANGED <<records, survivors, acked>>
    BY <1>2 DEF BatchBegin, files
  <2>2. Stuck' = Stuck
    <3>1. CASE calls = 0
      <4>1. ~owner
        BY <3>1 DEF TypeOK
      <4>2. batching' = TRUE /\ owner' = ~batching
        BY <1>2, <3>1, Zenon DEF BatchBegin
      <4>. QED
        BY <4>1, <4>2, Zenon DEF TypeOK
    <3>2. CASE calls # 0
      <4>1. batching
        BY <3>2, FileStoreAssumption DEF TypeOK, FileStoreAssumption
      <4>2. batching' = TRUE /\ owner' = owner
        BY <1>2, <3>2, Zenon DEF BatchBegin
      <4>. QED
        BY <4>1, <4>2, Zenon DEF TypeOK
    <3>. QED
      BY <3>1, <3>2
  <2>. QED
    BY <2>1, <2>2
<1>3. CASE BatchEnd
  BY <1>3 DEF BatchEnd, OpenTmp, Abstract!Save
<1>4. CASE NestedBatchEnd
  BY <1>4 DEF NestedBatchEnd, files, TypeOK
<1>5. CASE BatchPanic
  BY <1>5 DEF BatchPanic, files, Abstract!Save
<1>6. CASE Write \/ Sync
  BY <1>6 DEF Write, Sync, FlushRest, fields
<1>7. CASE Rename
  BY <1>7 DEF Rename, FlushRest, fields, Abstract!Save
<1>8. CASE syncDir
  BY <1>8 DEF syncDir, FlushRest, fields, Abstract!Acknowledge
<1>9. CASE FlushFails
  BY <1>9 DEF FlushFails, FlushRest, fields, files, Abstract!Save
<1>10. CASE Kill
  BY <1>10 DEF Kill, NewFileStore, files, Abstract!Restart
<1>11. CASE PowerLoss
  BY <1>11 DEF PowerLoss, NewFileStore, Abstract!Restart
<1>12. CASE UNCHANGED vars
  BY <1>12 DEF vars, fields, files
<1>. QED
  BY <1>1, <1>2, <1>3, <1>4, <1>5, <1>6, <1>7, <1>8, <1>9, <1>10, <1>11, <1>12,
     WritersMutate DEF Next

\* The file store implements DurableMap: a restart finds a map the store once
\* held, and never one older than the last acknowledged while batching is not
\* stuck.
THEOREM FileStoreCorrect == Spec => ImplementsDurableMap
<1>1. Init => BatchInv /\ Abstract!Init
  BY DEF Init, BatchInv, Stuck, Abstract!Init
<1>. QED
  BY <1>1, BatchNext, FileStep, FileInit, FileNext, PTL
  DEF Spec, ImplementsDurableMap, Abstract!Spec
=============================================================================
