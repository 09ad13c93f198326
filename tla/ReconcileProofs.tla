--------------------------- MODULE ReconcileProofs ---------------------------
(***************************************************************************)
(* Theorems about Reconcile, for every set of keys, sources, upstreams and *)
(* values, every configuration and every bound.                            *)
(***************************************************************************)
EXTENDS Reconcile, TLAPS

USE DEF Maybe

\* Type correctness, action by action.
LEMMA TypeInit == Init => TypeOK
<1> SUFFICES ASSUME Init PROVE TypeOK
  OBVIOUS
<1> USE ReconcileAssumption DEF ReconcileAssumption, Init
<1>1. zone \in [Upstreams -> Zone]
  BY DEF EmptyZone, Zone
<1>2. /\ store \in [Keys -> Maybe(Entry)] /\ disk \in [Keys -> Maybe(Entry)]
      /\ lastGood \in [Keys -> Maybe(Record)] /\ desired \in [Keys -> Maybe(Record)]
      /\ ops \in [Keys -> Maybe(Op)] /\ actual \in [Upstreams -> Maybe(Zone)]
  BY DEF Nothing, NotFetched
<1>3. streak \in [Keys -> Nat] /\ edits \in Nat /\ faults \in Nat
  OBVIOUS
<1>4. /\ cfg \in Config /\ canceled \in BOOLEAN /\ gate \subseteq Keys
      /\ due \subseteq Upstreams /\ todo \subseteq Sources \cup Upstreams
      /\ cur \in Maybe(Upstreams) /\ snapshotted \subseteq Sources
      /\ pc \in {"idle", "collect", "verify", "apply", "run"}
      /\ drifted \subseteq Keys /\ unrecorded \subseteq Keys
      /\ unflushed \subseteq Keys /\ dropped \subseteq Keys
  OBVIOUS
<1>. QED
  BY <1>1, <1>2, <1>3, <1>4 DEF TypeOK

LEMMA ResetType == ResetPass =>
    /\ pc' \in {"idle", "collect", "verify", "apply", "run"}
    /\ todo' \subseteq Sources \cup Upstreams /\ cur' \in Maybe(Upstreams)
    /\ desired' \in [Keys -> Maybe(Record)] /\ snapshotted' \subseteq Sources
    /\ actual' \in [Upstreams -> Maybe(Zone)]
    /\ ops' \in [Keys -> Maybe(Op)]
BY DEF ResetPass, Nothing, NotFetched

LEMMA OpInType ==
  ASSUME TypeOK, NEW k \in Keys, NEW S, OpIn(k, S)
  PROVE  ops[k] \in Op /\ ops[k].st \in S /\ cur = UpstreamOf[k] /\ cur \in Upstreams
BY KeyAssumption DEF KeyAssumption, TypeOK, OpIn

LEMMA BecomeType ==
  ASSUME TypeOK, NEW k \in Keys, ops[k] \in Op, NEW s \in OpState, Become(k, s)
  PROVE  ops' \in [Keys -> Maybe(Op)]
BY DEF TypeOK, Become, Op

\* What a provider keeps of a record is a record of the same name and value, and what
\* List gives back of a zone is a zone.
LEMMA StoredType ==
  ASSUME NEW u \in Upstreams, NEW r \in Record
  PROVE  Stored(u, r) \in Record /\ Stored(u, r).slot = r.slot /\ Stored(u, r).val = r.val
BY KeyAssumption DEF KeyAssumption, Stored, Record

LEMMA ListedType ==
  ASSUME NEW u, NEW z \in Zone
  PROVE  Listed(u, z) \in Zone
BY DEF Listed, Zone

LEMMA RecordedType ==
  ASSUME TypeOK, NEW k \in Keys
  PROVE  RecordedSlot(k) \subseteq Slots
BY DEF TypeOK, RecordedSlot, Entry, Record

\* What diff plans for a key is a well-formed op about a record of that key.
LEMMA OpKindType ==
  ASSUME NEW k \in Keys, NEW want, NEW have, NEW S, NEW z,
         OpKind(k, want, have, S, z) # "none"
  PROVE  /\ OpKind(k, want, have, S, z) \in {"create", "update", "delete", "noop"}
         /\ want # None \/ have # None
BY DEF OpKind, driftCorrection

LEMMA PlanType ==
  ASSUME TypeOK, NEW k \in Keys
  PROVE  LET plan == diff(desired, store, snapshotted, actual) IN
           \/ plan[k] = None
           \/ /\ plan[k].kind \in {"create", "update", "delete", "noop"}
              /\ plan[k].rec \in Record
              /\ plan[k].rec = OpRecord(desired[k], store[k])
              /\ plan[k].kind = OpKind(k, desired[k], store[k], snapshotted, actual[UpstreamOf[k]])
              /\ plan[k] # None => desired[k] # None \/ store[k] # None
<1> DEFINE kind == OpKind(k, desired[k], store[k], snapshotted, actual[UpstreamOf[k]])
<1>1. CASE kind = "none"
  BY <1>1 DEF diff
<1>2. CASE kind # "none"
  <2>1. /\ kind \in {"create", "update", "delete", "noop"}
        /\ desired[k] # None \/ store[k] # None
    BY <1>2, OpKindType
  <2>2. OpRecord(desired[k], store[k]) \in Record
    BY <2>1 DEF OpRecord, TypeOK, Entry
  <2>3. diff(desired, store, snapshotted, actual)[k]
          = [kind |-> kind, rec |-> OpRecord(desired[k], store[k])]
    BY <1>2 DEF diff
  <2>. QED
    BY <2>1, <2>2, <2>3
<1>. QED
  BY <1>1, <1>2

LEMMA TypeNext == TypeOK /\ [Next]_vars => TypeOK'
<1> SUFFICES ASSUME TypeOK, [Next]_vars PROVE TypeOK'
  OBVIOUS
<1> USE KeyAssumption, ReconcileAssumption DEF KeyAssumption, ReconcileAssumption, TypeOK
<1>1. CASE StartPass
  BY <1>1 DEF StartPass, Config, world, memory, history
<1>2. CASE ReadStore
  BY <1>2 DEF ReadStore, markOrphanSources, VerifyDue, world, memory, history
<1>3. ASSUME NEW s \in Sources, SnapshotOk(s) PROVE TypeOK'
  BY <1>3 DEF SnapshotOk, world, history
<1>4. ASSUME NEW s \in Sources, SnapshotFails(s) PROVE TypeOK'
  BY <1>4 DEF SnapshotFails, Fault, world, memory, history
<1>5. ASSUME NEW u \in Upstreams, ListOk(u) PROVE TypeOK'
  BY <1>5, ListedType DEF ListOk, world, history
<1>6. ASSUME NEW u \in Upstreams, ListFails(u) PROVE TypeOK'
  BY <1>6 DEF ListFails, Fault, world, memory, history
<1>7. CASE AbandonPass
  BY <1>7, ResetType DEF AbandonPass, Fault, world, memory, history
<1>8. CASE MakePlan
  <2>1. ops' \in [Keys -> Maybe(Op)]
    BY <1>8, PlanType DEF MakePlan, InitialState, Op, OpState
  <2>2. todo' \subseteq Sources \cup Upstreams
    BY <1>8 DEF MakePlan
  <2>. QED
    BY <1>8, <2>1, <2>2 DEF MakePlan, Nothing, NotFetched, world, memory, history
<1>9. ASSUME NEW u \in Upstreams, applyUnknownUpstream(u) PROVE TypeOK'
  BY <1>9, RecordedType DEF applyUnknownUpstream, Finish, world, memory
<1>10. ASSUME NEW u \in Upstreams, applyUpstream(u) PROVE TypeOK'
  BY <1>10 DEF applyUpstream, world, memory, history
<1>11. ASSUME NEW k \in Keys, StartOp(k) PROVE TypeOK'
  <2>1. ops' \in [Keys -> Maybe(Op)]
    BY <1>11, OpInType, BecomeType DEF StartOp, OpState
  <2>. QED
    BY <1>11, <2>1 DEF StartOp, PassRest, world, memory, history
<1>12. ASSUME NEW k \in Keys, Effect(k) PROVE TypeOK'
  <2>1. ops' \in [Keys -> Maybe(Op)]
    BY <1>12, OpInType, BecomeType DEF Effect, OpState
  <2>2. cur \in Upstreams /\ ops[k].rec \in Record
    BY <1>12, OpInType DEF Effect, Op
  <2>3. /\ Delete(zone[cur], ops[k].rec) \in Zone
        /\ Upsert(cur, zone[cur], ops[k].rec) \in Zone
    BY <2>2, StoredType DEF Delete, Upsert, Zone
  <2>4. zone' \in [Upstreams -> Zone]
    BY <1>12, <2>2, <2>3 DEF Effect
  <2>5. left' \in [Keys -> SUBSET Slots]
    BY <1>12, <2>2, RecordedType DEF Effect, Record
  <2>. QED
    BY <1>12, <2>1, <2>4, <2>5 DEF Effect, PassRest, memory
<1>13. ASSUME NEW k \in Keys, ReturnOk(k) PROVE TypeOK'
  <2>1. ops' \in [Keys -> Maybe(Op)]
    BY <1>13, OpInType, BecomeType DEF ReturnOk, OpState
  <2>2. left' \in [Keys -> SUBSET Slots]
    BY <1>13, RecordedType DEF ReturnOk
  <2>. QED
    BY <1>13, <2>1, <2>2 DEF ReturnOk, PassRest, world, memory
<1>14. ASSUME NEW k \in Keys, ReturnErr(k) PROVE TypeOK'
  <2>1. ops' \in [Keys -> Maybe(Op)]
    BY <1>14, OpInType, BecomeType DEF ReturnErr, OpState
  <2>. QED
    BY <1>14, <2>1 DEF ReturnErr, Fault, PassRest, world, memory
<1>15. ASSUME NEW k \in Keys, PanicOp(k) PROVE TypeOK'
  <2>1. ops' \in [Keys -> Maybe(Op)]
    BY <1>15, OpInType, BecomeType DEF PanicOp, OpState
  <2>2. streak' \in [Keys -> Nat] /\ faults' \in Nat
    BY <1>15 DEF PanicOp, Fault
  <2>. QED
    BY <1>15, <2>1, <2>2 DEF PanicOp, PassRest, world, memory
<1>16. CASE persist
  <2>1. \A k \in Results : resultEntry(k, ops[k]) \in Maybe(Entry)
    BY DEF Results, resultEntry, Entry, Status, Prior, Op
  <2>2. store' \in [Keys -> Maybe(Entry)]
    BY <1>16, <2>1 DEF persist
  <2>3. \A k \in Keys : LeftBy(k) \subseteq Slots
    BY DEF LeftBy, Entry, Record
  <2>4. left' \in [Keys -> SUBSET Slots]
    BY <1>16, <2>3 DEF persist
  <2>. QED
    BY <1>16, <2>2, <2>4 DEF persist, Finish, Results, Reported, FailedNow, world
<1>17. CASE FinishPass
  BY <1>17, ResetType DEF FinishPass, Fault, world, memory
<1>18. ASSUME NEW k \in Keys, GateOpens(k) PROVE TypeOK'
  BY <1>18 DEF GateOpens, world, pass, history
<1>19. ASSUME NEW u \in Upstreams, CheckDue(u) PROVE TypeOK'
  BY <1>19 DEF CheckDue, world, pass, history
<1>20. ASSUME NEW k \in Keys, EditSource(k) PROVE TypeOK'
  BY <1>20 DEF EditSource, RecordOf, memory, pass
<1>21. ASSUME NEW u \in Upstreams, NEW s \in Slots, OutOfBand(u, s) PROVE TypeOK'
  <2>1. zone' \in [Upstreams -> Zone]
    BY <1>21 DEF OutOfBand, Zone
  <2>. QED
    BY <1>21, <2>1 DEF OutOfBand, memory, pass
<1>22. ASSUME NEW c \in Configs, Boot(c), faults' \in Nat PROVE TypeOK'
  <2>1. streak' \in [Keys -> Nat]
    BY <1>22 DEF Boot, Entry
  <2>2. left' \in [Keys -> SUBSET Slots]
    BY <1>22, RecordedType DEF Boot
  <2>. QED
    BY <1>22, <2>1, <2>2, ResetType DEF Boot, Nothing
<1>23. ASSUME NEW c \in Configs, Crash(c) PROVE TypeOK'
  BY <1>22, <1>23 DEF Crash, Fault
<1>24. ASSUME NEW c \in Configs, Exit(c) PROVE TypeOK'
  BY <1>22, <1>24 DEF Exit
<1>25. CASE Cancel
  BY <1>25 DEF Cancel, Fault, world, memory, pass, history
<1>26. CASE UNCHANGED vars
  BY <1>26 DEF vars, world, memory, pass, history
<1>. QED
  BY <1>1, <1>2, <1>3, <1>4, <1>5, <1>6, <1>7, <1>8, <1>9, <1>10, <1>11, <1>12,
     <1>13, <1>14, <1>15, <1>16, <1>17, <1>18, <1>19, <1>20, <1>21, <1>23, <1>24,
     <1>25, <1>26 DEF Next, System

\* Every variable keeps its type, whatever the process and its environment do.
THEOREM TypeCorrect == Spec => []TypeOK
<1>. QED
  BY TypeInit, TypeNext, PTL DEF Spec
-----------------------------------------------------------------------------
(* Retry gates *)

\* The gates are inductive once one knows that no gated key's upstream is
\* unconfigured: applyUnknownUpstream drops entries without touching gates.
GateInv ==
  /\ GateOnlyOnFailure
  /\ \A k \in gate : cfg.mode[UpstreamOf[k]] # "absent"
  /\ pc = "run" => cfg.mode[cur] # "absent"

LEMMA GateNext == TypeOK /\ GateInv /\ [Next]_vars => GateInv'
<1> SUFFICES ASSUME TypeOK, GateInv, [Next]_vars PROVE GateInv'
  OBVIOUS
<1> USE DEF GateInv, GateOnlyOnFailure
<1>1. CASE StartPass \/ ReadStore \/ MakePlan
  BY <1>1 DEF StartPass, ReadStore, MakePlan, world, memory
<1>2. ASSUME NEW s \in Sources, SnapshotOk(s) \/ SnapshotFails(s) PROVE GateInv'
  BY <1>2 DEF SnapshotOk, SnapshotFails, world, memory
<1>3. ASSUME NEW u \in Upstreams, ListOk(u) \/ ListFails(u) PROVE GateInv'
  BY <1>3 DEF ListOk, ListFails, world, memory
<1>4. CASE AbandonPass \/ FinishPass
  BY <1>4 DEF AbandonPass, FinishPass, ResetPass, world, memory
<1>5. ASSUME NEW u \in Upstreams, applyUnknownUpstream(u) PROVE GateInv'
  BY <1>5 DEF applyUnknownUpstream, Finish, world, memory, TypeOK
<1>6. ASSUME NEW u \in Upstreams, applyUpstream(u) PROVE GateInv'
  BY <1>6 DEF applyUpstream, world, memory
<1>7. ASSUME NEW k \in Keys, StartOp(k) \/ Effect(k) \/ ReturnOk(k) \/ ReturnErr(k) \/ PanicOp(k)
      PROVE GateInv'
  BY <1>7 DEF StartOp, Effect, ReturnOk, ReturnErr, PanicOp, PassRest, world, memory
<1>8. CASE persist
  <2> SUFFICES ASSUME NEW k \in gate'
               PROVE  /\ store'[k] # None /\ store'[k].status # "synced"
                      /\ cfg.mode[UpstreamOf[k]] # "absent"
    BY <1>8 DEF persist, Finish, world
  <2>1. k \in Keys
    BY <1>8 DEF persist, Results, Reported, FailedNow, TypeOK
  <2>2. CASE k \in FailedNow
    <3>1. k \in Results /\ ops[k].st \in {"failed", "panicked"} /\ UpstreamOf[k] = cur
      BY <1>8, <2>2 DEF persist, Results, Reported, FailedNow, Settled
    <3>2. /\ resultEntry(k, ops[k]) \in Entry
          /\ resultEntry(k, ops[k]).status \in {"failed", "pending_delete"}
      BY <2>1, <3>1 DEF resultEntry, Results, TypeOK, Op, Entry, Status, Prior
    <3>. QED
      BY <1>8, <2>1, <3>1, <3>2, NoneAssumption DEF NoneAssumption, persist
  <2>3. CASE k \notin FailedNow
    <3>1. k \in gate /\ k \notin Reported
      BY <1>8, <2>3 DEF persist
    <3>2. store'[k] = store[k]
      BY <1>8, <2>1, <3>1 DEF persist, Reported, resultEntry
    <3>. QED
      BY <3>1, <3>2
  <2>. QED
    BY <2>2, <2>3
<1>9. ASSUME NEW k \in Keys, GateOpens(k) PROVE GateInv'
  BY <1>9 DEF GateOpens, world, pass
<1>10. ASSUME NEW u \in Upstreams, CheckDue(u) PROVE GateInv'
  BY <1>10 DEF CheckDue, world, pass
<1>11. ASSUME NEW k \in Keys, EditSource(k) PROVE GateInv'
  BY <1>11 DEF EditSource, memory, pass
<1>12. ASSUME NEW u \in Upstreams, NEW s \in Slots, OutOfBand(u, s) PROVE GateInv'
  BY <1>12 DEF OutOfBand, memory, pass
<1>13. ASSUME NEW c \in Configs, Crash(c) \/ Exit(c) PROVE GateInv'
  BY <1>13 DEF Crash, Exit, Boot, ResetPass
<1>14. CASE Cancel \/ UNCHANGED vars
  BY <1>14 DEF Cancel, vars, world, memory, pass
<1>. QED
  BY <1>1, <1>2, <1>3, <1>4, <1>5, <1>6, <1>7, <1>8, <1>9, <1>10, <1>11, <1>12,
     <1>13, <1>14 DEF Next, System

\* A closed retry gate always stands for a failure recorded in the store, so a
\* record that was synced or deleted meanwhile is never held back by one.
THEOREM GatesAreFailures == Spec => []GateOnlyOnFailure
<1>1. Init => GateInv
  BY DEF Init, GateInv, GateOnlyOnFailure
<1>2. GateInv => GateOnlyOnFailure
  BY DEF GateInv
<1>. QED
  BY <1>1, <1>2, TypeCorrect, GateNext, PTL DEF Spec
-----------------------------------------------------------------------------
(* The store and the provider *)

\* Every record kept under a key names a slot of that key.
KeyInv ==
  \A k \in Keys :
    /\ lastGood[k] \in Maybe(RecordOf(k)) /\ desired[k] \in Maybe(RecordOf(k))
    /\ ops[k] # None => ops[k].rec \in RecordOf(k)
    /\ store[k] # None => store[k].rec \in RecordOf(k)
    /\ disk[k] # None => disk[k].rec \in RecordOf(k)

LEMMA KeyNext == TypeOK /\ KeyInv /\ [Next]_vars => KeyInv'
<1> SUFFICES ASSUME TypeOK, KeyInv, [Next]_vars PROVE KeyInv'
  OBVIOUS
<1> USE DEF KeyInv
<1>1. CASE StartPass \/ ReadStore
  BY <1>1 DEF StartPass, ReadStore, memory
<1>2. ASSUME NEW s \in Sources, SnapshotOk(s) \/ SnapshotFails(s) PROVE KeyInv'
  BY <1>2 DEF SnapshotOk, SnapshotFails, memory, TypeOK
<1>3. ASSUME NEW u \in Upstreams, ListOk(u) \/ ListFails(u) PROVE KeyInv'
  BY <1>3 DEF ListOk, ListFails, memory
<1>4. CASE AbandonPass \/ FinishPass
  BY <1>4 DEF AbandonPass, FinishPass, ResetPass, Nothing, memory
<1>5. CASE MakePlan
  <2>1. \A k \in Keys : ops'[k] # None =>
          /\ ops'[k].rec = OpRecord(desired[k], store[k])
          /\ desired[k] # None \/ store[k] # None
    BY <1>5, PlanType DEF MakePlan
  <2>2. \A k \in Keys : ops'[k] # None => ops'[k].rec \in RecordOf(k)
    BY <2>1 DEF OpRecord
  <2>. QED
    BY <1>5, <2>2 DEF MakePlan, Nothing, memory
<1>6. ASSUME NEW u \in Upstreams, applyUnknownUpstream(u) \/ applyUpstream(u) PROVE KeyInv'
  BY <1>6 DEF applyUnknownUpstream, applyUpstream, Finish, memory
<1>7. ASSUME NEW j \in Keys, StartOp(j) \/ Effect(j) \/ ReturnOk(j) \/ ReturnErr(j) \/ PanicOp(j)
      PROVE KeyInv'
  <2>1. PICK s : Become(j, s)
    BY <1>7 DEF StartOp, Effect, ReturnOk, ReturnErr, PanicOp
  <2>2. ops[j] \in Op
    BY <1>7, OpInType DEF StartOp, Effect, ReturnOk, ReturnErr, PanicOp
  <2>3. \A k \in Keys : ops'[k] # None => ops[k] # None /\ ops'[k].rec = ops[k].rec
    BY <2>1, <2>2, ReconcileAssumption DEF ReconcileAssumption, Become, TypeOK, Op
  <2>4. UNCHANGED <<lastGood, desired, store, disk>>
    BY <1>7 DEF StartOp, Effect, ReturnOk, ReturnErr, PanicOp, PassRest, memory
  <2>. QED
    BY <2>3, <2>4
<1>8. CASE persist
  <2>1. \A k \in Keys : store'[k] # None => store'[k].rec \in RecordOf(k)
    BY <1>8 DEF persist, Results, resultEntry, TypeOK, Op, OpState
  <2>. QED
    BY <1>8, <2>1 DEF persist, Finish
<1>9. ASSUME NEW k \in Keys, GateOpens(k) \/ EditSource(k) PROVE KeyInv'
  BY <1>9 DEF GateOpens, EditSource, pass, memory
<1>10. ASSUME NEW u \in Upstreams, CheckDue(u) PROVE KeyInv'
  BY <1>10 DEF CheckDue, pass
<1>11. ASSUME NEW u \in Upstreams, NEW s \in Slots, OutOfBand(u, s) PROVE KeyInv'
  BY <1>11 DEF OutOfBand, memory, pass
<1>12. ASSUME NEW c \in Configs, Crash(c) \/ Exit(c) PROVE KeyInv'
  BY <1>12 DEF Crash, Exit, Boot, ResetPass, Nothing
<1>13. CASE Cancel \/ UNCHANGED vars
  BY <1>13 DEF Cancel, vars, memory, pass
<1>. QED
  BY <1>1, <1>2, <1>3, <1>4, <1>5, <1>6, <1>7, <1>8, <1>9, <1>10, <1>11, <1>12,
     <1>13 DEF Next, System

LEMMA KeyCorrect == Spec => []KeyInv
<1>1. Init => KeyInv
  BY DEF Init, KeyInv, Nothing
<1>. QED
  BY <1>1, TypeCorrect, KeyNext, PTL DEF Spec

\* Until its result is persisted, an upsert that took effect is what the
\* provider holds, and the store does not know of any operation that took effect.
FlightInv ==
  \A k \in Keys : ops[k] # None =>
    /\ ops[k].st = "effected" => k \in unrecorded /\ k \in unflushed
    /\ ops[k].st \in {"effected", "ok"} /\ ops[k].kind # "delete" /\ k \notin drifted
         => InZone(k, ops[k].rec)

AppliedInv == FlightInv /\ SyncedIsApplied

\* After an upsert the provider holds what it keeps of the record.
LEMMA UpsertStores ==
  ASSUME NEW u, NEW z \in Zone, NEW r \in Record
  PROVE  Upsert(u, z, r)[r.slot] = Stored(u, r)
BY DEF Upsert, Zone, Record

\* An operation for one key leaves the other keys' slots alone.
LEMMA EffectLocal ==
  ASSUME DisjointSlots, TypeOK, KeyInv, NEW j \in Keys, Effect(j),
         NEW k \in Keys, k # j, NEW s \in SlotsOf[k]
  PROVE  zone'[UpstreamOf[k]][s] = zone[UpstreamOf[k]][s]
<1> USE KeyAssumption DEF KeyAssumption
<1>1. /\ ops[j] \in Op /\ cur = UpstreamOf[j] /\ cur \in Upstreams /\ ops[j] # None
      /\ ops[j].rec \in RecordOf(j)
  BY OpInType DEF Effect, OpIn, KeyInv
<1>2. CASE UpstreamOf[k] # cur
  BY <1>1, <1>2 DEF Effect, TypeOK
<1>3. CASE UpstreamOf[k] = cur
  <2>1. ops[j].rec.slot \in SlotsOf[j] /\ ops[j].rec.slot \in Slots
    BY <1>1 DEF RecordOf, Record
  <2>2. s # ops[j].rec.slot /\ s \in Slots
    BY <1>1, <1>3, <2>1 DEF DisjointSlots
  <2>3. zone[cur] \in Zone
    BY <1>1 DEF TypeOK
  <2>4. /\ Delete(zone[cur], ops[j].rec)[s] = zone[cur][s]
        /\ Upsert(cur, zone[cur], ops[j].rec)[s] = zone[cur][s]
    BY <2>1, <2>2, <2>3 DEF Delete, Upsert, Zone
  <2>. QED
    BY <1>1, <1>3, <2>4 DEF Effect, TypeOK
<1>. QED
  BY <1>2, <1>3

LEMMA AppliedNext ==
  DisjointSlots /\ TypeOK /\ KeyInv /\ AppliedInv /\ [Next]_vars => AppliedInv'
<1> SUFFICES ASSUME DisjointSlots, TypeOK, KeyInv, AppliedInv, [Next]_vars PROVE AppliedInv'
  OBVIOUS
<1> USE DEF AppliedInv, FlightInv, SyncedIsApplied
<1>0. ASSUME UNCHANGED <<zone, store, disk, drifted, unrecorded, unflushed>>,
             \A k \in Keys : ops'[k] = None \/ ops'[k] = ops[k]
      PROVE AppliedInv'
  BY <1>0 DEF InZone
<1>1. CASE StartPass \/ ReadStore
  BY <1>0, <1>1 DEF StartPass, ReadStore, world, history
<1>2. ASSUME NEW s \in Sources, SnapshotOk(s) \/ SnapshotFails(s) PROVE AppliedInv'
  BY <1>0, <1>2 DEF SnapshotOk, SnapshotFails, world, history
<1>3. ASSUME NEW u \in Upstreams, ListOk(u) \/ ListFails(u) PROVE AppliedInv'
  BY <1>0, <1>3 DEF ListOk, ListFails, world, history
<1>4. CASE AbandonPass
  BY <1>0, <1>4 DEF AbandonPass, ResetPass, Nothing, world, history
<1>5. CASE MakePlan
  <2>1. \A k \in Keys : ops'[k] = None \/ ops'[k].st \in {"queued", "skipped"}
    BY <1>5 DEF MakePlan, InitialState
  <2>. QED
    BY <1>5, <2>1 DEF MakePlan, InZone, world, history
<1>6. ASSUME NEW u \in Upstreams, applyUnknownUpstream(u) PROVE AppliedInv'
  BY <1>6 DEF applyUnknownUpstream, Finish, InZone, Synced, world, history
<1>7. ASSUME NEW u \in Upstreams, applyUpstream(u) PROVE AppliedInv'
  BY <1>0, <1>7 DEF applyUpstream, world, history
<1>8. ASSUME NEW j \in Keys, StartOp(j) \/ ReturnErr(j) \/ PanicOp(j) PROVE AppliedInv'
  <2>1. PICK s \in {"running", "skipped", "failed", "panicked"} : Become(j, s)
    BY <1>8 DEF StartOp, ReturnErr, PanicOp
  <2>2. ops[j] \in Op
    BY <1>8, OpInType DEF StartOp, ReturnErr, PanicOp
  <2>3. \A k \in Keys : ops'[k] = ops[k] \/ ops'[k].st \in {"running", "skipped", "failed", "panicked"}
    BY <2>1, <2>2 DEF Become, TypeOK, Op
  <2>4. UNCHANGED <<zone, store, disk, drifted, unrecorded, unflushed>>
    BY <1>8 DEF StartOp, ReturnErr, PanicOp, world, history
  <2>. QED
    BY <2>3, <2>4 DEF InZone
<1>9. ASSUME NEW j \in Keys, Effect(j) PROVE AppliedInv'
  <2>1. /\ ops[j] \in Op /\ cur = UpstreamOf[j] /\ cur \in Upstreams /\ ops[j] # None
        /\ ops[j].rec \in RecordOf(j) /\ ops[j].rec \in Record
    BY <1>9, OpInType DEF Effect, OpIn, KeyInv, RecordOf
  <2>2. /\ ops'[j].rec = ops[j].rec /\ ops'[j].kind = ops[j].kind
        /\ \A k \in Keys : k # j => ops'[k] = ops[k]
    BY <1>9, <2>1 DEF Effect, Become, TypeOK, Op
  <2>3. UNCHANGED <<store, disk>>
    BY <1>9 DEF Effect
  <2>4. ops[j].kind # "delete" => InZone(j, ops[j].rec)'
    <3>1. ops[j].kind # "delete" =>
            zone'[UpstreamOf[j]] = Upsert(UpstreamOf[j], zone[UpstreamOf[j]], ops[j].rec)
      BY <1>9, <2>1 DEF Effect, TypeOK
    <3>2. zone[UpstreamOf[j]] \in Zone
      BY <2>1 DEF TypeOK
    <3>3. (ops[j].rec)' = ops[j].rec
      BY <2>2
    <3>. QED
      BY <2>1, <3>1, <3>2, <3>3, UpsertStores DEF InZone
  <2>5. ASSUME NEW k \in Keys, k # j, NEW r \in RecordOf(k), InZone(k, r)
        PROVE  zone'[UpstreamOf[k]][r.slot] = Stored(UpstreamOf[k], r)
    <3>1. zone'[UpstreamOf[k]][r.slot] = zone[UpstreamOf[k]][r.slot]
      BY <1>9, <2>5, EffectLocal DEF RecordOf
    <3>. QED
      BY <2>5, <3>1 DEF InZone
  <2>6. FlightInv'
    <3> SUFFICES ASSUME NEW k \in Keys, ops'[k] # None
                 PROVE  /\ ops'[k].st = "effected" => k \in unrecorded' /\ k \in unflushed'
                        /\ ops'[k].st \in {"effected", "ok"} /\ ops'[k].kind # "delete" /\ k \notin drifted'
                             => zone'[UpstreamOf[k]][ops'[k].rec.slot] = Stored(UpstreamOf[k], ops'[k].rec)
      BY DEF InZone
    <3>1. CASE k = j
      BY <1>9, <2>1, <2>2, <2>4, <3>1 DEF Effect, InZone
    <3>2. CASE k # j
      BY <1>9, <2>2, <2>5, <3>2 DEF Effect, KeyInv
    <3>. QED
      BY <3>1, <3>2
  <2>7. SyncedIsApplied'
    <3> SUFFICES ASSUME NEW k \in Keys, k \notin drifted'
                 PROVE /\ Synced(store[k]) /\ k \notin unrecorded'
                            => zone'[UpstreamOf[k]][store[k].rec.slot] = Stored(UpstreamOf[k], store[k].rec)
                       /\ Synced(disk[k]) /\ k \notin unflushed'
                            => zone'[UpstreamOf[k]][disk[k].rec.slot] = Stored(UpstreamOf[k], disk[k].rec)
      BY <2>3 DEF InZone, Synced
    <3>1. CASE k = j
      BY <1>9, <3>1 DEF Effect
    <3>2. CASE k # j
      BY <1>9, <2>5, <3>2 DEF Effect, KeyInv, Synced
    <3>. QED
      BY <3>1, <3>2
  <2>. QED
    BY <2>6, <2>7
<1>10. ASSUME NEW j \in Keys, ReturnOk(j) PROVE AppliedInv'
  <2>1. /\ ops[j] \in Op /\ ops[j] # None /\ ops[j].st \in {"running", "effected"}
        /\ ops[j].st = "running" => j \in drifted'
    BY <1>10, OpInType DEF ReturnOk, OpIn
  <2>2. /\ ops'[j].rec = ops[j].rec /\ ops'[j].kind = ops[j].kind /\ ops'[j].st = "ok"
        /\ \A k \in Keys : k # j => ops'[k] = ops[k]
    BY <1>10, <2>1 DEF ReturnOk, Become, TypeOK, Op
  <2>3. UNCHANGED <<zone, store, disk, unrecorded, unflushed>> /\ drifted \subseteq drifted'
    BY <1>10 DEF ReturnOk, world
  <2>4. \A k \in Keys : InZone(k, ops[k].rec) => zone'[UpstreamOf[k]][ops'[k].rec.slot] = Stored(UpstreamOf[k], ops'[k].rec)
    BY <2>2, <2>3 DEF InZone
  <2>5. FlightInv'
    BY <2>1, <2>2, <2>3, <2>4 DEF InZone
  <2>6. SyncedIsApplied'
    BY <2>3 DEF InZone
  <2>. QED
    BY <2>5, <2>6
<1>11. CASE persist
  <2>1. UNCHANGED <<zone, disk, drifted, unflushed>>
    BY <1>11 DEF persist, world
  <2>2. FlightInv'
    <3>1. \A k \in Keys : ops'[k] # None => ops'[k] = ops[k] /\ k \notin Reported
      BY <1>11 DEF persist, Finish, Reported, Results
    <3>. QED
      BY <1>11, <2>1, <3>1 DEF persist, InZone
  <2>3. ASSUME NEW k \in Keys, k \notin drifted, Synced(store'[k]), k \notin unrecorded'
        PROVE  InZone(k, store'[k].rec)
    <3>1. CASE k \in Reported
      <4>1. /\ ops[k] # None /\ ops[k].st \in {"ok", "failed", "panicked"}
            /\ store'[k] = resultEntry(k, ops[k])
        BY <1>11, <3>1 DEF persist, Reported, Results, Settled
      <4>2. ops[k].st = "ok" /\ ops[k].kind # "delete" /\ store'[k].rec = ops[k].rec
        BY <2>3, <4>1 DEF resultEntry, Synced
      <4>. QED
        BY <2>3, <4>1, <4>2
    <3>2. CASE k \notin Reported
      <4>1. store'[k] = store[k]
        BY <1>11, <3>2 DEF persist, Reported, resultEntry
      <4>. QED
        BY <1>11, <2>3, <3>2, <4>1 DEF persist
    <3>. QED
      BY <3>1, <3>2
  <2>4. SyncedIsApplied'
    BY <2>1, <2>3 DEF InZone
  <2>. QED
    BY <2>2, <2>4
<1>12. CASE FinishPass
  <2>1. UNCHANGED <<zone, store, drifted, unrecorded>> /\ ops' = Nothing
    BY <1>12 DEF FinishPass, ResetPass, world
  <2>2. \/ disk' = disk /\ unflushed' = unflushed
        \/ disk' = store /\ unflushed' = unrecorded
    BY <1>12 DEF FinishPass
  <2>3. SyncedIsApplied'
    BY <2>1, <2>2 DEF InZone
  <2>. QED
    BY <2>1, <2>3 DEF Nothing
<1>13. ASSUME NEW k \in Keys, GateOpens(k) \/ EditSource(k) PROVE AppliedInv'
  BY <1>0, <1>13 DEF GateOpens, EditSource, pass, world, history
<1>14. ASSUME NEW u \in Upstreams, CheckDue(u) PROVE AppliedInv'
  BY <1>0, <1>14 DEF CheckDue, pass, world, history
<1>15. ASSUME NEW u \in Upstreams, NEW s \in Slots, OutOfBand(u, s) PROVE AppliedInv'
  <2>1. UNCHANGED <<ops, store, disk, unrecorded, unflushed>> /\ drifted \subseteq drifted'
    BY <1>15 DEF OutOfBand, pass
  <2>2. ASSUME NEW k \in Keys, k \notin drifted', NEW t \in SlotsOf[k]
        PROVE  zone'[UpstreamOf[k]][t] = zone[UpstreamOf[k]][t]
    <3>1. UpstreamOf[k] # u \/ s \notin SlotsOf[k]
      BY <1>15, <2>2 DEF OutOfBand
    <3>2. PICK r : zone' = [zone EXCEPT ![u][s] = r]
      BY <1>15 DEF OutOfBand
    <3>3. UpstreamOf[k] \in Upstreams /\ t \in Slots
      BY <2>2, KeyAssumption DEF KeyAssumption
    <3>. QED
      BY <2>2, <3>1, <3>2, <3>3 DEF TypeOK, Zone
  <2>3. ASSUME NEW k \in Keys, k \notin drifted', NEW r \in RecordOf(k), InZone(k, r)
        PROVE  zone'[UpstreamOf[k]][r.slot] = Stored(UpstreamOf[k], r)
    BY <2>2, <2>3 DEF InZone, RecordOf
  <2>4. FlightInv'
    BY <2>1, <2>3 DEF InZone, KeyInv
  <2>5. SyncedIsApplied'
    BY <2>1, <2>3 DEF InZone, KeyInv, Synced
  <2>. QED
    BY <2>4, <2>5
<1>16. ASSUME NEW c \in Configs, Crash(c) \/ Exit(c) PROVE AppliedInv'
  BY <1>16 DEF Crash, Exit, Boot, ResetPass, Nothing, InZone
<1>17. CASE Cancel \/ UNCHANGED vars
  BY <1>0, <1>17 DEF Cancel, vars, pass, world, history
<1>. QED
  BY <1>1, <1>2, <1>3, <1>4, <1>5, <1>6, <1>7, <1>8, <1>9, <1>10, <1>11, <1>12,
     <1>13, <1>14, <1>15, <1>16, <1>17 DEF Next, System

\* What the store and the state file call synced is what the provider holds,
\* apart from out-of-band edits and outcomes a crash or shutdown swallowed.
THEOREM SyncedCorrect == DisjointSlots /\ Spec => []SyncedIsApplied
<1>1. Init => AppliedInv
  BY DEF Init, AppliedInv, FlightInv, SyncedIsApplied, Synced, Nothing
<1>2. AppliedInv => SyncedIsApplied
  BY DEF AppliedInv
<1>3. SUFFICES ASSUME DisjointSlots PROVE Spec => []SyncedIsApplied
  BY <1>3
<1>4. TypeOK /\ KeyInv /\ AppliedInv /\ [Next]_vars => AppliedInv'
  BY <1>3, AppliedNext
<1>. QED
  BY <1>1, <1>2, <1>4, TypeCorrect, KeyCorrect, PTL DEF Spec
-----------------------------------------------------------------------------
(* No data means no change *)

\* A key nobody removed is still declared wherever Beacons has a trace of it;
\* its source is configured, so it is never an orphan; when its source is
\* cleanly snapshotted the record is among the desired ones; and so no delete
\* is ever planned for it.
DropInv ==
  /\ pc \notin {"collect", "verify"} => snapshotted = {}
  /\ pc = "collect" => todo \cap snapshotted = {}
  /\ \A k \in Keys \ dropped :
       /\ \/ store[k] # None \/ disk[k] # None \/ lastGood[k] # None
          \/ desired[k] # None \/ ops[k] # None
          => src[k] # None
       /\ SourceOf[k] \in cfg.sources
       /\ SourceOf[k] \in snapshotted /\ store[k] # None => desired[k] # None
       /\ ops[k] # None => ops[k].kind # "delete"

LEMMA DropNext == TypeOK /\ DropInv /\ [Next]_vars => DropInv'
<1> SUFFICES ASSUME TypeOK, DropInv, [Next]_vars PROVE DropInv'
  OBVIOUS
<1> USE DEF DropInv
<1>1. CASE StartPass
  BY <1>1 DEF StartPass, world, memory, history
<1>2. CASE ReadStore
  BY <1>2 DEF ReadStore, markOrphanSources, world, memory, history
<1>3. ASSUME NEW s \in Sources, SnapshotOk(s) PROVE DropInv'
  BY <1>3 DEF SnapshotOk, KeysOf, TypeOK, world, history
<1>4. ASSUME NEW s \in Sources, SnapshotFails(s) PROVE DropInv'
  BY <1>4 DEF SnapshotFails, KeysOf, TypeOK, world, memory, history
<1>5. ASSUME NEW u \in Upstreams, ListOk(u) \/ ListFails(u) PROVE DropInv'
  BY <1>5 DEF ListOk, ListFails, world, memory, history
<1>6. CASE AbandonPass \/ FinishPass
  BY <1>6 DEF AbandonPass, FinishPass, ResetPass, Nothing, world, memory, history
<1>7. CASE MakePlan
  <2>1. ASSUME NEW k \in Keys \ dropped, ops'[k] # None
        PROVE  ops'[k].kind # "delete" /\ src[k] # None
    <3>1. /\ ops'[k].kind = OpKind(k, desired[k], store[k], snapshotted, actual[UpstreamOf[k]])
          /\ desired[k] # None \/ store[k] # None
      BY <1>7, <2>1, PlanType DEF MakePlan
    <3>2. SourceOf[k] \in snapshotted /\ store[k] # None => desired[k] # None
      BY <2>1
    <3>. QED
      BY <2>1, <3>1, <3>2 DEF OpKind, driftCorrection, mayDelete
  <2>. QED
    BY <1>7, <2>1 DEF MakePlan, Nothing, world, memory, history
<1>8. ASSUME NEW u \in Upstreams, applyUnknownUpstream(u) \/ applyUpstream(u) PROVE DropInv'
  BY <1>8 DEF applyUnknownUpstream, applyUpstream, Finish, world, memory, history
<1>9. ASSUME NEW j \in Keys, StartOp(j) \/ Effect(j) \/ ReturnOk(j) \/ ReturnErr(j) \/ PanicOp(j)
      PROVE DropInv'
  <2>1. PICK s : Become(j, s)
    BY <1>9 DEF StartOp, Effect, ReturnOk, ReturnErr, PanicOp
  <2>2. ops[j] \in Op /\ ops[j] # None
    BY <1>9, OpInType DEF StartOp, Effect, ReturnOk, ReturnErr, PanicOp, OpIn
  <2>3. \A k \in Keys : ops'[k] # None => ops[k] # None /\ ops'[k].kind = ops[k].kind
    BY <2>1, <2>2 DEF Become, TypeOK, Op
  <2>4. /\ UNCHANGED <<src, cfg, lastGood, store, disk, dropped>>
        /\ UNCHANGED <<pc, todo, desired, snapshotted>>
    BY <1>9 DEF StartOp, Effect, ReturnOk, ReturnErr, PanicOp, PassRest, world, memory, history
  <2>. QED
    BY <2>3, <2>4
<1>10. CASE persist
  <2>1. \A k \in Keys : store'[k] # None => store[k] # None \/ ops[k] # None
    BY <1>10 DEF persist, Results
  <2>. QED
    BY <1>10, <2>1 DEF persist, Finish, world
<1>11. ASSUME NEW k \in Keys, GateOpens(k) PROVE DropInv'
  BY <1>11 DEF GateOpens, world, pass, history
<1>12. ASSUME NEW k \in Keys, EditSource(k) PROVE DropInv'
  BY <1>12 DEF EditSource, TypeOK, memory, pass
<1>13. ASSUME NEW u \in Upstreams, CheckDue(u) PROVE DropInv'
  BY <1>13 DEF CheckDue, world, pass, history
<1>14. ASSUME NEW u \in Upstreams, NEW s \in Slots, OutOfBand(u, s) PROVE DropInv'
  BY <1>14 DEF OutOfBand, memory, pass
<1>15. ASSUME NEW c \in Configs, Crash(c) \/ Exit(c) PROVE DropInv'
  BY <1>15 DEF Crash, Exit, Boot, ResetPass, Nothing
<1>16. CASE Cancel \/ UNCHANGED vars
  BY <1>16 DEF Cancel, vars, world, memory, pass, history
<1>. QED
  BY <1>1, <1>2, <1>3, <1>4, <1>5, <1>6, <1>7, <1>8, <1>9, <1>10, <1>11, <1>12,
     <1>13, <1>14, <1>15, <1>16 DEF Next, System

\* Slots that stay occupied from one state to the next.
Kept ==
  \A k \in Keys \ dropped' : \A s \in SlotsOf[k] :
    zone[UpstreamOf[k]][s] # None => zone'[UpstreamOf[k]][s] # None

LEMMA DropKept ==
  DisjointSlots /\ TypeOK /\ KeyInv /\ DropInv /\ [Next]_vars => Kept
<1> SUFFICES ASSUME DisjointSlots, TypeOK, KeyInv, DropInv, [Next]_vars,
                    NEW k \in Keys \ dropped', NEW t \in SlotsOf[k],
                    zone[UpstreamOf[k]][t] # None
             PROVE  zone'[UpstreamOf[k]][t] # None
  BY DEF Kept
<1>1. CASE UNCHANGED zone
  BY <1>1
<1>2. ASSUME NEW j \in Keys, Effect(j) PROVE zone'[UpstreamOf[k]][t] # None
  <2>1. CASE k # j
    BY <1>2, <2>1, EffectLocal
  <2>2. CASE k = j
    <3>1. /\ ops[k] \in Op /\ cur = UpstreamOf[k] /\ cur \in Upstreams /\ ops[k] # None
          /\ ops[k].rec \in Record
      BY <1>2, <2>2, OpInType DEF Effect, OpIn, Op
    <3>2. k \notin dropped /\ ops[k].kind # "delete"
      BY <1>2, <3>1 DEF Effect, DropInv
    <3>3. zone'[UpstreamOf[k]] = Upsert(cur, zone[cur], ops[k].rec)
      BY <1>2, <2>2, <3>1, <3>2 DEF Effect, TypeOK
    <3>4. Stored(cur, ops[k].rec) \in Record
      BY <3>1, KeyAssumption DEF KeyAssumption, Stored, Record
    <3>5. zone[cur] \in Zone /\ t \in Slots
      BY <3>1, KeyAssumption DEF KeyAssumption, TypeOK
    <3>. QED
      BY <3>1, <3>3, <3>4, <3>5, NoneAssumption DEF NoneAssumption, Upsert, Zone
  <2>. QED
    BY <2>1, <2>2
<1>3. ASSUME NEW u \in Upstreams, NEW s \in Slots, OutOfBand(u, s)
      PROVE zone'[UpstreamOf[k]][t] # None
  <2>1. UpstreamOf[k] # u \/ s \notin SlotsOf[k]
    BY <1>3 DEF OutOfBand
  <2>2. PICK r : zone' = [zone EXCEPT ![u][s] = r]
    BY <1>3 DEF OutOfBand
  <2>3. UpstreamOf[k] \in Upstreams /\ t \in Slots
    BY KeyAssumption DEF KeyAssumption
  <2>. QED
    BY <2>1, <2>2, <2>3 DEF TypeOK, Zone
<1>4. UNCHANGED zone
      \/ (\E j \in Keys : Effect(j))
      \/ (\E u \in Upstreams, s \in Slots : OutOfBand(u, s))
  BY DEF Next, System, StartPass, ReadStore, MakePlan, persist, FinishPass, AbandonPass,
         SnapshotOk, SnapshotFails, ListOk, ListFails, applyUnknownUpstream, applyUpstream,
         StartOp, ReturnOk, ReturnErr, PanicOp, Exit, GateOpens, EditSource, CheckDue,
         Crash, Boot, Cancel, world, vars
<1>. QED
  BY <1>1, <1>2, <1>3, <1>4

\* While nobody removes a key's record, nothing makes Beacons delete it at the
\* provider: no failed snapshot, crash, restart, error, panic or lost answer.
THEOREM NothingDropped == DisjointSlots /\ Spec => NoDataNoChange
<1>1. Init => DropInv
  BY DEF Init, DropInv, Nothing
<1>2. SUFFICES ASSUME DisjointSlots PROVE Spec => NoDataNoChange
  BY <1>2
<1>3. TypeOK /\ KeyInv /\ DropInv /\ [Next]_vars => Kept
  BY <1>2, DropKept
<1>4. NoDataNoChange <=> [][Kept]_vars
  BY DEF NoDataNoChange, Kept
<1>. QED
  BY <1>1, <1>3, <1>4, DropNext, TypeCorrect, KeyCorrect, PTL DEF Spec
-----------------------------------------------------------------------------
(* Verification *)

\* What was fetched of a provider is held only until the plan is made; meanwhile it
\* agrees with what the store calls synced, as far as List gives that back.
FetchInv ==
  /\ pc # "verify" => actual = NotFetched
  /\ \A k \in Keys \ (drifted \cup unrecorded) :
       actual[UpstreamOf[k]] # None /\ Synced(store[k]) /\ GivenBack(UpstreamOf[k], store[k].rec)
         => Holds(UpstreamOf[k], actual[UpstreamOf[k]], store[k].rec)
  /\ CorrectsOnlyDrift

\* A listing shows a record that is at the provider, if List gives it back as written.
LEMMA ListingShows ==
  ASSUME NEW u \in Upstreams, NEW z \in Zone, NEW r \in Record, GivenBack(u, r),
         z[r.slot] = Stored(u, r)
  PROVE  Holds(u, Listed(u, z), r)
<1>1. Listed(u, z)[r.slot] = Stored(u, r)
  BY DEF Listed, GivenBack, Record
<1>2. Stored(u, r) # None
  BY StoredType, NoneAssumption DEF NoneAssumption
<1>3. DriftEqual(u, r, Stored(u, r))
  BY DEF DriftEqual, Stored, GivenBack
<1>. QED
  BY <1>1, <1>2, <1>3 DEF Holds

\* A record that is recorded as synced, unchanged, and in the fetched zone is no
\* reason to write.
LEMMA NoNeedlessWrite ==
  ASSUME NEW k \in Keys, NEW want, NEW have, NEW S, NEW z,
         want # None, Synced(have), appliedEqual(want, have.rec),
         z # None => Holds(UpstreamOf[k], z, have.rec)
  PROVE  OpKind(k, want, have, S, z) = "noop"
<1>1. OpKind(k, want, have, S, z) = driftCorrection(UpstreamOf[k], z, want)
  BY DEF OpKind, Synced, mustRetry
<1>2. z # None => z[want.slot] # None /\ DriftEqual(UpstreamOf[k], want, z[want.slot])
  BY DEF Holds, DriftEqual, appliedEqual
<1>3. z # None => z[want.slot].val = want.val
  BY <1>2 DEF DriftEqual, appliedEqual
<1>. QED
  BY <1>1, <1>2, <1>3 DEF driftCorrection

LEMMA FetchNext == TypeOK /\ SyncedIsApplied /\ FetchInv /\ [Next]_vars => FetchInv'
<1> SUFFICES ASSUME TypeOK, SyncedIsApplied, FetchInv, [Next]_vars PROVE FetchInv'
  OBVIOUS
<1> USE DEF FetchInv, CorrectsOnlyDrift
<1>1. CASE StartPass \/ ReadStore
  BY <1>1 DEF StartPass, ReadStore, history
<1>2. ASSUME NEW s \in Sources, SnapshotOk(s) \/ SnapshotFails(s) PROVE FetchInv'
  BY <1>2 DEF SnapshotOk, SnapshotFails, history
<1>3. ASSUME NEW u \in Upstreams, ListOk(u) PROVE FetchInv'
  <2>1. UNCHANGED <<store, ops, drifted, unrecorded, pc>> /\ pc = "verify"
    BY <1>3 DEF ListOk, history
  <2>2. \A v \in Upstreams : actual'[v] = IF v = u THEN Listed(u, zone[u]) ELSE actual[v]
    BY <1>3 DEF ListOk, TypeOK
  <2>3. ASSUME NEW k \in Keys \ (drifted \cup unrecorded), actual'[UpstreamOf[k]] # None,
               Synced(store[k]), GivenBack(UpstreamOf[k], store[k].rec)
        PROVE  Holds(UpstreamOf[k], actual'[UpstreamOf[k]], store[k].rec)
    <3>1. UpstreamOf[k] \in Upstreams
      BY KeyAssumption DEF KeyAssumption
    <3>2. /\ zone[UpstreamOf[k]][store[k].rec.slot] = Stored(UpstreamOf[k], store[k].rec)
          /\ zone[UpstreamOf[k]] \in Zone /\ store[k].rec \in Record
      BY <2>3, <3>1 DEF SyncedIsApplied, InZone, Synced, TypeOK, Entry
    <3>3. Holds(UpstreamOf[k], Listed(UpstreamOf[k], zone[UpstreamOf[k]]), store[k].rec)
      BY <2>3, <3>1, <3>2, ListingShows
    <3>. QED
      BY <2>2, <2>3, <3>1, <3>3
  <2>. QED
    BY <2>1, <2>3
<1>4. ASSUME NEW u \in Upstreams, ListFails(u) PROVE FetchInv'
  BY <1>4 DEF ListFails, history
<1>5. CASE AbandonPass \/ FinishPass
  <2>1. pc' = "idle" /\ actual' = NotFetched /\ ops' = Nothing
    BY <1>5 DEF AbandonPass, FinishPass, ResetPass
  <2>2. \A k \in Keys : actual'[UpstreamOf[k]] = None /\ ops'[k] = None
    BY <2>1, KeyAssumption DEF KeyAssumption, NotFetched, Nothing
  <2>. QED
    BY <2>1, <2>2
<1>6. CASE MakePlan
  <2>1. /\ UNCHANGED <<store, drifted, unrecorded>> /\ pc' = "apply" /\ actual' = NotFetched
    BY <1>6 DEF MakePlan, history
  <2>2. \A k \in Keys : actual'[UpstreamOf[k]] = None
    BY <2>1, KeyAssumption DEF KeyAssumption, NotFetched
  <2>3. ASSUME NEW k \in Keys \ (drifted \cup unrecorded), ops'[k] # None,
               ops'[k].kind \in {"create", "update"}, Synced(store[k]),
               GivenBack(UpstreamOf[k], store[k].rec)
        PROVE  ~appliedEqual(ops'[k].rec, store[k].rec)
    <3>1. /\ ops'[k].kind = OpKind(k, desired[k], store[k], snapshotted, actual[UpstreamOf[k]])
          /\ ops'[k].rec = OpRecord(desired[k], store[k])
      BY <1>6, <2>3, PlanType DEF MakePlan
    <3>2. desired[k] # None
      BY <2>3, <3>1 DEF OpKind
    <3>3. ops'[k].rec = desired[k]
      BY <3>1, <3>2 DEF OpRecord
    <3>4. actual[UpstreamOf[k]] # None => Holds(UpstreamOf[k], actual[UpstreamOf[k]], store[k].rec)
      BY <2>3
    <3>. QED
      BY <2>3, <3>1, <3>2, <3>3, <3>4, NoNeedlessWrite
  <2>. QED
    BY <2>1, <2>2, <2>3
<1>7. ASSUME NEW u \in Upstreams, applyUnknownUpstream(u) PROVE FetchInv'
  <2>1. /\ pc' = "apply" /\ actual' = NotFetched /\ UNCHANGED <<drifted, unrecorded>>
        /\ \A k \in Keys : ops'[k] # None => ops'[k] = ops[k] /\ store'[k] = store[k]
    BY <1>7 DEF applyUnknownUpstream, Finish, history
  <2>2. \A k \in Keys : actual'[UpstreamOf[k]] = None
    BY <2>1, KeyAssumption DEF KeyAssumption, NotFetched
  <2>. QED
    BY <2>1, <2>2
<1>8. ASSUME NEW u \in Upstreams, applyUpstream(u) PROVE FetchInv'
  BY <1>8 DEF applyUpstream, history
<1>9. ASSUME NEW j \in Keys, StartOp(j) \/ Effect(j) \/ ReturnOk(j) \/ ReturnErr(j) \/ PanicOp(j)
      PROVE  FetchInv'
  <2>1. PICK s : Become(j, s)
    BY <1>9 DEF StartOp, Effect, ReturnOk, ReturnErr, PanicOp
  <2>2. ops[j] \in Op /\ ops[j] # None /\ pc = "run"
    BY <1>9, OpInType DEF StartOp, Effect, ReturnOk, ReturnErr, PanicOp, OpIn
  <2>3. \A k \in Keys : ops'[k] # None =>
          ops[k] # None /\ ops'[k].kind = ops[k].kind /\ ops'[k].rec = ops[k].rec
    BY <2>1, <2>2 DEF Become, TypeOK, Op
  <2>4. /\ UNCHANGED <<store, pc, actual>>
        /\ drifted \cup unrecorded \subseteq drifted' \cup unrecorded'
    BY <1>9 DEF StartOp, Effect, ReturnOk, ReturnErr, PanicOp, PassRest, history
  <2>5. \A k \in Keys : actual'[UpstreamOf[k]] = None
    BY <2>2, <2>4, KeyAssumption DEF KeyAssumption, NotFetched
  <2>. QED
    BY <2>2, <2>3, <2>4, <2>5
<1>10. CASE persist
  <2>1. /\ pc' = "apply" /\ actual' = NotFetched /\ UNCHANGED drifted
        /\ \A k \in Keys : ops'[k] # None =>
             ops'[k] = ops[k] /\ store'[k] = store[k] /\ (k \in unrecorded => k \in unrecorded')
    BY <1>10 DEF persist, Finish, Results, Reported
  <2>2. \A k \in Keys : actual'[UpstreamOf[k]] = None
    BY <2>1, KeyAssumption DEF KeyAssumption, NotFetched
  <2>. QED
    BY <2>1, <2>2
<1>11. ASSUME NEW k \in Keys, GateOpens(k) \/ EditSource(k) PROVE FetchInv'
  BY <1>11 DEF GateOpens, EditSource, pass, history
<1>12. ASSUME NEW u \in Upstreams, CheckDue(u) PROVE FetchInv'
  BY <1>12 DEF CheckDue, pass, history
<1>13. ASSUME NEW u \in Upstreams, NEW s \in Slots, OutOfBand(u, s) PROVE FetchInv'
  BY <1>13 DEF OutOfBand, pass
<1>14. ASSUME NEW c \in Configs, Crash(c) \/ Exit(c) PROVE FetchInv'
  <2>1. pc' = "idle" /\ actual' = NotFetched /\ ops' = Nothing
    BY <1>14 DEF Crash, Exit, Boot, ResetPass
  <2>2. \A k \in Keys : actual'[UpstreamOf[k]] = None /\ ops'[k] = None
    BY <2>1, KeyAssumption DEF KeyAssumption, NotFetched, Nothing
  <2>. QED
    BY <2>1, <2>2
<1>15. CASE Cancel \/ UNCHANGED vars
  BY <1>15 DEF Cancel, vars, pass, history
<1>. QED
  BY <1>1, <1>2, <1>3, <1>4, <1>5, <1>6, <1>7, <1>8, <1>9, <1>10, <1>11, <1>12,
     <1>13, <1>14, <1>15 DEF Next, System

\* Verification plans a write of a record that is synced, unchanged and given back by
\* List as it was written (no name in full at Cloudflare, no priority with a type that
\* has none) only if the provider was edited or an outcome was not recorded, even if
\* the zone changes between the listing and the plan.
THEOREM OnlyDriftCorrected == DisjointSlots /\ Spec => []CorrectsOnlyDrift
<1>1. Init => FetchInv
  <2> SUFFICES ASSUME Init PROVE FetchInv
    OBVIOUS
  <2>1. ops = Nothing /\ store = Nothing /\ actual = NotFetched
    BY DEF Init
  <2>2. \A k \in Keys : ops[k] = None /\ store[k] = None
    BY <2>1 DEF Nothing
  <2>. QED
    BY <2>1, <2>2 DEF FetchInv, CorrectsOnlyDrift, Synced
<1>2. FetchInv => CorrectsOnlyDrift
  BY DEF FetchInv
<1>3. SUFFICES ASSUME DisjointSlots PROVE Spec => []CorrectsOnlyDrift
  BY <1>3
<1>4. Spec => []SyncedIsApplied
  BY <1>3, SyncedCorrect
<1>. QED
  BY <1>1, <1>2, <1>4, FetchNext, TypeCorrect, PTL DEF Spec
-----------------------------------------------------------------------------
(* The failure count *)

\* The failure count the store will hold for key k once the op of k, as far as it has
\* got, is persisted.
Outcome(k) ==
  IF ops[k] = None \/ ops[k].st \notin {"ok", "failed", "panicked"} THEN Prior(k)
  ELSE IF ops[k].st = "ok" THEN 0
  ELSE IF ops[k].st = "panicked" /\ ops[k].kind # "delete" THEN 1
  ELSE Prior(k) + 1

\* The failures in a row are never overcounted.  A panic undercounts them: its handler
\* starts from the desired record, whose count is zero.
NeverOvercounted ==
  \A k \in Keys : store[k] # None /\ ops[k] = None => store[k].failures <= streak[k]

\* A worker's progress belongs to the upstream in hand, and the count that is about
\* to be stored follows the attempts in a row.  The entry an absent upstream loses
\* takes its count along.
CountInv ==
  \A k \in Keys :
    /\ ops[k] # None /\ ops[k].st \in {"running", "effected", "ok", "failed", "panicked"}
         => pc = "run" /\ UpstreamOf[k] = cur
    /\ cfg.mode[UpstreamOf[k]] # "absent" \/ store[k] # None
         => /\ Outcome(k) <= streak[k]
            /\ "panic" \notin Faults => Outcome(k) = streak[k]

LEMMA PriorType == TypeOK => \A k \in Keys : Prior(k) \in Nat
  BY DEF TypeOK, Prior, Entry

LEMMA CountNext == TypeOK /\ GateInv /\ CountInv /\ [Next]_vars => CountInv'
<1> SUFFICES ASSUME TypeOK, GateInv, CountInv, [Next]_vars PROVE CountInv'
  OBVIOUS
<1> USE DEF CountInv
<1>a. \A k \in Keys : Prior(k) \in Nat /\ streak[k] \in Nat
  BY PriorType DEF TypeOK
<1>b. \A k \in Keys : pc # "run" => Outcome(k) = Prior(k)
  BY DEF Outcome
\* Steps that leave the counts alone and start no worker.
<1>0. ASSUME UNCHANGED <<store, streak, cfg>>, UNCHANGED <<ops, pc, cur>>
      PROVE  CountInv'
  BY <1>0 DEF Outcome, Prior
<1>1. CASE StartPass \/ ReadStore
  <2>1. UNCHANGED <<store, streak, cfg, ops, cur>> /\ pc # "run"
    BY <1>1 DEF StartPass, ReadStore, world, history
  <2>. QED
    BY <2>1 DEF Outcome, Prior
<1>2. ASSUME NEW s \in Sources, SnapshotOk(s) \/ SnapshotFails(s) PROVE CountInv'
  BY <1>0, <1>2 DEF SnapshotOk, SnapshotFails, world, history
<1>3. ASSUME NEW u \in Upstreams, ListOk(u) \/ ListFails(u) PROVE CountInv'
  BY <1>0, <1>3 DEF ListOk, ListFails, world, history
<1>4. CASE AbandonPass \/ FinishPass
  <2>1. UNCHANGED <<store, streak, cfg>> /\ pc # "run" /\ \A k \in Keys : ops'[k] = None
    BY <1>4 DEF AbandonPass, FinishPass, ResetPass, world, history, Nothing
  <2>. QED
    BY <1>b, <2>1 DEF Outcome, Prior
<1>5. CASE MakePlan
  <2>1. UNCHANGED <<store, streak, cfg>> /\ pc # "run"
    BY <1>5 DEF MakePlan, world, history
  <2>2. \A k \in Keys : ops'[k] # None => ops'[k].st \in {"queued", "skipped"}
    BY <1>5 DEF MakePlan, InitialState
  <2>. QED
    BY <1>b, <2>1, <2>2 DEF Outcome, Prior
<1>6. ASSUME NEW u \in Upstreams, applyUnknownUpstream(u) PROVE CountInv'
  <2>1. UNCHANGED <<streak, cfg>> /\ pc # "run" /\ cfg.mode[u] = "absent"
    BY <1>6 DEF applyUnknownUpstream, world, history
  <2>2. \A k \in Keys : ops'[k] # None => ops'[k] = ops[k]
    BY <1>6 DEF applyUnknownUpstream, Finish
  <2>3. \A k \in Keys : store'[k] = store[k] \/ (store'[k] = None /\ UpstreamOf[k] = u)
    BY <1>6 DEF applyUnknownUpstream
  <2>. QED
    BY <1>b, <2>1, <2>2, <2>3 DEF Outcome, Prior
<1>7. ASSUME NEW u \in Upstreams, applyUpstream(u) PROVE CountInv'
  <2>1. UNCHANGED <<store, streak, cfg, ops>> /\ pc # "run"
    BY <1>7 DEF applyUpstream, world, history
  <2>. QED
    BY <2>1 DEF Outcome, Prior
<1>8. ASSUME NEW j \in Keys, StartOp(j) \/ Effect(j) \/ ReturnOk(j) \/ ReturnErr(j) \/ PanicOp(j)
      PROVE  CountInv'
  <2>1. UNCHANGED <<store, cfg, pc, cur>> /\ pc = "run" /\ UpstreamOf[j] = cur
    BY <1>8 DEF StartOp, Effect, ReturnOk, ReturnErr, PanicOp, OpIn, PassRest, world
  <2>2. ops[j] \in Op /\ ops[j] # None /\ ops[j].st \in {"queued", "running", "effected"}
    BY <1>8, OpInType DEF StartOp, Effect, ReturnOk, ReturnErr, PanicOp, OpIn
  <2>3. PICK s \in OpState : Become(j, s)
    BY <1>8 DEF StartOp, Effect, ReturnOk, ReturnErr, PanicOp, OpState
  <2>4. /\ ops'[j].st = s /\ ops'[j].kind = ops[j].kind
        /\ \A k \in Keys : k # j => ops'[k] = ops[k]
    BY <2>2, <2>3 DEF Become, TypeOK, Op
  <2>5. \A k \in Keys : k # j => streak'[k] = streak[k]
    BY <1>8 DEF StartOp, Effect, ReturnOk, ReturnErr, PanicOp, history, TypeOK
  <2>6. ops'[j] # None
    <3>1. ops'[j] \in Op
      BY <2>2, <2>3 DEF Become, TypeOK, Op
    <3>. QED
      BY <3>1, ReconcileAssumption DEF ReconcileAssumption
  <2>7. cfg.mode[UpstreamOf[j]] # "absent" /\ Outcome(j) = Prior(j) /\ Prior(j)' = Prior(j)
    BY <2>1, <2>2 DEF GateInv, Outcome, Prior
  <2>8. Outcome(j) <= streak[j] /\ ("panic" \notin Faults => Outcome(j) = streak[j])
    BY <2>7
  <2>9. Outcome(j)' <= streak'[j] /\ ("panic" \notin Faults => Outcome(j)' = streak'[j])
    <3>1. CASE StartOp(j) \/ Effect(j)
      <4>1. ops'[j].st \notin {"ok", "failed", "panicked"} /\ streak' = streak
        BY <2>2, <3>1 DEF StartOp, Effect, Become, TypeOK, Op, history
      <4>. QED
        BY <2>7, <2>8, <4>1 DEF Outcome
    <3>2. CASE ReturnOk(j)
      <4>1. ops'[j].st = "ok" /\ streak'[j] = 0
        BY <2>2, <3>2 DEF ReturnOk, Become, TypeOK, Op
      <4>. QED
        BY <2>6, <4>1 DEF Outcome
    <3>3. CASE ReturnErr(j)
      <4>1. CASE canceled
        <5>1. ops'[j].st = "skipped" /\ streak' = streak
          BY <2>2, <3>3, <4>1 DEF ReturnErr, Become, TypeOK, Op
        <5>. QED
          BY <2>7, <2>8, <5>1 DEF Outcome
      <4>2. CASE ~canceled
        <5>1. ops'[j].st = "failed" /\ streak'[j] = streak[j] + 1
          BY <2>2, <3>3, <4>2 DEF ReturnErr, Become, TypeOK, Op
        <5>2. Outcome(j)' = Prior(j) + 1
          BY <2>6, <2>7, <5>1 DEF Outcome
        <5>. QED
          BY <1>a, <2>7, <2>8, <5>1, <5>2
      <4>. QED
        BY <4>1, <4>2
    <3>4. CASE PanicOp(j)
      <4>1. ops'[j].st = "panicked" /\ streak'[j] = streak[j] + 1 /\ "panic" \in Faults
        BY <2>2, <3>4 DEF PanicOp, Become, TypeOK, Op, Fault
      <4>2. Outcome(j)' \in {1, Prior(j) + 1}
        BY <2>6, <2>7, <4>1 DEF Outcome
      <4>. QED
        BY <1>a, <2>7, <2>8, <4>1, <4>2
    <3>. QED
      BY <1>8, <3>1, <3>2, <3>3, <3>4
  <2>10. ASSUME NEW k \in Keys, k # j
         PROVE  Outcome(k)' = Outcome(k) /\ streak'[k] = streak[k] /\ ops'[k] = ops[k]
    BY <2>1, <2>4, <2>5, <2>10 DEF Outcome, Prior
  <2>. QED
    BY <2>1, <2>9, <2>10
<1>9. CASE persist
  <2>1. UNCHANGED <<streak, cfg>> /\ pc = "run"
    BY <1>9 DEF persist, world
  <2>2. \A k \in Keys : /\ UpstreamOf[k] = cur => ops'[k] = None
                        /\ UpstreamOf[k] # cur => ops'[k] = ops[k] /\ store'[k] = store[k]
    BY <1>9 DEF persist, Finish, Results
  <2>3. ASSUME NEW k \in Keys PROVE Outcome(k)' = Outcome(k)
    <3>1. CASE UpstreamOf[k] # cur
      BY <2>2, <3>1 DEF Outcome, Prior
    <3>2. CASE UpstreamOf[k] = cur
      <4>1. Outcome(k)' = Prior(k)'
        BY <2>2, <3>2 DEF Outcome
      <4>2. CASE ops[k] = None
        BY <1>9, <4>1, <4>2 DEF Outcome, Prior, persist, Results
      <4>3. CASE ops[k] # None
        <5>1. store'[k] = resultEntry(k, ops[k]) /\ ops[k].st \in Settled
          BY <1>9, <3>2, <4>3 DEF persist, Results
        <5>2. CASE ops[k].st \in {"failed", "panicked"}
          <6>1. resultEntry(k, ops[k]) \in Entry
            BY <1>a, <4>3, <5>2 DEF resultEntry, TypeOK, Op, Entry, Status
          <6>. QED
            BY <4>1, <4>3, <5>1, <5>2, <6>1, NoneAssumption
            DEF NoneAssumption, Outcome, Prior, resultEntry
        <5>3. CASE ops[k].st \in {"ok", "skipped"}
          BY <4>1, <4>3, <5>1, <5>3 DEF Outcome, Prior, resultEntry
        <5>. QED
          BY <5>1, <5>2, <5>3 DEF Settled
      <4>. QED
        BY <4>2, <4>3
    <3>. QED
      BY <3>1, <3>2
  <2>4. ASSUME NEW k \in Keys, store'[k] # None
        PROVE  cfg.mode[UpstreamOf[k]] # "absent" \/ store[k] # None
    BY <2>1, <2>2, <2>4 DEF GateInv
  <2>. QED
    BY <2>1, <2>2, <2>3, <2>4
<1>10. ASSUME NEW k \in Keys, GateOpens(k) \/ EditSource(k) PROVE CountInv'
  BY <1>0, <1>10 DEF GateOpens, EditSource, pass, history, world
<1>11. ASSUME NEW u \in Upstreams, CheckDue(u) PROVE CountInv'
  BY <1>0, <1>11 DEF CheckDue, pass, history, world
<1>12. ASSUME NEW u \in Upstreams, NEW s \in Slots, OutOfBand(u, s) PROVE CountInv'
  BY <1>0, <1>12 DEF OutOfBand, pass
<1>13. ASSUME NEW c \in Configs, Crash(c) \/ Exit(c) PROVE CountInv'
  <2>1. /\ store' = disk /\ \A k \in Keys : ops'[k] = None
        /\ \A k \in Keys : streak'[k] = IF disk[k] = None THEN 0 ELSE disk[k].failures
    BY <1>13 DEF Crash, Exit, Boot, ResetPass, Nothing
  <2>2. \A k \in Keys : Outcome(k)' = streak'[k] /\ streak'[k] \in Nat
    BY <2>1 DEF Outcome, Prior, TypeOK, Entry
  <2>. QED
    BY <2>1, <2>2
<1>14. CASE Cancel \/ UNCHANGED vars
  BY <1>0, <1>14 DEF Cancel, vars, pass, history, world
<1>. QED
  BY <1>1, <1>2, <1>3, <1>4, <1>5, <1>6, <1>7, <1>8, <1>9, <1>10, <1>11, <1>12,
     <1>13, <1>14 DEF Next, System

LEMMA CountCorrect == Spec => []CountInv
<1>1. Init => CountInv
  <2> SUFFICES ASSUME Init, NEW k \in Keys
               PROVE  /\ ops[k] = None
                      /\ Outcome(k) <= streak[k] /\ Outcome(k) = streak[k]
    BY Zenon DEF CountInv
  <2>1. ops = Nothing /\ store = Nothing /\ streak = [j \in Keys |-> 0]
    BY DEF Init
  <2>2. ops[k] = None /\ store[k] = None /\ streak[k] = 0
    BY <2>1 DEF Nothing
  <2>. QED
    BY <2>2 DEF Outcome, Prior
<1>2. Init => GateInv
  BY DEF Init, GateInv, GateOnlyOnFailure
<1>. QED
  BY <1>1, <1>2, TypeCorrect, GateNext, CountNext, PTL DEF Spec

\* Where adapters do not panic, the stored count, which sets the backoff, is the number
\* of failed attempts in a row: through failed creates, updates and deletes, cancelled
\* passes, removed upstreams, crashes and restarts from an old state file.
THEOREM FailuresAreCounted == "panic" \notin Faults /\ Spec => []FailuresCounted
<1>1. SUFFICES ASSUME "panic" \notin Faults PROVE Spec => []FailuresCounted
  BY <1>1
<1>2. CountInv => FailuresCounted
  BY <1>1 DEF CountInv, FailuresCounted, Outcome, Prior
<1>. QED
  BY <1>2, CountCorrect, PTL

\* And whatever happens, panics included, no more failures are stored than happened.
THEOREM NoFailureOvercounted == Spec => []NeverOvercounted
<1>1. CountInv => NeverOvercounted
  BY DEF CountInv, NeverOvercounted, Outcome, Prior
<1>. QED
  BY <1>1, CountCorrect, PTL
=============================================================================
