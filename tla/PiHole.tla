------------------------------- MODULE PiHole -------------------------------
(***************************************************************************)
(* The Pi-hole adapter (pkg/upstream/pihole/pihole.go) under the workers   *)
(* of the executor.  Pi-hole has no call for one record: the adapter reads *)
(* a whole list (dns.hosts or dns.cnameRecords), edits its copy, and sends *)
(* the whole list back, while up to MaxConc - 1 other workers do the same. *)
(*                                                                         *)
(* A list is the set of its entries; the name of an entry is what hostName *)
(* or cnameAlias reads from the line, and val stands for the rest.  A      *)
(* hand-written line with several hosts has a name no record has.  Of the  *)
(* reconcile pass around the workers only the plan and the result are      *)
(* kept; Reconcile models the pass.                                        *)
(***************************************************************************)
EXTENDS Naturals, FiniteSets

CONSTANTS Keys, Lists, ListOf,   \* the list key k's record type lives in
          NameOf,                \* and the DNS name of its record
          ValsOf,                \* and the values it may have
          HandLines,             \* list -> entries people write and remove by hand
          Verify,                \* whether verify_interval is set
          MaxConc, None,
          MaxEdits, MaxFaults

Entry(k, v) == [name |-> NameOf[k], val |-> v]
EntriesOf(k) == {Entry(k, v) : v \in ValsOf[k]}
Lines(l) == HandLines[l] \cup UNION {EntriesOf(k) : k \in {j \in Keys : ListOf[j] = l}}

Op(k) == [remove : BOOLEAN, val : ValsOf[k], got : SUBSET Lines(ListOf[k]),
          st : {"queued", "got", "patched", "ok", "failed"}]
StoreEntry(k) == [val : ValsOf[k], status : {"synced", "failed", "pending_delete"}]

ASSUME PiHoleAssumption ==
  /\ IsFiniteSet(Keys) /\ \A k \in Keys : None \notin Op(k) \cup StoreEntry(k)
  /\ ListOf \in [Keys -> Lists] /\ HandLines = [l \in Lists |-> HandLines[l]]
  /\ \A k \in Keys, l \in Lists : \A e \in HandLines[l] : e.name # NameOf[k]
  /\ Verify \in BOOLEAN /\ MaxConc \in Nat \ {0}
  /\ MaxEdits \in Nat /\ MaxFaults \in Nat

VARIABLES
  lists,          \* list -> its entries, as Pi-hole holds them
  want,           \* key -> the value its source declares, or None
  stored,         \* key -> the store entry [val, status], or None
  ops,            \* key -> its op in the running pass, or None
  meant,          \* history: list -> the hand-written lines people want there
  raced,          \* history: list -> those written or removed while a worker had a copy
  edits, faults

byHand == <<meant, raced>>
vars == <<lists, want, stored, ops, byHand, edits, faults>>

TypeOK ==
  /\ \A l \in Lists : lists[l] \subseteq Lines(l)
  /\ \A k \in Keys :
       /\ want[k] \in ValsOf[k] \cup {None}
       /\ stored[k] # None => stored[k] \in StoreEntry(k)
       /\ ops[k] # None => ops[k] \in Op(k)
  /\ meant \in [Lists -> SUBSET UNION {HandLines[l] : l \in Lists}]
  /\ raced \in [Lists -> SUBSET UNION {HandLines[l] : l \in Lists}]
  /\ edits \in 0..MaxEdits /\ faults \in 0..MaxFaults
-----------------------------------------------------------------------------
\* Every entry with the record's name is dropped, and for an upsert the new
\* one is added.  Before it, a variant that only drops the exact entry.
applyExact(entries, entry, remove) ==
  (entries \ {entry}) \cup (IF remove THEN {} ELSE {entry})
applyByName(entries, entry, remove) ==
  {e \in entries : e.name # entry.name} \cup (IF remove THEN {} ELSE {entry})

\* Whether there is anything to send.  Before it, a variant that only looks for
\* the name.
changedIfAbsent(entries, entry, remove) ==
  LET owned == {e \in entries : e.name = entry.name} IN
    IF remove THEN owned # {} ELSE owned = {}
changed(entries, entry, remove) ==
  LET owned == {e \in entries : e.name = entry.name} IN
    IF remove THEN owned # {} ELSE owned # {entry}

\* What List reports of key k's record, compared by DriftEqual.
Listed(k, v) == Entry(k, v) \in lists[ListOf[k]]

\* The plan of a pass (diff): create, update, retry, correct drift, delete; often
\* empty.
\* Before it, a variant that takes the store's word for what is in sync.
NeverDrifted(k) == FALSE
Drifted(k) == Verify /\ ~Listed(k, want[k])
Due(k) ==
  IF want[k] # None
  THEN \/ stored[k] = None
       \/ stored[k] # None
            /\ (stored[k].status = "failed" \/ stored[k].val # want[k] \/ Drifted(k))
  ELSE stored[k] # None

Plan ==
  /\ \A k \in Keys : ops[k] = None
  /\ ops' = [k \in Keys |->
               IF ~Due(k) THEN None
               ELSE [remove |-> want[k] = None, st |-> "queued", got |-> {},
                     val |-> IF want[k] # None THEN want[k] ELSE stored[k].val]]
  /\ UNCHANGED <<lists, want, stored, byHand, edits, faults>>

OpIn(k, states) == ops[k] # None /\ ops[k].st \in states
InFlight == {k \in Keys : OpIn(k, {"got", "patched"})}
Target(k) == Entry(k, ops[k].val)

\* patchHosts or patchCNAME up to the answer of the GET.  If the list is as it
\* should be already, the call returns nil without a PATCH.
Get(k) ==
  /\ OpIn(k, {"queued"}) /\ Cardinality(InFlight) < MaxConc
  /\ LET current == lists[ListOf[k]] IN
       ops' = [ops EXCEPT ![k].got = current,
                 ![k].st = IF changed(current, Target(k), ops[k].remove) THEN "got" ELSE "ok"]
  /\ UNCHANGED <<lists, want, stored, byHand, edits, faults>>

\* Pi-hole carries out the PATCH: the list is replaced by the edited copy.
Patch(k) ==
  /\ OpIn(k, {"got"})
  /\ lists' = [lists EXCEPT ![ListOf[k]] = applyByName(ops[k].got, Target(k), ops[k].remove)]
  /\ ops' = [ops EXCEPT ![k].st = "patched"]
  /\ UNCHANGED <<want, stored, byHand, edits, faults>>

Answer(k) ==
  /\ OpIn(k, {"patched"})
  /\ ops' = [ops EXCEPT ![k].st = "ok"]
  /\ UNCHANGED <<lists, want, stored, byHand, edits, faults>>

\* The answer is lost and the transport sends the same list again.
Resend(k) ==
  /\ OpIn(k, {"patched"}) /\ faults > 0 /\ faults' = faults - 1
  /\ ops' = [ops EXCEPT ![k].st = "got"]
  /\ UNCHANGED <<lists, want, stored, byHand, edits>>

\* The GET or the PATCH fails, or the answer to the last PATCH is lost.
Fail(k) ==
  /\ OpIn(k, {"queued", "got", "patched"}) /\ faults > 0 /\ faults' = faults - 1
  /\ ops' = [ops EXCEPT ![k].st = "failed"]
  /\ UNCHANGED <<lists, want, stored, byHand, edits>>

\* All workers are done; the results are stored.  Before it, a variant with a
\* status the code never stores.
resultPending(k) ==
  IF ops[k].st = "ok" /\ ops[k].remove THEN None
  ELSE [val |-> ops[k].val, status |-> IF ops[k].st = "ok" THEN "synced" ELSE "pending"]
Result(k) ==
  CASE ops[k].st = "ok" /\ ops[k].remove -> None
    [] ops[k].st = "ok" /\ ~ops[k].remove -> [val |-> ops[k].val, status |-> "synced"]
    [] OTHER -> [val |-> ops[k].val,
                 status |-> IF ops[k].remove THEN "pending_delete" ELSE "failed"]

Finish ==
  /\ \E k \in Keys : ops[k] # None
  /\ \A k \in Keys : ops[k] # None => OpIn(k, {"ok", "failed"})
  /\ stored' = [k \in Keys |-> IF ops[k] # None THEN Result(k) ELSE stored[k]]
  /\ ops' = [k \in Keys |-> None]
  /\ UNCHANGED <<lists, want, byHand, edits, faults>>

\* A record is added, changed or removed at its source.
Edit(k) ==
  /\ edits > 0 /\ edits' = edits - 1
  /\ \E v \in (ValsOf[k] \cup {None}) \ {want[k]} : want' = [want EXCEPT ![k] = v]
  /\ UNCHANGED <<lists, stored, ops, byHand, faults>>

\* The workers that have a copy of list l which they may send, or send again.
Holders(l) == {k \in Keys : ListOf[k] = l /\ OpIn(k, {"got", "patched"})}

\* Somebody writes or removes a line at Pi-hole.
EditByHand(l) ==
  /\ edits > 0 /\ edits' = edits - 1
  /\ \E e \in HandLines[l], there \in BOOLEAN :
       /\ there <=> e \notin lists[l]
       /\ lists' = [lists EXCEPT ![l] = IF there THEN @ \cup {e} ELSE @ \ {e}]
       /\ meant' = [meant EXCEPT ![l] = IF there THEN @ \cup {e} ELSE @ \ {e}]
       /\ raced' = [raced EXCEPT ![l] = IF Holders(l) # {} THEN @ \cup {e} ELSE @ \ {e}]
  /\ UNCHANGED <<want, stored, ops, faults>>

Init ==
  /\ lists = HandLines /\ meant = HandLines /\ raced = [l \in Lists |-> {}]
  /\ want \in [Keys -> {None} \cup UNION {ValsOf[k] : k \in Keys}]
  /\ \A k \in Keys : want[k] \in ValsOf[k] \cup {None}
  /\ stored = [k \in Keys |-> None] /\ ops = [k \in Keys |-> None]
  /\ edits = MaxEdits /\ faults = MaxFaults

System ==
  \/ Plan \/ Finish
  \/ \E k \in Keys : Get(k) \/ Patch(k) \/ Answer(k) \/ Resend(k) \/ Fail(k)
Next == System \/ (\E k \in Keys : Edit(k)) \/ (\E l \in Lists : EditByHand(l))
Spec == Init /\ [][Next]_vars

\* The loop keeps running and every call returns; faults and edits are finite.
FairSpec == Spec /\ WF_vars(System)
-----------------------------------------------------------------------------
\* The content S of list l has the hand-written lines that people want there, those
\* left open that raced with a worker, and at most one entry per name of a record.
Sound(l, S) ==
  /\ \A e \in HandLines[l] \ raced[l] : e \in S <=> e \in meant[l]
  /\ \A d, e \in S \ HandLines[l] : d.name = e.name => d = e

\* A list never holds two entries for one name of a record, whatever the workers do to
\* each other's updates and however often a list is sent.  A line written by hand is
\* never lost, and one removed by hand never comes back, unless that was done while a
\* worker had read the list and could still send it.
ListsSound == \A l \in Lists : Sound(l, lists[l])

Truth(k) ==
  /\ stored[k] # None /\ stored[k].status = "synced" => Listed(k, stored[k].val)
  /\ stored[k] = None => \A v \in ValsOf[k] : ~Listed(k, v)
BetweenPasses == \A k \in Keys : ops[k] = None

\* Between passes, a record the store calls synced is in its list, and one the
\* store has forgotten is not.
StoreTellsTruth == BetweenPasses => \A k \in Keys : Truth(k)

\* No other worker writes the list of k while a worker of k has a copy of it.
SoleWriter(k) == MaxConc = 1 \/ \A j \in Keys \ {k} : ListOf[j] # ListOf[k]

\* Where workers cannot undo each other's updates, failed requests, lost answers,
\* edits during a pass and retries leave the store and the list in agreement.
SoleWriterTruth == BetweenPasses => \A k \in Keys : SoleWriter(k) => Truth(k)

\* What Upstream sees of a value, of an op and of a store entry; Pi-hole has neither
\* priorities nor comments.
Datum(v) == [val |-> v, prio |-> None, note |-> None]
Own(k) == {e \in lists[ListOf[k]] : e.name = NameOf[k]}
Served(k) == {Datum(e.val) : e \in Own(k)}
Call(k) ==
  IF ops[k] = None THEN None
  ELSE [remove |-> ops[k].remove, data |-> Datum(ops[k].val),
        st |-> IF ops[k].st \in {"ok", "failed"} THEN ops[k].st ELSE "open"]
Remembered(k) ==
  IF stored[k] = None THEN None
  ELSE [data |-> Datum(stored[k].val), status |-> stored[k].status]

ASSUME CallAssumption ==
  \A k \in Keys : None \notin [remove : BOOLEAN, data : {Datum(v) : v \in ValsOf[k]},
                              st : {"open", "ok", "failed"}]

Abstract == INSTANCE Upstream WITH
  comments <- FALSE, alone <- {k \in Keys : SoleWriter(k)},
  served <- [k \in Keys |-> Served(k)], call <- [k \in Keys |-> Call(k)],
  entry <- [k \in Keys |-> Remembered(k)]

\* Where workers cannot undo each other's updates, reading, editing and sending back a
\* whole list amounts to what the executor takes a call for: one effect, at the
\* record's own name, that a call which returns nil has had.
ImplementsUpstream == Abstract!Spec

\* Once edits and faults cease, every declared record ends up in its list.
DesiredListed == <>[](\A k \in Keys : want[k] # None => Listed(k, want[k]))
=============================================================================
