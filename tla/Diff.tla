-------------------------------- MODULE Diff --------------------------------
(***************************************************************************)
(* The records Beacons manages and the pure planner of a reconcile pass    *)
(* (internal/model/model.go, internal/reconcile/diff.go and plan.go).      *)
(*                                                                         *)
(* A record key (sourceID, record ID, upstream) is an element of Keys; the *)
(* source instance and the upstream it belongs to are fixed by SourceOf    *)
(* and UpstreamOf.  The applied fields of a record are a slot (its type    *)
(* and name as the source writes it), a value, a priority (0: none), and   *)
(* attr, which stands for TTL and comment; of an upstream that cannot give *)
(* both back, attr is what it leaves out (Technitium's comments, Pi-hole's *)
(* comments and the TTLs of its hosts).                                    *)
(* SlotsOf[k] is the set of slots key k may name over its lifetime: a      *)
(* singleton when the name never changes, more when it is edited in place. *)
(***************************************************************************)
EXTENDS Naturals

CONSTANTS Keys, Sources, Upstreams, SourceOf, UpstreamOf,
          Slots, SlotsOf, Vals, Prios, Attrs,
          AttrBlind,   \* upstreams that do not give attr back, and whose
                       \* DriftEqual leaves it out
          ZeroAttr,    \* the attr a List of such an upstream reports
          PrioBlind,   \* upstreams whose DriftEqual leaves the priority out (Pi-hole)
          PrioKept,    \* upstream -> slots of a type that has a priority there (MX)
          FullNames,   \* upstream -> slots whose name List gives back in another form
                       \* (Cloudflare: names the source writes in full)
          None         \* "no record", "no entry", "not fetched", ...

ASSUME KeyAssumption ==
  /\ SourceOf \in [Keys -> Sources]
  /\ UpstreamOf \in [Keys -> Upstreams]
  /\ SlotsOf \in [Keys -> SUBSET Slots]
  /\ AttrBlind \subseteq Upstreams /\ ZeroAttr \in Attrs
  /\ PrioBlind \subseteq Upstreams /\ 0 \in Prios
  /\ PrioKept \in [Upstreams -> SUBSET Slots] /\ FullNames \in [Upstreams -> SUBSET Slots]

Record == [slot : Slots, val : Vals, prio : Prios, attr : Attrs]
RecordOf(k) == {r \in Record : r.slot \in SlotsOf[k]}
Maybe(S) == S \cup {None}

\* The sync statuses a reconcile pass writes ("pending" is declared in the
\* code but never stored).
Status == {"synced", "failed", "pending_delete"}
Entry == [rec : Record, status : Status, failures : Nat]

\* One upstream's content: at most one record per (type, name), which is what
\* adapters that update "only the first" leave behind.
Zone == [Slots -> Maybe(Record)]
EmptyZone == [s \in Slots |-> None]

ASSUME NoneAssumption ==
  None \notin Record /\ None \notin Entry /\ None \notin Zone
-----------------------------------------------------------------------------
appliedEqual(a, b) ==
  a.slot = b.slot /\ a.val = b.val /\ a.prio = b.prio /\ a.attr = b.attr

\* The comparison used against fetched records: the upstream's own DriftEqual,
\* or appliedEqual when it has none.  First a variant that is always the latter.
DriftEqualStrict(u, want, got) == appliedEqual(want, got)
DriftEqual(u, want, got) ==
  /\ want.slot = got.slot /\ want.val = got.val
  /\ u \in PrioBlind \/ want.prio = got.prio
  /\ u \in AttrBlind \/ want.attr = got.attr

\* What the provider of upstream u keeps of record r, in the form List gives it back:
\* a priority only with a type that has one, whatever the source declares.
Stored(u, r) ==
  [slot |-> r.slot, val |-> r.val,
   prio |-> IF r.slot \in PrioKept[u] THEN r.prio ELSE 0,
   attr |-> IF u \in AttrBlind THEN ZeroAttr ELSE r.attr]

\* What List makes of zone content z: a name the source writes in full comes back
\* without the zone, and is not found under the name the source uses.
Listed(u, z) == [s \in Slots |-> IF s \in FullNames[u] THEN None ELSE z[s]]

\* Whether List gives record r back as it was written.
GivenBack(u, r) ==
  /\ r.slot \notin FullNames[u]
  /\ u \in PrioBlind \/ r.slot \in PrioKept[u] \/ r.prio = 0

\* Whether what was fetched of upstream u is in sync with record r.
Holds(u, z, r) == z[r.slot] # None /\ DriftEqual(u, r, z[r.slot])

\* driftCorrection: only for a freshly fetched upstream; an exact (slot, value)
\* hit is compared again, any other hit on the slot is a changed value, no hit
\* at all means the record is missing.  The two faulty variants overlook that
\* the exact hit comes first, and the missing record.
driftByNameOnly(u, z, want) ==
  CASE z = None -> "noop"
    [] z # None /\ z[want.slot] = None -> "create"
    [] OTHER -> "update"
driftNeverMissing(u, z, want) ==
  IF z # None /\ z[want.slot] # None /\ ~DriftEqual(u, want, z[want.slot])
  THEN "update" ELSE "noop"
driftCorrection(u, z, want) ==
  CASE z = None -> "noop"
    [] z # None /\ z[want.slot] = None -> "create"
    [] z # None /\ z[want.slot] # None /\ z[want.slot].val = want.val ->
         IF DriftEqual(u, want, z[want.slot]) THEN "noop" ELSE "update"
    [] OTHER -> "update"

\* A failed record is applied again even if nothing changed; a faulty variant
\* never does.
neverRetries(have) == FALSE
mustRetry(have) == have.status = "failed"

\* Deletes are scoped to cleanly snapshotted sources; a faulty variant drops
\* the scope.
deletesUnscoped(k, snapshotted) == TRUE
mayDelete(k, snapshotted) == SourceOf[k] \in snapshotted

\* What diff plans for key k, given its desired record, its store entry, the
\* cleanly snapshotted sources and its upstream's fetched content.
OpKind(k, want, have, snapshotted, z) ==
  CASE want # None /\ have = None -> "create"
    [] want # None /\ have # None ->
         IF ~mustRetry(have) /\ appliedEqual(want, have.rec)
         THEN driftCorrection(UpstreamOf[k], z, want) ELSE "update"
    [] want = None /\ have # None /\ mayDelete(k, snapshotted) -> "delete"
    [] OTHER -> "none"

\* The record an op carries: the desired one, or the recorded one for a delete.
OpRecord(want, have) == IF want # None THEN want ELSE have.rec

\* The plan: at most one op per key.
diff(desired, recorded, snapshotted, actual) ==
  [k \in Keys |->
     LET kind == OpKind(k, desired[k], recorded[k], snapshotted,
                        actual[UpstreamOf[k]])
     IN  IF kind = "none" THEN None
         ELSE [kind |-> kind, rec |-> OpRecord(desired[k], recorded[k])]]
=============================================================================
