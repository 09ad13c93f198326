------------------------------- MODULE Adapter -------------------------------
(***************************************************************************)
(* What the Cloudflare and the Technitium adapter have in common: under    *)
(* the workers of the executor, each operation first looks its records up  *)
(* and then sends one request per change, each of which the transport may  *)
(* send again when an answer is lost.  Modules Cloudflare and Technitium   *)
(* add the requests.  Before the workers start, the pass reads the zone    *)
(* back (verification).                                                    *)
(*                                                                         *)
(* A zone may hold several records of one type and name (a slot).  Of the  *)
(* data of a record, val is the value, prio the priority (0: none) that    *)
(* tells apart MX records with the same value, note the comment.  A source *)
(* may declare a priority for any type, but only some have one.            *)
(***************************************************************************)
EXTENDS Naturals, FiniteSets

CONSTANTS Apis,        \* the adapters to look at
          Keys, Slots,
          SlotOf,      \* key -> type and name of its record
          WantsOf,     \* key -> what its source may declare (None: nothing)
          Start,       \* what the sources declare at first
          Single,      \* slots of a type that allows one record (CNAME)
          Unsupported, \* slots of a type an adapter cannot express (SRV, CAA)
          Prioritized, \* slots of a type that has a priority (MX)
          FullName,    \* pairs of a key and what its source declares with the name
                       \* written in full
          MaxId, PerPage, MaxConc, None,
          MaxEvents    \* bound on edits at the sources, edits at the provider and faults

Wants == (UNION {WantsOf[k] : k \in Keys}) \ {None}
Data == [val : {d.val : d \in Wants}, prio : {d.prio : d \in Wants} \cup {0},
         note : {d.note : d \in Wants}]
Ids == 0..MaxId
ZoneRecord == [id : Ids, slot : Slots, data : Data]
\* at is the id of the record the next request is about (None: a new one), old its
\* data where that is what identifies it, rest the ids to be deleted after it.
Op == [remove : BOOLEAN, data : Data, st : {"queued", "send", "sent", "ok", "failed"},
       at : Ids \cup {None}, old : Data \cup {None}, rest : SUBSET Ids]
StoreEntry == [data : Data, status : {"synced", "failed", "pending_delete"}]

ASSUME AdapterAssumption ==
  /\ Apis \subseteq {"cloudflare", "technitium"} /\ IsFiniteSet(Keys)
  /\ SlotOf \in [Keys -> Slots] /\ DOMAIN WantsOf = Keys /\ Wants \subseteq Data
  /\ Start \in [Keys -> Wants \cup {None}] /\ \A k \in Keys : Start[k] \in WantsOf[k]
  /\ Single \subseteq Slots /\ Unsupported \subseteq Slots /\ Prioritized \subseteq Slots
  /\ FullName \subseteq Keys \X Wants
  /\ MaxId \in Nat /\ PerPage \in Nat \ {0} /\ MaxConc \in Nat \ {0} /\ MaxEvents \in Nat
  /\ None \notin Data \cup Ids \cup Op \cup StoreEntry

VARIABLES
  api,             \* the adapter of this upstream; never changes
  zone,            \* the provider's records
  want,            \* key -> the data its source declares, or None
  stored,          \* key -> the store entry, or None
  phase,           \* "idle", "list" (verification), "plan", "run" (the workers)
  page, seen,      \* the next page of the listing, what it has brought so far
  ops,             \* key -> its op in the running pass, or None
  edited,          \* history: slots somebody has edited at the provider
  budget           \* steps of the environment left

vars == <<api, zone, want, stored, phase, page, seen, ops, edited, budget>>

TypeOK ==
  /\ api \in Apis /\ zone \subseteq ZoneRecord
  /\ want \in [Keys -> Data \cup {None}]
  /\ stored \in [Keys -> StoreEntry \cup {None}]
  /\ phase \in {"idle", "list", "plan", "run"}
  /\ page \in Nat /\ (seen = None \/ seen \subseteq ZoneRecord)
  /\ ops \in [Keys -> Op \cup {None}]
  /\ edited \subseteq Slots /\ budget \in 0..MaxEvents

At(s) == {r \in zone : r.slot = s}
\* What the provider keeps of data d, and so gives back: a priority of types that have one.
Content(s, d) == IF s \in Prioritized THEN d ELSE [d EXCEPT !.prio = 0]
Event == budget > 0 /\ budget' = budget - 1
-----------------------------------------------------------------------------
(* The pass around the workers. *)

StartPass ==
  /\ phase = "idle"
  /\ phase' = "list" /\ page' = 1 /\ seen' = {}
  /\ UNCHANGED <<api, zone, want, stored, ops, edited, budget>>

\* A page cannot be read: the store is trusted in this pass.
ListFails ==
  /\ phase = "list" /\ Event
  /\ phase' = "plan" /\ page' = 0 /\ seen' = None
  /\ UNCHANGED <<api, zone, want, stored, ops, edited>>

\* Whether data d, as declared, is what the provider gave back as got: appliedEqual,
\* or Technitium's DriftEqual, which knows no comments.  Both compare a priority that
\* is declared for a type without one with the 0 of List.
SameAs(d, got) ==
  d.val = got.val /\ d.prio = got.prio /\ (api = "cloudflare" => d.note = got.note)

\* driftCorrection.  Cloudflare's List strips the zone from every name, so that a
\* name written in full is not found.  Before it, a variant that sees no drift.
NeverDrifted(k) == FALSE
Drifted(k) ==
  /\ seen # None
  /\ \/ api = "cloudflare" /\ <<k, want[k]>> \in FullName
     \/ ~\E r \in seen : r.slot = SlotOf[k] /\ SameAs(want[k], r.data)

Due(k) ==
  IF want[k] # None
  THEN \/ stored[k] = None
       \/ stored[k] # None
            /\ (stored[k].status = "failed" \/ stored[k].data # want[k] \/ Drifted(k))
  ELSE stored[k] # None

Plan ==
  /\ phase = "plan"
  /\ ops' = [k \in Keys |->
               IF ~Due(k) THEN None
               ELSE [remove |-> want[k] = None, st |-> "queued", at |-> None, old |-> None,
                     rest |-> {}, data |-> IF want[k] # None THEN want[k] ELSE stored[k].data]]
  /\ phase' = "run" /\ page' = 0 /\ seen' = {}
  /\ UNCHANGED <<api, zone, want, stored, edited, budget>>

OpIn(k, states) == ops[k] # None /\ ops[k].st \in states
InFlight == {k \in Keys : OpIn(k, {"send", "sent"})}
MayStart(k) == phase = "run" /\ OpIn(k, {"queued"}) /\ Cardinality(InFlight) < MaxConc
Sending(k, remove) == OpIn(k, {"send"}) /\ ops[k].remove = remove

\* What the provider will keep of the data k's op is about.
Body(k) == Content(SlotOf[k], ops[k].data)

\* The state of k's op becomes s, with the next request about at.
Become(k, s) == ops' = [ops EXCEPT ![k].st = s]
Target(k, at, old, rest) ==
  ops' = [ops EXCEPT ![k].st = "send", ![k].at = at, ![k].old = old, ![k].rest = rest]
OpsOnly == UNCHANGED <<api, zone, want, stored, phase, page, seen, edited, budget>>
ZoneAndOps == UNCHANGED <<api, want, stored, phase, page, seen, edited, budget>>

\* The answer arrives: the next record of a deletion, or the end of the call.
Answered(k) ==
  /\ OpIn(k, {"sent"})
  /\ \/ ops[k].rest = {} /\ Become(k, "ok")
     \/ \E i \in ops[k].rest : Target(k, i, None, ops[k].rest \ {i})
  /\ OpsOnly

\* The answer is lost and the transport sends the request again.
Resend(k) ==
  /\ OpIn(k, {"sent"}) /\ Event
  /\ Become(k, "send")
  /\ UNCHANGED <<api, zone, want, stored, phase, page, seen, edited>>

\* The lookup or a request fails for good, or the last attempt's answer is lost.
Fails(k) ==
  /\ phase = "run" /\ OpIn(k, {"queued", "send", "sent"}) /\ Event
  /\ Become(k, "failed")
  /\ UNCHANGED <<api, zone, want, stored, phase, page, seen, edited>>

\* Before it, variants that store a status the code never stores, and that
\* overlook an error.
resultPending(k) ==
  IF ops[k].st = "ok" /\ ops[k].remove THEN None
  ELSE [data |-> ops[k].data, status |-> IF ops[k].st = "ok" THEN "synced" ELSE "pending"]
resultIgnored(k) ==
  IF ops[k].remove THEN None ELSE [data |-> ops[k].data, status |-> "synced"]
Result(k) ==
  CASE ops[k].st = "ok" /\ ops[k].remove -> None
    [] ops[k].st = "ok" /\ ~ops[k].remove -> [data |-> ops[k].data, status |-> "synced"]
    [] OTHER -> [data |-> ops[k].data,
                 status |-> IF ops[k].remove THEN "pending_delete" ELSE "failed"]

Finish ==
  /\ phase = "run" /\ \A k \in Keys : ops[k] # None => OpIn(k, {"ok", "failed"})
  /\ stored' = [k \in Keys |-> IF ops[k] # None THEN Result(k) ELSE stored[k]]
  /\ ops' = [k \in Keys |-> None] /\ phase' = "idle"
  /\ UNCHANGED <<api, zone, want, page, seen, edited, budget>>
-----------------------------------------------------------------------------
(* The environment. *)

\* A source is read when a pass starts; what changes later is for the next pass.
Edit(k) ==
  /\ phase = "idle" /\ Event
  /\ \E d \in WantsOf[k] \ {want[k]} : want' = [want EXCEPT ![k] = d]
  /\ UNCHANGED <<api, zone, stored, phase, page, seen, ops, edited>>

\* An id nobody remembers; Technitium's records have none.
Used == {r.id : r \in zone} \cup
        UNION {{ops[k].at} \cup ops[k].rest : k \in {j \in Keys : ops[j] # None}}
FreshIds == IF api = "technitium" THEN {0}
            ELSE {i \in Ids \ (Used \cup {0}) : \A j \in 1..(i - 1) : j \in Used}
\* Providers keep no two records with the same type, name, value and priority.
Alike(d, e) == d.val = e.val /\ d.prio = e.prio
Distinct(z) == \A r, q \in z : r.slot = q.slot /\ Alike(r.data, q.data) => r = q

\* Somebody adds, changes or removes a record directly at the provider.
OutOfBand(s) ==
  /\ Event
  /\ \/ \E r \in At(s) : zone' = zone \ {r}
     \/ \E r \in At(s), d \in Wants :
          zone' = (zone \ {r}) \cup {[r EXCEPT !.data = Content(s, d)]}
     \/ \E i \in FreshIds, d \in Wants :
          /\ s \in Single => At(s) = {}
          /\ zone' = zone \cup {[id |-> i, slot |-> s, data |-> Content(s, d)]}
  /\ zone' # zone /\ Distinct(zone')
  /\ edited' = edited \cup {s}
  /\ UNCHANGED <<api, want, stored, phase, page, seen, ops>>

Init ==
  /\ api \in Apis /\ zone = {}
  /\ want = Start
  /\ stored = [k \in Keys |-> None]
  /\ phase = "idle" /\ page = 0 /\ seen = {} /\ ops = [k \in Keys |-> None]
  /\ edited = {} /\ budget = MaxEvents

Pass ==
  \/ StartPass \/ ListFails \/ Plan \/ Finish
  \/ \E k \in Keys : Answered(k) \/ Resend(k) \/ Fails(k)

Environment == (\E k \in Keys : Edit(k)) \/ (\E s \in Slots : OutOfBand(s))
=============================================================================
