--------------------------- MODULE AdaptersProofs ---------------------------
(***************************************************************************)
(* Theorems about Adapters, for both adapters, every set of keys, slots    *)
(* and data, every page size and number of workers, edits and faults.      *)
(***************************************************************************)
EXTENDS Adapters, FiniteSetTheorems, TLAPS

States == {"queued", "send", "sent", "ok", "failed"}

LEMMA NoneIsNoValue == \A x \in Data \cup Ids \cup Op \cup StoreEntry : x # None
  BY AdapterAssumption DEF AdapterAssumption

\* What a provider keeps of data is data, and the same of what stays the same.
LEMMA ContentType == ASSUME NEW s, NEW d \in Data PROVE Content(s, d) \in Data
  BY DEF Content, Data

LEMMA BodyType == ASSUME NEW k, ops[k] \in Op PROVE Body(k) \in Data
  BY ContentType DEF Body, Op

LEMMA BodyStays == ASSUME NEW k, ops'[k].data = ops[k].data PROVE Body(k)' = Body(k)
  BY DEF Body, Content

LEMMA EntryStays == ASSUME NEW k, UNCHANGED stored[k] PROVE UNCHANGED KeptEntry(k)
  BY DEF KeptEntry, Content

\* What the two ways to change an op do.
LEMMA BecomeOps ==
  ASSUME TypeOK, NEW k \in Keys, ops[k] # None, NEW s \in States, Become(k, s)
  PROVE  /\ ops' \in [Keys -> Op \cup {None}]
         /\ \A j \in Keys : j # k => ops'[j] = ops[j]
         /\ ops'[k] \in Op /\ ops'[k].remove = ops[k].remove /\ ops'[k].data = ops[k].data
         /\ ops'[k].st = s /\ ops'[k].at = ops[k].at /\ ops'[k].old = ops[k].old
         /\ ops'[k].rest = ops[k].rest
  BY DEF TypeOK, Become, Op, States

LEMMA TargetOps ==
  ASSUME TypeOK, NEW k \in Keys, ops[k] # None, NEW at \in Ids \cup {None},
         NEW old \in Data \cup {None}, NEW rest \in SUBSET Ids, Target(k, at, old, rest)
  PROVE  /\ ops' \in [Keys -> Op \cup {None}]
         /\ \A j \in Keys : j # k => ops'[j] = ops[j]
         /\ ops'[k] \in Op /\ ops'[k].remove = ops[k].remove /\ ops'[k].data = ops[k].data
         /\ ops'[k].st = "send" /\ ops'[k].at = at /\ ops'[k].old = old /\ ops'[k].rest = rest
<1> DEFINE f1 == [ops EXCEPT ![k].st = "send"]
           f2 == [f1 EXCEPT ![k].at = at]
           f3 == [f2 EXCEPT ![k].old = old]
           f4 == [f3 EXCEPT ![k].rest = rest]
           Only(f) == f \in [Keys -> Op \cup {None}] /\ \A j \in Keys : j # k => f[j] = ops[j]
<1>0. ops[k] \in Op
  BY DEF TypeOK
<1>1. Only(f1) /\ f1[k] \in Op /\ f1[k] = [ops[k] EXCEPT !.st = "send"]
  BY <1>0 DEF TypeOK, Op
<1> HIDE DEF f1
<1>2. Only(f2) /\ f2[k] \in Op /\ f2[k] = [f1[k] EXCEPT !.at = at]
  BY <1>1 DEF Op
<1> HIDE DEF f2
<1>3. Only(f3) /\ f3[k] \in Op /\ f3[k] = [f2[k] EXCEPT !.old = old]
  BY <1>2 DEF Op
<1> HIDE DEF f3
<1>4. Only(f4) /\ f4[k] \in Op /\ f4[k] = [f3[k] EXCEPT !.rest = rest]
  BY <1>3 DEF Op
<1>5. ops' = f4
  BY DEF Target, f1, f2, f3
<1> HIDE DEF f4
<1>6. /\ f4[k].remove = ops[k].remove /\ f4[k].data = ops[k].data
      /\ f4[k].st = "send" /\ f4[k].at = at /\ f4[k].old = old /\ f4[k].rest = rest
  BY <1>0, <1>1, <1>2, <1>3, <1>4 DEF Op
<1>. QED
  BY <1>4, <1>5, <1>6
-----------------------------------------------------------------------------
(* The steps of either adapter, as far as the theorems need to know them *)

\* Cloudflare's ids are unique, and the ids an op holds are ids of its own type and name.
Points(k, i) == \A r \in zone : r.id = i => r.slot = SlotOf[k]
IdInv ==
  api = "cloudflare" =>
    /\ \A r, q \in zone : r.id = q.id => r = q
    /\ \A k \in Keys : OpIn(k, {"send", "sent"}) =>
         Points(k, ops[k].at) /\ \A i \in ops[k].rest : Points(k, i)

\* A zone changes so that this remains true: no record moves, and new ones have new ids.
IdsKept ==
  api = "cloudflare" =>
    /\ \A r, q \in zone' : r.id = q.id => r = q
    /\ \A r \in zone' : r.id \notin Used \/ \E q \in zone : q.id = r.id /\ q.slot = r.slot

OneAt(s) == \A r, q \in At(s) : r = q
\* No record like the one k's op is about.
Gone(k) == \A r \in At(SlotOf[k]) : ~Alike(r.data, Body(k))
Elsewhere(s) == \A t \in Slots : t # s => At(t)' = At(t)

\* Until its first request an op only looks.
Lookup(k) ==
  /\ OpsOnly /\ OpIn(k, {"queued"})
  /\ \/ Become(k, "failed")
     \/ Become(k, "ok") /\ IF ops[k].remove THEN Gone(k) ELSE Serves(SlotOf[k], ops[k].data)
     \/ \E at \in Ids \cup {None}, old \in Data \cup {None}, rest \in SUBSET Ids :
          /\ Target(k, at, old, rest)
          /\ api = "cloudflare" => Points(k, at) /\ \A i \in rest : Points(k, i)
          /\ ~ops[k].remove =>
               /\ rest = {}
               /\ at = None => At(SlotOf[k]) = {}
               /\ \/ At(SlotOf[k]) = {} \/ \E r \in At(SlotOf[k]) : ~SameAs(Body(k), r.data)
                  \/ api = "cloudflare" /\ ~PriorityFits(k)

\* A create or an update puts one record in the place of the records N of its type and
\* name: at least one if it is an update, and all that are like the new one.
Put(k) ==
  \E N \in SUBSET At(SlotOf[k]), new \in ZoneRecord :
    /\ At(SlotOf[k])' = (At(SlotOf[k]) \ N) \cup {new} /\ new.data = Body(k)
    /\ \A r \in At(SlotOf[k]) \ N : ~Alike(r.data, new.data)
    /\ ops[k].at # None => N # {}

\* A deletion takes records away; where there is at most one, none like its own is left.
Take(k) ==
  /\ At(SlotOf[k])' \subseteq At(SlotOf[k])
  /\ OneAt(SlotOf[k]) => \A r \in At(SlotOf[k])' : ~Alike(r.data, Body(k))

\* A request changes records of its own type and name only.
Request(k) ==
  /\ ZoneAndOps /\ OpIn(k, {"send"})
  /\ \/ Become(k, "failed") /\ UNCHANGED zone
     \/ /\ Become(k, "ok") /\ UNCHANGED zone
        /\ IF ops[k].remove THEN Gone(k) ELSE ops[k].at = None /\ At(SlotOf[k]) # {}
     \/ /\ Become(k, "sent")
        /\ zone' \subseteq ZoneRecord /\ IdsKept /\ Elsewhere(SlotOf[k])
        /\ ops[k].remove => Take(k)
        /\ ~ops[k].remove => Put(k)

\* If there is at most one record of the name, and a create meets at most the one it
\* made itself, there is one afterwards.
LEMMA PutOne ==
  ASSUME NEW k \in Keys, Put(k)
  PROVE  /\ \E r \in At(SlotOf[k])' : r.data = Body(k)
         /\ OneAt(SlotOf[k])
              /\ (ops[k].at = None => \A r \in At(SlotOf[k]) : r.data = Body(k))
              => OneAt(SlotOf[k])'
<1>1. PICK N \in SUBSET At(SlotOf[k]), new \in ZoneRecord :
        /\ At(SlotOf[k])' = (At(SlotOf[k]) \ N) \cup {new} /\ new.data = Body(k)
        /\ \A r \in At(SlotOf[k]) \ N : ~Alike(r.data, new.data)
        /\ ops[k].at # None => N # {}
  BY DEF Put
<1>2. CASE ops[k].at = None
  BY <1>1, <1>2 DEF OneAt, Alike
<1>3. CASE ops[k].at # None
  BY <1>1, <1>3 DEF OneAt
<1>. QED
  BY <1>2, <1>3

LEMMA SameAsItself == ASSUME NEW d PROVE SameAs(d, d)
  BY DEF SameAs

LEMMA CloudflareLookup ==
  ASSUME TypeOK, IdInv, NEW k \in Keys, Upsert(k) \/ Delete(k)
  PROVE  Lookup(k)
<1>1. OpsOnly /\ OpIn(k, {"queued"}) /\ api = "cloudflare" /\ ops[k] \in Op
  BY DEF Upsert, Delete, MayStart, OpIn, TypeOK
<1>2. ASSUME NEW r \in At(SlotOf[k]) PROVE r.id \in Ids /\ Points(k, r.id) /\ r.data \in Data
  BY <1>1 DEF At, TypeOK, ZoneRecord, IdInv, Points
<1>3. Points(k, None) /\ SlotOf[k] \in Slots
  BY AdapterAssumption DEF AdapterAssumption, Points, TypeOK, ZoneRecord
<1>4. CASE Upsert(k)
  <2>1. CASE Become(k, "failed")
    BY <1>1, <2>1 DEF Lookup
  <2>2. CASE At(SlotOf[k]) = {} /\ Target(k, None, None, {})
    BY <1>1, <1>3, <2>2 DEF Lookup
  <2>0. \A r \in At(SlotOf[k]) :
          recordUpToDate(r, ops[k].data) <=> r.data = ops[k].data /\ PriorityFits(k)
    BY DEF recordUpToDate, PriorityFits, At
  <2>5. ops[k].data \in Data /\ Body(k) \in Data
    BY <1>1, BodyType DEF Op
  <2>6. PriorityFits(k) => ops[k].data = Body(k)
    BY <2>5 DEF PriorityFits, Body, Content, Data
  <2>3. ASSUME NEW r \in At(SlotOf[k]), recordUpToDate(r, ops[k].data), Become(k, "ok")
        PROVE  Lookup(k)
    <3>1. SameAs(Body(k), r.data)
      BY <2>0, <2>3, <2>6, SameAsItself
    <3>2. Serves(SlotOf[k], ops[k].data)
      BY <3>1 DEF Serves, Body
    <3>. QED
      BY <1>1, <1>4, <2>3, <3>2 DEF Upsert, Lookup
  <2>4. ASSUME NEW r \in At(SlotOf[k]), ~recordUpToDate(r, ops[k].data),
               Target(k, r.id, None, {})
        PROVE  Lookup(k)
    <3>1. ~SameAs(Body(k), r.data) \/ ~PriorityFits(k)
      BY <1>1, <1>2, <2>0, <2>4, <2>5, <2>6 DEF SameAs, Data
    <3>2. r.id # None
      BY <1>2, AdapterAssumption DEF AdapterAssumption
    <3>3. ~ops[k].remove
      BY <1>4 DEF Upsert
    <3>4. \/ \E q \in At(SlotOf[k]) : ~SameAs(Body(k), q.data)
          \/ api = "cloudflare" /\ ~PriorityFits(k)
      BY <1>1, <3>1
    <3>5. /\ r.id \in Ids \cup {None} /\ None \in Data \cup {None} /\ {} \in SUBSET Ids
          /\ Points(k, r.id)
      BY <1>2
    <3>. QED
      BY <1>1, <2>4, <3>2, <3>3, <3>4, <3>5 DEF Lookup
  <2>. QED
    BY <1>4, <1>1, <2>1, <2>2, <2>3, <2>4 DEF Upsert, listDNSRecords
<1>5. CASE Delete(k)
  <2> DEFINE ids == {r.id : r \in listDNSRecords(k)}
  <2>1. ops[k].remove /\ ids \subseteq Ids /\ \A i \in ids : Points(k, i)
    BY <1>2, <1>5 DEF Delete, listDNSRecords
  <2>2. (ids = {} /\ Become(k, "ok")) \/ \E i \in ids : Target(k, i, None, ids \ {i})
    BY <1>5 DEF Delete
  <2>3. ids = {} => Gone(k)
    BY DEF listDNSRecords, Gone, Alike, Body, Content
  <2> HIDE DEF ids
  <2>. QED
    BY <1>1, <2>1, <2>2, <2>3 DEF Lookup
<1>. QED
  BY <1>4, <1>5

LEMMA CloudflareRequest ==
  ASSUME TypeOK, IdInv, NEW k \in Keys,
         createDNSRecord(k) \/ updateDNSRecord(k) \/ deleteDNSRecord(k)
  PROVE  Request(k)
<1> DEFINE s == SlotOf[k]
<1>1. /\ ZoneAndOps /\ OpIn(k, {"send"}) /\ api = "cloudflare" /\ ops[k] \in Op /\ s \in Slots
      /\ zone \subseteq ZoneRecord /\ Points(k, ops[k].at) /\ Body(k) \in Data
      /\ \A r, q \in zone : r.id = q.id => r = q
  BY AdapterAssumption, BodyType
  DEF AdapterAssumption, createDNSRecord, updateDNSRecord, deleteDNSRecord, Sending, OpIn, TypeOK,
      IdInv, Op
<1> HIDE DEF s
<1>2. CASE Become(k, "failed") /\ UNCHANGED zone
  BY <1>1, <1>2 DEF Request
<1>3. ASSUME createDNSRecord(k), Become(k, "ok"), UNCHANGED zone, Identical(k) # {}
      PROVE  Request(k)
  BY <1>1, <1>3 DEF createDNSRecord, Sending, Request, Identical, At
<1>4. ASSUME createDNSRecord(k), Become(k, "sent"), NEW i \in FreshIds, Identical(k) = {},
             zone' = zone \cup {[id |-> i, slot |-> SlotOf[k], data |-> Body(k)]}
      PROVE  Request(k)
  <2> DEFINE new == [id |-> i, slot |-> SlotOf[k], data |-> Body(k)]
  <2>1. i \in Ids /\ i \notin Used /\ i \notin {r.id : r \in zone}
    BY <1>1 DEF FreshIds, Used
  <2>2. new \in ZoneRecord /\ new.slot = s /\ new.id = i /\ new.data = Body(k)
    BY <1>1, <2>1 DEF ZoneRecord, s
  <2> HIDE DEF new
  <2>3. zone' = zone \cup {new}
    BY <1>4 DEF new
  <2>4. IdsKept
    BY <1>1, <2>1, <2>2, <2>3 DEF IdsKept
  <2>5. At(s)' = At(s) \cup {new} /\ Elsewhere(s)
    BY <2>2, <2>3 DEF At, Elsewhere
  <2>6. ~ops[k].remove /\ ops[k].at = None
    BY <1>4 DEF createDNSRecord, Sending
  <2>7. Put(k)
    <3>1. \A r \in At(s) : ~Alike(r.data, new.data)
      BY <1>4, <2>2 DEF Identical, s
    <3>2. /\ {} \in SUBSET At(s) /\ At(s)' = (At(s) \ {}) \cup {new}
          /\ \A r \in At(s) \ {} : ~Alike(r.data, new.data)
      BY <2>5, <3>1
    <3>. QED
      BY <2>2, <2>6, <3>2, Zenon DEF Put, s
  <2>. QED
    BY <1>1, <1>4, <2>2, <2>3, <2>4, <2>5, <2>6, <2>7 DEF Request, s
<1>5. ASSUME updateDNSRecord(k), Become(k, "sent"), Addressed(k) # {},
             Identical(k) \subseteq Addressed(k),
             zone' = (zone \ Addressed(k))
                       \cup {[r EXCEPT !.data = Body(k)] : r \in Addressed(k)}
      PROVE  Request(k)
  <2>1. PICK a : a \in zone /\ a.id = ops[k].at /\ a.slot = s /\ Addressed(k) = {a}
    BY <1>1, <1>5 DEF Addressed, Points, s
  <2> DEFINE new == [a EXCEPT !.data = Body(k)]
  <2>2. new \in ZoneRecord /\ new.slot = s /\ new.id = a.id /\ new.data = Body(k)
    BY <1>1, <2>1 DEF ZoneRecord
  <2>3. zone' = (zone \ {a}) \cup {new}
    BY <1>5, <2>1
  <2> HIDE DEF new
  <2>4. IdsKept
    BY <1>1, <2>1, <2>2, <2>3 DEF IdsKept
  <2>5. At(s)' = (At(s) \ {a}) \cup {new} /\ Elsewhere(s) /\ a \in At(s)
    BY <2>1, <2>2, <2>3 DEF At, Elsewhere
  <2>6. ~ops[k].remove
    BY <1>5 DEF updateDNSRecord, Sending
  <2>7. Put(k)
    <3>1. \A r \in At(s) \ {a} : ~Alike(r.data, new.data)
      BY <1>5, <2>1, <2>2 DEF Identical, s
    <3>2. {a} \in SUBSET At(s) /\ {a} # {}
      BY <2>5
    <3>. QED
      BY <2>2, <2>5, <3>1, <3>2, Zenon DEF Put, s
  <2>. QED
    BY <1>1, <1>5, <2>2, <2>3, <2>4, <2>5, <2>6, <2>7 DEF Request, s
<1>6. ASSUME deleteDNSRecord(k), Become(k, "sent"), zone' = zone \ Addressed(k),
             Addressed(k) # {}
      PROVE  Request(k)
  <2>1. \A r \in Addressed(k) : r.slot = s
    BY <1>1 DEF Addressed, Points, s
  <2>2. IdsKept
    BY <1>1, <1>6 DEF IdsKept
  <2>3. At(s)' = At(s) \ Addressed(k) /\ Elsewhere(s)
    BY <1>6, <2>1 DEF At, Elsewhere
  <2>4. ops[k].remove
    BY <1>6 DEF deleteDNSRecord, Sending
  <2>5. PICK a : a \in At(s) /\ a \in Addressed(k)
    BY <1>6, <2>1 DEF At, Addressed
  <2>6. Take(k)
    BY <2>3, <2>5 DEF Take, OneAt, s
  <2>. QED
    BY <1>1, <1>6, <2>2, <2>3, <2>4, <2>6 DEF Request, s
<1>. QED
  BY <1>2, <1>3, <1>4, <1>5, <1>6 DEF createDNSRecord, updateDNSRecord, deleteDNSRecord

\* Technitium has copies of Adapter's operators under names of its own.
LEMMA TechTerms ==
  ASSUME NEW k, NEW d, NEW e, NEW s, NEW st, NEW at, NEW old, NEW rest
  PROVE  /\ Tech!At(s) = At(s) /\ Tech!Content(s, d) = Content(s, d) /\ Tech!Body(k) = Body(k)
         /\ Tech!Alike(d, e) <=> Alike(d, e)
         /\ Tech!Become(k, st) <=> Become(k, st)
         /\ Tech!Target(k, at, old, rest) <=> Target(k, at, old, rest)
         /\ Tech!OpsOnly <=> OpsOnly
         /\ Tech!ZoneAndOps <=> ZoneAndOps
         /\ Tech!MayStart(k) => OpIn(k, {"queued"})
         /\ Tech!Sending(k, TRUE) => OpIn(k, {"send"}) /\ ops[k].remove = TRUE
         /\ Tech!Sending(k, FALSE) => OpIn(k, {"send"}) /\ ops[k].remove = FALSE
<1>1. Tech!At(s) = At(s) /\ Tech!Content(s, d) = Content(s, d) /\ Tech!Body(k) = Body(k)
  BY DEF Tech!At, At, Tech!Content, Content, Tech!Body, Body
<1>2. Tech!Alike(d, e) <=> Alike(d, e)
  BY DEF Tech!Alike, Alike
<1>3. Tech!Become(k, st) <=> Become(k, st)
  BY DEF Tech!Become, Become
<1>4. Tech!Target(k, at, old, rest) <=> Target(k, at, old, rest)
  BY DEF Tech!Target, Target
<1>5. (Tech!OpsOnly <=> OpsOnly) /\ (Tech!ZoneAndOps <=> ZoneAndOps)
  BY DEF Tech!OpsOnly, OpsOnly, Tech!ZoneAndOps, ZoneAndOps
<1>6. Tech!MayStart(k) => OpIn(k, {"queued"})
  BY DEF Tech!MayStart, Tech!OpIn, OpIn
<1>7. /\ Tech!Sending(k, TRUE) => OpIn(k, {"send"}) /\ ops[k].remove = TRUE
      /\ Tech!Sending(k, FALSE) => OpIn(k, {"send"}) /\ ops[k].remove = FALSE
  BY DEF Tech!Sending, Tech!OpIn, OpIn
<1>. QED
  BY <1>1, <1>2, <1>3, <1>4, <1>5, <1>6, <1>7

LEMMA TechnitiumLookup ==
  ASSUME TypeOK, NEW k \in Keys, Tech!Upsert(k) \/ Tech!Delete(k)
  PROVE  Lookup(k)
<1>1. OpsOnly /\ OpIn(k, {"queued"}) /\ api = "technitium" /\ ops[k] \in Op
  BY TechTerms DEF Tech!Upsert, Tech!Delete, OpIn, TypeOK
<1>2. 0 \in Ids /\ 0 # None
  BY AdapterAssumption DEF AdapterAssumption, Ids
<1>3. CASE Tech!Upsert(k)
  <2>1. \/ Become(k, "failed")
        \/ At(SlotOf[k]) = {} /\ Target(k, None, None, {})
        \/ \E c \in At(SlotOf[k]) :
             IF Alike(c.data, Body(k)) THEN Become(k, "ok") ELSE Target(k, 0, c.data, {})
    <3>1. Tech!getRecords(k) = At(SlotOf[k])
      BY TechTerms DEF Tech!getRecords
    <3>2. \A c \in At(SlotOf[k]) : Tech!recordUpToDate(c, ops[k].data) <=> Alike(c.data, Body(k))
      <4> SUFFICES ASSUME NEW c \in At(SlotOf[k])
                   PROVE  Tech!recordUpToDate(c, ops[k].data) <=> Alike(c.data, Body(k))
        OBVIOUS
      <4>1. c.slot = SlotOf[k]
        BY DEF At
      <4>2. Tech!recordUpToDate(c, ops[k].data)
              <=> Tech!Alike(c.data, Tech!Content(c.slot, ops[k].data))
        BY DEF Tech!recordUpToDate
      <4>3. Tech!Content(c.slot, ops[k].data) = Body(k)
        BY <4>1, TechTerms DEF Body
      <4>. QED
        BY <4>2, <4>3, TechTerms
    <3>3. /\ \A st : Tech!Become(k, st) <=> Become(k, st)
          /\ \A at, old, rest : Tech!Target(k, at, old, rest) <=> Target(k, at, old, rest)
      BY TechTerms
    <3>. QED
      BY <1>3, <3>1, <3>2, <3>3 DEF Tech!Upsert
  <2>2. CASE Become(k, "failed")
    BY <1>1, <2>2 DEF Lookup
  <2>3. CASE At(SlotOf[k]) = {} /\ Target(k, None, None, {})
    BY <1>1, <2>3 DEF Lookup
  <2>4. ASSUME NEW c \in At(SlotOf[k]),
               IF Alike(c.data, Body(k)) THEN Become(k, "ok") ELSE Target(k, 0, c.data, {})
        PROVE  Lookup(k)
    <3>1. Alike(c.data, Body(k)) <=> SameAs(Body(k), c.data)
      BY <1>1 DEF Alike, SameAs
    <3>2. c.data \in Data
      BY DEF At, TypeOK, ZoneRecord
    <3>3. CASE Alike(c.data, Body(k))
      BY <1>1, <1>3, <2>4, <3>1, <3>3 DEF Tech!Upsert, Lookup, Serves, Body
    <3>4. CASE ~Alike(c.data, Body(k))
      BY <1>1, <1>2, <2>4, <3>1, <3>2, <3>4 DEF Lookup
    <3>. QED
      BY <3>3, <3>4
  <2>. QED
    BY <2>1, <2>2, <2>3, <2>4
<1>4. CASE Tech!Delete(k)
  <2>1. /\ ops[k].remove
        /\ \/ Become(k, "failed") \/ Target(k, None, None, {})
           \/ Become(k, "ok") /\ Gone(k)
    BY <1>4, TechTerms DEF Tech!Delete, Tech!getRecords, Gone
  <2>. QED
    BY <1>1, <2>1 DEF Lookup
<1>. QED
  BY <1>3, <1>4

LEMMA TechnitiumRequest ==
  ASSUME TypeOK, NEW k \in Keys, Tech!addRecord(k) \/ Tech!updateRecord(k) \/ Tech!deleteRecord(k)
  PROVE  Request(k)
<1> DEFINE s == SlotOf[k]
<1>1. /\ ZoneAndOps /\ OpIn(k, {"send"}) /\ api = "technitium" /\ ops[k] \in Op /\ s \in Slots
      /\ zone \subseteq ZoneRecord /\ Body(k) \in Data
  <2>1. ZoneAndOps /\ OpIn(k, {"send"}) /\ api = "technitium"
    BY TechTerms DEF Tech!addRecord, Tech!updateRecord, Tech!deleteRecord
  <2>. QED
    BY <2>1, AdapterAssumption, BodyType DEF AdapterAssumption, OpIn, TypeOK
<1>2. Tech!New(k) \in ZoneRecord /\ Tech!New(k).slot = s /\ Tech!New(k).data = Body(k)
  <2>1. Tech!Body(k) = Body(k)
    BY TechTerms
  <2>2. Tech!New(k) = [id |-> 0, slot |-> s, data |-> Body(k)]
    BY <2>1 DEF Tech!New
  <2>3. 0 \in Ids
    BY AdapterAssumption DEF AdapterAssumption, Ids
  <2>. QED
    BY <1>1, <2>2, <2>3 DEF ZoneRecord
<1>3. ASSUME NEW d PROVE Tech!Named(k, d) \subseteq At(s)
  BY TechTerms DEF Tech!Named
<1> HIDE DEF s
<1>4. IdsKept
  BY <1>1 DEF IdsKept
<1>5. CASE Become(k, "failed") /\ UNCHANGED zone
  BY <1>1, <1>5 DEF Request
<1>6. ASSUME ~ops[k].remove, Become(k, "sent"), NEW N \in SUBSET At(s),
             zone' = (zone \ N) \cup {Tech!New(k)},
             Tech!Named(k, Body(k)) \subseteq N, ops[k].at # None => N # {}
      PROVE  Request(k)
  <2>1. At(s)' = (At(s) \ N) \cup {Tech!New(k)} /\ Elsewhere(s)
    BY <1>2, <1>6 DEF At, Elsewhere
  <2>2. \A r \in At(s) \ N : ~Alike(r.data, Body(k))
    BY <1>6, TechTerms DEF Tech!Named, s
  <2>3. Put(k)
    BY <1>2, <1>6, <2>1, <2>2 DEF Put, s
  <2>. QED
    BY <1>1, <1>2, <1>4, <1>6, <2>1, <2>3 DEF Request, s
<1>7. CASE Tech!addRecord(k)
  <2>1. ~ops[k].remove /\ ops[k].at = None
    BY <1>7, TechTerms DEF Tech!addRecord
  <2>2. \/ Become(k, "failed") /\ UNCHANGED zone
        \/ /\ Become(k, "sent")
           /\ zone' = (zone \ Tech!Named(k, Body(k))) \cup {Tech!New(k)}
    BY <1>7, TechTerms DEF Tech!addRecord
  <2>. QED
    BY <1>3, <1>5, <1>6, <2>1, <2>2
<1>8. CASE Tech!updateRecord(k)
  <2> DEFINE N == Tech!Named(k, ops[k].old) \cup Tech!Named(k, Body(k))
  <2>1. ~ops[k].remove
    BY <1>8, TechTerms DEF Tech!updateRecord
  <2>2. \/ Become(k, "failed") /\ UNCHANGED zone
        \/ /\ Become(k, "sent") /\ Tech!Named(k, ops[k].old) # {}
           /\ zone' = (zone \ N) \cup {Tech!New(k)}
    BY <1>8, TechTerms DEF Tech!updateRecord
  <2>3. N \subseteq At(s) /\ Tech!Named(k, Body(k)) \subseteq N
        /\ (Tech!Named(k, ops[k].old) # {} => N # {})
    BY <1>3
  <2> HIDE DEF N
  <2>. QED
    BY <1>5, <1>6, <2>1, <2>2, <2>3
<1>9. CASE Tech!deleteRecord(k)
  <2>1. ops[k].remove
    BY <1>9, TechTerms DEF Tech!deleteRecord
  <2>0. \A r \in At(s) \ Tech!Named(k, Body(k)) : ~Alike(r.data, Body(k))
    BY TechTerms DEF Tech!Named, s
  <2>2. \/ ((Become(k, "ok") /\ Gone(k)) \/ Become(k, "failed")) /\ UNCHANGED zone
        \/ Become(k, "sent") /\ zone' = zone \ Tech!Named(k, Body(k))
    BY <1>9, <2>0, TechTerms DEF Tech!deleteRecord, Tech!Refused, Gone, s
  <2>3. CASE ((Become(k, "ok") /\ Gone(k)) \/ Become(k, "failed")) /\ UNCHANGED zone
    BY <1>1, <2>1, <2>3 DEF Request
  <2>4. CASE Become(k, "sent") /\ zone' = zone \ Tech!Named(k, Body(k))
    <3>1. At(s)' = At(s) \ Tech!Named(k, Body(k)) /\ Elsewhere(s)
      BY <1>3, <2>4 DEF At, Elsewhere
    <3>2. Take(k)
      BY <2>0, <3>1 DEF Take, s
    <3>. QED
      BY <1>1, <1>4, <2>1, <2>4, <3>1, <3>2 DEF Request, s
  <2>. QED
    BY <2>2, <2>3, <2>4
<1>. QED
  BY <1>7, <1>8, <1>9
-----------------------------------------------------------------------------
(* Types and ids *)

\* Ops exist while the workers run; a listing that has begun is a set of records.
PhaseInv ==
  /\ phase # "run" => \A k \in Keys : ops[k] = None
  /\ phase = "list" => seen \subseteq ZoneRecord

BaseInv == TypeOK /\ PhaseInv /\ IdInv

\* Reading the zone back, by either adapter.
Listing ==
  /\ phase = "list" /\ page' \in Nat /\ phase' \in {"list", "plan"} /\ seen' \subseteq ZoneRecord
  /\ UNCHANGED <<api, zone, want, stored, ops, edited, budget>>

Step ==
  \/ StartPass \/ ListFails \/ Listing \/ Plan \/ Finish
  \/ \E k \in Keys : Answered(k) \/ Resend(k) \/ Fails(k) \/ Lookup(k) \/ Request(k) \/ Edit(k)
  \/ \E s \in Slots : OutOfBand(s)

LEMMA NextStep == ASSUME BaseInv, Next PROVE Step
<1> USE DEF BaseInv
<1>1. CASE paginateDNSRecords
  BY <1>1 DEF paginateDNSRecords, OnPage, PhaseInv, TypeOK, Listing, Step
<1>2. CASE Tech!listZoneRecords
  BY <1>2 DEF Tech!listZoneRecords, TypeOK, Listing, Step
<1>3. ASSUME NEW k \in Keys,
             \/ Upsert(k) \/ Delete(k)
             \/ createDNSRecord(k) \/ updateDNSRecord(k) \/ deleteDNSRecord(k)
      PROVE  Step
  BY <1>3, CloudflareLookup, CloudflareRequest DEF Step
<1>4. ASSUME NEW k \in Keys,
             \/ Tech!Upsert(k) \/ Tech!Delete(k)
             \/ Tech!addRecord(k) \/ Tech!updateRecord(k) \/ Tech!deleteRecord(k)
      PROVE  Step
  BY <1>4, TechnitiumLookup, TechnitiumRequest DEF Step
<1>5. CASE Pass \/ Environment
  BY <1>5 DEF Pass, Environment, Step
<1>. QED
  BY <1>1, <1>2, <1>3, <1>4, <1>5 DEF Next, System, CloudflareStep, Tech!TechnitiumStep

LEMMA WantsTyped ==
  ASSUME NEW k \in Keys, NEW d \in WantsOf[k]
  PROVE  d \in Wants \cup {None}
  BY DEF Wants

LEMMA TypeStep == ASSUME BaseInv, Step PROVE TypeOK' /\ PhaseInv'
<1> USE AdapterAssumption DEF AdapterAssumption, BaseInv
<1>1. CASE StartPass
  BY <1>1 DEF StartPass, TypeOK, PhaseInv
<1>2. CASE ListFails
  BY <1>2 DEF ListFails, Event, TypeOK, PhaseInv
<1>3. CASE Listing
  BY <1>3 DEF Listing, TypeOK, PhaseInv
<1>4. CASE Plan
  <2>1. ASSUME NEW k \in Keys, Due(k)
        PROVE  [remove |-> want[k] = None, st |-> "queued", at |-> None, old |-> None, rest |-> {},
                data |-> IF want[k] # None THEN want[k] ELSE stored[k].data] \in Op
    BY <2>1 DEF Due, Op, TypeOK, StoreEntry
  <2>2. ops' \in [Keys -> Op \cup {None}]
    BY <1>4, <2>1 DEF Plan
  <2>. QED
    BY <1>4, <2>2 DEF Plan, TypeOK, PhaseInv
<1>5. CASE Finish
  <2>1. ASSUME NEW k \in Keys, ops[k] # None PROVE Result(k) \in StoreEntry \cup {None}
    BY <2>1 DEF Result, TypeOK, Op, StoreEntry
  <2>2. stored' \in [Keys -> StoreEntry \cup {None}]
    BY <1>5, <2>1 DEF Finish, TypeOK
  <2>. QED
    BY <1>5, <2>2 DEF Finish, TypeOK, PhaseInv
<1>6. ASSUME NEW k \in Keys, ops[k] # None, ops' \in [Keys -> Op \cup {None}],
             zone' \subseteq ZoneRecord, budget' \in 0..MaxEvents,
             UNCHANGED <<api, want, stored, phase, page, seen, edited>>
      PROVE  TypeOK' /\ PhaseInv'
  BY <1>6 DEF TypeOK, PhaseInv
<1>7. ASSUME NEW k \in Keys, Answered(k) PROVE TypeOK' /\ PhaseInv'
  <2>1. ops[k] # None /\ ops[k] \in Op /\ UNCHANGED <<zone, budget>>
    BY <1>7 DEF Answered, OpIn, TypeOK, OpsOnly
  <2>2. CASE Become(k, "ok")
    BY <1>6, <1>7, <2>1, <2>2, BecomeOps DEF Answered, OpsOnly, States, TypeOK
  <2>3. ASSUME NEW i \in ops[k].rest, Target(k, i, None, ops[k].rest \ {i})
        PROVE  TypeOK' /\ PhaseInv'
    <3>1. i \in Ids /\ ops[k].rest \ {i} \in SUBSET Ids
      BY <2>1 DEF Op
    <3>. QED
      BY <1>6, <1>7, <2>1, <2>3, <3>1, TargetOps DEF Answered, OpsOnly, TypeOK
  <2>. QED
    BY <1>7, <2>2, <2>3 DEF Answered
<1>8. ASSUME NEW k \in Keys, Resend(k) \/ Fails(k) PROVE TypeOK' /\ PhaseInv'
  <2>1. ops[k] # None /\ budget' \in 0..MaxEvents /\ UNCHANGED zone
    BY <1>8 DEF Resend, Fails, OpIn, Event, TypeOK
  <2>. QED
    BY <1>6, <1>8, <2>1, BecomeOps DEF Resend, Fails, States, TypeOK
<1>9. ASSUME NEW k \in Keys, Lookup(k) PROVE TypeOK' /\ PhaseInv'
  <2>1. ops[k] # None /\ UNCHANGED <<zone, budget>>
    BY <1>9 DEF Lookup, OpIn, OpsOnly
  <2>2. ops' \in [Keys -> Op \cup {None}]
    BY <1>9, <2>1, BecomeOps, TargetOps DEF Lookup, States
  <2>. QED
    BY <1>6, <1>9, <2>1, <2>2 DEF Lookup, OpsOnly, TypeOK
<1>10. ASSUME NEW k \in Keys, Request(k) PROVE TypeOK' /\ PhaseInv'
  <2>1. ops[k] # None /\ UNCHANGED budget /\ zone' \subseteq ZoneRecord
    BY <1>10 DEF Request, OpIn, ZoneAndOps, TypeOK
  <2>2. ops' \in [Keys -> Op \cup {None}]
    BY <1>10, <2>1, BecomeOps DEF Request, States
  <2>. QED
    BY <1>6, <1>10, <2>1, <2>2 DEF Request, ZoneAndOps, TypeOK
<1>11. ASSUME NEW k \in Keys, Edit(k) PROVE TypeOK' /\ PhaseInv'
  <2>1. \A d \in WantsOf[k] : d \in Data \cup {None}
    BY WantsTyped
  <2>. QED
    BY <1>11, <2>1 DEF Edit, Event, TypeOK, PhaseInv
<1>12. ASSUME NEW s \in Slots, OutOfBand(s) PROVE TypeOK' /\ PhaseInv'
  <2>1. FreshIds \subseteq Ids
    BY DEF FreshIds, Ids
  <2>2. zone' \subseteq ZoneRecord
    BY <1>12, <2>1, ContentType DEF OutOfBand, At, ZoneRecord, TypeOK
  <2>. QED
    BY <1>12, <2>2 DEF OutOfBand, Event, TypeOK, PhaseInv
<1>. QED
  BY <1>1, <1>2, <1>3, <1>4, <1>5, <1>7, <1>8, <1>9, <1>10, <1>11, <1>12 DEF Step

LEMMA IdStep == ASSUME BaseInv, Step PROVE IdInv'
<1> USE DEF BaseInv
<1>1. ASSUME IdsKept, NEW k \in Keys, OpIn(k, {"send", "sent"}), NEW i, i = ops[k].at \/ i \in ops[k].rest,
             api = "cloudflare", UNCHANGED api
      PROVE  Points(k, i)'
  <2>1. i \in Used /\ Points(k, i)
    BY <1>1 DEF Used, OpIn, IdInv
  <2>. QED
    BY <1>1, <2>1 DEF IdsKept, Points
<1>2. CASE StartPass \/ ListFails \/ Listing
  BY <1>2 DEF StartPass, ListFails, Listing, IdInv, Points, OpIn
<1>3. CASE Plan
  <2>1. \A k \in Keys : ~OpIn(k, {"send", "sent"})'
    BY <1>3 DEF Plan, OpIn
  <2>. QED
    BY <1>3, <2>1 DEF Plan, IdInv
<1>4. CASE Finish
  <2>1. \A k \in Keys : ~OpIn(k, {"send", "sent"})'
    BY <1>4 DEF Finish, OpIn
  <2>. QED
    BY <1>4, <2>1 DEF Finish, IdInv
<1>5. ASSUME NEW k \in Keys, Edit(k) PROVE IdInv'
  BY <1>5 DEF Edit, IdInv, Points, OpIn
<1>6. ASSUME NEW k \in Keys, Answered(k) PROVE IdInv'
  <2>1. ops[k] # None /\ ops[k] \in Op /\ UNCHANGED <<api, zone>> /\ OpIn(k, {"send", "sent"})
    BY <1>6 DEF Answered, OpIn, TypeOK, OpsOnly
  <2>2. CASE Become(k, "ok")
    BY <2>1, <2>2, BecomeOps DEF IdInv, Points, OpIn, States
  <2>3. ASSUME NEW i \in ops[k].rest, Target(k, i, None, ops[k].rest \ {i}) PROVE IdInv'
    <3>1. i \in Ids /\ ops[k].rest \ {i} \in SUBSET Ids
      BY <2>1 DEF Op
    <3>2. /\ \A j \in Keys : j # k => ops'[j] = ops[j]
          /\ ops'[k].at = i /\ ops'[k].rest = ops[k].rest \ {i}
      BY <2>1, <2>3, <3>1, TargetOps
    <3>. QED
      BY <2>1, <3>2 DEF IdInv, Points, OpIn
  <2>. QED
    BY <1>6, <2>2, <2>3 DEF Answered
<1>7. ASSUME NEW k \in Keys, Resend(k) \/ Fails(k) PROVE IdInv'
  <2>1. ops[k] # None /\ UNCHANGED <<api, zone>>
    BY <1>7 DEF Resend, Fails, OpIn
  <2>2. \/ OpIn(k, {"sent"}) /\ Become(k, "send")
        \/ Become(k, "failed")
    BY <1>7 DEF Resend, Fails
  <2>. QED
    BY <2>1, <2>2, BecomeOps DEF IdInv, Points, OpIn, States
<1>8. ASSUME NEW k \in Keys, Lookup(k) PROVE IdInv'
  <2>1. ops[k] # None /\ UNCHANGED <<api, zone>>
    BY <1>8 DEF Lookup, OpIn, OpsOnly
  <2>2. CASE Become(k, "failed") \/ Become(k, "ok")
    BY <2>1, <2>2, BecomeOps DEF IdInv, Points, OpIn, States
  <2>3. ASSUME NEW at \in Ids \cup {None}, NEW old \in Data \cup {None}, NEW rest \in SUBSET Ids,
               Target(k, at, old, rest),
               api = "cloudflare" => Points(k, at) /\ \A i \in rest : Points(k, i)
        PROVE  IdInv'
    <3>1. /\ \A j \in Keys : j # k => ops'[j] = ops[j]
          /\ ops'[k].at = at /\ ops'[k].rest = rest
      BY <2>1, <2>3, TargetOps
    <3>. QED
      BY <2>1, <2>3, <3>1 DEF IdInv, Points, OpIn
  <2>. QED
    BY <1>8, <2>2, <2>3 DEF Lookup
<1>9. ASSUME NEW k \in Keys, Request(k) PROVE IdInv'
  <2>1. ops[k] # None /\ UNCHANGED api /\ OpIn(k, {"send"})
    BY <1>9 DEF Request, OpIn, ZoneAndOps
  <2>2. CASE (Become(k, "failed") \/ Become(k, "ok")) /\ UNCHANGED zone
    BY <2>1, <2>2, BecomeOps DEF IdInv, Points, OpIn, States
  <2>3. CASE Become(k, "sent") /\ IdsKept
    <3>1. /\ \A j \in Keys : j # k => ops'[j] = ops[j]
          /\ ops'[k].at = ops[k].at /\ ops'[k].rest = ops[k].rest /\ OpIn(k, {"send", "sent"})
      BY <2>1, <2>3, BecomeOps DEF States, OpIn
    <3>2. \A j \in Keys : OpIn(j, {"send", "sent"})' =>
            ops'[j].at = ops[j].at /\ ops'[j].rest = ops[j].rest /\ OpIn(j, {"send", "sent"})
      BY <3>1 DEF OpIn
    <3>. QED
      BY <1>1, <2>1, <2>3, <3>2 DEF IdInv, IdsKept
  <2>. QED
    BY <1>9, <2>2, <2>3 DEF Request
<1>10. ASSUME NEW s \in Slots, OutOfBand(s) PROVE IdInv'
  <2>1. UNCHANGED <<api, ops>>
    BY <1>10 DEF OutOfBand
  <2>2. ASSUME api = "cloudflare" PROVE IdsKept
    <3>1. \A i \in FreshIds : i \notin Used /\ \A r \in zone : r.id # i
      BY <2>2 DEF FreshIds, Used
    <3>2. \A r, q \in zone : r.id = q.id => r = q
      BY <2>2 DEF IdInv
    <3>3. CASE \E r \in At(s) : zone' = zone \ {r}
      BY <3>2, <3>3 DEF IdsKept
    <3>4. ASSUME NEW r \in At(s), NEW d, zone' = (zone \ {r}) \cup {[r EXCEPT !.data = d]}
          PROVE  IdsKept
      <4> DEFINE new == [r EXCEPT !.data = d]
      <4>1. r \in zone /\ new.id = r.id /\ new.slot = r.slot
        BY DEF At, TypeOK, ZoneRecord
      <4>2. zone' = (zone \ {r}) \cup {new}
        BY <3>4
      <4> HIDE DEF new
      <4>. QED
        BY <3>2, <4>1, <4>2 DEF IdsKept
    <3>5. ASSUME NEW i \in FreshIds, NEW d,
                 zone' = zone \cup {[id |-> i, slot |-> s, data |-> d]}
          PROVE  IdsKept
      BY <3>1, <3>2, <3>5 DEF IdsKept
    <3>. QED
      BY <1>10, <3>3, <3>4, <3>5 DEF OutOfBand
  <2>. QED
    BY <1>1, <2>1, <2>2 DEF IdInv, IdsKept, OpIn
<1>. QED
  BY <1>2, <1>3, <1>4, <1>5, <1>6, <1>7, <1>8, <1>9, <1>10 DEF Step

LEMMA BaseNext == BaseInv /\ [Next]_vars => BaseInv'
<1> SUFFICES ASSUME BaseInv, [Next]_vars PROVE BaseInv'
  OBVIOUS
<1>1. CASE Next
  BY <1>1, NextStep, TypeStep, IdStep DEF BaseInv
<1>2. CASE UNCHANGED vars
  BY <1>2 DEF vars, BaseInv, TypeOK, PhaseInv, IdInv, Points, OpIn
<1>. QED
  BY <1>1, <1>2

LEMMA BaseAlways == Spec => []BaseInv
<1>1. Init => BaseInv
  BY AdapterAssumption
  DEF AdapterAssumption, Init, BaseInv, TypeOK, PhaseInv, IdInv, OpIn
<1>. QED
  BY <1>1, BaseNext, PTL DEF Spec

\* Every reachable state of either adapter is well typed.
THEOREM TypeCorrect == Spec => []TypeOK
<1>1. BaseInv => TypeOK
  BY DEF BaseInv
<1>. QED
  BY <1>1, BaseAlways, PTL
-----------------------------------------------------------------------------
(* A name of one key that nobody else edits *)

\* There is at most one record of the name; what the store calls synced is served until
\* the key's op has looked, and beyond if the op is for the same; an op that has
\* something to send found a difference, or a priority that its type does not have; and
\* the record that a create meets is its own, from an attempt whose answer was lost.
Needless(k) == stored[k] = [data |-> ops[k].data, status |-> "synced"]
Kept(k) ==
  /\ OneAt(SlotOf[k])
  /\ (ops[k] = None \/ OpIn(k, {"queued"})) /\ stored[k] # None /\ stored[k].status = "synced"
       => Serves(SlotOf[k], stored[k].data)
  /\ ops[k] # None /\ ops[k].remove /\ ops[k].st = "sent" => Gone(k)
  /\ ops[k] # None /\ ~ops[k].remove =>
       /\ ops[k].st = "ok" => Serves(SlotOf[k], ops[k].data)
       /\ Needless(k) => Serves(SlotOf[k], ops[k].data)
       /\ ops[k].st = "sent" => \E r \in At(SlotOf[k]) : r.data = Body(k)
       /\ ops[k].st \in {"send", "sent"} =>
            /\ ops[k].rest = {} /\ (Needless(k) => api = "cloudflare" /\ ~PriorityFits(k))
            /\ ops[k].at = None => \A r \in At(SlotOf[k]) : r.data = Body(k)

QuietInv == \A k \in Keys : Quiet(k) => Kept(k)

LEMMA KeptFrame ==
  ASSUME NEW k \in Keys, Kept(k), UNCHANGED <<api, ops[k], stored[k], At(SlotOf[k])>>
  PROVE  Kept(k)'
<1>1. /\ Body(k)' = Body(k) /\ Needless(k)' = Needless(k) /\ PriorityFits(k)' = PriorityFits(k)
      /\ OneAt(SlotOf[k])' = OneAt(SlotOf[k])
  BY DEF Body, Content, Needless, PriorityFits, OneAt
<1>2. /\ Serves(SlotOf[k], ops[k].data)' = Serves(SlotOf[k], ops[k].data)
      /\ Serves(SlotOf[k], stored[k].data)' = Serves(SlotOf[k], stored[k].data)
  BY DEF Serves, SameAs, Content
<1>3. Gone(k)' = Gone(k)
  BY <1>1 DEF Gone
<1>. QED
  BY <1>1, <1>2, <1>3 DEF Kept, OpIn

\* What a step of k's own worker leaves as it was.
LEMMA OwnTerms ==
  ASSUME NEW k, ops'[k].data = ops[k].data, UNCHANGED <<api, stored[k]>>
  PROVE  /\ Body(k)' = Body(k) /\ Needless(k)' = Needless(k)
         /\ PriorityFits(k)' = PriorityFits(k)
         /\ (\E r \in At(SlotOf[k])' : SameAs(Body(k), r.data)) => Serves(SlotOf[k], ops[k].data)'
         /\ At(SlotOf[k])' = At(SlotOf[k]) =>
              /\ Serves(SlotOf[k], ops[k].data)' = Serves(SlotOf[k], ops[k].data)
              /\ OneAt(SlotOf[k])' = OneAt(SlotOf[k]) /\ Gone(k)' = Gone(k)
<1>1. /\ Body(k)' = Body(k) /\ Needless(k)' = Needless(k)
      /\ PriorityFits(k)' = PriorityFits(k)
  BY DEF Body, Content, Needless, PriorityFits
<1>2. Serves(SlotOf[k], ops[k].data)' <=> \E r \in At(SlotOf[k])' : SameAs(Body(k), r.data)
  BY DEF Serves, SameAs, Body, Content
<1>3. Serves(SlotOf[k], ops[k].data) <=> \E r \in At(SlotOf[k]) : SameAs(Body(k), r.data)
  BY DEF Serves, Body
<1>4. ASSUME At(SlotOf[k])' = At(SlotOf[k])
      PROVE  /\ Serves(SlotOf[k], ops[k].data)' = Serves(SlotOf[k], ops[k].data)
             /\ OneAt(SlotOf[k])' = OneAt(SlotOf[k]) /\ Gone(k)' = Gone(k)
  <2>1. Serves(SlotOf[k], ops[k].data)' = Serves(SlotOf[k], ops[k].data)
    BY <1>4 DEF Serves, SameAs, Content
  <2>2. OneAt(SlotOf[k])' = OneAt(SlotOf[k])
    BY <1>4 DEF OneAt
  <2>3. Gone(k)' = Gone(k)
    BY <1>1, <1>4 DEF Gone, Alike
  <2>. QED
    BY <2>1, <2>2, <2>3
<1>. QED
  BY <1>1, <1>2, <1>4

\* A served name is found up to date.
LEMMA ServedIsSame ==
  ASSUME NEW s, NEW d, OneAt(s), Serves(s, d)
  PROVE  At(s) # {} /\ \A r \in At(s) : SameAs(Content(s, d), r.data)
  BY DEF OneAt, Serves

LEMMA OwnLookup ==
  ASSUME BaseInv, NEW k \in Keys, Kept(k), Lookup(k) PROVE Kept(k)'
<1>1. /\ ops[k] \in Op /\ ops[k] # None /\ UNCHANGED <<api, stored, At(SlotOf[k])>>
      /\ OpIn(k, {"queued"}) /\ TypeOK
  BY DEF BaseInv, TypeOK, Lookup, OpIn, OpsOnly, At
<1>0. Needless(k) /\ ~ops[k].remove => Serves(SlotOf[k], ops[k].data)
  BY <1>1 DEF Kept
<1>2. CASE Become(k, "failed")
  BY <1>0, <1>1, <1>2, BecomeOps, NoneIsNoValue, OwnTerms DEF Kept, OpIn, States
<1>3. CASE Become(k, "ok") /\ (~ops[k].remove => Serves(SlotOf[k], ops[k].data))
  BY <1>0, <1>1, <1>3, BecomeOps, NoneIsNoValue, OwnTerms DEF Kept, OpIn, States
<1>4. ASSUME NEW at \in Ids \cup {None}, NEW old \in Data \cup {None}, NEW rest \in SUBSET Ids,
             Target(k, at, old, rest),
             ~ops[k].remove =>
               /\ rest = {}
               /\ at = None => At(SlotOf[k]) = {}
               /\ \/ At(SlotOf[k]) = {} \/ \E r \in At(SlotOf[k]) : ~SameAs(Body(k), r.data)
                  \/ api = "cloudflare" /\ ~PriorityFits(k)
      PROVE  Kept(k)'
  <2>1. /\ ops'[k] \in Op /\ ops'[k].remove = ops[k].remove /\ ops'[k].data = ops[k].data
        /\ ops'[k].st = "send" /\ ops'[k].at = at /\ ops'[k].rest = rest
    BY <1>1, <1>4, TargetOps
  <2>2. ~ops[k].remove /\ Needless(k) => api = "cloudflare" /\ ~PriorityFits(k)
    BY <1>0, <1>1, <1>4, ServedIsSame DEF Kept, Body
  <2>3. OneAt(SlotOf[k])'
    BY <1>1 DEF Kept, OneAt
  <2>4. ~OpIn(k, {"queued"})' /\ ops'[k] # None
    BY <2>1, NoneIsNoValue DEF OpIn
  <2>. QED
    BY <1>0, <1>1, <1>4, <2>1, <2>2, <2>3, <2>4, OwnTerms DEF Kept
<1>. QED
  BY <1>2, <1>3, <1>4 DEF Lookup

LEMMA OwnRequest ==
  ASSUME BaseInv, NEW k \in Keys, Kept(k), Request(k) PROVE Kept(k)'
<1>1. /\ ops[k] \in Op /\ ops[k] # None /\ UNCHANGED <<api, stored>>
      /\ OpIn(k, {"send"}) /\ TypeOK /\ ops[k].st = "send"
  BY DEF BaseInv, TypeOK, Request, OpIn, ZoneAndOps
<1>2. CASE Become(k, "failed") /\ UNCHANGED zone
  <2>1. At(SlotOf[k])' = At(SlotOf[k])
    BY <1>2 DEF At
  <2>. QED
    BY <1>1, <1>2, <2>1, BecomeOps, NoneIsNoValue, OwnTerms DEF Kept, OpIn, States
<1>3. CASE /\ Become(k, "ok") /\ UNCHANGED zone
           /\ ~ops[k].remove => ops[k].at = None /\ At(SlotOf[k]) # {}
  <2>1. ~ops[k].remove => Serves(SlotOf[k], ops[k].data)
    BY <1>1, <1>3, SameAsItself DEF Kept, Serves, Body
  <2>2. At(SlotOf[k])' = At(SlotOf[k])
    BY <1>3 DEF At
  <2>. QED
    BY <1>1, <1>3, <2>1, <2>2, BecomeOps, NoneIsNoValue, OwnTerms DEF Kept, OpIn, States
<1>4. CASE /\ Become(k, "sent")
           /\ ops[k].remove => Take(k)
           /\ ~ops[k].remove => Put(k)
  <2>1. /\ ops'[k] \in Op /\ ops'[k].remove = ops[k].remove /\ ops'[k].data = ops[k].data
        /\ ops'[k].st = "sent" /\ ops'[k].at = ops[k].at /\ ops'[k].rest = ops[k].rest
    BY <1>1, <1>4, BecomeOps DEF States
  <2>2. OneAt(SlotOf[k])' /\ (~ops[k].remove => \E r \in At(SlotOf[k])' : r.data = Body(k))
    BY <1>1, <1>4, PutOne DEF Kept, OneAt, Take
  <2>5. Body(k)' = Body(k)
    BY <2>1, BodyStays
  <2>3. ~OpIn(k, {"queued"})' /\ ops'[k] # None
    BY <2>1, NoneIsNoValue DEF OpIn
  <2>4. ops[k].remove => Gone(k)'
    BY <1>1, <1>4, <2>1, <2>5 DEF Kept, Take, Gone
  <2>6. ~ops[k].remove => Serves(SlotOf[k], ops[k].data)'
    BY <1>1, <2>1, <2>2, SameAsItself, OwnTerms
  <2>7. ~ops[k].remove => \A r \in At(SlotOf[k])' : r.data = Body(k)
    BY <2>2 DEF OneAt
  <2>. QED
    BY <1>1, <1>4, <2>1, <2>2, <2>3, <2>4, <2>6, <2>7, OwnTerms DEF Kept
<1>. QED
  BY <1>2, <1>3, <1>4 DEF Request

LEMMA OwnAnswer ==
  ASSUME BaseInv, NEW k \in Keys, Kept(k), Answered(k) \/ Resend(k) \/ Fails(k) PROVE Kept(k)'
<1>1. /\ ops[k] \in Op /\ ops[k] # None /\ UNCHANGED <<api, stored, At(SlotOf[k])>> /\ TypeOK
  BY DEF BaseInv, TypeOK, Answered, Resend, Fails, OpIn, OpsOnly, At
<1>2. CASE Become(k, "failed")
  BY <1>1, <1>2, BecomeOps, NoneIsNoValue, OwnTerms DEF Kept, OpIn, States
<1>3. CASE OpIn(k, {"sent"}) /\ Become(k, "send")
  BY <1>1, <1>3, BecomeOps, NoneIsNoValue, OwnTerms DEF Kept, OpIn, States
<1>4. CASE OpIn(k, {"sent"}) /\ Become(k, "ok")
  <2>1. ~ops[k].remove => Serves(SlotOf[k], ops[k].data)
    BY <1>1, <1>4, SameAsItself DEF Kept, Serves, OpIn, Body
  <2>. QED
    BY <1>1, <1>4, <2>1, BecomeOps, NoneIsNoValue, OwnTerms DEF Kept, OpIn, States
<1>5. ASSUME OpIn(k, {"sent"}), NEW i \in ops[k].rest, Target(k, i, None, ops[k].rest \ {i})
      PROVE  Kept(k)'
  <2>1. ops[k].remove
    BY <1>1, <1>5 DEF Kept, OpIn
  <2>2. i \in Ids /\ ops[k].rest \ {i} \in SUBSET Ids
    BY <1>1 DEF Op
  <2>3. ops'[k] \in Op /\ ops'[k].remove = ops[k].remove /\ ops'[k].st = "send"
    BY <1>1, <1>5, <2>2, TargetOps
  <2>4. ~OpIn(k, {"queued"})' /\ ops'[k] # None
    BY <2>3, NoneIsNoValue DEF OpIn
  <2>. QED
    BY <1>1, <2>1, <2>3, <2>4 DEF Kept, OneAt
<1>. QED
  BY <1>2, <1>3, <1>4, <1>5 DEF Answered, Resend, Fails

\* A step of one worker leaves the ops of the others alone, and of its own op changes
\* neither what it is for nor the record.
LEMMA WorkerStep ==
  ASSUME TypeOK, NEW j \in Keys, Answered(j) \/ Resend(j) \/ Fails(j) \/ Lookup(j) \/ Request(j)
  PROVE  /\ ops[j] # None /\ ops'[j] \in Op /\ ops'[j] # None
         /\ ops'[j].remove = ops[j].remove /\ ops'[j].data = ops[j].data
         /\ \A k \in Keys : k # j => ops'[k] = ops[k]
<1> DEFINE Goal == /\ ops'[j] \in Op
                   /\ ops'[j].remove = ops[j].remove /\ ops'[j].data = ops[j].data
                   /\ \A k \in Keys : k # j => ops'[k] = ops[k]
<1>1. ops[j] # None /\ ops[j] \in Op
  BY DEF Answered, Resend, Fails, Lookup, Request, OpIn, TypeOK
<1>2. ASSUME NEW s \in States, Become(j, s) PROVE Goal
  BY <1>1, <1>2, BecomeOps
<1>3. ASSUME NEW at \in Ids \cup {None}, NEW old \in Data \cup {None},
             NEW rest \in SUBSET Ids, Target(j, at, old, rest)
      PROVE  Goal
  BY <1>1, <1>3, TargetOps
<1> SUFFICES Goal
  BY <1>1, NoneIsNoValue
<1> HIDE DEF Goal
<1>4. CASE Lookup(j)
  BY <1>2, <1>3, <1>4 DEF Lookup, States
<1>5. CASE Request(j)
  BY <1>2, <1>5 DEF Request, States
<1>6. CASE Resend(j) \/ Fails(j)
  BY <1>2, <1>6 DEF Resend, Fails, States
<1>7. CASE Answered(j)
  <2>1. \A i \in ops[j].rest : i \in Ids /\ ops[j].rest \ {i} \in SUBSET Ids
    BY <1>1 DEF Op
  <2>. QED
    BY <1>2, <1>3, <1>7, <2>1 DEF Answered, States
<1>. QED
  BY <1>4, <1>5, <1>6, <1>7

\* An edit at the provider touches one type and name.
LEMMA EditLocal ==
  ASSUME TypeOK, NEW s \in Slots, OutOfBand(s), NEW t \in Slots, t # s
  PROVE  At(t)' = At(t)
<1>1. CASE \E r \in At(s) : zone' = zone \ {r}
  BY <1>1 DEF At
<1>2. ASSUME NEW r \in At(s), NEW d, zone' = (zone \ {r}) \cup {[r EXCEPT !.data = d]}
      PROVE  At(t)' = At(t)
  <2> DEFINE new == [r EXCEPT !.data = d]
  <2>1. r.slot = s /\ new.slot = s
    BY DEF At, TypeOK, ZoneRecord
  <2>2. zone' = (zone \ {r}) \cup {new}
    BY <1>2
  <2> HIDE DEF new
  <2>. QED
    BY <2>1, <2>2 DEF At
<1>3. ASSUME NEW i, NEW d, zone' = zone \cup {[id |-> i, slot |-> s, data |-> d]}
      PROVE  At(t)' = At(t)
  BY <1>3 DEF At
<1>. QED
  BY <1>1, <1>2, <1>3 DEF OutOfBand

LEMMA QuietStep == ASSUME BaseInv, QuietInv, Step PROVE QuietInv'
<1> SUFFICES ASSUME NEW k \in Keys, Quiet(k)' PROVE Kept(k)'
  BY DEF QuietInv
<1>1. edited \subseteq edited'
  BY DEF Step, StartPass, ListFails, Listing, Plan, Finish, Answered, Resend, Fails, Lookup,
         Request, Edit, OutOfBand, OpsOnly, ZoneAndOps
<1>2. Sole(k) /\ Quiet(k) /\ Kept(k)
  BY <1>1 DEF Quiet, Sole, SoleKeys, KeysOf, QuietInv
<1>3. TypeOK /\ PhaseInv /\ SlotOf[k] \in Slots
  BY AdapterAssumption DEF AdapterAssumption, BaseInv
<1>4. CASE StartPass \/ ListFails \/ Listing \/ \E j \in Keys : Edit(j)
  BY <1>2, <1>4, KeptFrame DEF StartPass, ListFails, Listing, Edit, At
<1>5. CASE Plan
  <2>1. ops[k] = None /\ UNCHANGED <<api, stored, At(SlotOf[k])>>
    BY <1>3, <1>5 DEF Plan, PhaseInv, At
  <2>2. ops'[k] = None \/ ops'[k].st = "queued"
    BY <1>5 DEF Plan
  <2>3. stored[k] # None /\ stored[k].status = "synced" => Serves(SlotOf[k], stored[k].data)'
    BY <1>2, <2>1 DEF Kept, Serves, SameAs, Content
  <2>4. ASSUME ops'[k] # None, Needless(k)' PROVE Serves(SlotOf[k], ops[k].data)'
    <3>1. stored[k].data = ops'[k].data /\ stored[k].status = "synced" /\ stored'[k] = stored[k]
      BY <2>1, <2>4 DEF Needless
    <3>2. stored[k] # None
      <4>1. ops'[k] \in Op
        BY <1>5, <2>4, TypeStep DEF TypeOK, Step
      <4>2. stored[k] \in StoreEntry
        BY <2>1, <2>4, <4>1 DEF Needless, Op, StoreEntry
      <4>. QED
        BY <4>2, NoneIsNoValue
    <3>. QED
      BY <2>3, <3>1, <3>2 DEF Serves, SameAs, Content
  <2>. QED
    BY <1>2, <2>1, <2>2, <2>3, <2>4 DEF Kept, OneAt
<1>6. CASE Finish
  <2>1. ops'[k] = None /\ UNCHANGED <<api, At(SlotOf[k])>>
        /\ (ops[k] # None => OpIn(k, {"ok", "failed"}) /\ ops[k] \in Op)
    BY <1>3, <1>6 DEF Finish, At, TypeOK
  <2>2. stored'[k] = IF ops[k] # None THEN Result(k) ELSE stored[k]
    BY <1>6 DEF Finish
  <2>3. CASE ops[k] = None
    BY <1>2, <2>1, <2>2, <2>3, KeptFrame
  <2>4. CASE ops[k] # None /\ ops[k].st = "ok" /\ ~ops[k].remove
    <3>1. stored'[k] = [data |-> ops[k].data, status |-> "synced"]
      BY <2>2, <2>4 DEF Result
    <3>2. stored'[k].data = ops[k].data
      BY <3>1
    <3>. QED
      BY <1>2, <2>1, <2>4, <3>2 DEF Kept, OneAt, Serves, SameAs, Content
  <2>5. CASE ops[k] # None /\ ~(ops[k].st = "ok" /\ ~ops[k].remove)
    <3>1. stored'[k] = None \/ stored'[k].status # "synced"
      BY <2>1, <2>2, <2>5 DEF Result, OpIn
    <3>. QED
      BY <1>2, <2>1, <3>1 DEF Kept, OneAt
  <2>. QED
    BY <2>3, <2>4, <2>5
<1>7. ASSUME NEW j \in Keys, Answered(j) \/ Resend(j) \/ Fails(j) \/ Lookup(j) \/ Request(j)
      PROVE  Kept(k)'
  <2>1. CASE j = k
    BY <1>2, <1>7, <2>1, OwnLookup, OwnRequest, OwnAnswer
  <2>2. CASE j # k
    <3>1. SlotOf[j] # SlotOf[k]
      BY <1>2, <2>2 DEF Sole, SoleKeys, KeysOf
    <3>2. ops[j] # None /\ ops[j] \in Op /\ UNCHANGED <<api, stored>>
      BY <1>3, <1>7 DEF Answered, Resend, Fails, Lookup, Request, OpIn, OpsOnly, ZoneAndOps, TypeOK
    <3>3. At(SlotOf[k])' = At(SlotOf[k])
      BY <1>3, <1>7, <3>1
      DEF Answered, Resend, Fails, Lookup, Request, OpsOnly, Elsewhere, At
    <3>4. ops'[k] = ops[k]
      BY <1>3, <1>7, <2>2, WorkerStep
    <3>. QED
      BY <1>2, <3>2, <3>3, <3>4, KeptFrame
  <2>. QED
    BY <2>1, <2>2
<1>8. ASSUME NEW s \in Slots, OutOfBand(s) PROVE Kept(k)'
  <2>1. s # SlotOf[k] /\ UNCHANGED <<api, ops, stored>>
    BY <1>8 DEF OutOfBand, Quiet
  <2>2. At(SlotOf[k])' = At(SlotOf[k])
    BY <1>3, <1>8, <2>1, EditLocal
  <2>. QED
    BY <1>2, <2>1, <2>2, KeptFrame
<1>. QED
  BY <1>4, <1>5, <1>6, <1>7, <1>8 DEF Step

LEMMA QuietAlways == Spec => []QuietInv
<1>1. Init => QuietInv
  BY DEF Init, QuietInv, Kept, OneAt, At
<1>2. BaseInv /\ QuietInv /\ [Next]_vars => QuietInv'
  <2> SUFFICES ASSUME BaseInv, QuietInv, [Next]_vars PROVE QuietInv'
    OBVIOUS
  <2>1. CASE Next
    BY <2>1, NextStep, QuietStep
  <2>2. CASE UNCHANGED vars
    <3>1. \A k \in Keys : Quiet(k)' <=> Quiet(k)
      BY <2>2 DEF vars, Quiet, Sole, SoleKeys
    <3>2. \A k \in Keys : UNCHANGED <<api, ops[k], stored[k], At(SlotOf[k])>>
      BY <2>2 DEF vars, At
    <3>. QED
      BY <3>1, <3>2, KeptFrame DEF QuietInv
  <2>. QED
    BY <2>1, <2>2
<1>. QED
  BY <1>1, <1>2, BaseAlways, PTL DEF Spec

\* With either adapter, whatever answers are lost and whatever other workers and other
\* people do to other names, what the store calls synced between passes is served.
THEOREM SyncedIsServed == Spec => []SyncedServed
<1>1. QuietInv => SyncedServed
  BY DEF QuietInv, SyncedServed, Kept
<1>. QED
  BY <1>1, QuietAlways, PTL

\* With either adapter, while an operation is planned or under way only because
\* verification did not recognise a synced record (its name in full, a page that moved,
\* a priority its type has not), the record is served all the while, and no request is
\* sent, unless the adapter is Cloudflare's and the priority does not fit the type.
THEOREM FalseDriftDoesNoHarm == Spec => []FalseDriftHarmless
<1>1. QuietInv => FalseDriftHarmless
  <2> SUFFICES ASSUME QuietInv, NEW k \in Keys, Quiet(k), ops[k] # None, ~ops[k].remove,
                      stored[k] = [data |-> ops[k].data, status |-> "synced"]
               PROVE  /\ Serves(SlotOf[k], ops[k].data)
                      /\ api = "technitium" \/ PriorityFits(k) => ~OpIn(k, {"send", "sent"})
    BY DEF FalseDriftHarmless
  <2>. QED
    BY DEF QuietInv, Kept, OpIn, Needless
<1>. QED
  BY <1>1, QuietAlways, PTL
-----------------------------------------------------------------------------
(* A name of several keys *)

\* Some worker found no record of the name and has sent, or is about to send, a create.
Creating(s) ==
  \E k \in KeysOf(s) : OpIn(k, {"send", "sent"}) /\ ~ops[k].remove /\ ops[k].at = None

\* Every record of the name is one that an operation of this pass wants.
FromPass(s) ==
  \A r \in At(s) :
    \E k \in KeysOf(s) : ops[k] # None /\ ~ops[k].remove /\ Alike(r.data, Body(k))

\* The name has no two records alike, and no more records than keys.  A create adds
\* one, so the bound has to come from elsewhere: once a worker has seen the name empty,
\* the records it holds are of this pass, at most one for each key.
Bounded(s) ==
  /\ \A r, q \in At(s) : Alike(r.data, q.data) => r = q
  /\ IsFiniteSet(At(s)) /\ Cardinality(At(s)) <= Cardinality(KeysOf(s))
  /\ Creating(s) => FromPass(s)

PileInv == \A s \in Slots \ edited : KeysOf(s) # {} => Bounded(s)

\* A set of records no two of which are alike, each like the data of some key, is no
\* larger than the set of keys.
LEMMA OneEach ==
  ASSUME NEW Z, NEW K, NEW g, IsFiniteSet(K),
         \A r, q \in Z : Alike(r.data, q.data) => r = q,
         \A r \in Z : \E k \in K : Alike(r.data, g[k])
  PROVE  IsFiniteSet(Z) /\ Cardinality(Z) <= Cardinality(K)
<1> DEFINE f == [r \in Z |-> CHOOSE k \in K : Alike(r.data, g[k])]
<1>1. \A r \in Z : f[r] \in K /\ Alike(r.data, g[f[r]])
  OBVIOUS
<1>2. f \in [Z -> K]
  BY <1>1
<1> HIDE DEF f
<1>3. \A r, q \in Z : f[r] = f[q] => r = q
  BY <1>1 DEF Alike
<1>4. f \in Injection(Z, K)
  BY <1>2, <1>3 DEF Injection, IsInjective
<1>. QED
  BY <1>4, FS_Injection

\* An update does not make the name larger.
LEMMA PutSize ==
  ASSUME NEW k \in Keys, Put(k), ops[k].at # None, IsFiniteSet(At(SlotOf[k]))
  PROVE  IsFiniteSet(At(SlotOf[k])') /\ Cardinality(At(SlotOf[k])') <= Cardinality(At(SlotOf[k]))
<1> DEFINE A == At(SlotOf[k])
<1>1. PICK N \in SUBSET A, new \in ZoneRecord : A' = (A \ N) \cup {new} /\ N # {}
  BY DEF Put
<1>2. PICK a \in N : TRUE
  BY <1>1
<1>3. A \ N \subseteq A \ {a} /\ a \in A
  BY <1>1, <1>2
<1>4. IsFiniteSet(A \ {a}) /\ Cardinality(A \ {a}) = Cardinality(A) - 1
  BY <1>3, FS_RemoveElement
<1>5. IsFiniteSet(A \ N) /\ Cardinality(A \ N) <= Cardinality(A \ {a})
  BY <1>3, <1>4, FS_Subset
<1>6. /\ IsFiniteSet((A \ N) \cup {new})
      /\ Cardinality((A \ N) \cup {new}) =
           IF new \in A \ N THEN Cardinality(A \ N) ELSE Cardinality(A \ N) + 1
  BY <1>5, FS_AddElement
<1>7. Cardinality(A) \in Nat /\ Cardinality(A \ N) \in Nat
  BY <1>5, FS_CardinalityType
<1>. QED
  BY <1>1, <1>4, <1>5, <1>6, <1>7

LEMMA PileStep == ASSUME BaseInv, PileInv, Step PROVE PileInv'
<1> SUFFICES ASSUME NEW s \in Slots, s \notin edited', KeysOf(s) # {} PROVE Bounded(s)'
  BY DEF PileInv, KeysOf
<1>1. edited \subseteq edited'
  BY DEF Step, StartPass, ListFails, Listing, Plan, Finish, Answered, Resend, Fails, Lookup,
         Request, Edit, OutOfBand, OpsOnly, ZoneAndOps
<1>2. Bounded(s) /\ TypeOK /\ KeysOf(s) \subseteq Keys /\ IsFiniteSet(KeysOf(s))
  BY <1>1, FS_Subset, AdapterAssumption DEF AdapterAssumption, PileInv, KeysOf, BaseInv
<1>3. ASSUME At(s)' = At(s), Creating(s)' => FromPass(s)' PROVE Bounded(s)'
  BY <1>2, <1>3 DEF Bounded, KeysOf
<1>4. CASE StartPass \/ ListFails \/ Listing \/ \E j \in Keys : Edit(j)
  <2>1. UNCHANGED <<zone, ops>>
    BY <1>4 DEF StartPass, ListFails, Listing, Edit
  <2>. QED
    BY <1>2, <1>3, <2>1 DEF Bounded, Creating, FromPass, KeysOf, OpIn, At, Body, Content
<1>5. CASE Plan \/ Finish
  <2>1. zone' = zone /\ \A k \in Keys : ops'[k] = None \/ ops'[k].st = "queued"
    BY <1>5 DEF Plan, Finish
  <2>. QED
    BY <1>2, <1>3, <2>1 DEF Creating, KeysOf, OpIn, At
<1>6. ASSUME NEW s0 \in Slots, OutOfBand(s0) PROVE Bounded(s)'
  <2>1. At(s)' = At(s) /\ ops' = ops
    BY <1>2, <1>6, EditLocal DEF OutOfBand
  <2>. QED
    BY <1>2, <1>3, <2>1 DEF Bounded, Creating, FromPass, KeysOf, OpIn, Body, Content
<1>7. ASSUME NEW j \in Keys, Answered(j) \/ Resend(j) \/ Fails(j) \/ Lookup(j) \/ Request(j)
      PROVE  Bounded(s)'
  <2>1. /\ ops[j] # None /\ ops'[j] \in Op /\ ops'[j] # None
        /\ ops'[j].remove = ops[j].remove /\ ops'[j].data = ops[j].data
        /\ \A k \in Keys : k # j => ops'[k] = ops[k]
    BY <1>2, <1>7, WorkerStep
  <2>2. \A k \in KeysOf(s) : ops[k] # None =>
          ops'[k] # None /\ ops'[k].remove = ops[k].remove /\ Body(k)' = Body(k)
    BY <1>2, <2>1, BodyStays
  <2>3. ASSUME At(s)' \subseteq At(s), FromPass(s) PROVE FromPass(s)'
    BY <2>2, <2>3 DEF FromPass, KeysOf
  <2>4. CASE SlotOf[j] # s
    <3>1. At(s)' = At(s)
      BY <1>7, <2>4 DEF Answered, Resend, Fails, Lookup, Request, OpsOnly, Elsewhere, At
    <3>2. Creating(s)' => Creating(s)
      BY <2>1, <2>4 DEF Creating, KeysOf, OpIn
    <3>. QED
      BY <1>2, <1>3, <2>3, <3>1, <3>2 DEF Bounded
  <2>5. ASSUME SlotOf[j] = s, At(s)' = At(s),
               \/ OpIn(j, {"send", "sent"}) /\ ops'[j].at = ops[j].at
               \/ ops'[j].at # None \/ ops'[j].st \in {"ok", "failed"}
        PROVE  Bounded(s)'
    <3>1. Creating(s)' => Creating(s)
      BY <2>1, <2>5 DEF Creating, KeysOf, OpIn
    <3>. QED
      BY <1>2, <1>3, <2>3, <2>5, <3>1 DEF Bounded
  <2>6. CASE SlotOf[j] = s /\ Lookup(j)
    <3>1. At(s)' = At(s) /\ ops[j] \in Op /\ TypeOK
      BY <1>2, <2>1, <2>6 DEF Lookup, OpsOnly, At, TypeOK
    <3>2. CASE Become(j, "failed") \/ Become(j, "ok")
      <4>1. ops'[j].st \in {"ok", "failed"}
        BY <2>1, <3>1, <3>2, BecomeOps DEF States
      <4>. QED
        BY <2>5, <2>6, <3>1, <4>1
    <3>3. ASSUME NEW at \in Ids \cup {None}, NEW old \in Data \cup {None}, NEW rest \in SUBSET Ids,
                 Target(j, at, old, rest), ~ops[j].remove /\ at = None => At(s) = {}
          PROVE  Bounded(s)'
      <4>1. ops'[j].at = at
        BY <2>1, <3>1, <3>3, TargetOps
      <4>2. Creating(s)' => Creating(s) \/ At(s) = {}
        BY <2>1, <3>3, <4>1 DEF Creating, KeysOf, OpIn
      <4>3. At(s) = {} => FromPass(s)
        BY DEF FromPass
      <4>. QED
        BY <1>2, <1>3, <2>3, <3>1, <4>2, <4>3 DEF Bounded
    <3>. QED
      BY <2>6, <3>2, <3>3 DEF Lookup
  <2>7. CASE SlotOf[j] = s /\ (Answered(j) \/ Resend(j) \/ Fails(j))
    <3>1. At(s)' = At(s) /\ ops[j] \in Op /\ TypeOK
      BY <1>2, <2>1, <2>7 DEF Answered, Resend, Fails, OpsOnly, At, TypeOK
    <3>2. \/ Become(j, "failed") \/ Become(j, "ok")
          \/ OpIn(j, {"sent"}) /\ Become(j, "send")
          \/ \E i \in ops[j].rest : Target(j, i, None, ops[j].rest \ {i})
      BY <2>7 DEF Answered, Resend, Fails
    <3>3. CASE Become(j, "failed") \/ Become(j, "ok")
      <4>1. ops'[j].st \in {"ok", "failed"}
        BY <2>1, <3>1, <3>3, BecomeOps DEF States
      <4>. QED
        BY <2>5, <2>7, <3>1, <4>1
    <3>4. CASE OpIn(j, {"sent"}) /\ Become(j, "send")
      <4>1. ops'[j].at = ops[j].at
        BY <2>1, <3>1, <3>4, BecomeOps DEF States
      <4>. QED
        BY <2>5, <2>7, <3>1, <3>4, <4>1 DEF OpIn
    <3>5. ASSUME NEW i \in ops[j].rest, Target(j, i, None, ops[j].rest \ {i})
          PROVE  Bounded(s)'
      <4>1. i \in Ids /\ ops[j].rest \ {i} \in SUBSET Ids
        BY <3>1 DEF Op
      <4>2. ops'[j].at = i /\ i # None
        BY <2>1, <3>1, <3>5, <4>1, TargetOps, NoneIsNoValue
      <4>. QED
        BY <2>5, <2>7, <3>1, <4>2
    <3>. QED
      BY <3>2, <3>3, <3>4, <3>5
  <2>8. CASE SlotOf[j] = s /\ Request(j)
    <3>1. OpIn(j, {"send"}) /\ ops[j] \in Op
      BY <1>2, <2>1, <2>8 DEF Request, TypeOK
    <3>2. CASE (Become(j, "failed") \/ Become(j, "ok")) /\ UNCHANGED zone
      <4>1. ops'[j].st \in {"ok", "failed"} /\ At(s)' = At(s)
        BY <1>2, <2>1, <3>2, BecomeOps DEF States, At
      <4>. QED
        BY <2>5, <2>8, <3>1, <4>1
    <3>3. CASE Become(j, "sent") /\ ops[j].remove /\ At(s)' \subseteq At(s)
      <4>1. Creating(s)' => Creating(s)
        BY <2>1, <3>3 DEF Creating, KeysOf, OpIn
      <4>2. IsFiniteSet(At(s)') /\ Cardinality(At(s)') <= Cardinality(At(s))
        BY <1>2, <3>3, FS_Subset DEF Bounded
      <4>3. /\ Cardinality(At(s)) \in Nat /\ Cardinality(At(s)') \in Nat
            /\ Cardinality(KeysOf(s)) \in Nat /\ KeysOf(s)' = KeysOf(s)
        BY <1>2, <4>2, FS_CardinalityType DEF Bounded, KeysOf
      <4>. QED
        BY <1>2, <2>3, <3>3, <4>1, <4>2, <4>3 DEF Bounded
    <3>4. CASE Become(j, "sent") /\ ~ops[j].remove /\ Put(j)
      <4>1. PICK N \in SUBSET At(s), new \in ZoneRecord :
              /\ At(s)' = (At(s) \ N) \cup {new} /\ new.data = Body(j)
              /\ \A r \in At(s) \ N : ~Alike(r.data, new.data)
        BY <2>8, <3>4 DEF Put
      <4>2. ops'[j].at = ops[j].at /\ ops'[j].st = "sent"
        BY <1>2, <2>1, <3>4, BecomeOps DEF States
      <4>3. Creating(s)' <=> Creating(s)
        BY <2>1, <2>8, <3>1, <4>2 DEF Creating, KeysOf, OpIn
      <4>4. \A r, q \in At(s)' : Alike(r.data, q.data) => r = q
        BY <1>2, <4>1 DEF Bounded, Alike
      <4>5. FromPass(s) => FromPass(s)'
        <5> SUFFICES ASSUME FromPass(s), NEW r \in At(s)'
                     PROVE  \E k \in KeysOf(s)' :
                              ops'[k] # None /\ ~ops'[k].remove /\ Alike(r.data, Body(k)')
          BY DEF FromPass
        <5>1. CASE r = new
          BY <2>1, <2>2, <2>8, <3>4, <4>1, <5>1 DEF KeysOf, Alike
        <5>2. CASE r \in At(s)
          BY <2>2, <5>2 DEF FromPass, KeysOf
        <5>. QED
          BY <4>1, <5>1, <5>2
      <4>6. IsFiniteSet(At(s)') /\ Cardinality(At(s)') <= Cardinality(KeysOf(s))
        <5>1. CASE ops[j].at # None
          <6>1. IsFiniteSet(At(s)') /\ Cardinality(At(s)') <= Cardinality(At(s))
            BY <1>2, <2>8, <3>4, <5>1, PutSize DEF Bounded
          <6>2. /\ Cardinality(At(s)) \in Nat /\ Cardinality(At(s)') \in Nat
                /\ Cardinality(KeysOf(s)) \in Nat
            BY <1>2, <6>1, FS_CardinalityType DEF Bounded
          <6>. QED
            BY <1>2, <6>1, <6>2 DEF Bounded
        <5>2. CASE ops[j].at = None
          <6>1. Creating(s)
            BY <2>1, <2>8, <3>1, <3>4, <5>2 DEF Creating, KeysOf, OpIn
          <6>2. FromPass(s)'
            BY <1>2, <4>5, <6>1 DEF Bounded
          <6> DEFINE g == [k \in KeysOf(s) |-> Body(k)']
          <6>3. \A r \in At(s)' : \E k \in KeysOf(s) : Alike(r.data, g[k])
            BY <6>2 DEF FromPass, KeysOf
          <6> HIDE DEF g
          <6>. QED
            BY <1>2, <4>4, <6>3, OneEach
        <5>. QED
          BY <5>1, <5>2
      <4>. QED
        BY <1>2, <4>3, <4>4, <4>5, <4>6 DEF Bounded, KeysOf
    <3>. QED
      BY <2>8, <3>2, <3>3, <3>4 DEF Request, Take
  <2>. QED
    BY <1>7, <2>4, <2>6, <2>7, <2>8
<1>. QED
  BY <1>4, <1>5, <1>6, <1>7 DEF Step

\* With either adapter, creates that are sent again after a lost answer, that fail half
\* way or that race each other for a name leave no more records of a type and name than
\* it has keys.
THEOREM NothingPilesUp == Spec => []NoPileUp
<1>1. Init => PileInv
  <2> SUFFICES ASSUME Init, NEW s \in Slots PROVE Bounded(s)
    BY DEF PileInv
  <2>1. At(s) = {} /\ ~Creating(s)
    BY DEF Init, At, Creating, OpIn, KeysOf
  <2>2. IsFiniteSet(KeysOf(s))
    BY FS_Subset, AdapterAssumption DEF AdapterAssumption, KeysOf
  <2>3. Cardinality(KeysOf(s)) \in Nat
    BY <2>2, FS_CardinalityType
  <2>. QED
    BY <2>1, <2>3, FS_EmptySet DEF Bounded
<1>2. BaseInv /\ PileInv /\ [Next]_vars => PileInv'
  <2> SUFFICES ASSUME BaseInv, PileInv, [Next]_vars PROVE PileInv'
    OBVIOUS
  <2>1. CASE Next
    BY <2>1, NextStep, PileStep
  <2>2. CASE UNCHANGED vars
    BY <2>2 DEF vars, PileInv, Bounded, Creating, FromPass, KeysOf, OpIn, At, Body, Content
  <2>. QED
    BY <2>1, <2>2
<1>3. PileInv => NoPileUp
  BY DEF PileInv, Bounded, NoPileUp
<1>. QED
  BY <1>1, <1>2, <1>3, BaseAlways, PTL DEF Spec
-----------------------------------------------------------------------------
(* Either adapter is an upstream *)

Pending == {"queued", "send", "sent"}

\* What k's op is for has come about.
Fulfilled(k) ==
  IF ops[k].remove THEN Gone(k) ELSE OneAt(SlotOf[k]) /\ Serves(SlotOf[k], ops[k].data)

LEMMA CallTerms ==
  ASSUME NEW k \in Keys, ops[k] \in Op
  PROVE  /\ Call(k) # None /\ Call(k).remove = ops[k].remove /\ Call(k).data = Body(k)
         /\ Call(k).st = IF ops[k].st \in Pending THEN "open" ELSE ops[k].st
         /\ Call(k) = [remove |-> ops[k].remove, data |-> Body(k), st |-> Call(k).st]
<1>1. /\ ops[k].remove \in BOOLEAN /\ Body(k) \in Data /\ ops[k] # None
      /\ ops[k].st \in Pending \cup {"ok", "failed"}
  BY NoneIsNoValue, BodyType DEF Op, Pending
<1>2. Call(k) = [remove |-> ops[k].remove, data |-> Body(k),
                 st |-> IF ops[k].st \in {"ok", "failed"} THEN ops[k].st ELSE "open"]
  BY <1>1 DEF Call
<1>3. Call(k) \in [remove : BOOLEAN, data : Data, st : {"open", "ok", "failed"}]
  BY <1>1, <1>2
<1>4. Call(k) # None
  BY <1>3, CallAssumption DEF CallAssumption
<1>. QED
  BY <1>1, <1>2, <1>4 DEF Pending

\* The same, of the call that a step leaves behind.
LEMMA NextCallTerms ==
  ASSUME NEW k \in Keys, ops'[k] \in Op
  PROVE  /\ Call(k)' # None /\ Call(k)'.remove = ops'[k].remove /\ Call(k)'.data = Body(k)'
         /\ Call(k)'.st = IF ops'[k].st \in Pending THEN "open" ELSE ops'[k].st
         /\ Call(k)' = [remove |-> ops'[k].remove, data |-> Body(k)', st |-> Call(k)'.st]
<1>1. /\ ops'[k].remove \in BOOLEAN /\ Body(k)' \in Data /\ ops'[k] # None
      /\ ops'[k].st \in Pending \cup {"ok", "failed"}
  BY NoneIsNoValue, ContentType DEF Op, Pending, Body
<1>2. Call(k)' = [remove |-> ops'[k].remove, data |-> Body(k)',
                  st |-> IF ops'[k].st \in {"ok", "failed"} THEN ops'[k].st ELSE "open"]
  BY <1>1 DEF Call
<1>3. Call(k)' \in [remove : BOOLEAN, data : Data, st : {"open", "ok", "failed"}]
  BY <1>1, <1>2
<1>4. Call(k)' # None
  BY <1>3, CallAssumption DEF CallAssumption
<1>. QED
  BY <1>1, <1>2, <1>4 DEF Pending

\* An op that does not return, at a name that does not change, is no step of the upstream.
LEMMA OpStays ==
  ASSUME NEW k \in Keys, ops[k] \in Op, ops'[k] \in Op,
         ops'[k].remove = ops[k].remove, ops'[k].data = ops[k].data,
         ops[k].st \in Pending, ops'[k].st \in Pending
  PROVE  UNCHANGED Call(k)
  BY CallTerms, NextCallTerms, BodyStays

LEMMA OpReturns ==
  ASSUME NEW k \in Keys, ops[k] \in Op, ops'[k] \in Op,
         ops'[k].remove = ops[k].remove, ops'[k].data = ops[k].data,
         ops[k].st \in Pending, ops'[k].st = "failed" \/ (ops'[k].st = "ok" /\ Fulfilled(k)),
         UNCHANGED <<At(SlotOf[k]), stored[k]>>
  PROVE  Abstract!Return(k)
<1>1. UNCHANGED <<Served(k), KeptEntry(k)>>
  BY EntryStays DEF Served
<1>2. Call(k) # None /\ Call(k).st = "open" /\ Call(k)' = [Call(k) EXCEPT !.st = ops'[k].st]
  BY CallTerms, NextCallTerms, BodyStays DEF Pending
<1>3. Fulfilled(k) => Abstract!Achieved(k)
  <2> SUFFICES ASSUME Fulfilled(k) PROVE Abstract!Achieved(k)
    OBVIOUS
  <2>1. CASE ops[k].remove
    BY <2>1, CallTerms DEF Fulfilled, Gone, Served, Alike, Abstract!Achieved, Abstract!Alike
  <2>2. CASE ~ops[k].remove
    <3>1. At(SlotOf[k]) # {} /\ \A r \in At(SlotOf[k]) : SameAs(Body(k), r.data)
      BY <2>2, ServedIsSame DEF Fulfilled, Body
    <3>. QED
      BY <2>2, <3>1, CallTerms DEF SameAs, Served, Abstract!Achieved, Abstract!Alike
  <2>. QED
    BY <2>1, <2>2
<1>. QED
  BY <1>1, <1>2, <1>3 DEF Abstract!Return, Abstract!Open

\* The request of a create or an update, and the requests of a deletion, have the effect.
LEMMA OpTakesEffect ==
  ASSUME BaseInv, NEW k \in Keys, Kept(k), Kept(k)', ops[k] \in Op, ops'[k] \in Op,
         ops'[k].remove = ops[k].remove, ops'[k].data = ops[k].data,
         ops[k].st = "send", ops'[k].st = "sent", UNCHANGED stored[k],
         ops[k].remove => Take(k)
  PROVE  Abstract!Effect(k)
<1>0. ops'[k] # None
  BY NoneIsNoValue
<1>1. Call(k) # None /\ Call(k).st = "open" /\ UNCHANGED <<Call(k), KeptEntry(k)>>
  BY CallTerms, OpStays, EntryStays DEF Pending
<1>4. Body(k)' = Body(k)
  BY BodyStays
<1>2. CASE ops[k].remove
  <2>1. Served(k)' \subseteq Served(k)
    BY <1>2 DEF Take, Served
  <2>2. \A d \in Served(k)' : ~Alike(d, Body(k))
    BY <1>0, <1>2, <1>4 DEF Kept, Gone, Served, Alike
  <2>. QED
    BY <1>1, <1>2, <2>1, <2>2, CallTerms
    DEF Alike, Abstract!Effect, Abstract!Open, Abstract!Achieved, Abstract!Alike
<1>3. CASE ~ops[k].remove
  <2>1. Served(k)' = {Body(k)}
    BY <1>0, <1>3, <1>4 DEF Kept, OneAt, Served
  <2>. QED
    BY <1>1, <1>3, <2>1, CallTerms
    DEF Abstract!Effect, Abstract!Open, Abstract!Achieved, Abstract!Alike
<1>. QED
  BY <1>2, <1>3

UpstreamStep(k) ==
  \/ UNCHANGED <<Call(k), Served(k), KeptEntry(k)>>
  \/ Abstract!Begin(k) \/ Abstract!Effect(k) \/ Abstract!Return(k) \/ Abstract!End(k)

LEMMA UpstreamSteps ==
  ASSUME BaseInv, QuietInv, Step, NEW k \in Keys, Quiet(k)' PROVE UpstreamStep(k)
<1>1. edited \subseteq edited' /\ QuietInv'
  BY QuietStep
  DEF Step, StartPass, ListFails, Listing, Plan, Finish, Answered, Resend, Fails, Lookup,
      Request, Edit, OutOfBand, OpsOnly, ZoneAndOps
<1>2. Quiet(k) /\ Kept(k) /\ Kept(k)'
  BY <1>1 DEF Quiet, QuietInv
<1>3. TypeOK /\ PhaseInv /\ SlotOf[k] \in Slots
  BY AdapterAssumption DEF AdapterAssumption, BaseInv
<1>4. ASSUME UNCHANGED <<ops[k], stored[k], At(SlotOf[k])>> PROVE UpstreamStep(k)
  BY <1>4, EntryStays DEF UpstreamStep, Call, Served, Body, Content
<1>5. CASE StartPass \/ ListFails \/ Listing \/ \E j \in Keys : Edit(j)
  BY <1>4, <1>5 DEF StartPass, ListFails, Listing, Edit, At
<1>6. CASE Plan
  <2>1. ops[k] = None /\ UNCHANGED <<stored[k], At(SlotOf[k])>> /\ TypeOK'
    BY <1>3, <1>6, TypeStep DEF Plan, PhaseInv, At
  <2>2. CASE ops'[k] = None
    BY <1>4, <2>1, <2>2
  <2>3. CASE ops'[k] # None
    <3>1. ops'[k] \in Op /\ ops'[k].st = "queued"
      BY <1>6, <2>1, <2>3 DEF Plan, TypeOK
    <3>2. Call(k) = None /\ Call(k)' # None /\ Call(k)'.st = "open"
          /\ UNCHANGED <<Served(k), KeptEntry(k)>>
      BY <2>1, <3>1, NextCallTerms, EntryStays DEF Call, Served, Pending
    <3>. QED
      BY <2>1, <3>2 DEF UpstreamStep, Abstract!Begin
  <2>. QED
    BY <2>2, <2>3
<1>7. CASE Finish
  <2>1. /\ ops'[k] = None /\ UNCHANGED <<At(SlotOf[k]), Served(k)>>
        /\ stored'[k] = IF ops[k] # None THEN Result(k) ELSE stored[k]
        /\ ops[k] # None => OpIn(k, {"ok", "failed"}) /\ ops[k] \in Op
    BY <1>3, <1>7 DEF Finish, At, Served, TypeOK
  <2>2. CASE ops[k] = None
    BY <1>4, <2>1, <2>2
  <2>3. CASE ops[k] # None
    <3>1. /\ Call(k) # None /\ Call(k).st \in {"ok", "failed"} /\ Call(k).st = ops[k].st
          /\ Call(k).remove = ops[k].remove /\ Call(k).data = Body(k) /\ Call(k)' = None
      BY <2>1, <2>3, CallTerms DEF OpIn, Pending, Call
    <3>2. stored'[k] = IF Call(k).st = "ok" /\ Call(k).remove THEN None
                       ELSE [data |-> ops[k].data,
                             status |-> CASE Call(k).st = "ok" -> "synced"
                                          [] Call(k).st # "ok" /\ Call(k).remove -> "pending_delete"
                                          [] OTHER -> "failed"]
      BY <2>1, <2>3, <3>1 DEF Result
    <3>3. Content(SlotOf[k], stored'[k].data) = Content(SlotOf[k], stored[k].data)'
      BY DEF Content
    <3>4. KeptEntry(k)' = IF Call(k).st = "ok" /\ Call(k).remove THEN None
                          ELSE [data |-> Call(k).data,
                                status |-> CASE Call(k).st = "ok" -> "synced"
                                             [] Call(k).st # "ok" /\ Call(k).remove -> "pending_delete"
                                             [] OTHER -> "failed"]
      <4>1. CASE Call(k).st = "ok" /\ Call(k).remove
        BY <3>2, <4>1 DEF KeptEntry
      <4>2. CASE ~(Call(k).st = "ok" /\ Call(k).remove)
        <5>1. stored'[k] # None
          <6>1. ops[k].data \in Data
            BY <2>1, <2>3 DEF Op
          <6>2. stored'[k] \in StoreEntry
            BY <3>2, <4>2, <6>1 DEF StoreEntry
          <6>. QED
            BY <6>2, NoneIsNoValue
        <5>2. stored'[k].data = ops[k].data /\ Content(SlotOf[k], stored[k].data)' = Body(k)
          BY <3>2, <3>3, <4>2 DEF Body
        <5>. QED
          BY <3>1, <3>2, <4>2, <5>1, <5>2 DEF KeptEntry
      <4>. QED
        BY <4>1, <4>2
    <3>. QED
      BY <2>1, <3>1, <3>4 DEF UpstreamStep, Abstract!End
  <2>. QED
    BY <2>2, <2>3
<1>8. ASSUME NEW j \in Keys, j # k,
             Answered(j) \/ Resend(j) \/ Fails(j) \/ Lookup(j) \/ Request(j)
      PROVE  UpstreamStep(k)
  <2>1. SlotOf[j] # SlotOf[k]
    BY <1>2, <1>8 DEF Quiet, Sole, SoleKeys, KeysOf
  <2>2. At(SlotOf[k])' = At(SlotOf[k]) /\ UNCHANGED stored
    BY <1>3, <1>8, <2>1
    DEF Answered, Resend, Fails, Lookup, Request, OpsOnly, ZoneAndOps, Elsewhere, At
  <2>3. ops'[k] = ops[k]
    BY <1>3, <1>8, WorkerStep
  <2>. QED
    BY <1>4, <2>2, <2>3
<1>9. CASE Answered(k) \/ Resend(k) \/ Fails(k) \/ Lookup(k) \/ Request(k)
  <2>1. /\ ops[k] # None /\ ops[k] \in Op /\ ops'[k] \in Op /\ ops'[k] # None
        /\ ops'[k].remove = ops[k].remove /\ ops'[k].data = ops[k].data /\ UNCHANGED stored[k]
    BY <1>3, <1>9, WorkerStep
    DEF TypeOK, Answered, Resend, Fails, Lookup, Request, OpsOnly, ZoneAndOps
  <2>2. ops[k].st \in Pending
    BY <1>9 DEF Answered, Resend, Fails, Lookup, Request, OpIn, Pending
  <2>3. ASSUME At(SlotOf[k])' = At(SlotOf[k]), ops'[k].st \in Pending PROVE UpstreamStep(k)
    BY <2>1, <2>2, <2>3, OpStays, EntryStays DEF UpstreamStep, Served
  <2>4. ASSUME At(SlotOf[k])' = At(SlotOf[k]),
               Become(k, "failed") \/ (Become(k, "ok") /\ Fulfilled(k))
        PROVE  UpstreamStep(k)
    <3>1. ops'[k].st = "failed" \/ (ops'[k].st = "ok" /\ Fulfilled(k))
      BY <1>3, <2>1, <2>4, BecomeOps DEF States
    <3>. QED
      BY <2>1, <2>2, <2>4, <3>1, OpReturns DEF UpstreamStep
  <2>5. ASSUME At(SlotOf[k])' = At(SlotOf[k]), NEW at \in Ids \cup {None},
               NEW old \in Data \cup {None}, NEW rest \in SUBSET Ids, Target(k, at, old, rest)
        PROVE  UpstreamStep(k)
    BY <1>3, <2>1, <2>3, <2>5, TargetOps DEF Pending
  <2>6. CASE Lookup(k)
    <3>1. At(SlotOf[k])' = At(SlotOf[k])
      BY <2>6 DEF Lookup, OpsOnly, At
    <3>2. CASE \/ Become(k, "failed")
               \/ /\ Become(k, "ok")
                  /\ IF ops[k].remove THEN Gone(k) ELSE Serves(SlotOf[k], ops[k].data)
      BY <1>2, <2>4, <3>1, <3>2 DEF Fulfilled, Kept
    <3>. QED
      BY <2>5, <2>6, <3>1, <3>2 DEF Lookup
  <2>7. CASE Answered(k)
    <3>1. At(SlotOf[k])' = At(SlotOf[k]) /\ ops[k].st = "sent"
      BY <2>7 DEF Answered, OpsOnly, OpIn, At
    <3>2. Fulfilled(k)
      BY <1>2, <2>1, <3>1, SameAsItself DEF Fulfilled, Kept, Serves, Body
    <3>3. ASSUME NEW i \in ops[k].rest, Target(k, i, None, ops[k].rest \ {i})
          PROVE  UpstreamStep(k)
      <4>1. i \in Ids /\ ops[k].rest \ {i} \in SUBSET Ids
        BY <2>1 DEF Op
      <4>. QED
        BY <2>5, <3>1, <3>3, <4>1
    <3>. QED
      BY <2>4, <2>7, <3>1, <3>2, <3>3 DEF Answered
  <2>8. CASE Resend(k) \/ Fails(k)
    <3>1. At(SlotOf[k])' = At(SlotOf[k]) /\ (Become(k, "send") \/ Become(k, "failed"))
      BY <2>8 DEF Resend, Fails, At
    <3>2. Become(k, "send") => ops'[k].st \in Pending
      BY <1>3, <2>1, BecomeOps DEF States, Pending
    <3>. QED
      BY <2>3, <2>4, <3>1, <3>2
  <2>9. CASE Request(k)
    <3>1. ops[k].st = "send"
      BY <2>9 DEF Request, OpIn
    <3>2. CASE Become(k, "failed") /\ UNCHANGED zone
      BY <2>4, <3>2 DEF At
    <3>3. CASE /\ Become(k, "ok") /\ UNCHANGED zone
               /\ IF ops[k].remove THEN Gone(k) ELSE ops[k].at = None /\ At(SlotOf[k]) # {}
      <4>1. Fulfilled(k)
        BY <1>2, <2>1, <3>1, <3>3, SameAsItself DEF Fulfilled, Kept, Serves, Body
      <4>. QED
        BY <2>4, <3>3, <4>1 DEF At
    <3>4. CASE Become(k, "sent") /\ (ops[k].remove => Take(k))
      <4>1. ops'[k].st = "sent"
        BY <1>3, <2>1, <3>4, BecomeOps DEF States
      <4>. QED
        BY <1>2, <2>1, <3>1, <3>4, <4>1, OpTakesEffect DEF UpstreamStep
    <3>. QED
      BY <2>9, <3>2, <3>3, <3>4 DEF Request
  <2>. QED
    BY <1>9, <2>6, <2>7, <2>8, <2>9
<1>10. ASSUME NEW s \in Slots, OutOfBand(s) PROVE UpstreamStep(k)
  <2>1. s # SlotOf[k] /\ UNCHANGED <<ops, stored>>
    BY <1>10 DEF OutOfBand, Quiet
  <2>2. At(SlotOf[k])' = At(SlotOf[k])
    BY <1>3, <1>10, <2>1, EditLocal
  <2>. QED
    BY <1>4, <2>1, <2>2
<1>. QED
  BY <1>5, <1>6, <1>7, <1>8, <1>9, <1>10 DEF Step

\* With either adapter, what the executor sees of a key whose name is its own is an
\* upstream whose calls take effect at once: lookups, the several requests of a deletion,
\* lost answers and requests sent again, other workers and edits of other names included.
THEOREM AdaptersAreUpstreams == Spec => ImplementsUpstream
<1>1. Init => Abstract!Init
  <2> SUFFICES ASSUME Init PROVE Abstract!Init
    OBVIOUS
  <2>1. \A k \in Keys : Served(k) = {} /\ Call(k) = None /\ KeptEntry(k) = None
    BY DEF Init, Served, Call, KeptEntry, At
  <2>. QED
    BY <2>1 DEF Init, Abstract!Init
<1>2. BaseInv /\ QuietInv /\ [Next]_vars => [Abstract!Next]_(Abstract!vars)
  <2> SUFFICES ASSUME BaseInv, QuietInv, [Next]_vars
               PROVE  Abstract!Next \/ UNCHANGED Abstract!vars
    OBVIOUS
  <2>1. CASE Next
    <3>1. Step
      BY <2>1, NextStep
    <3>2. edited \subseteq edited' /\ UNCHANGED api
      BY <3>1
      DEF Step, StartPass, ListFails, Listing, Plan, Finish, Answered, Resend, Fails, Lookup,
          Request, Edit, OutOfBand, OpsOnly, ZoneAndOps
    <3>3. {k \in Keys : Quiet(k)}' \subseteq {k \in Keys : Quiet(k)}
      BY <3>2 DEF Quiet
    <3>4. \A k \in {j \in Keys : Quiet(j)}' : UpstreamStep(k)
      BY <3>1, UpstreamSteps
    <3>. QED
      BY <3>2, <3>3, <3>4 DEF UpstreamStep, Abstract!Next
  <2>2. CASE UNCHANGED vars
    BY <2>2 DEF vars, Quiet, Served, Call, KeptEntry, Body, Content, At, Abstract!vars
  <2>. QED
    BY <2>1, <2>2
<1>. QED
  BY <1>1, <1>2, BaseAlways, QuietAlways, PTL DEF Spec, ImplementsUpstream, Abstract!Spec
=============================================================================
