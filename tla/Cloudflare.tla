----------------------------- MODULE Cloudflare -----------------------------
(***************************************************************************)
(* The requests of the Cloudflare adapter (pkg/upstream/cloudflare).       *)
(* Records have ids; a change is a POST without, a PUT or DELETE with the  *)
(* id found by the lookup, which may be gone by then.                      *)
(***************************************************************************)
EXTENDS Adapter

\* The zone in the order the provider lists it.
Rank(r) == Cardinality({q \in zone : q.id <= r.id})
OnPage(p) == {r \in zone : (p - 1) * PerPage < Rank(r) /\ Rank(r) <= p * PerPage}

\* List, one page: the zone may change before the next one is asked for.
paginateDNSRecords ==
  /\ api = "cloudflare" /\ phase = "list"
  /\ seen' = seen \cup OnPage(page)
  /\ IF page * PerPage >= Cardinality(zone) \/ OnPage(page) = {}
     THEN phase' = "plan" /\ page' = 0
     ELSE page' = page + 1 /\ UNCHANGED phase
  /\ UNCHANGED <<api, zone, want, stored, ops, edited, budget>>

\* recordUpToDate; before it, two variants without the comparison.  Of the priority it
\* compares pointers: a request has one if the priority is positive, whatever the type,
\* and what is listed has one if its type has.
recordNeverUpToDate(r, d) == FALSE
recordExists(r, d) == TRUE
recordUpToDate(r, d) == r.data = d /\ (r.slot \in Prioritized <=> d.prio # 0)

\* What the lookup brings: the records of the type and name, for a deletion those
\* with the value.  Before it, a variant that always looks for the value.
lookupByContent(k) ==
  {r \in At(SlotOf[k]) : r.data.val = ops[k].data.val}
listDNSRecords(k) ==
  {r \in At(SlotOf[k]) : ops[k].remove => r.data.val = ops[k].data.val}

\* Upsert up to the first request that changes something.  Of several records
\* the first is taken, and the order is the provider's.
Upsert(k) ==
  /\ api = "cloudflare" /\ MayStart(k) /\ ~ops[k].remove
  /\ LET existing == listDNSRecords(k) IN
       \/ SlotOf[k] \in Unsupported /\ Become(k, "failed")
       \/ SlotOf[k] \notin Unsupported /\ existing = {} /\ Target(k, None, None, {})
       \/ /\ SlotOf[k] \notin Unsupported
          /\ \E r \in existing :
               IF recordUpToDate(r, ops[k].data) THEN Become(k, "ok") ELSE Target(k, r.id, None, {})
  /\ OpsOnly

\* Delete up to the first DELETE.
Delete(k) ==
  /\ api = "cloudflare" /\ MayStart(k) /\ ops[k].remove
  /\ LET ids == {r.id : r \in listDNSRecords(k)} IN
       \/ ids = {} /\ Become(k, "ok")
       \/ \E i \in ids : Target(k, i, None, ids \ {i})
  /\ OpsOnly

Full(k) == SlotOf[k] \in Single /\ At(SlotOf[k]) # {}
Identical(k) == {r \in At(SlotOf[k]) : Alike(r.data, Body(k))}

\* POST.  An identical record is refused with code 81058, which is success; a second
\* CNAME for a name is refused too, and that is an error.
createDNSRecord(k) ==
  /\ api = "cloudflare" /\ Sending(k, FALSE) /\ ops[k].at = None
  /\ \/ Identical(k) # {} /\ Become(k, "ok") /\ UNCHANGED zone
     \/ Identical(k) = {} /\ Full(k) /\ Become(k, "failed") /\ UNCHANGED zone
     \/ /\ Identical(k) = {} /\ ~Full(k) /\ Become(k, "sent")
        /\ \E i \in FreshIds :
             zone' = zone \cup {[id |-> i, slot |-> SlotOf[k], data |-> Body(k)]}
  /\ ZoneAndOps

Addressed(k) == {r \in zone : r.id = ops[k].at}

\* PUT.  It is an error if the record is gone or would become identical to another.
updateDNSRecord(k) ==
  /\ api = "cloudflare" /\ Sending(k, FALSE) /\ ops[k].at # None
  /\ \/ /\ (Addressed(k) = {} \/ ~Identical(k) \subseteq Addressed(k))
        /\ Become(k, "failed") /\ UNCHANGED zone
     \/ /\ Addressed(k) # {} /\ Identical(k) \subseteq Addressed(k)
        /\ zone' = (zone \ Addressed(k))
                     \cup {[r EXCEPT !.data = Body(k)] : r \in Addressed(k)}
        /\ Become(k, "sent")
  /\ ZoneAndOps

\* DELETE, an error if the record is gone.
deleteDNSRecord(k) ==
  /\ api = "cloudflare" /\ Sending(k, TRUE)
  /\ \/ Addressed(k) = {} /\ Become(k, "failed") /\ UNCHANGED zone
     \/ Addressed(k) # {} /\ Become(k, "sent") /\ zone' = zone \ Addressed(k)
  /\ ZoneAndOps

CloudflareStep ==
  \/ paginateDNSRecords
  \/ \E k \in Keys :
       Upsert(k) \/ Delete(k) \/ createDNSRecord(k) \/ updateDNSRecord(k) \/ deleteDNSRecord(k)
=============================================================================
