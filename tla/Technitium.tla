----------------------------- MODULE Technitium -----------------------------
(***************************************************************************)
(* The requests of the Technitium adapter (pkg/upstream/technitium).       *)
(* Records have no ids: an update or deletion names the record by the      *)
(* value the lookup found, a CNAME by its name alone.  Where the API's     *)
(* answer is not visible in the code, both answers are possible.           *)
(***************************************************************************)
EXTENDS Adapter

\* List: the whole zone in one answer, without the types the adapter cannot express.
listZoneRecords ==
  /\ api = "technitium" /\ phase = "list"
  /\ seen' = {r \in zone : r.slot \notin Unsupported}
  /\ phase' = "plan" /\ page' = 0
  /\ UNCHANGED <<api, zone, want, stored, ops, edited, budget>>

\* The comment is not given back, and so not compared, and the priority only of an MX.
recordUpToDate(r, d) == Alike(r.data, Content(r.slot, d))

\* getRecords and filterByType.
getRecords(k) == At(SlotOf[k])

\* Upsert up to the request that changes something.
Upsert(k) ==
  /\ api = "technitium" /\ MayStart(k) /\ ~ops[k].remove
  /\ \/ SlotOf[k] \in Unsupported /\ Become(k, "failed")
     \/ SlotOf[k] \notin Unsupported /\ getRecords(k) = {} /\ Target(k, None, None, {})
     \/ /\ SlotOf[k] \notin Unsupported
        /\ \E cur \in getRecords(k) :
             IF recordUpToDate(cur, ops[k].data) THEN Become(k, "ok")
                                                 ELSE Target(k, 0, cur.data, {})
  /\ OpsOnly

\* Delete up to the request: any record of the type will do to send it.
Delete(k) ==
  /\ api = "technitium" /\ MayStart(k) /\ ops[k].remove
  /\ \/ SlotOf[k] \in Unsupported /\ Become(k, "failed")
     \/ SlotOf[k] \notin Unsupported /\ getRecords(k) = {} /\ Become(k, "ok")
     \/ SlotOf[k] \notin Unsupported /\ getRecords(k) # {} /\ Target(k, None, None, {})
  /\ OpsOnly

\* The records of k's type and name that a request naming data d is about.
Named(k, d) == {r \in At(SlotOf[k]) : SlotOf[k] \in Single \/ Alike(r.data, d)}
New(k) == [id |-> 0, slot |-> SlotOf[k], data |-> Body(k)]
Refused(k) == (Become(k, "ok") \/ Become(k, "failed")) /\ UNCHANGED zone

\* records/add; what is there already is replaced or, if the API says so, refused.
addRecord(k) ==
  /\ api = "technitium" /\ Sending(k, FALSE) /\ ops[k].at = None
  /\ \/ Named(k, Body(k)) # {} /\ Become(k, "failed") /\ UNCHANGED zone
     \/ /\ Become(k, "sent")
        /\ zone' = (zone \ Named(k, Body(k))) \cup {New(k)}
  /\ ZoneAndOps

\* records/update: the record with the old value gets the new one.
updateRecord(k) ==
  /\ api = "technitium" /\ Sending(k, FALSE) /\ ops[k].at # None
  /\ \/ Named(k, ops[k].old) = {} /\ Become(k, "failed") /\ UNCHANGED zone
     \/ /\ Named(k, ops[k].old) # {} /\ Become(k, "sent")
        /\ zone' = (zone \ (Named(k, ops[k].old) \cup Named(k, Body(k)))) \cup {New(k)}
  /\ ZoneAndOps

\* records/delete.
deleteRecord(k) ==
  /\ api = "technitium" /\ Sending(k, TRUE)
  /\ \/ Named(k, Body(k)) = {} /\ Refused(k)
     \/ /\ Named(k, Body(k)) # {} /\ Become(k, "sent")
        /\ zone' = zone \ Named(k, Body(k))
  /\ ZoneAndOps

TechnitiumStep ==
  \/ listZoneRecords
  \/ \E k \in Keys :
       Upsert(k) \/ Delete(k) \/ addRecord(k) \/ updateRecord(k) \/ deleteRecord(k)
=============================================================================
