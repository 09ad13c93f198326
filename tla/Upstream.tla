------------------------------ MODULE Upstream ------------------------------
(***************************************************************************)
(* What the executor takes an upstream for (pkg/upstream/upstream.go,      *)
(* Upsert and Delete): one call per record, whose effect comes all at once *)
(* or not at all.  A call that succeeds has left the name as it should be; *)
(* one that fails may still have had its effect.  This is promised for a   *)
(* name only as long as one key alone has to do with it.                   *)
(***************************************************************************)
CONSTANTS Keys, None

VARIABLES comments,  \* does the provider give comments back
          alone,     \* keys whose name nobody else has touched
          served,    \* key -> the data its name has at the provider
          call,      \* key -> the call for it in this pass, or None
          entry      \* key -> what the store says of it, or None

vars == <<comments, alone, served, call, entry>>

Alike(d, e) == d.val = e.val /\ d.prio = e.prio

\* The name is as the call wants it.
Achieved(k) ==
  IF call[k].remove
  THEN \A d \in served[k] : ~Alike(d, call[k].data)
  ELSE served[k] # {} /\ \A d \in served[k] :
         Alike(d, call[k].data) /\ (comments => d.note = call[k].data.note)

Open(k) == call[k] # None /\ call[k].st = "open"

Begin(k) ==
  /\ call[k] = None /\ call'[k] # None /\ call'[k].st = "open"
  /\ UNCHANGED <<served[k], entry[k]>>

\* An upsert replaces what the name has, a deletion takes away the data it is given.
Effect(k) ==
  /\ Open(k)
  /\ IF call[k].remove THEN served'[k] \subseteq served[k] ELSE served'[k] = {call[k].data}
  /\ UNCHANGED <<call[k], entry[k]>> /\ Achieved(k)'

Return(k) ==
  /\ Open(k)
  /\ \/ Achieved(k) /\ call'[k] = [call[k] EXCEPT !.st = "ok"]
     \/ call'[k] = [call[k] EXCEPT !.st = "failed"]
  /\ UNCHANGED <<served[k], entry[k]>>

\* The outcome is stored.
End(k) ==
  /\ call[k] # None /\ call[k].st \in {"ok", "failed"} /\ call'[k] = None
  /\ entry'[k] = IF call[k].st = "ok" /\ call[k].remove THEN None
                 ELSE [data |-> call[k].data,
                       status |-> CASE call[k].st = "ok" -> "synced"
                                    [] call[k].st # "ok" /\ call[k].remove -> "pending_delete"
                                    [] OTHER -> "failed"]
  /\ UNCHANGED served[k]

Init ==
  /\ comments \in BOOLEAN /\ alone \subseteq Keys
  /\ served = [k \in Keys |-> {}]
  /\ call = [k \in Keys |-> None] /\ entry = [k \in Keys |-> None]

\* The calls of a pass run concurrently, begin together and are stored together.
Next ==
  /\ UNCHANGED comments /\ alone' \subseteq alone
  /\ \A k \in alone' :
       \/ UNCHANGED <<call[k], served[k], entry[k]>>
       \/ Begin(k) \/ Effect(k) \/ Return(k) \/ End(k)

Spec == Init /\ [][Next]_vars
=============================================================================
