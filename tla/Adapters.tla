------------------------------ MODULE Adapters ------------------------------
(***************************************************************************)
(* The two adapters under one set of promises: whichever of them the       *)
(* upstream has, its lookups and requests, interleaved with those of other *)
(* workers, with lost answers and with edits at the provider, come to what *)
(* the reconciler takes an operation for.                                  *)
(***************************************************************************)
EXTENDS Cloudflare

Tech == INSTANCE Technitium

System == Pass \/ CloudflareStep \/ Tech!TechnitiumStep
Next == System \/ Environment
Spec == Init /\ [][Next]_vars

\* Passes keep coming and every call returns; edits and faults are finite.
FairSpec == Spec /\ WF_vars(System)
-----------------------------------------------------------------------------
KeysOf(s) == {k \in Keys : SlotOf[k] = s}
SoleKeys == {k \in Keys : KeysOf(SlotOf[k]) = {k}}
Sole(k) == k \in SoleKeys
Quiet(k) == Sole(k) /\ SlotOf[k] \notin edited
Serves(s, d) == \E r \in At(s) : SameAs(Content(s, d), r.data)

\* Creates that are sent again, fail half-way or race each other never pile up
\* records: a type and name nobody edited holds at most one record per key.
NoPileUp ==
  \A s \in Slots \ edited :
    KeysOf(s) # {} => Cardinality(At(s)) <= Cardinality(KeysOf(s))

\* Between passes, what the store calls synced is at the provider, if no other key
\* and nobody else has to do with its name.
SyncedServed ==
  \A k \in Keys :
    Quiet(k) /\ ops[k] = None /\ stored[k] # None /\ stored[k].status = "synced"
      => Serves(SlotOf[k], stored[k].data)

\* A record that is synced and unchanged may look missing or altered to verification
\* (its name is written in full, the zone moved between two pages, or it has a priority
\* that its type has not), but it is there all the while, and the operation this leads
\* to sends nothing; except at Cloudflare, where a priority is declared for a type that
\* has none, or none for one that has.
PriorityFits(k) == SlotOf[k] \in Prioritized <=> ops[k].data.prio # 0
FalseDriftHarmless ==
  \A k \in Keys :
    Quiet(k) /\ ops[k] # None /\ ~ops[k].remove
      /\ stored[k] = [data |-> ops[k].data, status |-> "synced"]
      => /\ Serves(SlotOf[k], ops[k].data)
         /\ api = "technitium" \/ PriorityFits(k) => ~OpIn(k, {"send", "sent"})

\* The data a name has, a key's op, without the steps its adapter takes, and its store
\* entry, with what the provider keeps of the data.
Served(k) == {r.data : r \in At(SlotOf[k])}
Call(k) ==
  IF ops[k] = None THEN None
  ELSE [remove |-> ops[k].remove, data |-> Body(k),
        st |-> IF ops[k].st \in {"ok", "failed"} THEN ops[k].st ELSE "open"]

KeptEntry(k) ==
  IF stored[k] = None THEN None
  ELSE [data |-> Content(SlotOf[k], stored[k].data), status |-> stored[k].status]

ASSUME CallAssumption ==
  None \notin [remove : BOOLEAN, data : Data, st : {"open", "ok", "failed"}]

Abstract == INSTANCE Upstream WITH
  comments <- api = "cloudflare", alone <- {k \in Keys : Quiet(k)},
  entry <- [k \in Keys |-> KeptEntry(k)],
  served <- [k \in Keys |-> Served(k)], call <- [k \in Keys |-> Call(k)]

\* Either adapter is the upstream the executor takes it for: lookups, the requests of a
\* deletion and requests sent again amount to one effect, a call that returns nil has
\* achieved what it was for, and no call touches the name of another key.
ImplementsUpstream == Abstract!Spec

\* Once edits and faults cease, a type and name that some key declares has the value
\* one of its keys declares, even if they compete for it or it was edited.
DeclaredServed ==
  <>[](\A s \in Slots \ Unsupported :
         (\E k \in KeysOf(s) : want[k] # None)
           => \E k \in KeysOf(s), r \in At(s) : want[k] # None /\ r.data.val = want[k].val)
=============================================================================
