---------------------------- MODULE PiHoleProofs ----------------------------
(***************************************************************************)
(* Theorems about PiHole, for every set of records, values and             *)
(* hand-written lines, and every number of workers.                        *)
(***************************************************************************)
EXTENDS PiHole, FiniteSetTheorems, TLAPS

\* The copies the workers may send back are sound as well.
SoundInv ==
  /\ DOMAIN lists = Lists /\ DOMAIN ops = Keys /\ DOMAIN meant = Lists /\ DOMAIN raced = Lists
  /\ ListsSound
  /\ \A k \in Keys : ops[k] # None =>
       /\ ops[k] = [remove |-> ops[k].remove, val |-> ops[k].val,
                    got |-> ops[k].got, st |-> ops[k].st]
       /\ ops[k].st \in {"got", "patched"} => Sound(ListOf[k], ops[k].got)

\* Editing a sound copy gives a sound list.
LEMMA ApplySound ==
  ASSUME NEW k \in Keys, NEW S, NEW v, NEW remove, Sound(ListOf[k], S)
  PROVE  Sound(ListOf[k], applyByName(S, Entry(k, v), remove))
<1>1. Entry(k, v).name = NameOf[k]
  BY DEF Entry
<1>2. \A e \in HandLines[ListOf[k]] : e.name # NameOf[k]
  BY PiHoleAssumption DEF PiHoleAssumption
<1>. QED
  BY <1>1, <1>2 DEF Sound, applyByName

LEMMA SoundNext == SoundInv /\ [Next]_vars => SoundInv'
<1> SUFFICES ASSUME SoundInv, [Next]_vars PROVE SoundInv'
  OBVIOUS
<1>0. ListOf \in [Keys -> Lists]
  BY PiHoleAssumption DEF PiHoleAssumption
<1> USE <1>0 DEF SoundInv, ListsSound
<1>1. CASE Plan
  <2>1. \A k \in Keys : ops'[k] # None =>
          /\ ops'[k] = [remove |-> ops'[k].remove, val |-> ops'[k].val,
                        got |-> ops'[k].got, st |-> ops'[k].st]
          /\ ops'[k].st = "queued"
    BY <1>1 DEF Plan
  <2>. QED
    BY <1>1, <2>1 DEF Plan, byHand, Sound
<1>2. CASE Finish
  BY <1>2 DEF Finish, byHand, Sound
<1>3. ASSUME NEW k \in Keys, Get(k) PROVE SoundInv'
  <2>1. Sound(ListOf[k], lists[ListOf[k]])
    OBVIOUS
  <2>2. ops[k] # None
    BY <1>3 DEF Get, OpIn
  <2>3. PICK s : ops' = [ops EXCEPT ![k].got = lists[ListOf[k]], ![k].st = s]
    BY <1>3 DEF Get
  <2>4. /\ DOMAIN ops' = Keys
        /\ ops'[k] = [remove |-> ops[k].remove, val |-> ops[k].val,
                      got |-> lists[ListOf[k]], st |-> s]
        /\ \A j \in Keys : j # k => ops'[j] = ops[j]
    <3> DEFINE mid == [ops EXCEPT ![k].got = lists[ListOf[k]]]
    <3>1. /\ DOMAIN mid = Keys
          /\ mid[k] = [remove |-> ops[k].remove, val |-> ops[k].val,
                       got |-> lists[ListOf[k]], st |-> ops[k].st]
          /\ \A j \in Keys : j # k => mid[j] = ops[j]
      BY <2>2
    <3>2. ops' = [mid EXCEPT ![k].st = s]
      BY <2>3
    <3> HIDE DEF mid
    <3>. QED
      BY <3>1, <3>2
  <2>5. UNCHANGED <<lists, meant, raced>>
    BY <1>3 DEF Get, byHand
  <2>. QED
    BY <2>1, <2>4, <2>5 DEF Sound
<1>4. ASSUME NEW k \in Keys, Patch(k) PROVE SoundInv'
  <2>1. Sound(ListOf[k], ops[k].got) /\ ops[k] # None
    BY <1>4 DEF Patch, OpIn
  <2>2. Sound(ListOf[k], applyByName(ops[k].got, Target(k), ops[k].remove))
    BY <2>1, ApplySound DEF Target
  <2>3. UNCHANGED <<meant, raced>> /\ \A l, S : Sound(l, S)' <=> Sound(l, S')
    BY <1>4 DEF Patch, byHand, Sound
  <2>4. ListsSound'
    BY <1>4, <2>2, <2>3 DEF Patch, Sound
  <2>. QED
    BY <1>4, <2>1, <2>3, <2>4 DEF Patch, Sound
<1>5. ASSUME NEW k \in Keys, Answer(k) \/ Resend(k) \/ Fail(k) PROVE SoundInv'
  <2>1. ops[k] # None /\ UNCHANGED <<lists, meant, raced>>
    BY <1>5 DEF Answer, Resend, Fail, OpIn, byHand
  <2>2. PICK s : /\ ops' = [ops EXCEPT ![k].st = s]
                 /\ s \in {"got", "patched"} => ops[k].st \in {"got", "patched"}
    BY <1>5 DEF Answer, Resend, Fail, OpIn
  <2>. QED
    BY <2>1, <2>2 DEF Sound
<1>6. ASSUME NEW k \in Keys, Edit(k) PROVE SoundInv'
  BY <1>6 DEF Edit, byHand, Sound
<1>8. ASSUME NEW l \in Lists, EditByHand(l) PROVE SoundInv'
  <2>1. PICK e \in HandLines[l], there \in BOOLEAN :
          /\ lists' = [lists EXCEPT ![l] = IF there THEN @ \cup {e} ELSE @ \ {e}]
          /\ meant' = [meant EXCEPT ![l] = IF there THEN @ \cup {e} ELSE @ \ {e}]
          /\ raced' = [raced EXCEPT ![l] = IF Holders(l) # {} THEN @ \cup {e} ELSE @ \ {e}]
    BY <1>8 DEF EditByHand
  <2>2. UNCHANGED ops
    BY <1>8 DEF EditByHand
  <2>3. /\ DOMAIN lists' = Lists /\ DOMAIN meant' = Lists /\ DOMAIN raced' = Lists
        /\ \A m \in Lists : m # l => UNCHANGED <<lists[m], meant[m], raced[m]>>
        /\ \A d : d # e =>
             /\ d \in lists'[l] <=> d \in lists[l]
             /\ d \in meant'[l] <=> d \in meant[l]
             /\ d \in raced'[l] <=> d \in raced[l]
        /\ e \in lists'[l] <=> e \in meant'[l]
        /\ Holders(l) # {} => e \in raced'[l]
    BY <2>1
  <2>4. ASSUME NEW m \in Lists PROVE Sound(m, lists[m])'
    <3>1. Sound(m, lists[m])
      OBVIOUS
    <3>2. CASE m # l
      BY <2>3, <3>1, <3>2 DEF Sound
    <3>3. CASE m = l
      BY <2>3, <3>1, <3>3 DEF Sound
    <3>. QED
      BY <3>2, <3>3
  <2>5. ASSUME NEW k \in Keys, ops[k] # None, ops[k].st \in {"got", "patched"}
        PROVE  Sound(ListOf[k], ops[k].got)'
    <3>1. Sound(ListOf[k], ops[k].got) /\ ListOf[k] \in Lists
      BY <2>5
    <3>2. CASE ListOf[k] # l
      BY <2>2, <2>3, <3>1, <3>2 DEF Sound
    <3>3. CASE ListOf[k] = l
      <4>1. e \in raced'[l]
        BY <2>3, <2>5, <3>3 DEF Holders, OpIn
      <4>. QED
        BY <2>2, <2>3, <3>1, <3>3, <4>1 DEF Sound
    <3>. QED
      BY <3>2, <3>3
  <2>. QED
    BY <2>2, <2>3, <2>4, <2>5
<1>7. CASE UNCHANGED vars
  BY <1>7 DEF vars, byHand, Sound
<1>. QED
  BY <1>1, <1>2, <1>3, <1>4, <1>5, <1>6, <1>7, <1>8 DEF Next, System

\* However many workers overwrite each other's lists, no name gets a second entry, and
\* a line is lost, or comes back, only if somebody wrote or removed it while a worker
\* could still send a list it had read before.
THEOREM ListsStaySound == Spec => []ListsSound
<1>1. Init => SoundInv
  BY PiHoleAssumption DEF PiHoleAssumption, Init, SoundInv, ListsSound, Sound
<1>2. SoundInv => ListsSound
  BY DEF SoundInv
<1>. QED
  BY <1>1, <1>2, SoundNext, PTL DEF Spec
-----------------------------------------------------------------------------
(* Types *)

TypeInv ==
  /\ TypeOK
  /\ DOMAIN lists = Lists /\ DOMAIN want = Keys /\ DOMAIN stored = Keys /\ DOMAIN ops = Keys

LEMMA NoneIsNoValue == ASSUME NEW k \in Keys, NEW x \in Op(k) \cup StoreEntry(k) PROVE x # None
  BY PiHoleAssumption DEF PiHoleAssumption

\* The state of an op changes.
LEMMA MoveOps ==
  ASSUME TypeInv, NEW k \in Keys, ops[k] # None,
         NEW s \in {"queued", "got", "patched", "ok", "failed"},
         ops' = [ops EXCEPT ![k].st = s]
  PROVE  /\ DOMAIN ops' = Keys /\ \A j \in Keys : j # k => ops'[j] = ops[j]
         /\ ops'[k] \in Op(k) /\ ops'[k].st = s /\ ops'[k].got = ops[k].got
         /\ ops'[k].remove = ops[k].remove /\ ops'[k].val = ops[k].val
<1>1. ops[k] \in Op(k) /\ DOMAIN ops = Keys
  BY DEF TypeInv, TypeOK
<1>. QED
  BY <1>1 DEF Op

LEMMA GetOps ==
  ASSUME TypeInv, NEW k \in Keys, Get(k)
  PROVE  /\ DOMAIN ops' = Keys /\ \A j \in Keys : j # k => ops'[j] = ops[j]
         /\ ops'[k] \in Op(k) /\ ops'[k].got = lists[ListOf[k]]
         /\ ops'[k].remove = ops[k].remove /\ ops'[k].val = ops[k].val
         /\ ops'[k].st = IF changed(lists[ListOf[k]], Target(k), ops[k].remove)
                         THEN "got" ELSE "ok"
<1> DEFINE l == lists[ListOf[k]]
           s == IF changed(l, Target(k), ops[k].remove) THEN "got" ELSE "ok"
           f == [ops EXCEPT ![k].got = l]
<1>1. ops[k] \in Op(k) /\ DOMAIN ops = Keys /\ l \in SUBSET Lines(ListOf[k])
  BY PiHoleAssumption DEF PiHoleAssumption, TypeInv, TypeOK, Get, OpIn
<1>2. ops' = [f EXCEPT ![k].st = s] /\ s \in {"got", "ok"}
  BY DEF Get
<1> HIDE DEF l, s
<1>3. /\ DOMAIN f = Keys /\ (\A j \in Keys : j # k => f[j] = ops[j])
      /\ f[k] \in Op(k) /\ f[k].got = l /\ f[k].remove = ops[k].remove /\ f[k].val = ops[k].val
  BY <1>1 DEF Op
<1> HIDE DEF f
<1>4. /\ DOMAIN ops' = Keys /\ (\A j \in Keys : j # k => ops'[j] = ops[j])
      /\ ops'[k] \in Op(k) /\ ops'[k].got = l /\ ops'[k].remove = ops[k].remove
      /\ ops'[k].val = ops[k].val /\ ops'[k].st = s
  BY <1>2, <1>3 DEF Op
<1>. QED
  BY <1>4 DEF l, s

LEMMA TypeNext == TypeInv /\ [Next]_vars => TypeInv'
<1> SUFFICES ASSUME TypeInv, [Next]_vars PROVE TypeInv'
  OBVIOUS
<1>1. CASE Plan
  <2>1. ASSUME NEW k \in Keys, Due(k)
        PROVE  [remove |-> want[k] = None, st |-> "queued", got |-> {},
                val |-> IF want[k] # None THEN want[k] ELSE stored[k].val] \in Op(k)
    BY <2>1 DEF TypeInv, TypeOK, Due, Op, StoreEntry
  <2>2. DOMAIN ops' = Keys /\ \A k \in Keys : ops'[k] # None => ops'[k] \in Op(k)
    BY <1>1, <2>1 DEF Plan
  <2>. QED
    BY <1>1, <2>2 DEF Plan, byHand, TypeInv, TypeOK
<1>2. CASE Finish
  <2>1. ASSUME NEW k \in Keys, ops[k] # None PROVE Result(k) \in StoreEntry(k) \cup {None}
    BY <2>1 DEF Result, TypeInv, TypeOK, Op, StoreEntry
  <2>2. /\ DOMAIN stored' = Keys
        /\ \A k \in Keys : stored'[k] # None => stored'[k] \in StoreEntry(k)
    BY <1>2, <2>1 DEF Finish, TypeInv, TypeOK
  <2>. QED
    BY <1>2, <2>2 DEF Finish, byHand, TypeInv, TypeOK
<1>3. ASSUME NEW k \in Keys, Get(k) PROVE TypeInv'
  <2>1. UNCHANGED <<lists, want, stored, meant, raced, edits, faults>>
    BY <1>3 DEF Get, byHand
  <2>. QED
    BY <1>3, <2>1, GetOps DEF TypeInv, TypeOK
<1>4. ASSUME NEW k \in Keys, Patch(k) PROVE TypeInv'
  <2>1. ops[k] # None /\ ops[k] \in Op(k) /\ ListOf[k] \in Lists
    BY <1>4, PiHoleAssumption DEF PiHoleAssumption, Patch, OpIn, TypeInv, TypeOK
  <2>2. Target(k) \in Lines(ListOf[k]) /\ ops[k].got \subseteq Lines(ListOf[k])
    BY <2>1 DEF Op, Target, Lines, EntriesOf
  <2>3. applyByName(ops[k].got, Target(k), ops[k].remove) \subseteq Lines(ListOf[k])
    BY <2>2 DEF applyByName
  <2>4. DOMAIN lists' = Lists /\ \A l \in Lists : lists'[l] \subseteq Lines(l)
    BY <1>4, <2>1, <2>3 DEF Patch, TypeInv, TypeOK
  <2>. QED
    BY <1>4, <2>1, <2>4, MoveOps DEF Patch, byHand, TypeInv, TypeOK
<1>5. ASSUME NEW k \in Keys, Answer(k) \/ Resend(k) \/ Fail(k) PROVE TypeInv'
  <2>1. /\ ops[k] # None /\ faults' \in 0..MaxFaults
        /\ UNCHANGED <<lists, want, stored, meant, raced, edits>>
    BY <1>5, PiHoleAssumption
    DEF PiHoleAssumption, Answer, Resend, Fail, OpIn, byHand, TypeInv, TypeOK
  <2>2. DOMAIN ops' = Keys /\ (\A j \in Keys : j # k => ops'[j] = ops[j]) /\ ops'[k] \in Op(k)
    BY <1>5, <2>1, MoveOps DEF Answer, Resend, Fail
  <2>. QED
    BY <2>1, <2>2 DEF TypeInv, TypeOK
<1>6. ASSUME NEW k \in Keys, Edit(k) PROVE TypeInv'
  BY <1>6, PiHoleAssumption DEF PiHoleAssumption, Edit, byHand, TypeInv, TypeOK
<1>8. ASSUME NEW l \in Lists, EditByHand(l) PROVE TypeInv'
  <2> DEFINE H == UNION {HandLines[m] : m \in Lists}
  <2>1. PICK e \in HandLines[l], there \in BOOLEAN :
          /\ lists' = [lists EXCEPT ![l] = IF there THEN @ \cup {e} ELSE @ \ {e}]
          /\ meant' = [meant EXCEPT ![l] = IF there THEN @ \cup {e} ELSE @ \ {e}]
          /\ raced' = [raced EXCEPT ![l] = IF Holders(l) # {} THEN @ \cup {e} ELSE @ \ {e}]
    BY <1>8 DEF EditByHand
  <2>2. e \in H /\ e \in Lines(l)
    BY DEF Lines
  <2> HIDE DEF H
  <2>3. meant \in [Lists -> SUBSET H] /\ raced \in [Lists -> SUBSET H]
    BY DEF TypeInv, TypeOK, H
  <2>4. meant' \in [Lists -> SUBSET H] /\ raced' \in [Lists -> SUBSET H]
    BY <2>1, <2>2, <2>3
  <2>5. DOMAIN lists' = Lists /\ \A m \in Lists : lists'[m] \subseteq Lines(m)
    BY <2>1, <2>2 DEF TypeInv, TypeOK
  <2>6. UNCHANGED <<want, stored, ops, faults>> /\ edits' \in 0..MaxEdits
    BY <1>8, PiHoleAssumption DEF PiHoleAssumption, EditByHand, TypeInv, TypeOK
  <2>. QED
    BY <2>4, <2>5, <2>6 DEF TypeInv, TypeOK, H
<1>7. CASE UNCHANGED vars
  BY <1>7 DEF vars, byHand, TypeInv, TypeOK
<1>. QED
  BY <1>1, <1>2, <1>3, <1>4, <1>5, <1>6, <1>7, <1>8 DEF Next, System

LEMMA TypeAlways == Spec => []TypeInv
<1>1. ASSUME Init PROVE TypeInv
  <2>1. HandLines \in [Lists -> SUBSET UNION {HandLines[l] : l \in Lists}]
    BY PiHoleAssumption DEF PiHoleAssumption
  <2>2. DOMAIN lists = Lists /\ \A l \in Lists : lists[l] \subseteq Lines(l)
    BY <1>1, <2>1 DEF Init, Lines
  <2>. QED
    BY <1>1, <2>1, <2>2, PiHoleAssumption DEF PiHoleAssumption, Init, TypeInv, TypeOK
<1>. QED
  BY <1>1, TypeNext, PTL DEF Spec

\* Every reachable state is well typed: a worker's copy holds only lines written by hand
\* and entries of records of its list.
THEOREM TypeCorrect == Spec => []TypeOK
<1>1. TypeInv => TypeOK
  BY DEF TypeInv
<1>. QED
  BY <1>1, TypeAlways, PTL
-----------------------------------------------------------------------------
(* Records whose list has one writer at a time *)

\* No two keys of a list have the same name.  A hypothesis: otherwise each drops the
\* entry of the other.
DistinctNames == \A j, k \in Keys : j # k /\ ListOf[j] = ListOf[k] => NameOf[j] # NameOf[k]

\* One worker has one call in flight; and of a list with one writer, the copy a worker
\* may send has the entries of other records that the list has, though perhaps not its
\* hand-written lines, and an edited list has the entry.
CopyFits(k) ==
  \A j \in Keys \ {k} :
    ListOf[j] = ListOf[k] => {e \in ops[k].got : e.name = NameOf[j]} = Own(j)
OneInFlight == MaxConc = 1 => \A j, k \in InFlight : j = k
Agrees(k) ==
  /\ ops[k] = None \/ OpIn(k, {"queued"}) =>
       /\ stored[k] # None /\ stored[k].status = "synced" => Entry(k, stored[k].val) \in Own(k)
       /\ stored[k] = None => Own(k) = {}
  /\ OpIn(k, {"got", "patched"}) => CopyFits(k)
  /\ OpIn(k, {"patched", "ok"}) => Own(k) = IF ops[k].remove THEN {} ELSE {Target(k)}
TruthInv == OneInFlight /\ \A k \in Keys : SoleWriter(k) => Agrees(k)

LEMMA TargetName == ASSUME NEW k, NEW v PROVE Entry(k, v).name = NameOf[k]
  BY DEF Entry

LEMMA AgreesFrame ==
  ASSUME NEW k \in Keys, Agrees(k), UNCHANGED <<ops[k], stored[k], Own(k)>>,
         OpIn(k, {"got", "patched"}) =>
           \A j \in Keys : ListOf[j] = ListOf[k] => UNCHANGED Own(j)
  PROVE  Agrees(k)'
<1>1. OpIn(k, {"got", "patched"})' => CopyFits(k)'
  BY DEF Agrees, OpIn, CopyFits
<1>. QED
  BY <1>1 DEF Agrees, OpIn, Target

\* A call starts only when there is room.
LEMMA GetAlone == ASSUME NEW k \in Keys, Get(k), MaxConc = 1 PROVE InFlight = {}
<1>1. IsFiniteSet(InFlight)
  <2>1. InFlight \subseteq Keys /\ IsFiniteSet(Keys)
    BY PiHoleAssumption DEF PiHoleAssumption, InFlight
  <2>. QED
    BY <2>1, FS_Subset
<1>2. Cardinality(InFlight) \in Nat /\ Cardinality(InFlight) < 1
  BY <1>1, FS_CardinalityType DEF Get
<1>. QED
  BY <1>1, <1>2, FS_EmptySet

\* A PATCH leaves the entries of other records alone, if their list has one writer.
LEMMA OthersKept ==
  ASSUME DistinctNames, TypeInv, TruthInv, NEW k \in Keys, Patch(k),
         NEW j \in Keys, j # k, SoleWriter(j)
  PROVE  Own(j)' = Own(j)
<1> DEFINE new == applyByName(ops[k].got, Target(k), ops[k].remove)
<1>1. /\ OpIn(k, {"got"}) /\ ListOf[j] \in Lists
      /\ lists'[ListOf[k]] = new /\ \A m \in Lists : m # ListOf[k] => lists'[m] = lists[m]
  BY PiHoleAssumption DEF PiHoleAssumption, Patch, TypeInv
<1>2. CASE ListOf[j] # ListOf[k]
  BY <1>1, <1>2 DEF Own
<1>3. CASE ListOf[j] = ListOf[k]
  <2>1. MaxConc = 1 /\ NameOf[j] # NameOf[k]
    BY <1>3 DEF SoleWriter, DistinctNames
  <2>2. {e \in ops[k].got : e.name = NameOf[j]} = Own(j)
    BY <1>1, <1>3, <2>1 DEF TruthInv, SoleWriter, Agrees, CopyFits, OpIn
  <2>3. {e \in new : e.name = NameOf[j]} = {e \in ops[k].got : e.name = NameOf[j]}
    BY <2>1, TargetName DEF applyByName, Target
  <2>. QED
    BY <1>1, <1>3, <2>2, <2>3 DEF Own
<1>. QED
  BY <1>2, <1>3

\* Lines written by hand have names of their own.
LEMMA HandEditsApart ==
  ASSUME TypeInv, NEW l \in Lists, EditByHand(l), NEW k \in Keys
  PROVE  Own(k)' = Own(k)
<1>1. PICK e \in HandLines[l], there \in BOOLEAN :
        lists' = [lists EXCEPT ![l] = IF there THEN @ \cup {e} ELSE @ \ {e}]
  BY DEF EditByHand
<1>2. e.name # NameOf[k] /\ ListOf[k] \in Lists /\ DOMAIN lists = Lists
  BY PiHoleAssumption DEF PiHoleAssumption, TypeInv
<1>3. CASE ListOf[k] # l
  BY <1>1, <1>2, <1>3 DEF Own
<1>4. CASE ListOf[k] = l
  BY <1>1, <1>2, <1>4 DEF Own
<1>. QED
  BY <1>3, <1>4

LEMMA TruthNext == DistinctNames /\ TypeInv /\ TruthInv /\ [Next]_vars => TruthInv'
<1> SUFFICES ASSUME DistinctNames, TypeInv, TruthInv, [Next]_vars PROVE TruthInv'
  OBVIOUS
<1> USE DEF TruthInv
<1>0. \A k \in Keys : ListOf[k] \in Lists /\ (ops[k] # None => ops[k] \in Op(k))
  BY PiHoleAssumption DEF PiHoleAssumption, TypeInv, TypeOK
<1>1. CASE Plan
  <2>1. \A k \in Keys : ops[k] = None /\ (ops'[k] = None \/ ops'[k].st = "queued")
    BY <1>1 DEF Plan
  <2>2. OneInFlight'
    BY <2>1 DEF OneInFlight, InFlight, OpIn
  <2>3. ASSUME NEW k \in Keys, SoleWriter(k) PROVE Agrees(k)'
    BY <1>1, <2>1, <2>3 DEF Plan, Agrees, OpIn, Own
  <2>. QED
    BY <2>2, <2>3 DEF SoleWriter
<1>2. CASE Finish
  <2>1. /\ UNCHANGED lists
        /\ \A k \in Keys : /\ ops'[k] = None /\ (ops[k] # None => OpIn(k, {"ok", "failed"}))
                           /\ stored'[k] = IF ops[k] # None THEN Result(k) ELSE stored[k]
    BY <1>2 DEF Finish
  <2>2. OneInFlight'
    BY <2>1 DEF OneInFlight, InFlight, OpIn
  <2>3. ASSUME NEW k \in Keys, SoleWriter(k) PROVE Agrees(k)'
    <3>1. Agrees(k) /\ Own(k)' = Own(k)
      BY <2>1, <2>3 DEF Own
    <3>2. CASE ops[k] = None
      BY <2>1, <3>1, <3>2, AgreesFrame DEF OpIn
    <3>3. CASE OpIn(k, {"ok"}) /\ ops[k].remove
      <4>1. stored'[k] = None /\ Own(k) = {}
        BY <2>1, <3>1, <3>3 DEF OpIn, Result, Agrees
      <4>. QED
        BY <2>1, <3>1, <4>1 DEF Agrees, OpIn
    <3>4. CASE OpIn(k, {"ok"}) /\ ~ops[k].remove
      <4>1. stored'[k] = [val |-> ops[k].val, status |-> "synced"] /\ Own(k) = {Target(k)}
        BY <2>1, <3>1, <3>4 DEF OpIn, Result, Agrees
      <4>2. stored'[k] \in StoreEntry(k)
        BY <1>0, <3>4, <4>1 DEF OpIn, Op, StoreEntry
      <4>3. stored'[k] # None /\ Entry(k, stored'[k].val) \in Own(k)
        BY <4>1, <4>2, NoneIsNoValue DEF Target
      <4>. QED
        BY <2>1, <3>1, <4>3 DEF Agrees, OpIn
    <3>5. CASE OpIn(k, {"failed"})
      <4>1. stored'[k] = [val |-> ops[k].val,
                          status |-> IF ops[k].remove THEN "pending_delete" ELSE "failed"]
        BY <2>1, <3>5 DEF OpIn, Result
      <4>2. stored'[k] \in StoreEntry(k) /\ stored'[k].status # "synced"
        BY <1>0, <3>5, <4>1 DEF OpIn, Op, StoreEntry
      <4>3. stored'[k] # None
        BY <4>2, NoneIsNoValue
      <4>. QED
        BY <2>1, <4>2, <4>3 DEF Agrees, OpIn
    <3>. QED
      BY <2>1, <3>2, <3>3, <3>4, <3>5 DEF OpIn
  <2>. QED
    BY <2>2, <2>3 DEF SoleWriter
<1>3. ASSUME NEW k \in Keys, Get(k) PROVE TruthInv'
  <2> DEFINE l == lists[ListOf[k]]
  <2>1. /\ UNCHANGED <<lists, stored>> /\ OpIn(k, {"queued"})
        /\ \A j \in Keys : j # k => ops'[j] = ops[j]
        /\ ops'[k] # None /\ ops'[k].got = l
        /\ ops'[k].remove = ops[k].remove /\ ops'[k].val = ops[k].val
        /\ ops'[k].st = IF changed(l, Target(k), ops[k].remove) THEN "got" ELSE "ok"
    BY <1>3, GetOps, NoneIsNoValue DEF Get
  <2>2. OneInFlight'
    <3>1. MaxConc = 1 => \A j \in Keys : j # k => ~OpIn(j, {"got", "patched"})
      BY <1>3, GetAlone DEF InFlight
    <3>2. MaxConc = 1 => \A j \in Keys : j # k => ~OpIn(j, {"got", "patched"})'
      BY <2>1, <3>1 DEF OpIn
    <3>. QED
      BY <3>2 DEF OneInFlight, InFlight
  <2>3. ASSUME NEW j \in Keys, SoleWriter(j), j # k PROVE Agrees(j)'
    BY <2>1, <2>3, AgreesFrame DEF Own
  <2>4. Agrees(k)'
    <3>1. {e \in l : e.name = Target(k).name} = Own(k)
      BY TargetName DEF Own, Target
    <3>2. ops'[k].st = "ok" => Own(k) = IF ops[k].remove THEN {} ELSE {Target(k)}
      BY <2>1, <3>1 DEF changed
    <3>3. Target(k)' = Target(k) /\ Own(k)' = Own(k)
      BY <2>1 DEF Target, Own, Entry
    <3>4. CopyFits(k)'
      BY <2>1 DEF CopyFits, Own
    <3>. QED
      BY <2>1, <3>2, <3>3, <3>4 DEF Agrees, OpIn
  <2>. QED
    BY <2>2, <2>3, <2>4 DEF SoleWriter
<1>4. ASSUME NEW k \in Keys, Patch(k) PROVE TruthInv'
  <2> DEFINE new == applyByName(ops[k].got, Target(k), ops[k].remove)
  <2>1. /\ UNCHANGED stored /\ OpIn(k, {"got"}) /\ ops[k] # None /\ ops[k] \in Op(k)
        /\ lists'[ListOf[k]] = new /\ \A m \in Lists : m # ListOf[k] => lists'[m] = lists[m]
    BY <1>0, <1>4 DEF Patch, OpIn, TypeInv
  <2>2. /\ \A j \in Keys : j # k => ops'[j] = ops[j]
        /\ ops'[k] # None /\ ops'[k].st = "patched" /\ ops'[k].got = ops[k].got
        /\ ops'[k].remove = ops[k].remove /\ ops'[k].val = ops[k].val
    BY <1>4, <2>1, MoveOps, NoneIsNoValue DEF Patch
  <2>3. OneInFlight'
    BY <2>1, <2>2 DEF OneInFlight, InFlight, OpIn
  <2>4. ASSUME SoleWriter(k) PROVE Agrees(k)'
    <3>1. {e \in new : e.name = NameOf[k]} = IF ops[k].remove THEN {} ELSE {Target(k)}
      BY TargetName DEF applyByName, Target
    <3>2. Own(k)' = (IF ops[k].remove THEN {} ELSE {Target(k)}) /\ Target(k)' = Target(k)
      BY <2>1, <2>2, <3>1 DEF Own, Target, Entry
    <3>3. CopyFits(k)'
      <4> SUFFICES ASSUME NEW j \in Keys, j # k, ListOf[j] = ListOf[k]
                   PROVE  {e \in ops'[k].got : e.name = NameOf[j]} = Own(j)'
        BY DEF CopyFits
      <4>1. {e \in ops[k].got : e.name = NameOf[j]} = Own(j)
        BY <2>1, <2>4 DEF Agrees, CopyFits, OpIn
      <4>2. SoleWriter(j)
        BY <2>4 DEF SoleWriter
      <4>3. Own(j)' = Own(j)
        BY <1>4, <4>2, OthersKept
      <4>. QED
        BY <2>2, <4>1, <4>3
    <3>. QED
      BY <2>2, <3>2, <3>3 DEF Agrees, OpIn
  <2>5. ASSUME NEW j \in Keys, SoleWriter(j), j # k PROVE Agrees(j)'
    <3>1. CASE ListOf[j] # ListOf[k]
      <4>1. lists'[ListOf[j]] = lists[ListOf[j]]
        BY <1>0, <2>1, <3>1
      <4>2. \A i \in Keys : ListOf[i] = ListOf[j] => Own(i)' = Own(i)
        BY <4>1 DEF Own
      <4>. QED
        BY <2>1, <2>2, <2>5, <4>2, AgreesFrame
    <3>2. CASE ListOf[j] = ListOf[k]
      <4>1. MaxConc = 1
        BY <2>5, <3>2 DEF SoleWriter
      <4>2. ~OpIn(j, {"got", "patched"})
        BY <2>1, <2>5, <4>1 DEF OneInFlight, InFlight, OpIn
      <4>3. Own(j)' = Own(j)
        BY <1>4, <2>5, OthersKept
      <4>. QED
        BY <2>1, <2>2, <2>5, <4>2, <4>3, AgreesFrame
    <3>. QED
      BY <3>1, <3>2
  <2>. QED
    BY <2>3, <2>4, <2>5 DEF SoleWriter
<1>5. ASSUME NEW k \in Keys, Answer(k) \/ Resend(k) \/ Fail(k) PROVE TruthInv'
  <2>1. ops[k] # None /\ UNCHANGED <<lists, stored>>
    BY <1>5 DEF Answer, Resend, Fail, OpIn
  <2>2. PICK s \in {"ok", "got", "failed"} :
          ops' = [ops EXCEPT ![k].st = s] /\ (s # "failed" => OpIn(k, {"patched"}))
    BY <1>5 DEF Answer, Resend, Fail
  <2>3. /\ \A j \in Keys : j # k => ops'[j] = ops[j]
        /\ ops'[k] # None /\ ops'[k].st = s /\ ops'[k].got = ops[k].got
        /\ ops'[k].remove = ops[k].remove /\ ops'[k].val = ops[k].val
    BY <2>1, <2>2, MoveOps, NoneIsNoValue
  <2>4. OneInFlight'
    BY <2>2, <2>3 DEF OneInFlight, InFlight, OpIn
  <2>5. ASSUME NEW j \in Keys, SoleWriter(j), j # k PROVE Agrees(j)'
    BY <2>1, <2>3, <2>5, AgreesFrame DEF Own
  <2>6. ASSUME SoleWriter(k) PROVE Agrees(k)'
    <3>1. Target(k)' = Target(k) /\ Own(k)' = Own(k)
      BY <2>1, <2>3 DEF Target, Own, Entry
    <3>2. CopyFits(k) => CopyFits(k)'
      BY <2>1, <2>3 DEF CopyFits, Own
    <3>. QED
      BY <2>2, <2>3, <2>6, <3>1, <3>2 DEF Agrees, OpIn
  <2>. QED
    BY <2>4, <2>5, <2>6 DEF SoleWriter
<1>7. ASSUME NEW l \in Lists, EditByHand(l) PROVE TruthInv'
  <2>1. UNCHANGED <<stored, ops>> /\ \A k \in Keys : Own(k)' = Own(k)
    BY <1>7, HandEditsApart DEF EditByHand
  <2>2. OneInFlight'
    BY <2>1 DEF OneInFlight, InFlight, OpIn
  <2>3. ASSUME NEW j \in Keys, SoleWriter(j) PROVE Agrees(j)'
    BY <2>1, <2>3, AgreesFrame
  <2>. QED
    BY <2>2, <2>3 DEF SoleWriter
<1>6. CASE UNCHANGED <<lists, stored, ops>>
  <2>1. OneInFlight'
    BY <1>6 DEF OneInFlight, InFlight, OpIn
  <2>2. ASSUME NEW j \in Keys, SoleWriter(j) PROVE Agrees(j)'
    BY <1>6, <2>2, AgreesFrame DEF Own
  <2>. QED
    BY <2>1, <2>2 DEF SoleWriter
<1>. QED
  BY <1>1, <1>2, <1>3, <1>4, <1>5, <1>6, <1>7 DEF Next, System, Edit, vars

LEMMA NothingOwned == Init => \A k \in Keys : Own(k) = {}
  BY PiHoleAssumption DEF PiHoleAssumption, Init, Own

LEMMA TruthAlways == DistinctNames /\ Spec => []TruthInv
<1>1. Init => TruthInv
  BY NothingOwned DEF Init, TruthInv, OneInFlight, InFlight, OpIn, Agrees
<1>2. SUFFICES ASSUME DistinctNames PROVE Spec => []TruthInv
  OBVIOUS
<1>3. TypeInv /\ TruthInv /\ [Next]_vars => TruthInv'
  BY <1>2, TruthNext
<1>. QED
  BY <1>1, <1>3, TypeAlways, PTL DEF Spec

\* Where one worker at a time has to do with a list, and no two records of it have the
\* same name, failed requests, lost answers, edits during a pass and retries leave the
\* store and the list in agreement.
THEOREM SoleWritersAgree == DistinctNames /\ Spec => []SoleWriterTruth
<1>1. TruthInv => SoleWriterTruth
  <2> SUFFICES ASSUME TruthInv, BetweenPasses, NEW k \in Keys, SoleWriter(k) PROVE Truth(k)
    BY DEF SoleWriterTruth
  <2>1. Agrees(k) /\ ops[k] = None
    BY DEF TruthInv, BetweenPasses
  <2>2. \A v : Entry(k, v) \in Own(k) <=> Listed(k, v)
    BY TargetName DEF Own, Listed
  <2>. QED
    BY <2>1, <2>2 DEF Agrees, Truth
<1>. QED
  BY <1>1, TruthAlways, PTL
-----------------------------------------------------------------------------
(* Pi-hole is an upstream *)

Pending == {"queued", "got", "patched"}

LEMMA CallTerms ==
  ASSUME NEW k \in Keys, ops[k] # None, ops[k] \in Op(k)
  PROVE  /\ Call(k) # None /\ Call(k).remove = ops[k].remove /\ Call(k).data = Datum(ops[k].val)
         /\ Call(k).st = IF ops[k].st \in Pending THEN "open" ELSE ops[k].st
         /\ Call(k) = [remove |-> ops[k].remove, data |-> Datum(ops[k].val), st |-> Call(k).st]
<1> DEFINE d == Datum(ops[k].val)
<1>1. /\ ops[k].remove \in BOOLEAN /\ d \in {Datum(v) : v \in ValsOf[k]}
      /\ ops[k].st \in Pending \cup {"ok", "failed"}
  BY DEF Op, Pending
<1> HIDE DEF d
<1>2. Call(k) = [remove |-> ops[k].remove, data |-> d,
                 st |-> IF ops[k].st \in {"ok", "failed"} THEN ops[k].st ELSE "open"]
  BY DEF Call, d
<1>3. Call(k) \in [remove : BOOLEAN, data : {Datum(v) : v \in ValsOf[k]},
                   st : {"open", "ok", "failed"}]
  BY <1>1, <1>2
<1>4. Call(k) # None
  BY <1>3, CallAssumption DEF CallAssumption
<1>. QED
  BY <1>1, <1>2, <1>4 DEF Pending, d

\* The same, of the call that a step leaves behind.
LEMMA NextCallTerms ==
  ASSUME NEW k \in Keys, ops'[k] # None, ops'[k] \in Op(k)
  PROVE  /\ Call(k)' # None
         /\ Call(k)'.remove = ops'[k].remove /\ Call(k)'.data = Datum(ops'[k].val)
         /\ Call(k)'.st = IF ops'[k].st \in Pending THEN "open" ELSE ops'[k].st
         /\ Call(k)' = [remove |-> ops'[k].remove, data |-> Datum(ops'[k].val),
                        st |-> Call(k)'.st]
<1> DEFINE d == Datum(ops'[k].val)
<1>1. /\ ops'[k].remove \in BOOLEAN /\ d \in {Datum(v) : v \in ValsOf[k]}
      /\ ops'[k].st \in Pending \cup {"ok", "failed"}
  BY DEF Op, Pending
<1>2. Call(k)' = [remove |-> ops'[k].remove, data |-> d,
                  st |-> IF ops'[k].st \in {"ok", "failed"} THEN ops'[k].st ELSE "open"]
  BY DEF Call, Datum
<1> HIDE DEF d
<1>3. Call(k)' \in [remove : BOOLEAN, data : {Datum(v) : v \in ValsOf[k]},
                    st : {"open", "ok", "failed"}]
  BY <1>1, <1>2
<1>4. Call(k)' # None
  BY <1>3, CallAssumption DEF CallAssumption
<1>. QED
  BY <1>1, <1>2, <1>4 DEF Pending, d

\* What a list holds of a record, as Upstream sees it.
LEMMA ServedTerms ==
  ASSUME NEW k \in Keys
  PROVE  /\ Own(k) = {} => Served(k) = {}
         /\ \A v : Own(k) = {Entry(k, v)} => Served(k) = {Datum(v)}
<1>1. \A v : Entry(k, v).val = v
  BY DEF Entry
<1>. QED
  BY <1>1 DEF Served

UpstreamStep(k) ==
  \/ UNCHANGED <<Call(k), Served(k), Remembered(k)>>
  \/ Abstract!Begin(k) \/ Abstract!Effect(k) \/ Abstract!Return(k) \/ Abstract!End(k)

LEMMA OpStays ==
  ASSUME NEW k \in Keys, ops[k] # None, ops[k] \in Op(k), ops'[k] # None, ops'[k] \in Op(k),
         ops'[k].remove = ops[k].remove, ops'[k].val = ops[k].val,
         ops[k].st \in Pending, ops'[k].st \in Pending
  PROVE  UNCHANGED Call(k)
  BY CallTerms, NextCallTerms

LEMMA OpReturns ==
  ASSUME NEW k \in Keys, ops[k] # None, ops[k] \in Op(k), ops'[k] # None, ops'[k] \in Op(k),
         ops'[k].remove = ops[k].remove, ops'[k].val = ops[k].val, ops[k].st \in Pending,
         \/ ops'[k].st = "failed"
         \/ ops'[k].st = "ok" /\ Own(k) = IF ops[k].remove THEN {} ELSE {Target(k)},
         UNCHANGED <<lists, stored>>
  PROVE  UpstreamStep(k)
<1>1. UNCHANGED <<Served(k), Remembered(k)>>
  BY DEF Served, Own, Remembered
<1>2. Call(k) # None /\ Call(k).st = "open" /\ Call(k)' = [Call(k) EXCEPT !.st = ops'[k].st]
  BY CallTerms, NextCallTerms DEF Pending
<1>3. ops'[k].st = "ok" => Abstract!Achieved(k)
  <2> SUFFICES ASSUME Own(k) = IF ops[k].remove THEN {} ELSE {Target(k)}
               PROVE  Abstract!Achieved(k)
    OBVIOUS
  <2>1. Served(k) = IF ops[k].remove THEN {} ELSE {Datum(ops[k].val)}
    BY ServedTerms DEF Target
  <2>. QED
    BY <2>1, CallTerms DEF Abstract!Achieved, Abstract!Alike
<1>. QED
  BY <1>1, <1>2, <1>3 DEF UpstreamStep, Abstract!Return, Abstract!Open

LEMMA UpstreamSteps ==
  ASSUME DistinctNames, TypeInv, TruthInv, TruthInv', Next, NEW k \in Keys, SoleWriter(k)
  PROVE  UpstreamStep(k)
<1>0. ListOf[k] \in Lists /\ (ops[k] # None => ops[k] \in Op(k)) /\ Agrees(k) /\ Agrees(k)'
  BY PiHoleAssumption DEF PiHoleAssumption, TypeInv, TypeOK, TruthInv, SoleWriter
<1>1. ASSUME UNCHANGED <<ops[k], stored[k], Own(k)>> PROVE UpstreamStep(k)
  BY <1>1 DEF UpstreamStep, Call, Served, Remembered
<1>2. CASE Plan
  <2>1. ops[k] = None /\ UNCHANGED <<stored[k], Own(k)>> /\ TypeInv'
    BY <1>2, TypeNext DEF Plan, Own
  <2>2. CASE ops'[k] = None
    BY <1>1, <2>1, <2>2
  <2>3. CASE ops'[k] # None
    <3>1. ops'[k] \in Op(k) /\ ops'[k].st = "queued"
      BY <1>2, <2>1, <2>3 DEF Plan, TypeInv, TypeOK
    <3>2. Call(k) = None /\ UNCHANGED <<Served(k), Remembered(k)>>
      BY <2>1 DEF Call, Served, Remembered
    <3>3. Call(k)' # None /\ Call(k)'.st = "open"
      BY <2>3, <3>1, NextCallTerms DEF Pending
    <3>. QED
      BY <3>2, <3>3 DEF UpstreamStep, Abstract!Begin
  <2>. QED
    BY <2>2, <2>3
<1>3. CASE Finish
  <2>1. /\ ops'[k] = None /\ UNCHANGED Own(k)
        /\ stored'[k] = IF ops[k] # None THEN Result(k) ELSE stored[k]
        /\ ops[k] # None => OpIn(k, {"ok", "failed"}) /\ ops[k] \in Op(k)
    BY <1>0, <1>3 DEF Finish, Own
  <2>2. CASE ops[k] = None
    BY <1>1, <2>1, <2>2
  <2>3. CASE ops[k] # None
    <3>1. /\ Call(k) # None /\ Call(k).st \in {"ok", "failed"} /\ Call(k).st = ops[k].st
          /\ Call(k).remove = ops[k].remove /\ Call(k).data = Datum(ops[k].val)
      BY <2>1, <2>3, CallTerms DEF OpIn, Pending
    <3>2. Call(k)' = None /\ UNCHANGED Served(k)
      BY <2>1 DEF Call, Served
    <3>3. CASE ops[k].st = "ok" /\ ops[k].remove
      <4>1. Remembered(k)' = None
        BY <2>1, <2>3, <3>3 DEF Result, Remembered
      <4>. QED
        BY <3>1, <3>2, <3>3, <4>1 DEF UpstreamStep, Abstract!End
    <3>4. CASE ~(ops[k].st = "ok" /\ ops[k].remove)
      <4> DEFINE status == CASE ops[k].st = "ok" -> "synced"
                             [] ops[k].st # "ok" /\ ops[k].remove -> "pending_delete"
                             [] OTHER -> "failed"
      <4>1. stored'[k] = [val |-> ops[k].val, status |-> status]
        BY <2>1, <2>3, <3>4 DEF Result
      <4>2. stored'[k] \in StoreEntry(k)
        BY <2>1, <2>3, <4>1 DEF Op, StoreEntry
      <4>3. stored'[k].val = ops[k].val /\ stored'[k].status = status /\ stored'[k] # None
        BY <4>1, <4>2, NoneIsNoValue
      <4>4. Remembered(k)' = [data |-> Datum(ops[k].val), status |-> status]
        BY <4>3 DEF Remembered, Datum
      <4>. QED
        BY <3>1, <3>2, <3>4, <4>4 DEF UpstreamStep, Abstract!End
    <3>. QED
      BY <3>3, <3>4
  <2>. QED
    BY <2>2, <2>3
<1>4. ASSUME NEW j \in Keys, Get(j) PROVE UpstreamStep(k)
  <2>1. /\ UNCHANGED <<lists, stored>> /\ OpIn(j, {"queued"})
        /\ \A i \in Keys : i # j => ops'[i] = ops[i]
        /\ ops'[j] \in Op(j) /\ ops'[j] # None
        /\ ops'[j].remove = ops[j].remove /\ ops'[j].val = ops[j].val
        /\ ops'[j].st \in {"got", "ok"}
    BY <1>4, GetOps, NoneIsNoValue DEF Get
  <2>2. CASE j # k
    BY <1>1, <2>1, <2>2 DEF Own
  <2>3. CASE j = k /\ ops'[k].st = "got"
    BY <1>0, <2>1, <2>3, OpStays DEF UpstreamStep, OpIn, Pending, Served, Own, Remembered
  <2>4. CASE j = k /\ ops'[k].st = "ok"
    <3>1. Own(k) = IF ops[k].remove THEN {} ELSE {Target(k)}
      BY <1>0, <2>1, <2>4 DEF Agrees, OpIn, Own, Target
    <3>. QED
      BY <1>0, <2>1, <2>4, <3>1, OpReturns DEF OpIn, Pending
  <2>. QED
    BY <2>1, <2>2, <2>3, <2>4
<1>5. ASSUME NEW j \in Keys, Answer(j) \/ Resend(j) \/ Fail(j) PROVE UpstreamStep(k)
  <2>1. UNCHANGED <<lists, stored>> /\ ops[j] # None /\ ops[j].st \in Pending
    BY <1>5 DEF Answer, Resend, Fail, OpIn, Pending
  <2>2. PICK s \in {"ok", "got", "failed"} :
          ops' = [ops EXCEPT ![j].st = s] /\ (s = "ok" => OpIn(j, {"patched"}))
    BY <1>5 DEF Answer, Resend, Fail
  <2>3. /\ \A i \in Keys : i # j => ops'[i] = ops[i]
        /\ ops'[j] \in Op(j) /\ ops'[j] # None /\ ops'[j].st = s
        /\ ops'[j].remove = ops[j].remove /\ ops'[j].val = ops[j].val
    BY <2>1, <2>2, MoveOps, NoneIsNoValue
  <2>4. CASE j # k
    BY <1>1, <2>1, <2>3, <2>4 DEF Own
  <2>6. CASE j = k /\ s = "got"
    BY <1>0, <2>1, <2>3, <2>6, OpStays DEF UpstreamStep, Pending, Served, Own, Remembered
  <2>5. CASE j = k /\ s # "got"
    <3>1. s = "ok" => Own(k) = IF ops[k].remove THEN {} ELSE {Target(k)}
      BY <1>0, <2>2, <2>5 DEF Agrees, OpIn
    <3>. QED
      BY <1>0, <2>1, <2>2, <2>3, <2>5, <3>1, OpReturns
  <2>. QED
    BY <2>4, <2>5, <2>6
<1>6. ASSUME NEW j \in Keys, Patch(j) PROVE UpstreamStep(k)
  <2>1. /\ UNCHANGED stored /\ OpIn(j, {"got"}) /\ ops[j] # None
        /\ \A i \in Keys : i # j => ops'[i] = ops[i]
        /\ ops'[j] \in Op(j) /\ ops'[j] # None /\ ops'[j].st = "patched"
        /\ ops'[j].remove = ops[j].remove /\ ops'[j].val = ops[j].val
    BY <1>6, MoveOps, NoneIsNoValue DEF Patch, OpIn
  <2>2. CASE j # k
    <3>1. Own(k)' = Own(k)
      BY <1>6, <2>2, OthersKept
    <3>. QED
      BY <1>1, <2>1, <2>2, <3>1
  <2>3. CASE j = k
    <3>1. /\ Call(k) # None /\ Call(k).st = "open" /\ UNCHANGED Call(k)
          /\ Call(k).remove = ops[k].remove /\ Call(k).data = Datum(ops[k].val)
      BY <1>0, <2>1, <2>3, CallTerms, OpStays DEF OpIn, Pending
    <3>2. Own(k)' = IF ops[k].remove THEN {} ELSE {Entry(k, ops[k].val)}
      BY <1>0, <2>1, <2>3 DEF Agrees, OpIn, Target, Entry
    <3>3. Served(k)' = IF ops[k].remove THEN {} ELSE {Datum(ops[k].val)}
      <4>1. Entry(k, ops[k].val).val = ops[k].val
        BY DEF Entry
      <4>. QED
        BY <3>2, <4>1 DEF Served, Datum
    <3>4. UNCHANGED Remembered(k)
      BY <2>1 DEF Remembered
    <3>. QED
      BY <3>1, <3>3, <3>4
      DEF UpstreamStep, Abstract!Effect, Abstract!Open, Abstract!Achieved, Abstract!Alike
  <2>. QED
    BY <2>2, <2>3
<1>7. ASSUME NEW j \in Keys, Edit(j) PROVE UpstreamStep(k)
  BY <1>1, <1>7 DEF Edit, Own
<1>8. ASSUME NEW l \in Lists, EditByHand(l) PROVE UpstreamStep(k)
  <2>1. UNCHANGED <<ops, stored>> /\ Own(k)' = Own(k)
    BY <1>8, HandEditsApart DEF EditByHand
  <2>. QED
    BY <1>1, <2>1
<1>. QED
  BY <1>2, <1>3, <1>4, <1>5, <1>6, <1>7, <1>8 DEF Next, System

\* Where one worker at a time has to do with a list, and no two records of it have the
\* same name, the calls for a record are calls of an upstream: the list read, edited and
\* sent back changes at the record's own name, at once, or not at all.
THEOREM PiHoleIsUpstream == DistinctNames /\ Spec => ImplementsUpstream
<1>1. Init => Abstract!Init
  <2> SUFFICES ASSUME Init PROVE Abstract!Init
    OBVIOUS
  <2>1. \A k \in Keys : Served(k) = {} /\ Call(k) = None /\ Remembered(k) = None
    BY NothingOwned, ServedTerms DEF Init, Call, Remembered
  <2>. QED
    BY <2>1 DEF Abstract!Init
<1>2. SUFFICES ASSUME DistinctNames PROVE Spec => ImplementsUpstream
  OBVIOUS
<1>3. TypeInv /\ TruthInv /\ TruthInv' /\ [Next]_vars => [Abstract!Next]_(Abstract!vars)
  <2> SUFFICES ASSUME TypeInv, TruthInv, TruthInv', [Next]_vars
               PROVE  Abstract!Next \/ UNCHANGED Abstract!vars
    OBVIOUS
  <2>1. CASE Next
    <3>1. \A k \in {j \in Keys : SoleWriter(j)} : UpstreamStep(k)
      BY <1>2, <2>1, UpstreamSteps
    <3>. QED
      BY <3>1 DEF UpstreamStep, SoleWriter, Abstract!Next
  <2>2. CASE UNCHANGED vars
    BY <2>2 DEF vars, Own, Served, Call, Remembered, SoleWriter, Abstract!vars
  <2>. QED
    BY <2>1, <2>2
<1>4. Spec => []TruthInv
  BY <1>2, TruthAlways
<1>. QED
  BY <1>1, <1>3, <1>4, TypeAlways, PTL DEF Spec, ImplementsUpstream, Abstract!Spec
=============================================================================
