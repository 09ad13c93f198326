------------------------ MODULE SourceSnapshotProofs ------------------------
(***************************************************************************)
(* Theorems about SourceSnapshot, for any number of files, containers and  *)
(* records.                                                                *)
(***************************************************************************)
EXTENDS SourceSnapshot, TLAPS

Said == Values \cup {None}

\* The state of the world, and what it says.
WorldOK ==
  /\ kind \in Kinds /\ strict \in BOOLEAN
  /\ dir \in Dirs /\ present \subseteq Units
  /\ body \in [Units -> Bodies]

LEMMA ParsedType == WorldOK => \A u \in Units, i \in RecordIds : Parsed(u)[i] \in Said
  BY DEF WorldOK, Parsed, Said, Bodies, Records

LEMMA LabelsType == WorldOK => \A u \in Units, i \in RecordIds : parseLabels(u)[i] \in Said
  BY ParsedType DEF parseLabels, Said

AllKnown == \A k \in Keys : Known(k) \subseteq Said

LEMMA KnownType == WorldOK => AllKnown
<1> SUFFICES ASSUME WorldOK, NEW k \in Keys PROVE Known(k) \subseteq Said
  BY DEF AllKnown
<1>1. k[1] \in Units /\ k[2] \in RecordIds
  BY DEF Keys
<1>2. Parsed(k[1])[k[2]] \in Said /\ parseLabels(k[1])[k[2]] \in Said /\ None \in Said
  BY <1>1, ParsedType, LabelsType DEF Said
<1>. QED
  BY <1>2 DEF Known, Says

\* The source, the collector and what is stored stay well typed; a snapshot that is
\* over has left nothing behind.
THEOREM TypeCorrect == Spec => []TypeOK
<1>1. Init => TypeOK
  BY SnapshotAssumption
  DEF SnapshotAssumption, Init, TypeOK, Maybe, Nothing, Keys, Bodies, Dirs
<1>2. TypeOK /\ [Next]_vars => TypeOK'
  <2> SUFFICES ASSUME TypeOK, [Next]_vars PROVE TypeOK'
    OBVIOUS
  <2>1. AllKnown
    BY KnownType DEF TypeOK, WorldOK
  <2>2. Nothing \in Maybe
    BY DEF Nothing, Maybe
  <2> USE SnapshotAssumption DEF SnapshotAssumption, TypeOK, world
  <2>3. CASE Glob
    BY <2>1, <2>3 DEF Glob, Begin, AllKnown, Said
  <2>11. CASE Stat
    BY <2>11 DEF Stat
  <2>4. ASSUME NEW u \in Units, parseFile(u) PROVE TypeOK'
    <3>1. \A i \in RecordIds : Parsed(u)[i] \in Said
      BY ParsedType DEF WorldOK
    <3>2. got' \in Maybe
      BY <2>2, <2>4, <3>1 DEF parseFile, Maybe, Keys, Said
    <3>. QED
      BY <2>4, <3>2 DEF parseFile
  <2>5. CASE ContainerList
    <3>1. \A k \in Keys : Says(k) \in Said
      <4> SUFFICES ASSUME NEW k \in Keys PROVE Says(k) \in Said
        OBVIOUS
      <4>1. k[1] \in Units /\ k[2] \in RecordIds
        BY DEF Keys
      <4>. QED
        BY <4>1, ParsedType, LabelsType DEF WorldOK, Says, Said
    <3>2. got' \in Maybe
      BY <2>2, <2>5, <3>1 DEF ContainerList, Maybe, Said
    <3>. QED
      BY <2>1, <2>5, <3>2 DEF ContainerList, Begin, AllKnown, Said, Event
  <2>6. CASE CollectOk
    BY <2>2, <2>6 DEF CollectOk, Ended
  <2>7. CASE CollectFails
    BY <2>7 DEF CollectFails, Ended, Maybe
  <2>8. CASE Restart
    BY <2>2, <2>8 DEF Restart, Ended, Event
  <2>9. ASSUME NEW u \in Units, Edit(u) PROVE TypeOK'
    <3>1. WorldOK'
      BY <2>9 DEF Edit, WorldOK
    <3>2. AllKnown'
      BY <3>1, KnownType, PTL
    <3>3. during' \in [Keys -> SUBSET (Values \cup {None})]
      BY <2>9, <3>2 DEF Edit, Noted, AllKnown, Said
    <3>. QED
      BY <2>9, <3>1, <3>3 DEF Edit, Event, Noted, WorldOK
  <2>10. CASE UNCHANGED vars
    BY <2>10 DEF vars
  <2>. QED
    BY <2>3, <2>4, <2>5, <2>6, <2>7, <2>8, <2>9, <2>10, <2>11 DEF Next, Collect
<1>. QED
  BY <1>1, <1>2, PTL DEF Spec
-----------------------------------------------------------------------------
(* A clean snapshot is regular *)

\* While a snapshot is taken, the history has what every key says now, and what was
\* collected of the units that have had their turn; before Stat, a directory the glob did
\* not see is still gone unless the history says that it is back.
RegularInv ==
  /\ pc \in {"stat", "read"} => \A k \in Keys :
       /\ Known(k) \subseteq during[k]
       /\ base # "back" /\ k[1] \notin todo /\ (pc = "stat" => base = "seen")
            => got[k] \in during[k]
  /\ base = "unseen" => pc = "failed" \/ (pc = "stat" /\ dir = "gone")

LEMMA RegularNext ==
  ASSUME TypeOK, RegularInv, [Next]_vars
  PROVE  RegularInv'
<1> USE DEF TypeOK, RegularInv, world
<1>1. CASE Glob
  <2>1. SUFFICES ASSUME NEW k \in Keys
                 PROVE  /\ Known(k)' \subseteq during'[k]
                        /\ k[1] \notin todo' /\ base' = "seen" => got'[k] \in during'[k]
    BY <1>1 DEF Glob
  <2>2. Known(k)' = Known(k) /\ during'[k] = Known(k)
    BY <1>1 DEF Glob, Begin, Known, Readable, Says, parseFileFails, HasInvalid, Parsed, parseLabels
  <2>3. got'[k] = None /\ (base' = "seen" => dir = "up")
    BY <1>1 DEF Glob, Begin, Nothing, Dirs
  <2>4. base' = "seen" /\ k[1] \notin todo' => Known(k) = {None}
    BY <1>1, <2>3 DEF Glob, Known, Readable, Says
  <2>. QED
    BY <2>2, <2>3, <2>4
<1>7. CASE Stat
  <2>1. \A k \in Keys : Known(k)' = Known(k)
    BY <1>7 DEF Stat, Known, Readable, Says, parseFileFails, HasInvalid, Parsed, parseLabels
  <2>. QED
    BY <1>7, <2>1 DEF Stat
<1>2. ASSUME NEW u \in Units, parseFile(u) PROVE RegularInv'
  <2>1. SUFFICES ASSUME NEW k \in Keys, pc' = "read"
                 PROVE  /\ Known(k)' \subseteq during'[k]
                        /\ base' # "back" /\ k[1] \notin todo' => got'[k] \in during'[k]
    BY <1>2 DEF parseFile
  <2>2. Known(k)' = Known(k) /\ during'[k] = during[k]
    BY <1>2 DEF parseFile, Known, Readable, Says, parseFileFails, HasInvalid, Parsed, parseLabels
  <2>3. ~parseFileFails(u) /\ kind = "yaml" /\ pc = "read"
    BY <1>2, <2>1 DEF parseFile
  <2>4. CASE k[1] = u
    <3>1. Known(k) = {Parsed(u)[k[2]]}
      BY <2>3, <2>4 DEF Known, Readable, Says, parseFileFails
    <3>2. got'[k] = Parsed(u)[k[2]]
      BY <1>2, <2>3, <2>4 DEF parseFile
    <3>. QED
      BY <2>2, <2>3, <3>1, <3>2
  <2>5. CASE k[1] # u
    BY <1>2, <2>2, <2>3, <2>5 DEF parseFile, Maybe
  <2>. QED
    BY <2>4, <2>5
<1>3. CASE ContainerList
  <2>1. SUFFICES ASSUME NEW k \in Keys, pc' = "read"
                 PROVE  /\ Known(k)' \subseteq during'[k]
                        /\ got'[k] \in during'[k]
    BY <1>3 DEF ContainerList, Begin
  <2>2. Known(k)' = Known(k) /\ during'[k] = Known(k)
    BY <1>3
    DEF ContainerList, Begin, Known, Readable, Says, parseFileFails, HasInvalid, Parsed, parseLabels
  <2>3. Known(k) = {Says(k)} /\ got'[k] = Says(k)
    BY <1>3, <2>1 DEF ContainerList, Known, Readable
  <2>. QED
    BY <2>2, <2>3
<1>4. CASE CollectOk \/ CollectFails \/ Restart
  BY <1>4 DEF CollectOk, CollectFails, Restart, Ended
<1>5. ASSUME NEW u \in Units, Edit(u) PROVE RegularInv'
  BY <1>5 DEF Edit, Noted
<1>6. CASE UNCHANGED vars
  BY <1>6 DEF vars, Known, Readable, Says, parseFileFails, HasInvalid, Parsed, parseLabels
<1>. QED
  BY <1>1, <1>2, <1>3, <1>4, <1>5, <1>6, <1>7 DEF Next, Collect

LEMMA RegularAlways == Spec => []RegularInv
<1>1. Init => RegularInv
  BY DEF Init, RegularInv
<1>2. TypeOK /\ RegularInv /\ [Next]_vars => RegularInv'
  BY RegularNext
<1>. QED
  BY <1>1, <1>2, TypeCorrect, PTL DEF Spec

\* Files that appear, vanish, break or are rewritten while a snapshot goes from one to
\* the next are seen as they were at some moment of it, unless the glob could not list a
\* directory that Stat then finds.
THEOREM SnapshotsRegular == Spec => []SnapshotRegular
<1>1. RegularInv => SnapshotRegular
  BY DEF RegularInv, SnapshotRegular
<1>. QED
  BY <1>1, RegularAlways, PTL

\* No failure and no restart makes a pass delete a record whose source has not said
\* that it is gone, with the same exception.
THEOREM NoDataNoDelete == Spec => DeletedOnlyIfGone
<1> DEFINE Step ==
      base # "back" =>
        \A k \in Keys : stored[k] # None /\ stored'[k] = None => None \in during[k]
<1>1. TypeOK /\ RegularInv /\ [Next]_vars => [Step]_vars
  <2> SUFFICES ASSUME TypeOK, RegularInv, Next PROVE Step
    OBVIOUS
  <2>1. CASE CollectOk
    BY <2>1 DEF CollectOk, RegularInv
  <2>2. CASE CollectFails
    BY <2>2 DEF CollectFails
  <2>3. CASE Restart \/ Glob \/ Stat \/ ContainerList \/ \E u \in Units : parseFile(u) \/ Edit(u)
    BY <2>3 DEF Restart, Glob, Stat, ContainerList, parseFile, Edit
  <2>. QED
    BY <2>1, <2>2, <2>3 DEF Next, Collect
<1>. QED
  BY <1>1, TypeCorrect, RegularAlways, PTL DEF Spec, DeletedOnlyIfGone
=============================================================================
