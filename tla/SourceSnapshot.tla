--------------------------- MODULE SourceSnapshot ---------------------------
(***************************************************************************)
(* What a source reads while what it reads from changes: Snapshot of the   *)
(* YAML source, file by file, and of the Docker source (pkg/source), under *)
(* Collector.Collect (internal/reconcile/collect.go).  Reconcile takes a   *)
(* snapshot for one step; of the pass only its outcome is left here, with  *)
(* every operation successful.                                             *)
(*                                                                         *)
(* A unit is a file or a container; a key is a record of a unit.  Labels   *)
(* never change: a container is created with them.                         *)
(***************************************************************************)
EXTENDS Naturals

CONSTANTS Kinds, Units, RecordIds, Values,
          None, Invalid,  \* no such record; one that fails validation
          Broken,         \* the body of a file that cannot be read or parsed
          MaxEvents       \* bound on edits, faults and restarts

Keys == Units \X RecordIds
Records == [RecordIds -> Values \cup {None, Invalid}]
Bodies == Records \cup {Broken}
\* The base directory is readable, not there, or there and its files cannot be listed
\* (permissions withdrawn, or a mount dropped that leaves its mount point).
Dirs == {"up", "gone", "hidden"}

ASSUME SnapshotAssumption ==
  /\ Kinds \subseteq {"yaml", "docker"} /\ Units \subseteq Nat
  /\ None \notin Values /\ Invalid \notin Values /\ None # Invalid
  /\ Broken \notin Records /\ MaxEvents \in Nat

VARIABLES
  kind, strict,     \* the source, and sync.strict_validation
  dir, present, body,  \* base directory, units that exist, their records
  pc, todo, got,    \* Snapshot: where it is, files still to read, records so far
  lastGood,         \* of the collector
  stored,           \* what the pass has left in store and upstream
  during,           \* history: what each key has said since the snapshot began
  base,             \* history: was the directory "seen" by the glob, "unseen", or "back":
                    \* not listed by it, yet there afterwards
  events

world == <<kind, dir, present, body>>
vars == <<world, strict, pc, todo, got, lastGood, stored, during, base, events>>

Maybe == [Keys -> Values \cup {None}]
Nothing == [k \in Keys |-> None]

TypeOK ==
  /\ kind \in Kinds /\ strict \in BOOLEAN
  /\ dir \in Dirs /\ present \subseteq Units
  /\ body \in [Units -> Bodies]
  /\ pc \in {"idle", "stat", "read", "failed"} /\ todo \subseteq Units /\ got \in Maybe
  /\ (pc # "read" => todo = {} /\ got = Nothing)
  /\ lastGood \in Maybe /\ stored \in Maybe
  /\ during \in [Keys -> SUBSET (Values \cup {None})]
  /\ base \in {"seen", "unseen", "back"} /\ events \in 0..MaxEvents

Event == events > 0 /\ events' = events - 1
-----------------------------------------------------------------------------
(* Parsing *)

HasInvalid(u) == body[u] # Broken /\ \E i \in RecordIds : body[u][i] = Invalid

\* The records of a unit without the invalid ones.  Before it, a variant that does not
\* validate.
ParsedUnchecked(u) == [i \in RecordIds |-> IF body[u] = Broken THEN None ELSE body[u][i]]
Parsed(u) ==
  [i \in RecordIds |-> IF body[u] = Broken \/ body[u][i] = Invalid THEN None ELSE body[u][i]]

\* When parseFile returns an error.
parseFileFails(u) ==
  dir # "up" \/ u \notin present \/ body[u] = Broken \/ (strict /\ HasInvalid(u))

\* An error of parseLabels only loses the container.
parseLabels(u) == IF strict /\ HasInvalid(u) THEN [i \in RecordIds |-> None] ELSE Parsed(u)

\* What a key says now, if its unit can be read: nothing is known of a file that cannot,
\* be it for its directory, its syntax or, if validation is strict, one of its records.
Readable(u) == kind = "docker" \/ (dir = "up" /\ (u \notin present \/ ~parseFileFails(u)))
Says(k) ==
  IF k[1] \notin present THEN None
  ELSE IF kind = "docker" THEN parseLabels(k[1])[k[2]] ELSE Parsed(k[1])[k[2]]
Known(k) == IF Readable(k[1]) THEN {Says(k)} ELSE {}
-----------------------------------------------------------------------------
(* Snapshot *)

Begin == pc = "idle" /\ during' = [k \in Keys |-> Known(k)]
Ended == during' = [k \in Keys |-> {}] /\ base' = "seen"

\* The YAML source: filepath.Glob, which passes over a directory that cannot be read.
Glob ==
  /\ kind = "yaml" /\ Begin
  /\ todo' = IF dir = "up" THEN present ELSE {}
  /\ pc' = IF todo' = {} THEN "stat" ELSE "read"
  /\ base' = CASE dir = "up" -> "seen" [] dir = "gone" -> "unseen" [] OTHER -> "back"
  /\ UNCHANGED <<world, strict, got, lastGood, stored, events>>

\* Nothing matched: os.Stat, later, tells a failure from an empty snapshot.  Before it,
\* a variant that trusts the glob.
StatTrusts ==
  /\ pc = "stat" /\ pc' = "read"
  /\ UNCHANGED <<world, strict, todo, got, lastGood, stored, during, base, events>>
Stat ==
  /\ pc = "stat"
  /\ pc' = IF dir = "gone" THEN "failed" ELSE "read"
  /\ UNCHANGED <<world, strict, todo, got, lastGood, stored, during, base, events>>

\* The files are read in the order of their names; an error ends the snapshot.  Before
\* it, a variant that leaves the file out.
parseFileSkips(u) ==
  /\ kind = "yaml" /\ pc = "read" /\ u \in todo /\ \A w \in todo : u <= w
  /\ todo' = todo \ {u} /\ UNCHANGED pc
  /\ got' = [k \in Keys |-> IF k[1] = u /\ ~parseFileFails(u) THEN Parsed(u)[k[2]] ELSE got[k]]
  /\ UNCHANGED <<world, strict, lastGood, stored, during, base, events>>
parseFile(u) ==
  /\ kind = "yaml" /\ pc = "read" /\ u \in todo /\ \A w \in todo : u <= w
  /\ \/ /\ parseFileFails(u)
        /\ pc' = "failed" /\ todo' = {} /\ got' = Nothing
     \/ /\ ~parseFileFails(u)
        /\ todo' = todo \ {u} /\ UNCHANGED pc
        /\ got' = [k \in Keys |-> IF k[1] = u THEN Parsed(u)[k[2]] ELSE got[k]]
  /\ UNCHANGED <<world, strict, lastGood, stored, during, base, events>>

\* The Docker source: one call, and labels that come with the list.  Before it, a
\* variant that one container fails.
ContainerListOrNothing ==
  /\ kind = "docker" /\ Begin
  /\ \/ /\ ~\E u \in present : strict /\ HasInvalid(u)
        /\ pc' = "read" /\ UNCHANGED events
        /\ got' = [k \in Keys |-> IF k[1] \in present THEN Parsed(k[1])[k[2]] ELSE None]
     \/ pc' = "failed" /\ UNCHANGED <<got, events>>
  /\ UNCHANGED <<world, strict, todo, lastGood, stored, base>>
ContainerList ==
  /\ kind = "docker" /\ Begin
  /\ \/ /\ pc' = "read" /\ UNCHANGED events
        /\ got' = [k \in Keys |-> Says(k)]
     \/ pc' = "failed" /\ Event /\ UNCHANGED got
  /\ UNCHANGED <<world, strict, todo, lastGood, stored, base>>

\* Collect, and what the pass makes of it: a clean snapshot replaces everything.
CollectOk ==
  /\ pc = "read" /\ todo = {}
  /\ lastGood' = got /\ stored' = got
  /\ pc' = "idle" /\ got' = Nothing /\ Ended
  /\ UNCHANGED <<world, strict, todo, events>>

\* After a failure the last good records are used, and nothing is deleted.
CollectFails ==
  /\ pc = "failed"
  /\ stored' = [k \in Keys |-> IF lastGood[k] # None THEN lastGood[k] ELSE stored[k]]
  /\ pc' = "idle" /\ Ended
  /\ UNCHANGED <<world, strict, todo, got, lastGood, events>>

\* The process ends and starts again, perhaps with another strict_validation.
Restart ==
  /\ Event /\ strict' \in BOOLEAN
  /\ pc' = "idle" /\ todo' = {} /\ got' = Nothing /\ Ended
  /\ lastGood' = Nothing
  /\ UNCHANGED <<world, stored>>
-----------------------------------------------------------------------------
(* Users: a file or container appears or goes away, a file is written, something
   happens to the directory. *)

Noted ==
  /\ during' = [k \in Keys |-> IF pc = "idle" THEN {} ELSE during[k] \cup Known(k)']
  /\ base' = IF base = "unseen" /\ pc = "stat" /\ dir' # "gone" THEN "back" ELSE base

Edit(u) ==
  /\ Event /\ UNCHANGED <<kind, strict>>
  /\ \/ present' \in {present \cup {u}, present \ {u}} /\ UNCHANGED <<dir, body>>
     \/ /\ kind = "yaml" /\ \E b \in Bodies : body' = [body EXCEPT ![u] = b]
        /\ UNCHANGED <<dir, present>>
     \/ kind = "yaml" /\ dir' \in Dirs /\ UNCHANGED <<present, body>>
  /\ world' # world /\ Noted
  /\ UNCHANGED <<pc, todo, got, lastGood, stored>>

Init ==
  /\ kind \in Kinds /\ strict \in BOOLEAN
  /\ dir = "up" /\ present = Units
  /\ body \in [Units -> Records] /\ \A u \in Units, i \in RecordIds : body[u][i] # None
  /\ pc = "idle" /\ todo = {} /\ got = Nothing /\ during = [k \in Keys |-> {}] /\ base = "seen"
  /\ lastGood = Nothing /\ stored = Nothing /\ events = MaxEvents

Collect ==
  \/ Glob \/ Stat \/ ContainerList \/ CollectOk \/ CollectFails
  \/ \E u \in Units : parseFile(u)
Next == Collect \/ Restart \/ \E u \in Units : Edit(u)
Spec == Init /\ [][Next]_vars

\* Passes keep coming; edits, faults and restarts are finite.
FairSpec == Spec /\ WF_vars(Collect)
-----------------------------------------------------------------------------
(* Properties *)

\* A snapshot that succeeds may mix moments, but it gives each record as it was, or
\* leaves it out if it was not there, at some moment of the snapshot: files that come
\* and go between the glob and their turn, or break, are never taken for removals.  The
\* one exception: the glob could not list the directory and Stat finds it there, because
\* it came back between the two or was there all the time.
SnapshotRegular ==
  pc = "read" /\ todo = {} /\ base # "back" => \A k \in Keys : got[k] \in during[k]

\* "No data means no change": but for the same exception, a pass deletes a record only
\* if its source said, in this pass, that it is not there.  A directory that has
\* vanished, a broken file, an unreachable daemon and a restart before the first good
\* snapshot delete nothing.
DeletedOnlyIfGone ==
  [][base # "back" =>
       \A k \in Keys : stored[k] # None /\ stored'[k] = None => None \in during[k]]_vars

\* Once edits and faults cease, what is stored is what the source says, if all of it
\* can be read: for Docker, whatever one container has wrong.
InStepInTheEnd ==
  <>[]((\A k \in Keys : Known(k) # {}) => \A k \in Keys : Known(k) = {stored[k]})
=============================================================================
