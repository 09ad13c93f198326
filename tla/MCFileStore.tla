----------------------------- MODULE MCFileStore ----------------------------
(* Instances of FileStore for TLC. *)
EXTENDS FileStore

\* Two records from one source ID, one from another.
TwoSourceIDs == [k \in Keys |-> IF k = "k3" THEN "s2" ELSE "s1"]
=============================================================================
