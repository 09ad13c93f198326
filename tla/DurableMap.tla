----------------------------- MODULE DurableMap -----------------------------
(***************************************************************************)
(* What the reconciler may rely on of a persistent store                   *)
(* (internal/registry/registry.go, Store and Batcher): a map in memory and *)
(* the set of maps a restart may come back with.  Those are always maps    *)
(* the store held, and once a call has been acknowledged only its result.  *)
(***************************************************************************)
CONSTANTS Contents,   \* every value the map can take
          Empty       \* what a store without a state file starts with

VARIABLES mem, saved, acked

vars == <<mem, saved, acked>>

Init == mem = Empty /\ saved = {Empty} /\ acked = TRUE

\* A caller changes the map; nothing is promised until the change is
\* acknowledged.
Change ==
  /\ mem' \in Contents /\ acked' = FALSE
  /\ UNCHANGED saved

\* The present map becomes one a restart may find; it may come to nothing.
Save == saved' \in {saved, saved \cup {mem}} /\ acked' = FALSE /\ UNCHANGED mem

\* The caller is told that its changes are safe: no older map can come back.
Acknowledge == saved' = {mem} /\ acked' = TRUE /\ UNCHANGED mem

\* The process starts over with one of the saved maps; after a power loss that
\* is the only one left.
Restart ==
  /\ mem' \in saved
  /\ saved' \in {saved, {mem'}}
  /\ acked' = FALSE

Next == Change \/ Save \/ Acknowledge \/ Restart

Spec == Init /\ [][Next]_vars
=============================================================================
