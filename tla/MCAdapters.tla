----------------------------- MODULE MCAdapters -----------------------------
(* An instance of Adapters for TLC. *)
EXTENDS Adapters, TLC

\* Two keys compete for a name, the third has a CNAME of its own, whose source may write
\* the name in full or declare a priority, the fourth a type the adapters cannot express.
MCSlotOf == [k \in Keys |-> CASE k \in {"k1","k2"} -> "MX" [] k = "k3" -> "CNAME" [] OTHER -> "SRV"]
D(v, p) == [val |-> v, prio |-> p, note |-> p]
MCStart == [k \in Keys |-> CASE k = "k1" -> D("x", 1) [] k = "k2" -> D("x", 2) [] OTHER -> D("y", 0)]
MCWantsOf ==
  [k \in Keys |-> {MCStart[k], None}
                    \cup CASE k = "k2" -> {D("y", 0)} [] k = "k3" -> {D("x", 0), D("x", 2)} [] OTHER -> {}]
MCFullName == {<<"k3", D("x", 0)>>}
=============================================================================
