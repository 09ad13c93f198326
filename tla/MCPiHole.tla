------------------------------ MODULE MCPiHole ------------------------------
(* Instances of PiHole for TLC. *)
EXTENDS PiHole

\* Two hosts in one list and an alias in the other, each with its own name; or
\* one name for all; a line that people write and remove in each list.
HostsAndAlias == [k \in Keys |-> IF k = "alias" THEN "cname" ELSE "hosts"]
OwnName == [k \in Keys |-> k]
OneName == [k \in Keys |-> "host"]
OneOrTwoVals == [k \in Keys |-> IF k = "h2" THEN {"a"} ELSE {"a", "b"}]
HandWritten == [l \in Lists |-> {[name |-> "by hand", val |-> "a"]}]
=============================================================================
