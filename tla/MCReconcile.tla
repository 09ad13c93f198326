---------------------------- MODULE MCReconcile ----------------------------
(* Instances of Reconcile for TLC: the constants the .cfg files choose from. *)
EXTENDS Reconcile, TLC

\* Both keys come from one source; or each from its own.
OneSource == [k \in Keys |-> "docker"]
TwoSources == [k \in Keys |-> IF k = "k1" THEN "docker" ELSE "yaml"]

\* All records go to one upstream; or the second key to another one.
OneUpstream == [k \in Keys |-> "cf"]
TwoUpstreams == [k \in Keys |-> IF k = "k1" THEN "cf" ELSE "tech"]

\* Every key has a name of its own; all keys share one name; the first key may
\* be renamed in place.
OwnSlot == [k \in Keys |-> {IF k = "k1" THEN "n1" ELSE "n2"}]
SharedSlot == [k \in Keys |-> {"n1"}]
Renamable == [k \in Keys |-> IF k = "k1" THEN {"n1", "n3"} ELSE {"n2"}]

\* No type has a priority; or that of the first key's record has (MX).
NoPrio == [u \in Upstreams |-> {}]
FirstPrio == [u \in Upstreams |-> {"n1"}]

\* Every name is listed as the source writes it; or the second key's is written in full.
ShortNames == [u \in Upstreams |-> {}]
SecondInFull == [u \in Upstreams |-> {"n2"}]

AllLive == [sources |-> Sources, mode |-> [u \in Upstreams |-> "live"]]
DryRun == [sources |-> Sources, mode |-> [u \in Upstreams |-> "dry"]]

\* One fixed configuration; a source added or removed at a restart;
\* dry_run switched on or off; all of these, and an upstream that is removed or fails
\* to initialise.
FixedConfig == {AllLive}
SourceRemoved == {AllLive, [AllLive EXCEPT !.sources = {"yaml"}]}
DryOrLive == {AllLive, DryRun}
Reconfigured ==
  {AllLive, DryRun,
   [AllLive EXCEPT !.sources = {"yaml"}],
   [AllLive EXCEPT !.mode = ("cf" :> "live") @@ ("tech" :> "absent")],
   [AllLive EXCEPT !.mode = ("cf" :> "disabled") @@ ("tech" :> "live")]}

\* Of the records a source may declare, only some: the first key's differ in their
\* priority alone, the second key's have a priority or another comment, not both.
FewRecords ==
  \A k \in Keys : src[k] # None =>
    src[k].attr = ZeroAttr \/ (k = "k2" /\ src[k].prio = 0)

\* Of two keys with one name, one container takes the place of the other: no two are
\* declared at once.
OneContainer == \A j, k \in Keys : src[j] # None /\ src[k] # None => j = k
RecreateSpec == (Init /\ OneContainer) /\ [][Next /\ OneContainer']_vars
=============================================================================
