---------------------------- MODULE MCNotifyLoop ----------------------------
(* Sync settings for model checking NotifyLoop. *)
EXTENDS NotifyLoop

\* Events with debounce; polling alone; events with the ticker.
SomeSyncs ==
  { [poll |-> FALSE, events |-> TRUE, ticker |-> FALSE, debounce |-> TRUE],
    [poll |-> TRUE, events |-> FALSE, ticker |-> FALSE, debounce |-> FALSE],
    [poll |-> FALSE, events |-> TRUE, ticker |-> TRUE, debounce |-> FALSE] }
=============================================================================
