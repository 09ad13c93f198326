SPECIFICATION Spec
CONSTANTS
  Keys = {"k1", "k2"}
  Sources = {"docker", "yaml"}
  Upstreams = {"cf", "tech"}
  SourceOf <- TwoSources
  UpstreamOf <- TwoUpstreams
  Slots = {"n1", "n2"}
  SlotsOf <- OwnSlot
  Vals = {"a"}
  Prios = {0, 1}
  Attrs = {1, 2}
  AttrBlind = {"tech"}
  ZeroAttr = 1
  PrioBlind = {}
  PrioKept <- FirstPrio
  FullNames <- ShortNames
  None = None
  Configs <- Reconfigured
  Verified = {"tech"}
  Persistent = TRUE
  MaxConc = 2
  Faults = {"snapshot", "upstream", "crash", "panic"}
  MaxEdits = 1
  MaxFaults = 2
  MaxRetries = 1
CONSTRAINT FewRecords
INVARIANTS
  SyncedIsApplied
  CorrectsOnlyDrift
PROPERTIES
  NoDataNoChange
