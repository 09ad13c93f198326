SPECIFICATION RecreateSpec
CONSTANTS
  Keys = {"k1", "k2"}
  Sources = {"docker"}
  Upstreams = {"cf"}
  SourceOf <- OneSource
  UpstreamOf <- OneUpstream
  Slots = {"n1", "n2"}
  SlotsOf <- SharedSlot
  Vals = {"a"}
  Prios = {0}
  Attrs = {1}
  AttrBlind = {}
  ZeroAttr = 1
  PrioBlind = {}
  PrioKept <- NoPrio
  FullNames <- ShortNames
  None = None
  Configs <- FixedConfig
  Verified = {}
  Persistent = TRUE
  MaxConc = 2
  Faults = {}
  MaxEdits = 2
  MaxFaults = 2
  MaxRetries = 2
INVARIANTS
  SyncedIsApplied
