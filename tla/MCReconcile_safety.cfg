SPECIFICATION Spec
CONSTANTS
  Keys = {"k1", "k2"}
  Sources = {"docker"}
  Upstreams = {"cf"}
  SourceOf <- OneSource
  UpstreamOf <- OneUpstream
  Slots = {"n1", "n2"}
  SlotsOf <- OwnSlot
  Vals = {"a", "b"}
  Prios = {0}
  Attrs = {1}
  AttrBlind = {}
  ZeroAttr = 1
  PrioBlind = {}
  PrioKept <- NoPrio
  FullNames <- SecondInFull
  None = None
  Configs <- FixedConfig
  Verified = {"cf"}
  Persistent = TRUE
  MaxConc = 2
  Faults = {"snapshot", "upstream", "lost", "flush", "crash", "cancel", "drift"}
  MaxEdits = 2
  MaxFaults = 2
  MaxRetries = 2
INVARIANTS
  TypeOK
  SyncedIsApplied
  GateOnlyOnFailure
  FailuresCounted
  CorrectsOnlyDrift
PROPERTIES
  NoDataNoChange
