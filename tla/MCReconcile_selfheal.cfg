SPECIFICATION FairSpec
CONSTANTS
  Keys = {"k1", "k2"}
  Sources = {"docker"}
  Upstreams = {"cf"}
  SourceOf <- OneSource
  UpstreamOf <- OneUpstream
  Slots = {"n1", "n2", "n3"}
  SlotsOf <- Renamable
  Vals = {"a", "b"}
  Prios = {0}
  Attrs = {1}
  AttrBlind = {}
  ZeroAttr = 1
  PrioBlind = {}
  PrioKept <- NoPrio
  FullNames <- ShortNames
  None = None
  Configs <- FixedConfig
  Verified = {}
  Persistent = FALSE
  MaxConc = 1
  Faults = {"snapshot", "abandon", "upstream", "panic", "crash"}
  MaxEdits = 1
  MaxFaults = 2
  MaxRetries = 2
PROPERTIES
  DesiredServed
