SPECIFICATION FairSpec
CONSTANTS
  Keys = {"k1"}
  Sources = {"docker", "yaml"}
  Upstreams = {"cf"}
  SourceOf <- OneSource
  UpstreamOf <- OneUpstream
  Slots = {"n1", "n3"}
  SlotsOf <- Renamable
  Vals = {"a", "b"}
  Prios = {0}
  Attrs = {1}
  AttrBlind = {}
  ZeroAttr = 1
  PrioBlind = {}
  PrioKept <- NoPrio
  FullNames <- ShortNames
  None = None
  Configs <- SourceRemoved
  Verified = {"cf"}
  Persistent = TRUE
  MaxConc = 1
  Faults = {"snapshot", "list", "abandon", "upstream", "lost", "panic", "flush", "crash", "cancel", "drift"}
  MaxEdits = 2
  MaxFaults = 2
  MaxRetries = 2
PROPERTIES
  DesiredServed
  OnlyDeclared
