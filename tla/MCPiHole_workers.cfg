SPECIFICATION FairSpec
CONSTANTS
  Keys = {"h1", "h2", "alias"}
  Lists = {"hosts", "cname"}
  ListOf <- HostsAndAlias
  NameOf <- OwnName
  ValsOf <- OneOrTwoVals
  HandLines <- HandWritten
  Verify = TRUE
  MaxConc = 2
  None = None
  MaxEdits = 2
  MaxFaults = 1
INVARIANTS
  TypeOK
  ListsSound
  SoleWriterTruth
PROPERTIES
  DesiredListed
  ImplementsUpstream
