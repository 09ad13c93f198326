SPECIFICATION FairSpec
CONSTANTS
  Apis = {"cloudflare", "technitium"}
  Keys = {"k1", "k2", "k3", "k4"}
  Slots = {"MX", "CNAME", "SRV"}
  SlotOf <- MCSlotOf
  WantsOf <- MCWantsOf
  Start <- MCStart
  Single = {"CNAME"}
  Unsupported = {"SRV"}
  Prioritized = {"MX"}
  FullName <- MCFullName
  MaxId = 5
  PerPage = 1
  MaxConc = 2
  MaxEvents = 2
  None = None
INVARIANTS
  TypeOK
  NoPileUp
  SyncedServed
  FalseDriftHarmless
PROPERTIES
  DeclaredServed
  ImplementsUpstream
