SPECIFICATION Spec
CONSTANTS
  Keys = {"k1", "k2", "k3"}
  SourceIDs = {"s1", "s2"}
  SourceIDOf <- TwoSourceIDs
  Recs = {"a"}
  None = None
  Torn = Torn
  MaxNest = 2
INVARIANTS
  NeverTorn
PROPERTIES
  ImplementsDurableMap
