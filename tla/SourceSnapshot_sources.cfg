SPECIFICATION FairSpec
CONSTANTS
  Kinds = {"yaml", "docker"}
  Units = {1, 2}
  RecordIds = {"a", "b"}
  Values = {"v", "w"}
  None = None
  Invalid = Invalid
  Broken = Broken
  MaxEvents = 2
INVARIANTS TypeOK SnapshotRegular
PROPERTIES DeletedOnlyIfGone InStepInTheEnd
