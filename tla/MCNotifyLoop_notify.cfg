SPECIFICATION FairSpec
CONSTANTS
  Docker = {docker}
  Yaml = {files}
  Syncs <- SomeSyncs
  MaxChanges = 2
  MaxFaults = 1
INVARIANTS TypeOK NothingLost
PROPERTIES ChangesSeen EverybodyStops
CHECK_DEADLOCK FALSE
