SPECIFICATION FairSpec
CONSTANTS
  Requests = {"r1", "r2"}
  None = None
  MaxAttempts = 2
  maxFails = 2
  MaxFaults = 2
  MaxLost = 2
INVARIANTS
  TypeOK
  NewerAfterRejection
  NoFalseAlarm
PROPERTIES
  NoNeedlessLogin
  RequestsReturn
  WrongPasswordTrips
