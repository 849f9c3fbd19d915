SPECIFICATION FairSpec
CONSTANTS
  Events = {1,2}
  Dispatchers = {d1,d2}
  BatchSize = 1
  ListWindow = 1
  MaxFaults = 1
  Workers = {w1}
  FetchSize = 2
  Nothing = Nothing
INVARIANTS
  DeliveryTypeOK
  DuplicatesBounded
  AckedIsProjected
  CheckpointBacked
PROPERTIES
  ContractKept
  PendingIsSettled
  StreamDrains
CHECK_DEADLOCK FALSE
