SPECIFICATION MCFairSpec
CONSTANTS
  Runs = {s1,s2,r1}
  Seeded = {r1}
  Starters = {s1,s2}
  Keys = {k1}
  Operators = {o1,o2}
  Writers = {o1,o2}
  Kinds = {"pause","freeze","resume","handoff","annotate"}
  EntryIds = {1,2}
  MaxTime = 1
  MaxAttempts = 2
  MaxFaults = 1
  None = None
  Unlinked = Unlinked
INVARIANTS
  RunTypeOK
  AnsweredIsAnnounced
  OrphanSharesKey
  CarriedOutIfApproved
  FailsOnlyByLostAck
  ControlEvidenced
  UndoneByEarlierRead
  OrderlyLogVerifies
PROPERTIES
  IllegalMoveIsStale
  ExecutionCloses
CHECK_DEADLOCK FALSE
