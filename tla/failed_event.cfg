SPECIFICATION FairSpec
CONSTANTS
  Events = {1,2}
  Dispatchers = {d1}
  BatchSize = 1
  ListWindow = 5
  MaxFaults = 1
  Workers = {}
  FetchSize = 10
  Nothing = Nothing
PROPERTY FailedIsRetried
CHECK_DEADLOCK FALSE
