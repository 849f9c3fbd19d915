SPECIFICATION Spec
CONSTANTS
  Creators = {c1}
  Proposals = {}
  Submitters = {s1}
  Executors = {e1}
  Requests = {c1,s1,e1}
  Approvals = {a1}
  Users = {u1,u2}
  SchedulerActor = SchedulerActor
  Payloads = {v1}
  ProposalKeys = {}
  DecisionKeys = {}
  ExecKeys = {}
  CreateKeys = {}
  MaxFaults = 0
  Ambiguous = TRUE
  AckLoss = FALSE
  None = None
PROPERTIES
  ReleaseOnlyUnaccepted
CHECK_DEADLOCK FALSE
