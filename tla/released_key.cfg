SPECIFICATION Spec
CONSTANTS
  Creators = {c1}
  Proposals = {}
  Submitters = {s1}
  Executors = {e1,e2}
  Requests = {c1,s1,e1,e2}
  Approvals = {a1}
  Users = {u1,u2}
  SchedulerActor = SchedulerActor
  Payloads = {v1}
  ProposalKeys = {}
  DecisionKeys = {}
  ExecKeys = {x1}
  CreateKeys = {}
  MaxFaults = 1
  Ambiguous = FALSE
  AckLoss = FALSE
  None = None
PROPERTIES
  ReleasedKeyRetries
CHECK_DEADLOCK FALSE
