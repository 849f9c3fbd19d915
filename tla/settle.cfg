SPECIFICATION FairSpec
CONSTANTS
  Creators = {}
  Proposals = {p1}
  Submitters = {s1}
  Executors = {e1,e2}
  Requests = {p1,s1,e1,e2}
  Approvals = {a1}
  Users = {u1,u2}
  SchedulerActor = SchedulerActor
  Payloads = {v1}
  ProposalKeys = {k1}
  DecisionKeys = {}
  ExecKeys = {x1}
  CreateKeys = {}
  MaxFaults = 0
  Ambiguous = TRUE
  AckLoss = TRUE
  None = None
PROPERTIES
  ExecutionSettles
  DecisionEvidenced
CHECK_DEADLOCK FALSE
