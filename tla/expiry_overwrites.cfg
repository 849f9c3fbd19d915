SPECIFICATION ExpiringSpec
CONSTANTS
  Creators = {c1}
  Proposals = {}
  Submitters = {s1}
  Executors = {}
  Requests = {c1,s1}
  Approvals = {a1}
  Users = {u1,u2}
  SchedulerActor = SchedulerActor
  Payloads = {v1}
  ProposalKeys = {}
  DecisionKeys = {}
  ExecKeys = {}
  CreateKeys = {}
  MaxFaults = 0
  Ambiguous = FALSE
  AckLoss = FALSE
  None = None
  Sweeps = {w1}
  Escalating = {a1}
  Steps = 1
PROPERTIES
  DecisionNotExpired
