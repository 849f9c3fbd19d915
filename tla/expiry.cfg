SPECIFICATION FairExpiringSpec
CONSTANTS
  Creators = {c1}
  Proposals = {}
  Submitters = {s1}
  Executors = {}
  Requests = {c1,s1}
  Approvals = {a1}
  Users = {u1,u2}
  SchedulerActor = SchedulerActor
  Payloads = {v1}
  ProposalKeys = {}
  DecisionKeys = {}
  ExecKeys = {}
  CreateKeys = {}
  MaxFaults = 1
  Ambiguous = TRUE
  AckLoss = TRUE
  None = None
  Sweeps = {w1,w2}
  Escalating = {a1}
  Steps = 1
INVARIANTS
  ExpiringTypeOK
  EscalatedOncePerLife
PROPERTIES
  ExpiredIsFinal
  OverdueSettles
