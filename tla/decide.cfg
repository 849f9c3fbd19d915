SPECIFICATION Spec
CONSTANTS
  Creators = {c1}
  Proposals = {p1}
  Submitters = {s1,s2}
  Executors = {}
  Requests = {c1,p1,s1,s2}
  Approvals = {a1}
  Users = {u1,u2}
  SchedulerActor = SchedulerActor
  Payloads = {v1}
  ProposalKeys = {k1}
  DecisionKeys = {d1}
  ExecKeys = {}
  CreateKeys = {n1}
  MaxFaults = 1
  Ambiguous = TRUE
  AckLoss = TRUE
  None = None
INVARIANTS
  GovernedTypeOK
  OrphanNeverDecided
  OneDecisionAnnounced
  CachedDecisionStands
SYMMETRY Symmetry
CHECK_DEADLOCK FALSE
