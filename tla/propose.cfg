SPECIFICATION Spec
CONSTANTS
  Creators = {}
  Proposals = {p1,p2}
  Submitters = {s1}
  Executors = {e1}
  Requests = {p1,p2,s1,e1}
  Approvals = {a1,a2}
  Users = {u1,u2}
  SchedulerActor = SchedulerActor
  Payloads = {v1,v2}
  ProposalKeys = {k1}
  DecisionKeys = {}
  ExecKeys = {}
  CreateKeys = {}
  MaxFaults = 1
  Ambiguous = TRUE
  AckLoss = TRUE
  None = None
INVARIANTS
  ConsistentProposal
  DispatchedAsApproved
SYMMETRY Symmetry
CHECK_DEADLOCK FALSE
