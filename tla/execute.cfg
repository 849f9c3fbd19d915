SPECIFICATION Spec
CONSTANTS
  Creators = {c1}
  Proposals = {}
  Submitters = {s1}
  Executors = {e1,e2}
  Requests = {c1,s1,e1,e2}
  Approvals = {a1}
  Users = {u1,u2,u3}
  SchedulerActor = SchedulerActor
  Payloads = {v1,v2}
  ProposalKeys = {}
  DecisionKeys = {}
  ExecKeys = {x1}
  CreateKeys = {}
  MaxFaults = 1
  Ambiguous = TRUE
  AckLoss = TRUE
  None = None
INVARIANTS
  IndInv
  FourEyes
  SingleClaim
  DispatchOncePerKey
  ExecutingHasReservation
  RedispatchOnlyAfterFailure
  CompletedTellsTruth
PROPERTIES
  LifecycleSpec
SYMMETRY Symmetry
CHECK_DEADLOCK FALSE
