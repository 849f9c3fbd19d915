SPECIFICATION MCSpec
CONSTANTS
  Proposals = {p1}
  Rollbacks = {r1,r2}
  Approvals = {a1,a2}
  Reports = {t1}
  Users = {u1,u2}
  Original = Original
  None = None
  MaxFaults = 1
  MaxEntered = 4
SYMMETRY Symmetry
INVARIANTS
  InForceAuthorized
  UnauditedIsOvertaken
PROPERTIES
  UndoneByStaleCopy
CHECK_DEADLOCK FALSE
