---------------------------- MODULE MCGovernedRun ----------------------------
(* GovernedRun on small instances.                                         *)
EXTENDS GovernedRun, FiniteSets

(* Bound: who meets whom.  Starters meet each other; operators meet each   *)
(* other, on seeded runs of every status; one starter meets one operator.  *)
(* It keeps processes from being entered and takes no step from one that   *)
(* was: once two have met, the run they met on may move as it will.        *)
started == Cardinality({s \in Starters : startPc[s] # "idle"})

operated == Cardinality({o \in Operators : opPc[o] # "idle"})

Meeting ==
  \/ started = 0
  \/ /\ operated = 0 \/ (started = 1 /\ operated = 1)
     /\ \A r \in Seeded : runs[r].status = "Running"

MCNext ==
  /\ \/ operated < 2 /\ StartNext /\ UNCHANGED <<controlVars, chainVars>>
     \/ started < 2 /\ ControlNext /\ UNCHANGED <<startVars, workflowVars>>
  /\ UNCHANGED <<started, operated>> \/ Meeting'

MCFairSpec == Init /\ [][MCNext]_runVars /\ Fairness
=============================================================================
