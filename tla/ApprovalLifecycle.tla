------------------------- MODULE ApprovalLifecycle -------------------------
(***************************************************************************)
(* What the approval boundary promises, with no handler, store or retry in *)
(* it: an approval is requested once, decided once, and an approved action *)
(* is claimed, executed, or handed back for another attempt.  The status   *)
(* table is APPROVAL_STATUS_TRANSITIONS of                                 *)
(* src/domain/services/approval-status-transitions.ts.  Modules that model *)
(* the handlers implement this one.                                        *)
(***************************************************************************)
CONSTANTS Approvals,      \* approval identifiers
          Deciders,       \* users, and the scheduler's system actor
          None            \* no decider yet

VARIABLES status,         \* status[a]: stored status, "Absent" before creation
          decider         \* decider[a]: who decided a, None while undecided

lifecycleVars == <<status, decider>>

Decided == {"Approved", "Denied", "RequestChanges", "Expired"}

ApprovalStatus == {"Pending", "Executing", "Executed"} \cup Decided

\* APPROVAL_STATUS_TRANSITIONS, the runtime transition table.
Transitions ==
  [ s \in ApprovalStatus |->
      CASE s = "Pending"        -> Decided
        [] s = "Approved"       -> {"Executing"}
        [] s = "Executing"      -> {"Executed", "Approved"}
        [] s = "RequestChanges" -> {"Pending"}
        [] OTHER                -> {} ]

LifecycleTypeOK ==
  /\ status \in [Approvals -> ApprovalStatus \cup {"Absent"}]
  /\ decider \in [Approvals -> Deciders \cup {None}]

LifecycleInit ==
  /\ status = [a \in Approvals |-> "Absent"]
  /\ decider = [a \in Approvals |-> None]

Request(a) ==
  /\ status[a] = "Absent"
  /\ status' = [status EXCEPT ![a] = "Pending"]
  /\ UNCHANGED decider

\* A decision names its decider, once.
Decide(a) ==
  /\ status[a] = "Pending"
  /\ \E s \in Transitions["Pending"], d \in Deciders :
       /\ status' = [status EXCEPT ![a] = s]
       /\ decider' = [decider EXCEPT ![a] = d]

\* After the decision the status may move on; the decider never changes.
Progress(a) ==
  /\ status[a] \in {"Approved", "Executing"}
  /\ \E s \in Transitions[status[a]] : status' = [status EXCEPT ![a] = s]
  /\ UNCHANGED decider

LifecycleNext == \E a \in Approvals : Request(a) \/ Decide(a) \/ Progress(a)

LifecycleSpec == LifecycleInit /\ [][LifecycleNext]_lifecycleVars
=============================================================================
