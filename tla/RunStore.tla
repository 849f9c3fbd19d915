------------------------------ MODULE RunStore ------------------------------
(***************************************************************************)
(* The run store (a plain upsert of the whole record, with no version and  *)
(* no compare-and-set) and the run status table that every writer of it is *)
(* meant to follow.                                                        *)
(***************************************************************************)
EXTENDS Naturals

CONSTANTS Runs,        \* run identifiers
          Seeded,      \* runs stored before the handlers start
          MaxFaults,   \* bound: failures of stores, workers and processes
          None         \* absent value

ASSUME RunStoreAssumption ==
  /\ Seeded \subseteq Runs
  /\ None \notin Runs
  /\ MaxFaults \in Nat

VARIABLES runs,     \* runs[r]: the stored run record
          faults    \* failures so far, over all processes

(* A call fails before it takes effect, or the process stops.              *)
Fault ==
  /\ faults < MaxFaults
  /\ faults' = faults + 1

RunStatus == {"Pending", "Running", "WaitingForApproval", "Paused",
              "Succeeded", "Failed", "Cancelled"}

TerminalStatus == {"Succeeded", "Failed", "Cancelled"}

(* RUN_STATUS_TRANSITIONS.                                                 *)
RunTransitions ==
  [ Pending            |-> {"Running", "Cancelled"},
    Running            |-> {"Succeeded", "Failed", "Cancelled",
                            "WaitingForApproval", "Paused"},
    WaitingForApproval |-> {"Running", "Cancelled"},
    Paused             |-> {"Running", "Cancelled"},
    Succeeded          |-> {},
    Failed             |-> {},
    Cancelled          |-> {} ]

(* assertValidRunStatusTransition does not throw.                          *)
ValidTransition(from, to) == from \in RunStatus /\ to \in RunTransitions[from]

ControlState == {"none", "blocked", "degraded", "frozen", "operator-owned"}

(* The part of a run that cancellation and interventions change; the       *)
(* operator that owns a run is not told apart.                             *)
RunRecord == [status : RunStatus \cup {"Absent"}, control : ControlState]

NoRun == [status |-> "Absent", control |-> "none"]

SaveRun(r, record) == runs' = [runs EXCEPT ![r] = record]

RunStoreTypeOK ==
  /\ runs \in [Runs -> RunRecord]
  /\ faults \in 0..MaxFaults

(* A stored run may be met in any status, not under operator control yet.  *)
RunStoreInit ==
  /\ runs \in {f \in [Runs -> {NoRun} \cup [status : RunStatus, control : {"none"}]] :
                 \A r \in Runs : f[r] = NoRun <=> r \notin Seeded}
  /\ faults = 0
=============================================================================
