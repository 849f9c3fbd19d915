----------------------------- MODULE RunControl -----------------------------
(***************************************************************************)
(* cancelRun and submitRunIntervention: operators act on a stored run.     *)
(* One process per command invocation, one step per awaited call.  Both    *)
(* handlers save the record they built from what they read; cancelRun      *)
(* saves it before its evidence, an intervention after.                    *)
(***************************************************************************)
EXTENDS RunStore, EvidenceChain

CONSTANTS Operators,   \* command invocations; the writers of the log
          Kinds        \* the interventions that are asked for

InterventionKind ==
  {"pause", "resume", "reroute", "handoff", "escalate", "annotate",
   "request-evidence", "request-more-evidence", "freeze", "sandbox",
   "emergency-disable"}

ASSUME ControlAssumption ==
  /\ Operators = Writers
  /\ Kinds \subseteq InterventionKind

VARIABLES opPc,      \* opPc[o]: the call the handler awaits next
          opRun,     \* opRun[o]: the run it acts on
          opKind,    \* opKind[o]: "cancel", or the kind of intervention
          opSeen,    \* opSeen[o]: the run as getRunById returned it
          opReply    \* opReply[o]: what the operator was told

controlVars == <<opPc, opRun, opKind, opSeen, opReply>>

OpPc == {"idle", "list", "append", "save", "done", "dead"}

OpReply == {"none", "NotFound", "Conflict", "Accepted"}

ControlTypeOK ==
  /\ opPc \in [Operators -> OpPc]
  /\ opRun \in [Operators -> Runs \cup {None}]
  /\ opKind \in [Operators -> Kinds \cup {"cancel", "none"}]
  /\ opSeen \in [Operators -> RunRecord]
  /\ opReply \in [Operators -> OpReply]

ControlInit ==
  /\ opPc = [o \in Operators |-> "idle"]
  /\ opRun = [o \in Operators |-> None]
  /\ opKind = [o \in Operators |-> "none"]
  /\ opSeen = [o \in Operators |-> NoRun]
  /\ opReply = [o \in Operators |-> "none"]

OpGoto(o, pc) ==
  /\ opPc' = [opPc EXCEPT ![o] = pc]
  /\ UNCHANGED opReply

OpDone(o, answer) ==
  /\ opPc' = [opPc EXCEPT ![o] = "done"]
  /\ opReply' = [opReply EXCEPT ![o] = answer]

OpKeeps == UNCHANGED <<opRun, opKind, opSeen>>

(* A handler that answers without a write has not stamped any evidence.    *)
Refuse(o, answer) == OpDone(o, answer) /\ UNCHANGED <<stamp, now>>

OpReads(o, r, kind) ==
  /\ opRun' = [opRun EXCEPT ![o] = r]
  /\ opKind' = [opKind EXCEPT ![o] = kind]
  /\ opSeen' = [opSeen EXCEPT ![o] = runs[r]]

-----------------------------------------------------------------------------

Blocking == {"pause", "request-evidence", "request-more-evidence", "escalate"}

Freezing == {"freeze", "emergency-disable"}

Owning == {"handoff", "reroute"}

(* nextControlState; a resume deletes what the run carried.                *)
ControlAfter(kind, control) ==
  CASE kind \in Blocking  -> "blocked"
    [] kind \in Freezing  -> "frozen"
    [] kind = "sandbox"   -> "degraded"
    [] kind \in Owning    -> "operator-owned"
    [] kind = "resume"    -> "none"
    [] OTHER              -> control

(* nextStatus.                                                             *)
StatusAfter(kind, status) ==
  IF kind = "resume" THEN "Running"
  ELSE IF kind \in Blocking \cup Freezing \cup {"sandbox"} THEN "Paused"
  ELSE status

(* Bug: only the resume guard is left of deriveTransition's checks.        *)
IntervenableResumeOnly(kind, status) ==
  kind = "resume" => status \in {"Paused", "WaitingForApproval"}

(* Bug: the status table is not consulted.                                 *)
IntervenableOffTable(kind, status) ==
  /\ status \in TerminalStatus => kind = "annotate"
  /\ kind = "resume" => status \in {"Paused", "WaitingForApproval"}

(* deriveTransition returns a run, not a conflict.                         *)
Intervenable(kind, status) ==
  /\ status \in TerminalStatus => kind = "annotate"
  /\ kind = "resume" => status \in {"Paused", "WaitingForApproval"}
  /\ \/ StatusAfter(kind, status) = status
     \/ ValidTransition(status, StatusAfter(kind, status))

(* buildCancelledRun returns a run, not a conflict.                        *)
Cancellable(status) == status = "Cancelled" \/ ValidTransition(status, "Cancelled")

(* The record that is saved: the one that was read, changed.               *)
UpdatedRun(o) ==
  LET seen == opSeen[o] IN
  IF opKind[o] # "cancel"
    THEN [ status  |-> StatusAfter(opKind[o], seen.status),
           control |-> ControlAfter(opKind[o], seen.control) ]
  ELSE IF seen.status = "Cancelled" THEN seen
  ELSE [status |-> "Cancelled", control |-> "none"]

-----------------------------------------------------------------------------

(* getRunById, then buildCancelledRun with the time it ends at, which the  *)
(* evidence will carry.                                                    *)
CancelLoad(o) ==
  /\ opPc[o] = "idle"
  /\ \E r \in Runs :
       /\ OpReads(o, r, "cancel")
       /\ \/ runs[r].status = "Absent" /\ Refuse(o, "NotFound")
          \/ runs[r].status # "Absent" /\ ~Cancellable(runs[r].status) /\ Refuse(o, "Conflict")
          \/ Cancellable(runs[r].status) /\ TakeStamp(o) /\ OpGoto(o, "save")
  /\ UNCHANGED <<runs, faults, log, tail, appending, orderly>>

(* Cancelling a cancelled run is answered without evidence.                *)
CancelSave(o) ==
  /\ opPc[o] = "save" /\ opKind[o] = "cancel"
  /\ SaveRun(opRun[o], UpdatedRun(o))
  /\ IF opSeen[o].status = "Cancelled" THEN OpDone(o, "Accepted") ELSE OpGoto(o, "list")
  /\ OpKeeps
  /\ UNCHANGED <<faults, chainVars>>

(* getRunById, then deriveTransition and the time of the evidence.         *)
InterveneLoad(o) ==
  /\ opPc[o] = "idle"
  /\ \E r \in Runs, kind \in Kinds :
       /\ OpReads(o, r, kind)
       /\ \/ runs[r].status = "Absent" /\ Refuse(o, "NotFound")
          \/ /\ runs[r].status # "Absent" /\ ~Intervenable(kind, runs[r].status)
             /\ Refuse(o, "Conflict")
          \/ /\ runs[r].status # "Absent" /\ Intervenable(kind, runs[r].status)
             /\ TakeStamp(o)
             /\ OpGoto(o, "list")
  /\ UNCHANGED <<runs, faults, log, tail, appending, orderly>>

(* appendEntry's two calls, of either handler.                             *)
OpList(o) ==
  /\ opPc[o] = "list"
  /\ ListEntries(o)
  /\ OpGoto(o, "append")
  /\ OpKeeps
  /\ UNCHANGED <<runs, faults, log, stamp, now>>

OpAppend(o) ==
  /\ opPc[o] = "append"
  /\ UpsertEntry(o)
  /\ IF opKind[o] = "cancel" THEN OpDone(o, "Accepted") ELSE OpGoto(o, "save")
  /\ OpKeeps
  /\ UNCHANGED <<runs, faults, tail, stamp, now, orderly>>

InterveneSave(o) ==
  /\ opPc[o] = "save" /\ opKind[o] # "cancel"
  /\ SaveRun(opRun[o], UpdatedRun(o))
  /\ OpDone(o, "Accepted")
  /\ OpKeeps
  /\ UNCHANGED <<faults, chainVars>>

(* Bug: an intervention whose evidence fails is saved all the same.        *)
OpFaultSwallowed(o) ==
  /\ opPc[o] \notin {"idle", "done", "dead"}
  /\ Fault
  /\ AbandonAppend(o)
  /\ OpGoto(o, IF opKind[o] # "cancel" /\ opPc[o] = "append" THEN "save" ELSE "dead")
  /\ OpKeeps
  /\ UNCHANGED <<runs, log, tail, stamp, now, orderly>>

(* The awaited call fails, or the process stops: what was stored stays.    *)
OpFault(o) ==
  /\ opPc[o] \notin {"idle", "done", "dead"}
  /\ Fault
  /\ AbandonAppend(o)
  /\ OpGoto(o, "dead")
  /\ OpKeeps
  /\ UNCHANGED <<runs, log, tail, stamp, now, orderly>>

OpStep(o) ==
  \/ CancelLoad(o)    \/ CancelSave(o)
  \/ InterveneLoad(o) \/ InterveneSave(o)
  \/ OpList(o)        \/ OpAppend(o)

ControlNext == \E o \in Operators : OpStep(o) \/ OpFault(o)
=============================================================================
