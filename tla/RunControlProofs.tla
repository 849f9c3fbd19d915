-------------------------- MODULE RunControlProofs --------------------------
(***************************************************************************)
(* Theorems about GovernedRun, for any number of runs, starters, operators,*)
(* keys, attempts and failures: its types, what operators do to runs, and  *)
(* the evidence they leave.                                                *)
(***************************************************************************)
EXTENDS GovernedRun, TLAPS

(* The initial state.                                                      *)
LEMMA InitTypes == Init => RunTypeOK
<1> SUFFICES ASSUME Init PROVE RunTypeOK
  OBVIOUS
<1>1. RunStoreTypeOK
  BY RunStoreAssumption DEF Init, RunStoreInit, RunStoreTypeOK, RunRecord, NoRun, ControlState
<1>2. WorkflowTypeOK
  BY WorkflowAssumption DEF Init, WorkflowInit, WorkflowTypeOK
<1>3. StartTypeOK
  BY DEF Init, StartInit, StartTypeOK, StartPc
<1>4. ChainTypeOK
  BY ChainAssumption DEF Init, ChainInit, ChainTypeOK
<1>5. ControlTypeOK
  BY DEF Init, ControlInit, ControlTypeOK, OpPc, OpReply, RunRecord, NoRun, ControlState
<1> QED BY <1>1, <1>2, <1>3, <1>4, <1>5 DEF RunTypeOK

(* A failure is counted within its bound.                                  *)
LEMMA FaultCounted ==
  ASSUME RunTypeOK, Fault
  PROVE  faults' \in 0..MaxFaults
  BY RunStoreAssumption DEF RunTypeOK, RunStoreTypeOK, Fault

-----------------------------------------------------------------------------

(* startWorkflow's steps and failures.                                     *)
LEMMA StarterType ==
  ASSUME RunTypeOK, NEW s \in Starters, StartStep(s) \/ StartFault(s)
  PROVE  RunStoreTypeOK' /\ StartTypeOK' /\ WorkflowTypeOK'
<1> USE DEF RunTypeOK, StartGoto, StartDone, StartPc
<1>1. CASE StartLookup(s)
  BY <1>1 DEF StartLookup, StartTypeOK, RunStoreTypeOK, WorkflowTypeOK, workflowVars
<1>2. CASE StartResolve(s)
  BY <1>2 DEF StartResolve, StartTypeOK, RunStoreTypeOK, WorkflowTypeOK, workflowVars
<1>3. CASE StartUnique(s)
  BY <1>3 DEF StartUnique, StartTypeOK, RunStoreTypeOK, WorkflowTypeOK, workflowVars
<1>4. CASE StartSave(s)
  <2>1. StartTypeOK' /\ WorkflowTypeOK'
    BY <1>4 DEF StartSave, StartTypeOK, WorkflowTypeOK, workflowVars
  <2>2. [status |-> "Pending", control |-> "none"] \in RunRecord
    BY DEF RunRecord, RunStatus, ControlState
  <2>3. RunStoreTypeOK'
    BY <1>4, <2>2 DEF StartSave, SaveRun, RunStoreTypeOK
  <2> QED BY <2>1, <2>3
<1>5. CASE StartRun(s)
  BY <1>5 DEF StartRun, StartTypeOK, RunStoreTypeOK, WorkflowTypeOK, Open
<1>6. CASE StartPublish(s)
  BY <1>6 DEF StartPublish, StartTypeOK, RunStoreTypeOK, WorkflowTypeOK, workflowVars
<1>7. CASE StartCache(s)
  BY <1>7 DEF StartCache, StartTypeOK, RunStoreTypeOK, WorkflowTypeOK, workflowVars
<1>8. CASE StartFault(s)
  BY <1>8, FaultCounted DEF StartFault, StartTypeOK, RunStoreTypeOK, WorkflowTypeOK,
     workflowVars
<1> QED BY <1>1, <1>2, <1>3, <1>4, <1>5, <1>6, <1>7, <1>8 DEF StartStep

(* An attempt of an activity.                                              *)
LEMMA AttemptType ==
  ASSUME RunTypeOK, NEW s \in Starters, NEW initial \in RunStatus,
         NEW to \in RunStatus, NEW next \in Open \cup Closed,
         Attempt(s, initial, to, next), UNCHANGED signal
  PROVE  WorkflowTypeOK' /\ faults' \in 0..MaxFaults
<1>1. tries[s] + 1 # MaxAttempts => tries[s] + 1 \in 0..MaxAttempts - 1
  BY WorkflowAssumption DEF RunTypeOK, WorkflowTypeOK
<1>2. 0 \in 0..MaxAttempts - 1
  BY WorkflowAssumption
<1>3. Advance(s, next) \/ Retry(s) =>
        /\ execution' \in [Starters -> {"none"} \cup Open \cup Closed]
        /\ tries' \in [Starters -> 0..MaxAttempts - 1]
  BY <1>1, <1>2 DEF Advance, Retry, RunTypeOK, WorkflowTypeOK, Closed
<1>4. LoseAck(s) \/ LoseTask(s) => ackLost' \in [Starters -> BOOLEAN]
  BY DEF LoseAck, LoseTask, RunTypeOK, WorkflowTypeOK
<1>5. memory' \in [Starters -> RunStatus \cup {"Absent"}]
  BY DEF Attempt, SetMemory, RunTypeOK, WorkflowTypeOK
<1> QED BY <1>3, <1>4, <1>5, FaultCounted
        DEF Attempt, LoseAck, LoseTask, RunTypeOK, WorkflowTypeOK, RunStoreTypeOK

(* What Temporal and its worker do.                                        *)
LEMMA ExecutionType ==
  ASSUME RunTypeOK, NEW s \in Starters,
         ExecutionStep(s) \/ SignalDecision(s) \/ WorkerRestart
  PROVE  WorkflowTypeOK' /\ faults' \in 0..MaxFaults
<1>1. CASE StartRunActivity(s, gated[s])
  <2>1. (IF gated[s] THEN "waiting" ELSE "completing") \in Open \cup Closed
        /\ {"Pending", "Running"} \subseteq RunStatus
    BY DEF Open, RunStatus
  <2> QED BY <1>1, <2>1, AttemptType DEF StartRunActivity
<1>2. CASE CompleteRunActivity(s)
  <2>1. "completed" \in Open \cup Closed /\ {"Running", "Succeeded"} \subseteq RunStatus
    BY DEF Closed, RunStatus
  <2> QED BY <1>2, <2>1, AttemptType DEF CompleteRunActivity
<1>3. CASE AwaitDecision(s)
  BY <1>3, WorkflowAssumption
  DEF AwaitDecision, Advance, RunTypeOK, RunStoreTypeOK, WorkflowTypeOK, Open, Closed
<1>4. CASE SignalDecision(s)
  BY <1>4 DEF SignalDecision, RunTypeOK, RunStoreTypeOK, WorkflowTypeOK
<1>5. CASE WorkerRestart
  BY <1>5, FaultCounted DEF WorkerRestart, RunTypeOK, WorkflowTypeOK
<1> QED BY <1>1, <1>2, <1>3, <1>4, <1>5 DEF ExecutionStep

-----------------------------------------------------------------------------

(* The record a command saves is a run record.                             *)
LEMMA UpdatedRunType ==
  ASSUME RunTypeOK, NEW o \in Operators
  PROVE  UpdatedRun(o) \in RunRecord
<1>1. opSeen[o].status \in RunStatus \cup {"Absent"} /\ opSeen[o].control \in ControlState
  BY DEF RunTypeOK, ControlTypeOK, RunRecord
<1>2. \A k, c : ControlAfter(k, c) \in ControlState \cup {c}
  BY DEF ControlAfter, ControlState
<1>3. \A k, t : StatusAfter(k, t) \in RunStatus \cup {t}
  BY DEF StatusAfter, RunStatus
<1>4. [ status  |-> StatusAfter(opKind[o], opSeen[o].status),
        control |-> ControlAfter(opKind[o], opSeen[o].control) ] \in RunRecord
  BY <1>1, <1>2, <1>3 DEF RunRecord
<1>5. opSeen[o] \in RunRecord /\ [status |-> "Cancelled", control |-> "none"] \in RunRecord
  BY DEF RunTypeOK, ControlTypeOK, RunRecord, RunStatus, ControlState
<1> QED BY <1>4, <1>5 DEF UpdatedRun

(* A command that reads a run and answers or goes on.                      *)
LEMMA LoadType ==
  ASSUME RunTypeOK, NEW o \in Operators, CancelLoad(o) \/ InterveneLoad(o),
         UNCHANGED <<startVars, workflowVars>>
  PROVE  RunTypeOK'
<1> USE DEF RunTypeOK
<1>1. RunStoreTypeOK' /\ WorkflowTypeOK' /\ StartTypeOK'
  BY DEF CancelLoad, InterveneLoad, RunStoreTypeOK, WorkflowTypeOK, StartTypeOK,
     startVars, workflowVars
<1>2. ChainTypeOK'
  BY ControlAssumption
  DEF CancelLoad, InterveneLoad, Refuse, TakeStamp, ChainTypeOK
<1>3. PICK r \in Runs, kind \in Kinds \cup {"cancel"} : OpReads(o, r, kind)
  BY DEF CancelLoad, InterveneLoad
<1>4. runs[r] \in RunRecord
  BY DEF RunStoreTypeOK
<1>5. /\ opRun' \in [Operators -> Runs \cup {None}]
      /\ opKind' \in [Operators -> Kinds \cup {"cancel", "none"}]
      /\ opSeen' \in [Operators -> RunRecord]
  BY <1>3, <1>4 DEF OpReads, ControlTypeOK
<1>6. opPc' \in [Operators -> OpPc] /\ opReply' \in [Operators -> OpReply]
  BY DEF CancelLoad, InterveneLoad, Refuse, OpDone, OpGoto, ControlTypeOK, OpPc, OpReply
<1> QED BY <1>1, <1>2, <1>5, <1>6 DEF ControlTypeOK

(* Its other steps and failures.                                           *)
LEMMA OperatorType ==
  ASSUME RunTypeOK, NEW o \in Operators, UNCHANGED <<startVars, workflowVars>>,
         \/ CancelSave(o) \/ InterveneSave(o) \/ OpList(o) \/ OpAppend(o) \/ OpFault(o)
  PROVE  RunStoreTypeOK' /\ ChainTypeOK'
<1> USE DEF RunTypeOK
<1>1. CASE CancelSave(o) \/ InterveneSave(o)
  <2>1. ChainTypeOK'
    BY <1>1 DEF CancelSave, InterveneSave, chainVars, ChainTypeOK
  <2>2. RunStoreTypeOK'
    BY <1>1, UpdatedRunType DEF CancelSave, InterveneSave, SaveRun, RunStoreTypeOK
  <2> QED BY <2>1, <2>2
<1>2. CASE OpList(o)
  BY <1>2, ControlAssumption DEF OpList, ListEntries, RunStoreTypeOK, ChainTypeOK
<1>3. CASE OpAppend(o)
  <2>1. [by |-> o, at |-> stamp[o], previous |-> tail[o]] \in Entry
    BY ControlAssumption DEF ChainTypeOK, Entry
  <2> QED BY <1>3, <2>1 DEF OpAppend, UpsertEntry, RunStoreTypeOK, ChainTypeOK
<1>4. CASE OpFault(o)
  BY <1>4, FaultCounted DEF OpFault, AbandonAppend, RunStoreTypeOK, ChainTypeOK
<1> QED BY <1>1, <1>2, <1>3, <1>4

(* What these steps do to the command itself.                              *)
LEMMA OperatorControlType ==
  ASSUME RunTypeOK, NEW o \in Operators,
         \/ CancelSave(o) \/ InterveneSave(o) \/ OpList(o) \/ OpAppend(o) \/ OpFault(o)
  PROVE  ControlTypeOK'
<1>1. UNCHANGED <<opRun, opKind, opSeen>>
  BY DEF CancelSave, InterveneSave, OpList, OpAppend, OpFault, OpKeeps
<1>2. opPc' \in [Operators -> OpPc] /\ opReply' \in [Operators -> OpReply]
  BY DEF CancelSave, InterveneSave, OpList, OpAppend, OpFault, OpGoto, OpDone, RunTypeOK,
     ControlTypeOK, OpPc, OpReply
<1> QED BY <1>1, <1>2 DEF RunTypeOK, ControlTypeOK

-----------------------------------------------------------------------------

(* Every step keeps the types.                                             *)
LEMMA NextTypes == RunTypeOK /\ [Next]_runVars => RunTypeOK'
<1> SUFFICES ASSUME RunTypeOK, [Next]_runVars PROVE RunTypeOK'
  OBVIOUS
<1>1. CASE UNCHANGED runVars
  BY <1>1 DEF runVars, startVars, workflowVars, controlVars, chainVars, RunTypeOK,
     RunStoreTypeOK, WorkflowTypeOK, StartTypeOK, ChainTypeOK, ControlTypeOK
<1>2. CASE StartNext /\ UNCHANGED <<controlVars, chainVars>>
  <2>1. ChainTypeOK' /\ ControlTypeOK'
    BY <1>2 DEF RunTypeOK, ChainTypeOK, ControlTypeOK, controlVars, chainVars
  <2>2. RunStoreTypeOK' /\ StartTypeOK' /\ WorkflowTypeOK'
    <3>1. CASE \E s \in Starters : StartStep(s) \/ StartFault(s)
      BY <3>1, StarterType
    <3>2. CASE /\ \E s \in Starters : ExecutionStep(s) \/ SignalDecision(s) \/ WorkerRestart
               /\ UNCHANGED <<runs, startVars>>
      BY <3>2, ExecutionType DEF RunTypeOK, RunStoreTypeOK, StartTypeOK, startVars
    <3>3. WorkerRestart => \E s \in Starters : TRUE
      BY DEF WorkerRestart
    <3> QED BY <1>2, <3>1, <3>2, <3>3 DEF StartNext
  <2> QED BY <2>1, <2>2 DEF RunTypeOK
<1>3. CASE ControlNext /\ UNCHANGED <<startVars, workflowVars>>
  <2>1. PICK o \in Operators : OpStep(o) \/ OpFault(o)
    BY <1>3 DEF ControlNext
  <2>2. CASE CancelLoad(o) \/ InterveneLoad(o)
    BY <1>3, <2>2, LoadType
  <2>3. CASE CancelSave(o) \/ InterveneSave(o) \/ OpList(o) \/ OpAppend(o) \/ OpFault(o)
    <3>1. WorkflowTypeOK' /\ StartTypeOK'
      BY <1>3 DEF RunTypeOK, WorkflowTypeOK, StartTypeOK, startVars, workflowVars
    <3> QED BY <1>3, <2>3, <3>1, OperatorType, OperatorControlType DEF RunTypeOK
  <2> QED BY <2>1, <2>2, <2>3 DEF OpStep
<1> QED BY <1>1, <1>2, <1>3 DEF Next

(* Every variable keeps its type, whatever fails and however the starters, *)
(* the executions and the operators interleave.                            *)
THEOREM RunTypeCorrect == Spec => []RunTypeOK
  BY InitTypes, NextTypes, PTL DEF Spec

-----------------------------------------------------------------------------

(* A command that goes on to save, or has saved.                           *)
Underway(o) == opPc[o] \in {"list", "append", "save"} \/ opReply[o] = "Accepted"

(* The checks the command made on the status it read.                      *)
Legal(kind, status) ==
  /\ status # "Absent"
  /\ IF kind = "cancel" THEN Cancellable(status) ELSE Intervenable(kind, status)

CommandInv ==
  \A o \in Operators :
    /\ opPc[o] # "done" => opReply[o] = "none"
    /\ opPc[o] # "idle" => opRun[o] \in Runs /\ opKind[o] \in Kinds \cup {"cancel"}
    /\ Underway(o) => Legal(opKind[o], opSeen[o].status)

(* A run is stored once its start has saved it, and stays stored.          *)
StoredInv ==
  /\ \A s \in Starters :
       startPc[s] \in {"idle", "resolve", "unique", "save"} => runs[s].status = "Absent"
  /\ \A o \in Operators : Underway(o) => runs[opRun[o]].status # "Absent"

ControlInv == CommandInv /\ StoredInv

-----------------------------------------------------------------------------

(* "cancel" and "none" are no interventions.                               *)
LEMMA KindsAreInterventions == "cancel" \notin Kinds /\ "none" \notin Kinds
  BY ControlAssumption DEF InterventionKind

(* A command's step leaves the other commands alone.                       *)
LEMMA OthersUntouched ==
  ASSUME RunTypeOK, NEW o \in Operators, OpStep(o) \/ OpFault(o)
  PROVE  \A p \in Operators \ {o} :
           /\ opPc'[p] = opPc[p] /\ opReply'[p] = opReply[p]
           /\ opRun'[p] = opRun[p] /\ opKind'[p] = opKind[p] /\ opSeen'[p] = opSeen[p]
<1>1. CASE CancelLoad(o) \/ InterveneLoad(o)
  BY <1>1 DEF CancelLoad, InterveneLoad, OpReads, Refuse, OpDone, OpGoto, RunTypeOK,
     ControlTypeOK
<1>2. CASE CancelSave(o) \/ InterveneSave(o) \/ OpList(o) \/ OpAppend(o) \/ OpFault(o)
  BY <1>2 DEF CancelSave, InterveneSave, OpList, OpAppend, OpFault, OpKeeps, OpDone,
     OpGoto, RunTypeOK, ControlTypeOK
<1> QED BY <1>1, <1>2 DEF OpStep

(* A step that loads a run.                                                *)
LEMMA LoadReads ==
  ASSUME RunTypeOK, NEW o \in Operators, CancelLoad(o) \/ InterveneLoad(o)
  PROVE  /\ opPc[o] = "idle" /\ opPc'[o] # "idle" /\ UNCHANGED runs
         /\ opRun'[o] \in Runs /\ opKind'[o] \in Kinds \cup {"cancel"}
         /\ opSeen'[o] = runs[opRun'[o]]
         /\ \/ opPc'[o] \in {"list", "save"} /\ opReply'[o] = opReply[o]
               /\ Legal(opKind'[o], opSeen'[o].status)
               /\ (opKind'[o] = "cancel" <=> opPc'[o] = "save")
            \/ opPc'[o] = "done" /\ opReply'[o] \in {"NotFound", "Conflict"}
<1> USE DEF RunTypeOK, ControlTypeOK, OpReads, Refuse, OpDone, OpGoto
<1>1. CASE CancelLoad(o)
  <2>1. \A st : Cancellable(st) => st # "Absent"
    BY DEF Cancellable, ValidTransition, RunStatus
  <2> QED BY <1>1, <2>1 DEF CancelLoad, Legal
<1>2. CASE InterveneLoad(o)
  BY <1>2, KindsAreInterventions DEF InterveneLoad, Legal
<1> QED BY <1>1, <1>2

(* Any other step of a command.                                            *)
LEMMA StepKeeps ==
  ASSUME RunTypeOK, NEW o \in Operators,
         CancelSave(o) \/ InterveneSave(o) \/ OpList(o) \/ OpAppend(o) \/ OpFault(o)
  PROVE  /\ opPc[o] \in {"list", "append", "save"} /\ opPc'[o] # "idle"
         /\ opRun'[o] = opRun[o] /\ opKind'[o] = opKind[o] /\ opSeen'[o] = opSeen[o]
         /\ \/ opPc'[o] # "done" /\ opReply'[o] = opReply[o]
            \/ opPc'[o] = "done" /\ opReply'[o] = "Accepted"
  BY DEF CancelSave, InterveneSave, OpList, OpAppend, OpFault, OpKeeps, OpDone, OpGoto,
     RunTypeOK, ControlTypeOK, OpPc

(* What any step may do to the stored runs.                                *)
LEMMA SavedBy ==
  ASSUME RunTypeOK, Next, NEW r \in Runs
  PROVE  \/ runs'[r] = runs[r]
         \/ /\ r \in Starters /\ startPc[r] = "save" /\ startPc'[r] = "start"
            /\ runs'[r] = [status |-> "Pending", control |-> "none"]
         \/ \E o \in Operators :
              /\ CancelSave(o) \/ InterveneSave(o)
              /\ r = opRun[o] /\ runs'[r] = UpdatedRun(o)
<1>1. CASE \E s \in Starters : StartSave(s)
  BY <1>1, WorkflowAssumption DEF StartSave, SaveRun, StartGoto, RunTypeOK, RunStoreTypeOK,
     StartTypeOK
<1>2. CASE \E o \in Operators : CancelSave(o) \/ InterveneSave(o)
  BY <1>2 DEF CancelSave, InterveneSave, SaveRun, RunTypeOK, RunStoreTypeOK
<1>3. \/ \E s \in Starters : StartSave(s)
      \/ \E o \in Operators : CancelSave(o) \/ InterveneSave(o)
      \/ UNCHANGED runs
  BY DEF Next, StartNext, StartStep, StartFault, StartLookup, StartResolve, StartUnique,
     StartRun, StartPublish, StartCache, ControlNext, OpStep, CancelLoad, InterveneLoad,
     OpList, OpAppend, OpFault
<1> QED BY <1>1, <1>2, <1>3

(* The record a legal command saves, next to the one it read.              *)
LEMMA UpdatedIsLegal ==
  ASSUME NEW o \in Operators, opKind[o] \in Kinds \cup {"cancel"},
         Legal(opKind[o], opSeen[o].status)
  PROVE  LET from == opSeen[o].status  to == UpdatedRun(o).status IN
           /\ to # "Absent"
           /\ to = from \/ ValidTransition(from, to)
           /\ from = "Cancelled" \/ opKind[o] = "cancel" => to = "Cancelled"
<1> DEFINE from == opSeen[o].status
<1>1. CASE opKind[o] = "cancel"
  <2>1. UpdatedRun(o).status = "Cancelled"
    BY <1>1 DEF UpdatedRun
  <2> QED BY <1>1, <2>1 DEF Legal, Cancellable
<1>2. CASE opKind[o] # "cancel"
  <2>1. UpdatedRun(o).status = StatusAfter(opKind[o], from)
    BY <1>2 DEF UpdatedRun
  <2>2. Intervenable(opKind[o], from) /\ from # "Absent"
    BY <1>2 DEF Legal
  <2>3. StatusAfter(opKind[o], from) # "Absent"
    BY <2>2 DEF StatusAfter
  <2>4. from = "Cancelled" => StatusAfter(opKind[o], from) = "Cancelled"
    BY <2>2 DEF Intervenable, TerminalStatus, StatusAfter, Blocking, Freezing
  <2> QED BY <1>2, <2>1, <2>2, <2>3, <2>4 DEF Intervenable
<1> QED BY <1>1, <1>2

-----------------------------------------------------------------------------

(* Commands save what their checks allow.                                  *)
LEMMA CommandsChecked ==
  ASSUME RunTypeOK, CommandInv, [Next]_runVars
  PROVE  CommandInv'
<1>1. CASE UNCHANGED controlVars
  BY <1>1 DEF CommandInv, Underway, controlVars
<1>2. ASSUME NEW o \in Operators, OpStep(o) \/ OpFault(o)
      PROVE  CommandInv'
  <2>1. \A p \in Operators \ {o} :
          /\ opPc'[p] # "done" => opReply'[p] = "none"
          /\ opPc'[p] # "idle" => opRun'[p] \in Runs /\ opKind'[p] \in Kinds \cup {"cancel"}
          /\ Underway(p)' => Legal(opKind'[p], opSeen'[p].status)
    BY <1>2, OthersUntouched DEF CommandInv, Underway
  <2>2. /\ opPc'[o] # "done" => opReply'[o] = "none"
        /\ opPc'[o] # "idle" => opRun'[o] \in Runs /\ opKind'[o] \in Kinds \cup {"cancel"}
        /\ Underway(o)' => Legal(opKind'[o], opSeen'[o].status)
    <3>1. CASE CancelLoad(o) \/ InterveneLoad(o)
      BY <3>1, LoadReads DEF CommandInv, Underway
    <3>2. CASE CancelSave(o) \/ InterveneSave(o) \/ OpList(o) \/ OpAppend(o) \/ OpFault(o)
      BY <3>2, StepKeeps DEF CommandInv, Underway
    <3> QED BY <1>2, <3>1, <3>2 DEF OpStep
  <2> QED BY <2>1, <2>2 DEF CommandInv
<1> QED BY <1>1, <1>2 DEF Next, runVars, controlVars, ControlNext

(* A stored run stays stored.                                              *)
LEMMA StaysStored ==
  ASSUME RunTypeOK, CommandInv, [Next]_runVars, NEW r \in Runs, runs[r].status # "Absent"
  PROVE  runs'[r].status # "Absent"
<1>1. CASE UNCHANGED runVars
  BY <1>1 DEF runVars
<1>2. ASSUME NEW o \in Operators, CancelSave(o) \/ InterveneSave(o)
      PROVE  UpdatedRun(o).status # "Absent"
  BY <1>2, UpdatedIsLegal DEF CommandInv, Underway, CancelSave, InterveneSave
<1>3. CASE Next
  BY <1>2, <1>3, SavedBy
<1> QED BY <1>1, <1>3

(* Starts save new runs, commands stored ones.                             *)
LEMMA SavesFit ==
  ASSUME RunTypeOK, CommandInv, StoredInv, [Next]_runVars
  PROVE  StoredInv'
<1>1. ASSUME NEW s \in Starters, startPc'[s] \in {"idle", "resolve", "unique", "save"}
      PROVE  runs'[s].status = "Absent"
  <2>1. startPc[s] \in {"idle", "resolve", "unique", "save"} /\ startPc'[s] # "start"
    <3>1. CASE UNCHANGED startPc
      BY <1>1, <3>1
    <3>2. CASE \E t \in Starters : StartStep(t) \/ StartFault(t)
      BY <1>1, <3>2 DEF StartStep, StartLookup, StartResolve, StartUnique, StartSave,
         StartRun, StartPublish, StartCache, StartFault, StartGoto, StartDone, RunTypeOK,
         StartTypeOK
    <3> QED BY <3>1, <3>2 DEF Next, StartNext, runVars, startVars
  <2>2. s \in Runs /\ runs[s].status = "Absent"
    BY <2>1, WorkflowAssumption DEF StoredInv
  <2>3. ASSUME NEW o \in Operators, CancelSave(o) \/ InterveneSave(o)
        PROVE  s # opRun[o]
    BY <2>2, <2>3 DEF StoredInv, Underway, CancelSave, InterveneSave
  <2> QED BY <2>1, <2>2, <2>3, SavedBy DEF runVars
<1>2. ASSUME NEW o \in Operators, Underway(o)'
      PROVE  runs'[opRun'[o]].status # "Absent"
  <2>1. CASE Underway(o) /\ opRun'[o] = opRun[o]
    <3>1. opPc[o] # "idle"
      BY <2>1 DEF Underway, CommandInv
    <3>2. opRun[o] \in Runs /\ runs[opRun[o]].status # "Absent"
      BY <2>1, <3>1 DEF CommandInv, StoredInv
    <3> QED BY <2>1, <3>2, StaysStored
  <2>2. CASE CancelLoad(o) \/ InterveneLoad(o)
    BY <1>2, <2>2, LoadReads, StaysStored DEF CommandInv, Underway, Legal
  <2>3. \/ Underway(o) /\ opRun'[o] = opRun[o]
        \/ CancelLoad(o) \/ InterveneLoad(o)
    <3>1. CASE UNCHANGED controlVars
      BY <1>2, <3>1 DEF controlVars, Underway
    <3>2. CASE \E p \in Operators : OpStep(p) \/ OpFault(p)
      <4>1. PICK p \in Operators : OpStep(p) \/ OpFault(p)
        BY <3>2
      <4>2. CASE p # o
        BY <1>2, <4>1, <4>2, OthersUntouched DEF Underway
      <4>3. CASE p = o
        BY <4>1, <4>3, StepKeeps DEF OpStep, Underway
      <4> QED BY <4>2, <4>3
    <3> QED BY <3>1, <3>2 DEF Next, runVars, controlVars, ControlNext
  <2> QED BY <2>1, <2>2, <2>3
<1> QED BY <1>1, <1>2 DEF StoredInv

(* What the commands and the starts rely on holds throughout.              *)
THEOREM ControlIsChecked == Spec => []ControlInv
<1>1. Init => CommandInv /\ StoredInv
  <2> SUFFICES ASSUME Init PROVE CommandInv /\ StoredInv
    OBVIOUS
  <2>1. CommandInv /\ \A o \in Operators : ~Underway(o)
    BY DEF Init, ControlInit, CommandInv, Underway
  <2>2. \A s \in Starters : runs[s] = NoRun
    BY WorkflowAssumption DEF Init, RunStoreInit
  <2> QED BY <2>1, <2>2 DEF StoredInv, NoRun
<1>2. RunTypeOK /\ ControlInv /\ [Next]_runVars => ControlInv'
  BY CommandsChecked, SavesFit DEF ControlInv
<1> QED BY <1>1, <1>2, RunTypeCorrect, PTL DEF Spec, ControlInv
-----------------------------------------------------------------------------

(* A status moves off the table only where a save is of a stale record.    *)
THEOREM MovesAreLegalOrStale == Spec => IllegalMoveIsStale
<1> DEFINE LegalMove(r) ==
      LET from == runs[r].status  to == runs'[r].status IN
        \/ to = from
        \/ from = "Absent" /\ to = "Pending"
        \/ ValidTransition(from, to)
        \/ \E o \in Operators : opPc[o] = "save" /\ opPc'[o] # "save"
             /\ opRun[o] = r /\ opSeen[o] # runs[r]
<1>1. ASSUME RunTypeOK, ControlInv, Next, NEW r \in Runs
      PROVE  LegalMove(r)
  <2>1. CASE runs'[r] = runs[r]
    BY <2>1
  <2>2. CASE /\ r \in Starters /\ startPc[r] = "save"
             /\ runs'[r] = [status |-> "Pending", control |-> "none"]
    BY <1>1, <2>2 DEF ControlInv, StoredInv
  <2>3. CASE \E o \in Operators : /\ CancelSave(o) \/ InterveneSave(o)
                                  /\ r = opRun[o] /\ runs'[r] = UpdatedRun(o)
    <3>1. PICK o \in Operators : /\ CancelSave(o) \/ InterveneSave(o)
                                 /\ r = opRun[o] /\ runs'[r] = UpdatedRun(o)
      BY <2>3
    <3>2. opPc[o] = "save" /\ opPc'[o] # "save"
      BY <1>1, <3>1 DEF CancelSave, InterveneSave, OpDone, OpGoto, RunTypeOK, ControlTypeOK
    <3>3. Legal(opKind[o], opSeen[o].status) /\ opKind[o] \in Kinds \cup {"cancel"}
      BY <1>1, <3>2 DEF ControlInv, CommandInv, Underway
    <3>4. CASE opSeen[o] = runs[r]
      BY <3>1, <3>3, <3>4, UpdatedIsLegal
    <3> QED BY <3>1, <3>2, <3>4
  <2> HIDE DEF LegalMove
  <2> QED BY <1>1, <2>1, <2>2, <2>3, SavedBy
<1>2. RunTypeOK /\ ControlInv /\ [Next]_runVars
        => [\A r \in Runs : LegalMove(r)]_runVars
  BY <1>1
<1> QED BY <1>2, RunTypeCorrect, ControlIsChecked, PTL DEF Spec, IllegalMoveIsStale

-----------------------------------------------------------------------------

(* o saved an intervention in the run, which it had read before c's        *)
(* cancellation was saved.                                                 *)
ReadEarlier(o, c) ==
  /\ opRun[o] = opRun[c]
  /\ opKind[o] \in Kinds
  /\ opReply[o] = "Accepted"
  /\ opSeen[o].status # "Cancelled"

(* c is a cancellation that was saved.                                     *)
CancelSaved(c) ==
  /\ opKind[c] = "cancel"
  /\ opPc[c] \in {"list", "append"} \/ opReply[c] = "Accepted"

(* An answered intervention keeps having been read when it was.            *)
LEMMA AcceptedStays ==
  ASSUME RunTypeOK, CommandInv, Next, NEW o \in Operators, NEW c \in Operators,
         ReadEarlier(o, c), opRun'[c] = opRun[c]
  PROVE  ReadEarlier(o, c)'
<1>1. opPc[o] = "done"
  BY DEF ReadEarlier, CommandInv
<1>2. CASE UNCHANGED controlVars
  BY <1>2 DEF controlVars, ReadEarlier
<1>3. ASSUME NEW p \in Operators, OpStep(p) \/ OpFault(p)
      PROVE  ReadEarlier(o, c)'
  <2>1. p # o
    BY <1>1, <1>3, LoadReads, StepKeeps DEF OpStep
  <2> QED BY <1>3, <2>1, OthersUntouched DEF ReadEarlier
<1> QED BY <1>2, <1>3 DEF Next, ControlNext

(* A cancellation that is saved was saved before, or is saved by this step.*)
LEMMA CancelSavedBefore ==
  ASSUME RunTypeOK, CommandInv, Next, NEW c \in Operators, CancelSaved(c)'
  PROVE  /\ opPc[c] # "idle" /\ opRun'[c] = opRun[c]
         /\ CancelSaved(c) \/ CancelSave(c)
<1>1. CASE UNCHANGED controlVars
  BY <1>1 DEF controlVars, CancelSaved, CommandInv
<1>2. ASSUME NEW p \in Operators, OpStep(p) \/ OpFault(p), p # c
      PROVE  /\ opPc[c] # "idle" /\ opRun'[c] = opRun[c]
             /\ CancelSaved(c)
  BY <1>2, OthersUntouched DEF CancelSaved, CommandInv
<1>3. CASE CancelLoad(c) \/ InterveneLoad(c)
  BY <1>3, LoadReads DEF CancelSaved, CommandInv
<1>4. CASE InterveneSave(c) \/ OpList(c) \/ OpAppend(c) \/ OpFault(c)
  <2>1. opPc[c] # "idle" /\ opRun'[c] = opRun[c] /\ opKind'[c] = opKind[c]
    BY <1>4, StepKeeps
  <2>2. opPc[c] \in {"list", "append"} \/ ~CancelSaved(c)'
    BY <1>4, <2>1, StepKeeps
    DEF CancelSaved, InterveneSave, OpList, OpAppend, OpFault, OpGoto, CommandInv,
        RunTypeOK, ControlTypeOK
  <2> QED BY <2>1, <2>2 DEF CancelSaved
<1>5. CASE CancelSave(c)
  BY <1>5, StepKeeps
<1> QED BY <1>1, <1>2, <1>3, <1>4, <1>5 DEF Next, ControlNext, OpStep

(* Only a stale intervention undoes a cancellation.                        *)
THEOREM CancellationStands == Spec => []UndoneByEarlierRead
<1>1. Init => UndoneByEarlierRead
  BY DEF Init, ControlInit, UndoneByEarlierRead
<1>2. RunTypeOK /\ ControlInv /\ UndoneByEarlierRead /\ [Next]_runVars
        => UndoneByEarlierRead'
  <2> SUFFICES ASSUME RunTypeOK, ControlInv, UndoneByEarlierRead, Next,
                      NEW c \in Operators, CancelSaved(c)',
                      runs'[opRun'[c]].status # "Cancelled"
               PROVE  \E o \in Operators : ReadEarlier(o, c)'
    <3>1. CASE UNCHANGED runVars
      BY <3>1 DEF runVars, controlVars, UndoneByEarlierRead
    <3> QED BY <3>1 DEF UndoneByEarlierRead, CancelSaved, ReadEarlier
  <2> DEFINE r == opRun[c]
  <2>1. opRun'[c] = r /\ r \in Runs /\ (CancelSaved(c) \/ CancelSave(c))
    BY CancelSavedBefore DEF ControlInv, CommandInv
  <2>2. ~CancelSave(c)
    <3> SUFFICES ASSUME CancelSave(c) PROVE FALSE
      OBVIOUS
    <3>1. opKind[c] = "cancel" /\ opPc[c] = "save" /\ runs'[r] = UpdatedRun(c)
      BY <2>1 DEF CancelSave, SaveRun, RunTypeOK, RunStoreTypeOK
    <3> QED BY <2>1, <3>1, UpdatedIsLegal DEF ControlInv, CommandInv, Underway
  <2>3. CASE runs'[r] = runs[r]
    <3>1. \E o \in Operators : ReadEarlier(o, c)
      BY <2>1, <2>2, <2>3 DEF UndoneByEarlierRead, CancelSaved, ReadEarlier
    <3> QED BY <2>1, <3>1, AcceptedStays DEF ControlInv
  <2>4. runs[r].status # "Absent"
    BY <2>1, <2>2 DEF CancelSaved, Underway, ControlInv, StoredInv
  <2>5. CASE \E o \in Operators : /\ CancelSave(o) \/ InterveneSave(o)
                                  /\ r = opRun[o] /\ runs'[r] = UpdatedRun(o)
    <3>1. PICK o \in Operators : /\ CancelSave(o) \/ InterveneSave(o)
                                 /\ r = opRun[o] /\ runs'[r] = UpdatedRun(o)
      BY <2>5
    <3>2. /\ Legal(opKind[o], opSeen[o].status)
          /\ opKind[o] \in Kinds \cup {"cancel"}
      BY <3>1 DEF ControlInv, CommandInv, Underway, CancelSave, InterveneSave
    <3>3. opSeen[o].status # "Cancelled" /\ opKind[o] # "cancel"
      BY <2>1, <3>1, <3>2, UpdatedIsLegal
    <3>4. opReply'[o] = "Accepted" /\ UNCHANGED <<opRun, opKind, opSeen>>
      BY <3>1, <3>3 DEF CancelSave, InterveneSave, OpDone, OpKeeps, RunTypeOK, ControlTypeOK
    <3> QED BY <3>1, <3>2, <3>3, <3>4 DEF ReadEarlier
  <2>6. ~(r \in Starters /\ startPc[r] = "save")
    BY <2>4 DEF ControlInv, StoredInv
  <2> QED BY <2>1, <2>3, <2>5, <2>6, SavedBy
<1> QED BY <1>1, <1>2, RunTypeCorrect, ControlIsChecked, PTL DEF Spec
-----------------------------------------------------------------------------

(* The evidence is stored of an intervention that puts run r under c.      *)
Evidenced(r, c) ==
  \E o \in Operators :
    /\ opRun[o] = r
    /\ opKind[o] \in Kinds
    /\ ControlAfter(opKind[o], "none") = c
    /\ EvidencedBy(o)

(* What a command read is evidenced as what is stored is, and it saves an  *)
(* intervention with its own evidence in the log.                          *)
EvidenceInv ==
  /\ \A o \in Operators : EvidencedBy(o) => opPc[o] # "idle"
  /\ \A o \in Operators :
       opPc[o] = "save" /\ opKind[o] \in Kinds => EvidencedBy(o)
  /\ \A r \in Runs : runs[r].control # "none" => Evidenced(r, runs[r].control)
  /\ \A o \in Operators :
       opPc[o] # "idle" /\ opSeen[o].control # "none"
         => Evidenced(opRun[o], opSeen[o].control)

(* An append adds the entry of its writer and takes none away.             *)
LEMMA AppendAdds ==
  ASSUME RunTypeOK, NEW o \in Operators, UpsertEntry(o)
  PROVE  /\ EvidencedBy(o)'
         /\ \A p \in Operators : EvidencedBy(p) => EvidencedBy(p)'
         /\ \A p \in Operators \ {o} : EvidencedBy(p)' => EvidencedBy(p)
<1>1. PICK i \in EntryIds \ Stored :
        log' = [log EXCEPT ![i] = [by |-> o, at |-> stamp[o], previous |-> tail[o]]]
  BY DEF UpsertEntry
<1>2. log'[i].by = o /\ log'[i] # NoEntry /\ \A j \in EntryIds \ {i} : log'[j] = log[j]
  BY <1>1, ChainAssumption, ControlAssumption DEF RunTypeOK, ChainTypeOK, NoEntry
<1>3. Stored' = Stored \cup {i} /\ i \notin Stored
  BY <1>2 DEF Stored
<1> QED BY <1>2, <1>3 DEF EvidencedBy, Stored

(* No other step of a command touches the log.                             *)
LEMMA OnlyAppends ==
  ASSUME RunTypeOK, Next
  PROVE  \/ UNCHANGED log
         \/ \E o \in Operators : OpAppend(o)
  BY DEF Next, ControlNext, OpStep, CancelLoad, InterveneLoad, CancelSave, InterveneSave,
     OpList, OpFault, chainVars

(* Evidence stays, and is there of commands that have begun.               *)
LEMMA EvidenceStays ==
  ASSUME RunTypeOK, CommandInv, EvidenceInv, Next
  PROVE  /\ \A p \in Operators : EvidencedBy(p) => EvidencedBy(p)'
         /\ \A p \in Operators : EvidencedBy(p)' => EvidencedBy(p) \/ OpAppend(p)
         /\ \A r, c : Evidenced(r, c) => Evidenced(r, c)'
<1>1. /\ \A p \in Operators : EvidencedBy(p) => EvidencedBy(p)'
      /\ \A p \in Operators : EvidencedBy(p)' => EvidencedBy(p) \/ OpAppend(p)
  <2>1. CASE UNCHANGED log
    BY <2>1 DEF EvidencedBy, Stored
  <2>2. CASE \E o \in Operators : OpAppend(o)
    BY <2>2, AppendAdds DEF OpAppend
  <2> QED BY <2>1, <2>2, OnlyAppends
<1>2. ASSUME NEW p \in Operators, opPc[p] # "idle"
      PROVE  opRun'[p] = opRun[p] /\ opKind'[p] = opKind[p]
  <2>1. CASE UNCHANGED controlVars
    BY <2>1 DEF controlVars
  <2>2. ASSUME NEW o \in Operators, OpStep(o) \/ OpFault(o)
        PROVE  opRun'[p] = opRun[p] /\ opKind'[p] = opKind[p]
    BY <1>2, <2>2, OthersUntouched, StepKeeps, LoadReads DEF OpStep
  <2> QED BY <2>1, <2>2 DEF Next, ControlNext
<1> QED BY <1>1, <1>2 DEF Evidenced, EvidenceInv

(* The control a legal intervention saves is its own, or the one it read.  *)
LEMMA UpdatedControl ==
  ASSUME NEW o \in Operators, UpdatedRun(o).control # "none"
  PROVE  \/ UpdatedRun(o).control = opSeen[o].control
         \/ /\ opKind[o] # "cancel"
            /\ UpdatedRun(o).control = ControlAfter(opKind[o], "none")
<1>1. CASE opKind[o] = "cancel"
  BY <1>1 DEF UpdatedRun
<1>2. CASE opKind[o] # "cancel"
  <2>1. UpdatedRun(o).control = ControlAfter(opKind[o], opSeen[o].control)
    BY <1>2 DEF UpdatedRun
  <2> QED BY <1>2, <2>1 DEF ControlAfter
<1> QED BY <1>1, <1>2

(* Every step keeps the evidence ahead of the controls.                    *)
LEMMA EvidenceAhead ==
  ASSUME RunTypeOK, CommandInv, EvidenceInv, Next
  PROVE  EvidenceInv'
<1>1. ASSUME NEW o \in Operators, EvidencedBy(o)'
      PROVE  opPc'[o] # "idle"
  <2>1. opPc[o] # "idle"
    BY <1>1, EvidenceStays DEF EvidenceInv, OpAppend
  <2>2. CASE UNCHANGED controlVars
    BY <2>1, <2>2 DEF controlVars
  <2>3. ASSUME NEW p \in Operators, OpStep(p) \/ OpFault(p)
        PROVE  opPc'[o] # "idle"
    BY <2>1, <2>3, OthersUntouched, LoadReads, StepKeeps DEF OpStep
  <2> QED BY <2>2, <2>3 DEF Next, ControlNext
<1>2. ASSUME NEW o \in Operators, opPc'[o] = "save", opKind'[o] \in Kinds
      PROVE  EvidencedBy(o)'
  <2>1. CASE UNCHANGED controlVars
    BY <1>2, <2>1, EvidenceStays DEF controlVars, EvidenceInv
  <2>2. ASSUME NEW p \in Operators, OpStep(p) \/ OpFault(p), p # o
        PROVE  EvidencedBy(o)'
    BY <1>2, <2>2, OthersUntouched, EvidenceStays DEF EvidenceInv
  <2>3. CASE OpAppend(o)
    BY <2>3, AppendAdds DEF OpAppend
  <2>4. CASE CancelLoad(o) \/ InterveneLoad(o)
    BY <1>2, <2>4, LoadReads, KindsAreInterventions
  <2>5. CASE CancelSave(o) \/ InterveneSave(o) \/ OpList(o) \/ OpFault(o)
    BY <1>2, <2>5 DEF CancelSave, InterveneSave, OpList, OpFault, OpGoto, OpDone, RunTypeOK,
       ControlTypeOK
  <2> QED BY <2>1, <2>2, <2>3, <2>4, <2>5 DEF Next, ControlNext, OpStep
<1>3. ASSUME NEW r \in Runs, NEW c, c = runs'[r].control, c # "none"
      PROVE  Evidenced(r, c)'
  <2>1. CASE runs'[r] = runs[r]
    BY <1>3, <2>1, EvidenceStays DEF EvidenceInv
  <2>2. CASE runs'[r] = [status |-> "Pending", control |-> "none"]
    BY <1>3, <2>2
  <2>3. ASSUME NEW o \in Operators, CancelSave(o) \/ InterveneSave(o), r = opRun[o],
               runs'[r] = UpdatedRun(o)
        PROVE  Evidenced(r, c)
    <3>1. CASE c = opSeen[o].control
      BY <1>3, <2>3, <3>1 DEF EvidenceInv, CancelSave, InterveneSave
    <3>2. CASE opKind[o] # "cancel" /\ c = ControlAfter(opKind[o], "none")
      <4>1. opPc[o] = "save" /\ opKind[o] \in Kinds
        BY <2>3, <3>2 DEF CancelSave, InterveneSave, CommandInv
      <4> QED BY <2>3, <3>2, <4>1 DEF EvidenceInv, Evidenced
    <3> QED BY <1>3, <2>3, <3>1, <3>2, UpdatedControl
  <2>4. Evidenced(r, c) => Evidenced(r, c)'
    BY EvidenceStays
  <2> QED BY <2>1, <2>2, <2>3, <2>4, SavedBy
<1>4. ASSUME NEW o \in Operators, opPc'[o] # "idle",
             NEW r, r = opRun'[o], NEW c, c = opSeen'[o].control, c # "none"
      PROVE  Evidenced(r, c)'
  <2>1. Evidenced(r, c)
    <3>1. CASE UNCHANGED controlVars
      BY <1>4, <3>1 DEF controlVars, EvidenceInv
    <3>2. ASSUME NEW p \in Operators, OpStep(p) \/ OpFault(p), p # o
          PROVE  Evidenced(r, c)
      BY <1>4, <3>2, OthersUntouched DEF EvidenceInv
    <3>3. CASE CancelLoad(o) \/ InterveneLoad(o)
      BY <1>4, <3>3, LoadReads DEF EvidenceInv
    <3>4. CASE CancelSave(o) \/ InterveneSave(o) \/ OpList(o) \/ OpAppend(o) \/ OpFault(o)
      BY <1>4, <3>4, StepKeeps DEF EvidenceInv
    <3> QED BY <3>1, <3>2, <3>3, <3>4 DEF Next, ControlNext, OpStep
  <2> QED BY <2>1, EvidenceStays
<1>5. \A r \in Runs : runs'[r].control # "none" => Evidenced(r, runs[r].control)'
  BY <1>3 DEF Evidenced
<1>6. \A o \in Operators :
        opPc'[o] # "idle" /\ opSeen'[o].control # "none"
          => Evidenced(opRun[o], opSeen[o].control)'
  BY <1>4 DEF Evidenced
<1> QED BY <1>1, <1>2, <1>5, <1>6 DEF EvidenceInv

(* No run is under a control that no evidence accounts for.                *)
THEOREM ControlsAreEvidenced == Spec => []ControlEvidenced
<1>1. Init => EvidenceInv
  <2> SUFFICES ASSUME Init PROVE EvidenceInv
    OBVIOUS
  <2>1. Stored = {}
    BY DEF Init, ChainInit, Stored
  <2>2. \A r \in Runs : runs[r].control = "none"
    <3>1. runs \in [Runs -> {NoRun} \cup [status : RunStatus, control : {"none"}]]
      BY DEF Init, RunStoreInit
    <3> QED BY <3>1 DEF NoRun
  <2> QED BY <2>1, <2>2 DEF EvidenceInv, EvidencedBy, Init, ControlInit
<1>2. RunTypeOK /\ ControlInv /\ EvidenceInv /\ [Next]_runVars => EvidenceInv'
  <2> SUFFICES ASSUME RunTypeOK, ControlInv, EvidenceInv, [Next]_runVars PROVE EvidenceInv'
    OBVIOUS
  <2>1. CASE UNCHANGED runVars
    BY <2>1 DEF runVars, controlVars, chainVars, EvidenceInv, Evidenced, EvidencedBy, Stored
  <2> QED BY <2>1, EvidenceAhead DEF ControlInv
<1>3. EvidenceInv => ControlEvidenced
  BY DEF EvidenceInv, Evidenced, ControlEvidenced
<1> QED BY <1>1, <1>2, <1>3, RunTypeCorrect, ControlIsChecked, PTL DEF Spec

-----------------------------------------------------------------------------

(* While appends are orderly at most one is under way, it links to the     *)
(* last entry, and it was stamped later than every entry.                  *)
ChainInv ==
  /\ \A o \in Operators : o \in appending <=> opPc[o] = "append"
  /\ orderly =>
       /\ \A v, w \in appending : v = w
       /\ \A w \in appending :
            IsTail(tail[w]) /\ \A i \in Stored : log[i].at < stamp[w]
       /\ ChainVerifies

(* A log that verifies still does with an entry after its last one.        *)
LEMMA LinkedAppend ==
  ASSUME RunTypeOK, ChainVerifies, NEW w \in Operators, IsTail(tail[w]),
         \A i \in Stored : log[i].at < stamp[w], UpsertEntry(w)
  PROVE  ChainVerifies'
<1>1. PICK n \in EntryIds \ Stored :
        log' = [log EXCEPT ![n] = [by |-> w, at |-> stamp[w], previous |-> tail[w]]]
  BY DEF UpsertEntry
<1>2. log'[n] = [by |-> w, at |-> stamp[w], previous |-> tail[w]]
      /\ log'[n] # NoEntry /\ \A j \in EntryIds \ {n} : log'[j] = log[j]
  BY <1>1, ChainAssumption, ControlAssumption DEF RunTypeOK, ChainTypeOK, NoEntry
<1>3. Stored' = Stored \cup {n} /\ n \notin Stored /\ Stored \subseteq EntryIds
  BY <1>2 DEF Stored
<1>4. \A i \in Stored : log[i].at \in Nat /\ i \in Nat /\ log'[i] = log[i]
  BY <1>2, <1>3, ChainAssumption DEF RunTypeOK, ChainTypeOK, Stored, Entry
<1>5. stamp[w] \in Nat /\ n \in Nat
  BY ChainAssumption, ControlAssumption DEF RunTypeOK, ChainTypeOK
<1>6. \A i, j \in Stored : Before(i, j)' <=> Before(i, j)
  BY <1>4 DEF Before
<1>7. \A i \in Stored : Before(i, n)' /\ ~Before(n, i)'
  BY <1>2, <1>4, <1>5 DEF Before
<1>8. ~Before(n, n)'
  BY <1>2, <1>5 DEF Before
<1>9. LinkVerifies(n)'
  <2>1. CASE Stored = {}
    <3>1. tail[w] = Unlinked
      BY <2>1 DEF IsTail
    <3>2. \A j \in Stored' : ~Before(j, n)'
      BY <1>3, <1>8, <2>1
    <3> QED BY <1>2, <3>1, <3>2 DEF LinkVerifies
  <2>2. CASE Stored # {}
    <3>1. PICK t \in Stored : t = tail[w] /\ \A i \in Stored : i = t \/ Before(i, t)
      BY <2>2 DEF IsTail
    <3>2. log'[n].previous = t
      BY <1>2, <3>1
    <3>3. \A j \in Stored' : Before(j, n)' => j = t \/ Before(j, t)'
      BY <1>3, <1>6, <1>8, <3>1
    <3>4. t \in Stored' /\ Before(t, n)'
      BY <1>3, <1>7
    <3> QED BY <3>2, <3>3, <3>4 DEF LinkVerifies, Before
  <2> QED BY <2>1, <2>2
<1>10. ASSUME NEW i \in Stored
       PROVE  LinkVerifies(i)'
  <2>1. LinkVerifies(i)
    BY DEF ChainVerifies
  <2>2. log'[i] = log[i] /\ i \in Stored'
    BY <1>3, <1>4
  <2>3. \A j \in Stored' : Before(j, i)' <=> j \in Stored /\ Before(j, i)
    BY <1>3, <1>6, <1>7
  <2>4. CASE \A j \in Stored : ~Before(j, i)
    <3>1. \A j \in Stored' : ~Before(j, i)'
      BY <2>3, <2>4
    <3> QED BY <2>1, <2>2, <2>4, <3>1 DEF LinkVerifies
  <2>5. CASE ~\A j \in Stored : ~Before(j, i)
    <3>1. PICK t \in Stored :
            /\ t = log[i].previous /\ Before(t, i)
            /\ \A j \in Stored : Before(j, i) => j = t \/ Before(j, t)
      BY <2>1, <2>5 DEF LinkVerifies
    <3>2. \A j \in Stored' : Before(j, i)' => j = t \/ Before(j, t)'
      BY <1>6, <2>3, <3>1
    <3>3. t \in Stored' /\ Before(t, i)' /\ log'[i].previous = t
      BY <1>3, <1>6, <2>2, <3>1
    <3> QED BY <3>2, <3>3 DEF LinkVerifies, Before
  <2> QED BY <2>4, <2>5
<1> QED BY <1>3, <1>9, <1>10 DEF ChainVerifies

(* A step that leaves the log alone leaves the chain alone.                *)
LEMMA ChainUntouched ==
  ASSUME UNCHANGED log
  PROVE  /\ UNCHANGED <<Stored, ChainVerifies>>
         /\ \A t : IsTail(t)' <=> IsTail(t)
  BY DEF Stored, ChainVerifies, LinkVerifies, IsTail, Before

(* Every step keeps the chain in order.                                    *)
LEMMA ChainKept ==
  ASSUME RunTypeOK, ChainInv, Next
  PROVE  ChainInv'
<1>1. CASE UNCHANGED <<opPc, chainVars>>
  BY <1>1, ChainUntouched DEF chainVars, ChainInv
<1>2. ASSUME NEW o \in Operators, OpStep(o) \/ OpFault(o)
      PROVE  ChainInv'
  <2>1. appending \subseteq Operators
    BY ControlAssumption DEF RunTypeOK, ChainTypeOK
  <2>2. \A p \in Operators \ {o} : opPc'[p] = opPc[p]
    BY <1>2, OthersUntouched
  <2>3. CASE CancelLoad(o) \/ InterveneLoad(o)
    <3>1. opPc[o] = "idle" /\ opPc'[o] # "append"
      BY <2>3, LoadReads
    <3>2. UNCHANGED <<log, tail, appending, orderly>>
          /\ \A p \in Operators \ {o} : stamp'[p] = stamp[p]
      BY <2>3, ControlAssumption
      DEF CancelLoad, InterveneLoad, Refuse, TakeStamp, RunTypeOK, ChainTypeOK
    <3>3. o \notin appending
      BY <3>1 DEF ChainInv
    <3> QED BY <2>1, <2>2, <3>1, <3>2, <3>3, ChainUntouched DEF ChainInv
  <2>4. CASE CancelSave(o) \/ InterveneSave(o)
    <3>1. UNCHANGED chainVars /\ opPc[o] # "append" /\ opPc'[o] # "append"
      BY <2>4 DEF CancelSave, InterveneSave, OpDone, OpGoto, RunTypeOK, ControlTypeOK
    <3> QED BY <2>2, <3>1, ChainUntouched DEF ChainInv, chainVars
  <2>5. CASE OpList(o)
    <3>1. opPc'[o] = "append" /\ appending' = appending \cup {o}
          /\ UNCHANGED <<log, stamp>> /\ IsTail(tail'[o])
          /\ orderly' = (orderly /\ appending = {} /\ \A i \in Stored : log[i].at < stamp[o])
      BY <2>5, ControlAssumption
      DEF OpList, ListEntries, OpGoto, RunTypeOK, ChainTypeOK, ControlTypeOK
    <3> QED BY <2>2, <3>1, ChainUntouched DEF ChainInv
  <2>6. CASE OpAppend(o)
    <3>1. o \in appending /\ appending' = appending \ {o} /\ opPc'[o] # "append"
          /\ UpsertEntry(o) /\ UNCHANGED orderly
      BY <2>6 DEF OpAppend, UpsertEntry, OpDone, OpGoto, ChainInv, RunTypeOK, ControlTypeOK
    <3>2. orderly => appending' = {} /\ ChainVerifies'
      BY <3>1, LinkedAppend DEF ChainInv
    <3> QED BY <2>2, <3>1, <3>2 DEF ChainInv
  <2>7. CASE OpFault(o)
    <3>1. appending' = appending \ {o} /\ opPc'[o] # "append"
          /\ UNCHANGED <<log, tail, stamp, orderly>>
      BY <2>7 DEF OpFault, AbandonAppend, OpGoto, RunTypeOK, ControlTypeOK
    <3> QED BY <2>2, <3>1, ChainUntouched DEF ChainInv
  <2> QED BY <1>2, <2>3, <2>4, <2>5, <2>6, <2>7 DEF OpStep
<1> QED BY <1>1, <1>2 DEF Next, ControlNext, controlVars

(* Appends that do not overlap, and are stamped in order, make one chain.  *)
THEOREM OrderlyLogIsAChain == Spec => []OrderlyLogVerifies
<1>1. Init => ChainInv
  BY DEF Init, ControlInit, ChainInit, ChainInv, ChainVerifies, Stored
<1>2. RunTypeOK /\ ChainInv /\ [Next]_runVars => ChainInv'
  <2> SUFFICES ASSUME RunTypeOK, ChainInv, [Next]_runVars PROVE ChainInv'
    OBVIOUS
  <2>1. CASE UNCHANGED runVars
    BY <2>1, ChainUntouched DEF runVars, controlVars, chainVars, ChainInv
  <2> QED BY <2>1, ChainKept
<1>3. ChainInv => OrderlyLogVerifies
  BY DEF ChainInv, OrderlyLogVerifies
<1> QED BY <1>1, <1>2, <1>3, RunTypeCorrect, PTL DEF Spec
=============================================================================
