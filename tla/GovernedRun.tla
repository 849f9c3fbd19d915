----------------------------- MODULE GovernedRun -----------------------------
(***************************************************************************)
(* The life of a run: started by startWorkflow, executed by Temporal, and  *)
(* cancelled or intervened in by operators.  The commands share the run    *)
(* store; nothing links what the operators save there to the execution.    *)
(***************************************************************************)
EXTENDS StartWorkflow, RunControl

runVars == <<runs, faults, startVars, workflowVars, controlVars, chainVars>>

RunTypeOK ==
  /\ RunStoreTypeOK
  /\ WorkflowTypeOK
  /\ StartTypeOK
  /\ ChainTypeOK
  /\ ControlTypeOK

Init ==
  /\ RunStoreInit
  /\ WorkflowInit
  /\ StartInit
  /\ ChainInit
  /\ ControlInit

Next ==
  \/ StartNext   /\ UNCHANGED <<controlVars, chainVars>>
  \/ ControlNext /\ UNCHANGED <<startVars, workflowVars>>

Spec == Init /\ [][Next]_runVars

(* A start that was requested runs to its end, and Temporal and its worker *)
(* keep an execution going.  Nobody has to decide, cancel or intervene.    *)
Fairness ==
  /\ \A s \in Starters : WF_runVars(startPc[s] # "idle" /\ StartStep(s)
       /\ UNCHANGED <<controlVars, chainVars>>)
  /\ \A s \in Starters : WF_runVars(ExecutionStep(s)
       /\ UNCHANGED <<runs, startVars, controlVars, chainVars>>)

FairSpec == Spec /\ Fairness

-----------------------------------------------------------------------------

(* A caller is told of a run (its own, or the one cached under its key)    *)
(* only if that run was asked for under the same key, is stored, and its   *)
(* start was announced, however the starters interleave and fail.          *)
AnsweredIsAnnounced ==
  \A s \in Starters : answer[s] # None =>
    /\ startKey[answer[s]] = startKey[s]
    /\ answer[s] \in announced
    /\ runs[answer[s]].status # "Absent"

(* A run whose start was announced is executed, unless another run was     *)
(* executed under the same key: that is the only way a run that the caller *)
(* was told of stays Pending for ever.                                     *)
OrphanSharesKey ==
  \A s \in announced :
    execution[s] = "none" => ExecutedUnder(startKey[s]) # {}

(* The execution of a run whose tier waits for a human completes the run   *)
(* only if the decision it went by, the latest that was signalled before   *)
(* it resumed, is an approval, and stops only if that decision is not; a   *)
(* denial overtakes an approval, whatever is retried, lost or restarted.   *)
CarriedOutIfApproved ==
  \A s \in Starters : gated[s] =>
    /\ execution[s] \in {"completing", "completed"} \/ memory[s] = "Succeeded"
         => signal[s] = "Approved"
    /\ execution[s] = "returned" => signal[s] \in {"Denied", "RequestChanges"}

(* Retries and restarts of the worker never fail an execution by           *)
(* themselves: one that failed had done its work and lost the              *)
(* acknowledgement, or it lost as many tasks as it had attempts.           *)
FailsOnlyByLostAck ==
  \A s \in Starters : execution[s] = "failed" => ackLost[s] \/ faults >= MaxAttempts

(* A run is under a control only if the evidence of an intervention that   *)
(* puts it there is stored: the handler appends before it saves.           *)
ControlEvidenced ==
  \A r \in Runs : runs[r].control # "none" =>
    \E o \in Operators :
      /\ opRun[o] = r
      /\ opKind[o] \in Kinds
      /\ ControlAfter(opKind[o], "none") = runs[r].control
      /\ EvidencedBy(o)

(* A cancellation that was saved is undone only by an intervention that    *)
(* had read the run before it was cancelled.                               *)
UndoneByEarlierRead ==
  \A c \in Operators :
    /\ opKind[c] = "cancel"
    /\ opPc[c] \in {"list", "append"} \/ opReply[c] = "Accepted"
    /\ runs[opRun[c]].status # "Cancelled"
    => \E o \in Operators :
         /\ opRun[o] = opRun[c]
         /\ opKind[o] \in Kinds
         /\ opReply[o] = "Accepted"
         /\ opSeen[o].status # "Cancelled"

(* The evidence log verifies as one chain if no two appends overlapped and *)
(* each was stamped later than what was stored when it began.              *)
OrderlyLogVerifies == orderly => ChainVerifies

(* The status of a stored run moves along the table, unless the run was    *)
(* saved by somebody else between the read and the save of this handler.   *)
IllegalMoveIsStale ==
  [][ \A r \in Runs : LET from == runs[r].status  to == runs'[r].status IN
        \/ to = from
        \/ from = "Absent" /\ to = "Pending"
        \/ ValidTransition(from, to)
        \/ \E o \in Operators : opPc[o] = "save" /\ opPc'[o] # "save"
             /\ opRun[o] = r /\ opSeen[o] # runs[r] ]_runVars

(* An execution closes, failing or not, once it needs no more decisions.   *)
ExecutionCloses ==
  \A s \in Starters :
    execution[s] # "none" /\ (gated[s] => signal[s] # "none")
      ~> execution[s] \in Closed
=============================================================================
