---------------------------- MODULE StartWorkflow ----------------------------
(***************************************************************************)
(* startWorkflow, which createRun and the start route call: a new run is   *)
(* stored, its execution started, announced, and the answer cached under   *)
(* the Idempotency-Key.  The unit of work has no transaction: every call   *)
(* is a step, and what was done before a failure stays done.               *)
(***************************************************************************)
EXTENDS RunWorkflow

VARIABLES startPc,    \* startPc[s]: the call the handler awaits next
          startKey,   \* startKey[s]: the request's Idempotency-Key
          gated,      \* gated[s]: the workflow's tier waits for a human
          answer,     \* answer[s]: the run the caller was told of
          outputs,    \* outputs[k]: the run cached under key k
          announced   \* the runs RunStarted was published for

startVars == <<startPc, startKey, gated, answer, outputs, announced>>

StartPc == {"idle", "resolve", "unique", "save", "start", "publish", "cache",
            "done", "dead"}

StartTypeOK ==
  /\ startPc \in [Starters -> StartPc]
  /\ startKey \in [Starters -> Keys \cup {None}]
  /\ gated \in [Starters -> BOOLEAN]
  /\ answer \in [Starters -> Starters \cup {None}]
  /\ outputs \in [Keys -> Starters \cup {None}]
  /\ announced \subseteq Starters

StartInit ==
  /\ startPc = [s \in Starters |-> "idle"]
  /\ startKey = [s \in Starters |-> None]
  /\ gated = [s \in Starters |-> FALSE]
  /\ answer = [s \in Starters |-> None]
  /\ outputs = [k \in Keys |-> None]
  /\ announced = {}

StartGoto(s, pc) ==
  /\ startPc' = [startPc EXCEPT ![s] = pc]
  /\ UNCHANGED answer

StartDone(s, run) ==
  /\ startPc' = [startPc EXCEPT ![s] = "done"]
  /\ answer' = [answer EXCEPT ![s] = run]

(* Executions whose Temporal workflowId is `tenantId/key`.                 *)
ExecutedUnder(k) == {s \in Starters : startKey[s] = k /\ execution[s] # "none"}

-----------------------------------------------------------------------------

(* Validation passed; idempotency.get.                                     *)
StartLookup(s) ==
  /\ startPc[s] = "idle"
  /\ \E k \in Keys :
       /\ startKey' = [startKey EXCEPT ![s] = k]
       /\ \/ outputs[k] # None /\ StartDone(s, outputs[k])
          \/ outputs[k] = None /\ StartGoto(s, "resolve")
  /\ UNCHANGED <<runs, faults, gated, outputs, announced, workflowVars>>

(* resolveWorkflow and the conflict checks: the workflow is found, of some *)
(* tier, or the request is refused.                                        *)
StartResolve(s) ==
  /\ startPc[s] = "resolve"
  /\ \/ StartDone(s, None) /\ UNCHANGED gated
     \/ /\ \E tier \in BOOLEAN : gated' = [gated EXCEPT ![s] = tier]
        /\ StartGoto(s, "unique")
  /\ UNCHANGED <<runs, faults, startKey, outputs, announced, workflowVars>>

(* getRunById of a fresh run id, which no run has.                         *)
StartUnique(s) ==
  /\ startPc[s] = "unique"
  /\ runs[s].status = "Absent"
  /\ StartGoto(s, "save")
  /\ UNCHANGED <<runs, faults, startKey, gated, outputs, announced, workflowVars>>

StartSave(s) ==
  /\ startPc[s] = "save"
  /\ SaveRun(s, [status |-> "Pending", control |-> "none"])
  /\ StartGoto(s, "start")
  /\ UNCHANGED <<faults, startKey, gated, outputs, announced, workflowVars>>

(* Bug: every error of the orchestrator is taken for success.              *)
StartRunSwallows(s) ==
  /\ startPc[s] = "start"
  /\ \/ execution' = [execution EXCEPT ![s] = "starting"]
     \/ UNCHANGED execution
  /\ StartGoto(s, "publish")
  /\ UNCHANGED <<runs, faults, startKey, gated, outputs, announced,
                 tries, ackLost, signal, memory>>

(* orchestrator.startRun: Temporal starts an execution under the key unless *)
(* one is open, which the adapter takes for success.                       *)
StartRun(s) ==
  LET open == {t \in ExecutedUnder(startKey[s]) : execution[t] \in Open} IN
  /\ startPc[s] = "start"
  /\ \/ open = {} /\ execution' = [execution EXCEPT ![s] = "starting"]
     \/ open # {} /\ UNCHANGED execution
  /\ StartGoto(s, "publish")
  /\ UNCHANGED <<runs, faults, startKey, gated, outputs, announced,
                 tries, ackLost, signal, memory>>

(* Bug: a failure to publish is not noticed.                               *)
StartPublishForgets(s) ==
  /\ startPc[s] = "publish"
  /\ announced' \in {announced, announced \cup {s}}
  /\ StartGoto(s, "cache")
  /\ UNCHANGED <<runs, faults, startKey, gated, outputs, workflowVars>>

StartPublish(s) ==
  /\ startPc[s] = "publish"
  /\ announced' = announced \cup {s}
  /\ StartGoto(s, "cache")
  /\ UNCHANGED <<runs, faults, startKey, gated, outputs, workflowVars>>

(* idempotency.set: an upsert, whatever the key holds by now.              *)
StartCache(s) ==
  /\ startPc[s] = "cache"
  /\ outputs' = [outputs EXCEPT ![startKey[s]] = s]
  /\ StartDone(s, s)
  /\ UNCHANGED <<runs, faults, startKey, gated, announced, workflowVars>>

(* The awaited call fails before taking effect, or the process stops.      *)
StartFault(s) ==
  /\ startPc[s] \notin {"idle", "done", "dead"}
  /\ Fault
  /\ StartGoto(s, "dead")
  /\ UNCHANGED <<runs, startKey, gated, outputs, announced, workflowVars>>

StartStep(s) ==
  \/ StartLookup(s) \/ StartResolve(s) \/ StartUnique(s) \/ StartSave(s)
  \/ StartRun(s)    \/ StartPublish(s) \/ StartCache(s)

(* What Temporal and its worker do for the run of s.                       *)
ExecutionStep(s) ==
  \/ StartRunActivity(s, gated[s]) \/ AwaitDecision(s) \/ CompleteRunActivity(s)

StartNext ==
  \/ \E s \in Starters : StartStep(s) \/ StartFault(s)
  \/ /\ \/ \E s \in Starters : ExecutionStep(s) \/ SignalDecision(s)
        \/ WorkerRestart
     /\ UNCHANGED <<runs, startVars>>
=============================================================================
