----------------------------- MODULE RunWorkflow -----------------------------
(***************************************************************************)
(* The Temporal execution of a run: portariumRun and the two activities it *)
(* calls on a worker, which keeps the state of the runs it has met in a    *)
(* map of its own and never writes the run store.  Temporal delivers an    *)
(* activity at least once and gives up after MaxAttempts.                  *)
(***************************************************************************)
EXTENDS RunStore

CONSTANTS Starters,      \* startWorkflow invocations; s names s's new run too
          Keys,          \* Idempotency-Key values
          MaxAttempts    \* attempts of an activity (5 in the code)

ASSUME WorkflowAssumption ==
  /\ Starters \subseteq Runs \ Seeded
  /\ MaxAttempts \in Nat \ {0}

VARIABLES execution,  \* execution[s]: where the execution of s's run stands
          tries,      \* tries[s]: failed attempts of the current activity
          ackLost,    \* ackLost[s]: an activity took effect, unacknowledged
          signal,     \* signal[s]: the latest signal the execution looks at
          memory      \* memory[s]: the run's status in the worker's map

workflowVars == <<execution, tries, ackLost, signal, memory>>

Decision == {"Approved", "Denied", "RequestChanges"}

Open == {"starting", "waiting", "completing"}

(* "returned": the decision was not an approval and nothing more was done. *)
Closed == {"completed", "returned", "failed"}

WorkflowTypeOK ==
  /\ execution \in [Starters -> {"none"} \cup Open \cup Closed]
  /\ tries \in [Starters -> 0..MaxAttempts - 1]
  /\ ackLost \in [Starters -> BOOLEAN]
  /\ signal \in [Starters -> Decision \cup {"none"}]
  /\ memory \in [Starters -> RunStatus \cup {"Absent"}]

WorkflowInit ==
  /\ execution = [s \in Starters |-> "none"]
  /\ tries = [s \in Starters |-> 0]
  /\ ackLost = [s \in Starters |-> FALSE]
  /\ signal = [s \in Starters |-> "none"]
  /\ memory = [s \in Starters |-> "Absent"]

(* The activity is acknowledged; the execution goes on.                    *)
Advance(s, to) ==
  /\ execution' = [execution EXCEPT ![s] = to]
  /\ tries' = [tries EXCEPT ![s] = 0]

(* Bug: one attempt more than the policy allows.                           *)
RetryOnceMore(s) ==
  IF tries[s] = MaxAttempts
    THEN Advance(s, "failed")
    ELSE tries' = [tries EXCEPT ![s] = @ + 1] /\ UNCHANGED execution

(* The activity failed, or seems to have: again, or the execution fails.   *)
Retry(s) ==
  IF tries[s] + 1 = MaxAttempts
    THEN Advance(s, "failed")
    ELSE tries' = [tries EXCEPT ![s] = @ + 1] /\ UNCHANGED execution

(* The worker did the work and Temporal was not told.                      *)
LoseAck(s) ==
  /\ Fault
  /\ ackLost' = [ackLost EXCEPT ![s] = TRUE]
  /\ Retry(s)

SetMemory(s, status) == memory' = [memory EXCEPT ![s] = status]

(* Bug: a run the worker does not know is always a pending one.            *)
MovesFromPending(s, initial, to) ==
  ValidTransition(IF memory[s] = "Absent" THEN "Pending" ELSE memory[s], to)

(* ensureRunState, then transitionRun: the status the map holds, or, of a  *)
(* run the worker does not know, the one it is given.                      *)
Moves(s, initial, to) ==
  ValidTransition(IF memory[s] = "Absent" THEN initial ELSE memory[s], to)

(* The task was not done in time, or its worker is gone.                   *)
LoseTask(s) == Fault /\ Retry(s) /\ UNCHANGED ackLost

(* An attempt of an activity that moves the run.  The transition throws    *)
(* when the run is not in the status it starts from.                       *)
Attempt(s, initial, to, next) ==
  \/ /\ Moves(s, initial, to)
     /\ SetMemory(s, to)
     /\ \/ Advance(s, next) /\ UNCHANGED <<faults, ackLost>>
        \/ LoseAck(s)
  \/ /\ ~Moves(s, initial, to)
     /\ Retry(s)
     /\ UNCHANGED <<memory, faults, ackLost>>
  \/ LoseTask(s) /\ UNCHANGED memory

(* startRunActivity; a HumanApprove or ManualOnly run then waits.          *)
StartRunActivity(s, gated) ==
  /\ execution[s] = "starting"
  /\ Attempt(s, "Pending", "Running", IF gated THEN "waiting" ELSE "completing")
  /\ UNCHANGED signal

(* Bug: any decision lets the run go on.                                   *)
AwaitAnyDecision(s) ==
  /\ execution[s] = "waiting"
  /\ signal[s] # "none"
  /\ Advance(s, "completing")
  /\ UNCHANGED <<ackLost, signal, memory, faults>>

(* Bug: a request for changes leaves the execution waiting.                *)
AwaitVerdict(s) ==
  /\ execution[s] = "waiting"
  /\ signal[s] \in {"Approved", "Denied"}
  /\ Advance(s, IF signal[s] = "Approved" THEN "completing" ELSE "returned")
  /\ UNCHANGED <<ackLost, signal, memory, faults>>

(* condition(() => decision !== undefined): the latest of the signals that *)
(* came before the execution resumed is the decision.                      *)
AwaitDecision(s) ==
  /\ execution[s] = "waiting"
  /\ signal[s] # "none"
  /\ Advance(s, IF signal[s] = "Approved" THEN "completing" ELSE "returned")
  /\ UNCHANGED <<ackLost, signal, memory, faults>>

(* completeRunActivity.                                                    *)
CompleteRunActivity(s) ==
  /\ execution[s] = "completing"
  /\ Attempt(s, "Running", "Succeeded", "completed")
  /\ UNCHANGED signal

(* Somebody signals an open execution.  Temporal keeps a signal that comes *)
(* before the handler is set; the handler keeps the latest payload.  One   *)
(* that comes after the execution resumed is not looked at any more, so    *)
(* that signal[s] stays the decision the execution went by.                *)
SignalDecision(s) ==
  /\ execution[s] \in {"starting", "waiting"}
  /\ \E d \in Decision : signal' = [signal EXCEPT ![s] = d]
  /\ UNCHANGED <<execution, tries, ackLost, memory, faults>>

(* The worker restarts and has met no run.                                 *)
WorkerRestart ==
  /\ \E s \in Starters : memory[s] # "Absent"
  /\ Fault
  /\ memory' = [s \in Starters |-> "Absent"]
  /\ UNCHANGED <<execution, tries, ackLost, signal>>
=============================================================================
