------------------------- MODULE RunExecutionProofs -------------------------
(***************************************************************************)
(* Theorems about the start and the execution of runs, for any number of   *)
(* runs, starters, operators, keys, attempts and failures.                 *)
(***************************************************************************)
EXTENDS RunControlProofs

(* Nothing but startWorkflow's own call starts an execution.               *)
NotStarted == {"idle", "resolve", "unique", "save", "start"}

(* Where the execution of s's run stands, next to what the worker holds,   *)
(* what was signalled and what was lost.  Until an acknowledgement is lost *)
(* an attempt fails only by a failure that is counted.                     *)
ExecutionInv ==
  \A s \in Starters :
    /\ startPc[s] \in NotStarted => execution[s] = "none"
    /\ execution[s] = "none" => memory[s] = "Absent"
    /\ memory[s] = "Succeeded" => execution[s] \notin {"starting", "waiting"}
    /\ gated[s] /\ (execution[s] \in {"completing", "completed"} \/ memory[s] = "Succeeded")
         => signal[s] = "Approved"
    /\ execution[s] = "returned" => signal[s] \in {"Denied", "RequestChanges"}
    /\ ~ackLost[s] =>
         /\ execution[s] = "starting" => memory[s] = "Absent"
         /\ execution[s] \in {"waiting", "completing"} => memory[s] \in {"Absent", "Running"}
         /\ execution[s] = "failed" => faults >= MaxAttempts
         /\ tries[s] <= faults

-----------------------------------------------------------------------------

(* A step of a start goes forward, and starts no execution but its own.    *)
LEMMA StartForward ==
  ASSUME RunTypeOK, NEW s \in Starters, StartStep(s) \/ StartFault(s)
  PROVE  /\ \A t \in Starters \ {s} :
              startPc'[t] = startPc[t] /\ startKey'[t] = startKey[t] /\ gated'[t] = gated[t]
              /\ execution'[t] = execution[t] /\ answer'[t] = answer[t]
         /\ startPc'[s] \in NotStarted => startPc[s] \in NotStarted \ {"start"}
         /\ startPc'[s] # "idle"
         /\ startPc[s] = "idle" \/ startKey'[s] = startKey[s]
         /\ gated'[s] = gated[s] \/ startPc[s] = "resolve"
         /\ execution'[s] = execution[s] \/ (startPc[s] = "start" /\ startPc'[s] = "publish"
                                              /\ execution'[s] = "starting")
         /\ UNCHANGED <<tries, ackLost, signal, memory>>
<1> USE DEF RunTypeOK, StartTypeOK, WorkflowTypeOK, StartGoto, StartDone, NotStarted,
            workflowVars
<1>1. CASE StartLookup(s)
  BY <1>1 DEF StartLookup
<1>2. CASE StartResolve(s)
  BY <1>2 DEF StartResolve
<1>3. CASE StartUnique(s)
  BY <1>3 DEF StartUnique
<1>4. CASE StartSave(s)
  BY <1>4 DEF StartSave
<1>5. CASE StartRun(s)
  BY <1>5 DEF StartRun
<1>6. CASE StartPublish(s)
  BY <1>6 DEF StartPublish
<1>7. CASE StartCache(s)
  BY <1>7 DEF StartCache
<1>8. CASE StartFault(s)
  BY <1>8 DEF StartFault, StartPc
<1> QED BY <1>1, <1>2, <1>3, <1>4, <1>5, <1>6, <1>7, <1>8 DEF StartStep

(* An attempt of an activity concerns its own execution.                   *)
LEMMA AttemptOwn ==
  ASSUME RunTypeOK, NEW s \in Starters, NEW initial, NEW to, NEW next,
         Attempt(s, initial, to, next)
  PROVE  /\ \A t \in Starters \ {s} :
              execution'[t] = execution[t] /\ memory'[t] = memory[t]
              /\ ackLost'[t] = ackLost[t] /\ tries'[t] = tries[t]
         /\ execution'[s] \in {execution[s], next, "failed"}
         /\ memory'[s] \in {to, memory[s]}
         /\ ackLost[s] => ackLost'[s]
         /\ ~ackLost'[s] /\ Moves(s, initial, to) =>
              \/ execution'[s] = next /\ tries'[s] = 0 /\ memory'[s] = to
              \/ /\ faults' = faults + 1 /\ memory'[s] = memory[s]
                 /\ \/ execution'[s] = execution[s] /\ tries'[s] = tries[s] + 1
                    \/ execution'[s] = "failed" /\ tries'[s] = 0 /\ tries[s] + 1 = MaxAttempts
<1> USE DEF RunTypeOK, WorkflowTypeOK
<1>1. CASE Moves(s, initial, to) /\ SetMemory(s, to) /\ Advance(s, next)
           /\ UNCHANGED <<faults, ackLost>>
  BY <1>1 DEF SetMemory, Advance
<1>2. CASE SetMemory(s, to) /\ LoseAck(s)
  BY <1>2 DEF SetMemory, LoseAck, Retry, Advance
<1>3. CASE ~Moves(s, initial, to) /\ Retry(s) /\ UNCHANGED <<memory, faults, ackLost>>
  BY <1>3 DEF Retry, Advance
<1>4. CASE LoseTask(s) /\ UNCHANGED memory
  BY <1>4 DEF LoseTask, Fault, Retry, Advance
<1> QED BY <1>1, <1>2, <1>3, <1>4 DEF Attempt

(* Failures are counted up.                                                *)
LEMMA FaultsGrow ==
  ASSUME RunTypeOK, [Next]_runVars
  PROVE  faults \in Nat /\ faults' \in Nat /\ faults <= faults'
<1>1. faults \in Nat
  BY RunStoreAssumption DEF RunTypeOK, RunStoreTypeOK
<1>2. ASSUME NEW s \in Starters, StartStep(s) \/ StartFault(s)
      PROVE  faults' = faults \/ Fault
  BY <1>2 DEF StartStep, StartLookup, StartResolve, StartUnique, StartSave, StartRun,
     StartPublish, StartCache, StartFault
<1>3. ASSUME NEW s \in Starters, ExecutionStep(s) \/ SignalDecision(s)
      PROVE  faults' = faults \/ Fault
  BY <1>3 DEF ExecutionStep, StartRunActivity, AwaitDecision, CompleteRunActivity, Attempt,
     LoseAck, LoseTask, SignalDecision
<1>4. WorkerRestart => Fault
  BY DEF WorkerRestart
<1>5. ASSUME NEW o \in Operators, OpStep(o) \/ OpFault(o)
      PROVE  faults' = faults \/ Fault
  BY <1>5 DEF OpStep, CancelLoad, CancelSave, InterveneLoad, InterveneSave, OpList, OpAppend,
     OpFault
<1>6. faults' = faults \/ Fault
  BY <1>2, <1>3, <1>4, <1>5 DEF Next, StartNext, ControlNext, runVars
<1> QED BY <1>1, <1>6 DEF Fault

(* The activities and the wait between them.                               *)
LEMMA ExecutionKept ==
  ASSUME RunTypeOK, ExecutionInv, [Next]_runVars, NEW s \in Starters, ExecutionStep(s),
         UNCHANGED startVars
  PROVE  ExecutionInv'
<1> USE DEF RunTypeOK, WorkflowTypeOK
<1>1. UNCHANGED <<startPc, gated, signal>>
  BY DEF ExecutionStep, StartRunActivity, AwaitDecision, CompleteRunActivity, startVars
<1>2. execution[s] # "none" /\ startPc[s] \notin NotStarted
  BY DEF ExecutionStep, StartRunActivity, AwaitDecision, CompleteRunActivity, ExecutionInv
<1>3. faults \in Nat /\ faults' \in Nat /\ faults <= faults' /\ MaxAttempts \in Nat \ {0}
  BY FaultsGrow, WorkflowAssumption
<1>4. \A t \in Starters : tries[t] \in Nat
  BY <1>3
<1>5. CASE StartRunActivity(s, gated[s])
  <2> DEFINE next == IF gated[s] THEN "waiting" ELSE "completing"
  <2>1. execution[s] = "starting" /\ Attempt(s, "Pending", "Running", next)
    BY <1>5 DEF StartRunActivity
  <2>2. memory[s] = "Absent" => Moves(s, "Pending", "Running")
    BY DEF Moves, ValidTransition, RunStatus, RunTransitions
  <2> HIDE DEF next
  <2>3. /\ \A t \in Starters \ {s} :
              execution'[t] = execution[t] /\ memory'[t] = memory[t]
              /\ ackLost'[t] = ackLost[t] /\ tries'[t] = tries[t]
        /\ execution'[s] \in {execution[s], next, "failed"}
        /\ memory'[s] \in {"Running", memory[s]}
        /\ ackLost[s] => ackLost'[s]
        /\ ~ackLost'[s] /\ Moves(s, "Pending", "Running") =>
             \/ execution'[s] = next /\ tries'[s] = 0 /\ memory'[s] = "Running"
             \/ /\ faults' = faults + 1 /\ memory'[s] = memory[s]
                /\ \/ execution'[s] = execution[s] /\ tries'[s] = tries[s] + 1
                   \/ execution'[s] = "failed" /\ tries'[s] = 0 /\ tries[s] + 1 = MaxAttempts
    BY <2>1, AttemptOwn
  <2>4. ~ackLost'[s] => ~ackLost[s] /\ memory[s] = "Absent" /\ tries[s] <= faults
    BY <2>1, <2>3 DEF ExecutionInv
  <2>5. ~ackLost'[s] =>
          /\ tries'[s] <= faults'
          /\ \/ execution'[s] = next /\ memory'[s] = "Running"
             \/ execution'[s] = "starting" /\ memory'[s] = "Absent"
             \/ execution'[s] = "failed" /\ faults' >= MaxAttempts
    BY <1>3, <1>4, <2>1, <2>2, <2>3, <2>4
  <2>6. memory[s] # "Succeeded"
    BY <2>1 DEF ExecutionInv
  <2>7. /\ startPc'[s] \notin NotStarted /\ execution'[s] # "none"
        /\ memory'[s] # "Succeeded" /\ execution'[s] \notin {"completed", "returned"}
        /\ gated'[s] => execution'[s] # "completing"
    BY <1>1, <1>2, <2>1, <2>3, <2>6 DEF next
  <2>8. next \notin {"starting", "failed"}
    BY DEF next
  <2> QED BY <1>1, <1>3, <1>4, <2>3, <2>5, <2>7, <2>8 DEF ExecutionInv
<1>6. CASE CompleteRunActivity(s)
  <2>1. execution[s] = "completing" /\ Attempt(s, "Running", "Succeeded", "completed")
    BY <1>6 DEF CompleteRunActivity
  <2>2. memory[s] \in {"Absent", "Running"} => Moves(s, "Running", "Succeeded")
    BY DEF Moves, ValidTransition, RunStatus, RunTransitions
  <2>3. /\ \A t \in Starters \ {s} :
              execution'[t] = execution[t] /\ memory'[t] = memory[t]
              /\ ackLost'[t] = ackLost[t] /\ tries'[t] = tries[t]
        /\ execution'[s] \in {execution[s], "completed", "failed"}
        /\ ackLost[s] => ackLost'[s]
        /\ ~ackLost'[s] /\ Moves(s, "Running", "Succeeded") =>
             \/ execution'[s] = "completed" /\ tries'[s] = 0 /\ memory'[s] = "Succeeded"
             \/ /\ faults' = faults + 1 /\ memory'[s] = memory[s]
                /\ \/ execution'[s] = execution[s] /\ tries'[s] = tries[s] + 1
                   \/ execution'[s] = "failed" /\ tries'[s] = 0 /\ tries[s] + 1 = MaxAttempts
    BY <2>1, AttemptOwn
  <2>4. ~ackLost'[s] => ~ackLost[s] /\ memory[s] \in {"Absent", "Running"} /\ tries[s] <= faults
    BY <2>1, <2>3 DEF ExecutionInv
  <2>5. ~ackLost'[s] =>
          /\ tries'[s] <= faults'
          /\ \/ execution'[s] = "completed"
             \/ execution'[s] = "completing" /\ memory'[s] \in {"Absent", "Running"}
             \/ execution'[s] = "failed" /\ faults' >= MaxAttempts
    BY <1>3, <1>4, <2>1, <2>2, <2>3, <2>4
  <2>6. gated[s] => signal[s] = "Approved"
    BY <2>1 DEF ExecutionInv
  <2>7. /\ startPc'[s] \notin NotStarted /\ execution'[s] # "none"
        /\ gated'[s] => signal'[s] = "Approved"
        /\ execution'[s] \notin {"starting", "waiting", "returned"}
    BY <1>1, <1>2, <2>1, <2>3, <2>6
  <2> QED BY <1>1, <1>3, <1>4, <2>3, <2>5, <2>7 DEF ExecutionInv
<1>7. CASE AwaitDecision(s)
  <2>1. /\ \A t \in Starters \ {s} : execution'[t] = execution[t] /\ tries'[t] = tries[t]
        /\ execution'[s] = (IF signal[s] = "Approved" THEN "completing" ELSE "returned")
        /\ tries'[s] = 0
        /\ execution[s] = "waiting" /\ UNCHANGED <<memory, ackLost, faults>>
        /\ signal[s] \in Decision
    BY <1>7 DEF AwaitDecision, Advance
  <2>2. execution'[s] = "returned" => signal'[s] \in {"Denied", "RequestChanges"}
    BY <1>1, <2>1 DEF Decision
  <2> QED BY <1>1, <1>2, <1>3, <1>4, <2>1, <2>2 DEF ExecutionInv
<1> QED BY <1>5, <1>6, <1>7 DEF ExecutionStep

(* Every step.                                                             *)
LEMMA ExecutionInvKept ==
  ASSUME RunTypeOK, ExecutionInv, [Next]_runVars
  PROVE  ExecutionInv'
<1>0. /\ faults \in Nat /\ faults' \in Nat /\ faults <= faults' /\ MaxAttempts \in Nat
      /\ \A s \in Starters : tries[s] \in Nat
  BY FaultsGrow, WorkflowAssumption DEF RunTypeOK, WorkflowTypeOK
<1>1. CASE UNCHANGED <<startVars, workflowVars>>
  BY <1>0, <1>1 DEF startVars, workflowVars, ExecutionInv
<1>2. ASSUME NEW s \in Starters, StartStep(s) \/ StartFault(s)
      PROVE  ExecutionInv'
  <2>1. \A t \in Starters \ {s} :
          startPc'[t] = startPc[t] /\ gated'[t] = gated[t] /\ execution'[t] = execution[t]
    BY <1>2, StartForward
  <2>2. /\ startPc'[s] \in NotStarted => startPc[s] \in NotStarted \ {"start"}
        /\ gated'[s] = gated[s] \/ startPc[s] = "resolve"
        /\ execution'[s] = execution[s] \/ (startPc[s] = "start" /\ startPc'[s] = "publish"
                                             /\ execution'[s] = "starting")
    BY <1>2, StartForward
  <2>3. UNCHANGED <<tries, ackLost, signal, memory>>
    BY <1>2, StartForward
  <2> QED BY <1>0, <2>1, <2>2, <2>3 DEF ExecutionInv, NotStarted
<1>3. CASE \E s \in Starters : ExecutionStep(s) /\ UNCHANGED startVars
  BY <1>3, ExecutionKept
<1>4. CASE (\E s \in Starters : SignalDecision(s)) /\ UNCHANGED startVars
  <2>1. PICK s \in Starters, d \in Decision :
          signal' = [signal EXCEPT ![s] = d] /\ execution[s] \in {"starting", "waiting"}
    BY <1>4 DEF SignalDecision
  <2>2. UNCHANGED <<startPc, gated, execution, tries, ackLost, memory, faults>>
    BY <1>4 DEF SignalDecision, startVars
  <2>3. \A t \in Starters \ {s} : signal'[t] = signal[t]
    BY <2>1 DEF RunTypeOK, WorkflowTypeOK
  <2>4. /\ execution[s] \notin {"completing", "completed", "returned"}
        /\ memory[s] # "Succeeded"
    BY <2>1 DEF ExecutionInv
  <2> QED BY <2>2, <2>3, <2>4 DEF ExecutionInv
<1>5. CASE WorkerRestart /\ UNCHANGED startVars
  <2>1. UNCHANGED <<startPc, gated, execution, tries, ackLost, signal>>
        /\ \A s \in Starters : memory'[s] = "Absent"
    BY <1>5 DEF WorkerRestart, startVars
  <2> QED BY <1>0, <2>1 DEF ExecutionInv
<1> QED BY <1>1, <1>2, <1>3, <1>4, <1>5 DEF Next, StartNext, runVars

(* The execution, the worker and the signals fit together throughout.      *)
THEOREM ExecutionSound == Spec => []ExecutionInv
<1>1. Init => ExecutionInv
  BY DEF Init, RunStoreInit, StartInit, WorkflowInit, ExecutionInv
<1> QED BY <1>1, ExecutionInvKept, RunTypeCorrect, PTL DEF Spec

(* No run that waits for a human is carried out without an approval.       *)
THEOREM HumanGateHolds == Spec => []CarriedOutIfApproved
<1>1. ExecutionInv => CarriedOutIfApproved
  BY DEF ExecutionInv, CarriedOutIfApproved
<1> QED BY <1>1, ExecutionSound, PTL

(* An execution fails only if an acknowledgement was lost, or as many      *)
(* failures happened as an activity has attempts.                          *)
THEOREM FailuresLostAck == Spec => []FailsOnlyByLostAck
<1>1. ExecutionInv => FailsOnlyByLostAck
  BY DEF ExecutionInv, FailsOnlyByLostAck
<1> QED BY <1>1, ExecutionSound, PTL

-----------------------------------------------------------------------------

(* An announced start, or one about to be, has an execution of its own or  *)
(* one under its key.                                                      *)
KeyExecuted ==
  \A s \in Starters :
    /\ s \in announced => startPc[s] \notin NotStarted
    /\ s \in announced \/ startPc[s] = "publish" => ExecutedUnder(startKey[s]) # {}

(* What was executed under a key stays so.                                 *)
LEMMA ExecutedStays ==
  ASSUME RunTypeOK, ExecutionInv, [Next]_runVars, NEW t \in Starters, execution[t] # "none"
  PROVE  startKey'[t] = startKey[t] /\ execution'[t] # "none"
<1>1. startPc[t] \notin NotStarted
  BY DEF ExecutionInv
<1>2. CASE UNCHANGED <<startVars, workflowVars>>
  BY <1>2 DEF startVars, workflowVars
<1>3. ASSUME NEW s \in Starters, StartStep(s) \/ StartFault(s)
      PROVE  startKey'[t] = startKey[t] /\ execution'[t] # "none"
  BY <1>1, <1>3, StartForward DEF NotStarted
<1>4. ASSUME NEW s \in Starters, ExecutionStep(s), UNCHANGED startVars
      PROVE  execution'[t] # "none"
  <2>1. StartRunActivity(s, gated[s]) =>
          execution'[t] \in {execution[t], IF gated[s] THEN "waiting" ELSE "completing", "failed"}
    <3>1. ASSUME NEW next, Attempt(s, "Pending", "Running", next)
          PROVE  execution'[t] \in {execution[t], next, "failed"}
      BY <3>1, AttemptOwn
    <3> QED BY <3>1 DEF StartRunActivity
  <2>2. CompleteRunActivity(s) => execution'[t] \in {execution[t], "completed", "failed"}
    BY AttemptOwn DEF CompleteRunActivity
  <2>3. AwaitDecision(s) => execution'[t] \in {execution[t], "completing", "returned"}
    BY DEF AwaitDecision, Advance, RunTypeOK, WorkflowTypeOK
  <2> QED BY <1>4, <2>1, <2>2, <2>3 DEF ExecutionStep
<1>5. (\E s \in Starters : SignalDecision(s)) \/ WorkerRestart => UNCHANGED execution
  BY DEF SignalDecision, WorkerRestart
<1> QED BY <1>2, <1>3, <1>4, <1>5 DEF Next, StartNext, runVars, startVars

(* A step keeps the starts that were announced executed.                   *)
LEMMA KeyExecutedKept ==
  ASSUME RunTypeOK, ExecutionInv, KeyExecuted, [Next]_runVars
  PROVE  KeyExecuted'
<1>1. \A k : ExecutedUnder(k) \subseteq ExecutedUnder(k)'
  BY ExecutedStays DEF ExecutedUnder
<1>2. CASE UNCHANGED startVars
  <2>1. \A k : ExecutedUnder(k) # {} => ExecutedUnder(k)' # {}
    BY <1>1
  <2>2. \A s \in Starters : ExecutedUnder(startKey[s])' = {t \in Starters :
          startKey'[t] = startKey'[s] /\ execution'[t] # "none"}
    BY DEF ExecutedUnder
  <2> QED BY <1>2, <2>1, <2>2 DEF KeyExecuted, startVars, ExecutedUnder
<1>3. ASSUME NEW s \in Starters, StartStep(s) \/ StartFault(s)
      PROVE  KeyExecuted'
  <2>1. \A t \in Starters \ {s} :
          startPc'[t] = startPc[t] /\ startKey'[t] = startKey[t]
    BY <1>3, StartForward
  <2>2. announced' = announced \/ (announced' = announced \cup {s} /\ startPc[s] = "publish"
                                     /\ startPc'[s] = "cache")
    BY <1>3 DEF StartStep, StartLookup, StartResolve, StartUnique, StartSave, StartRun,
       StartPublish, StartCache, StartFault, StartGoto, RunTypeOK, StartTypeOK
  <2>3. \A t \in Starters \ {s} :
          /\ t \in announced' => startPc'[t] \notin NotStarted
          /\ t \in announced' \/ startPc'[t] = "publish" => ExecutedUnder(startKey[t])' # {}
    <3> SUFFICES ASSUME NEW t \in Starters \ {s}
                 PROVE  /\ t \in announced' => startPc'[t] \notin NotStarted
                        /\ t \in announced' \/ startPc'[t] = "publish"
                             => ExecutedUnder(startKey[t])' # {}
      OBVIOUS
    <3>1. PICK k : k = startKey[t] /\ k = startKey'[t]
      BY <2>1
    <3>2. ExecutedUnder(k) # {} => ExecutedUnder(k)' # {}
      BY <1>1
    <3> QED BY <2>1, <2>2, <3>1, <3>2 DEF KeyExecuted, ExecutedUnder
  <2>4. s \in announced' => startPc'[s] \notin NotStarted
    BY <1>3, <2>2, StartForward DEF KeyExecuted, NotStarted
  <2>5. s \in announced' \/ startPc'[s] = "publish" => ExecutedUnder(startKey[s])' # {}
    <3>1. CASE StartRun(s)
      <4>1. startKey' = startKey
        BY <3>1 DEF StartRun
      <4>2. PICK t \in Starters : startKey[t] = startKey[s] /\ execution'[t] # "none"
        BY <3>1 DEF StartRun, ExecutedUnder, Open, RunTypeOK, WorkflowTypeOK
      <4> QED BY <4>1, <4>2 DEF ExecutedUnder
    <3>2. CASE s \in announced \/ startPc[s] = "publish"
      <4>1. startKey'[s] = startKey[s]
        BY <1>3, <3>2, StartForward DEF KeyExecuted, NotStarted
      <4>2. PICK k : k = startKey[s] /\ k = startKey'[s]
        BY <4>1
      <4>3. ExecutedUnder(k)' # {}
        BY <1>1, <3>2, <4>2 DEF KeyExecuted
      <4> QED BY <4>2, <4>3 DEF ExecutedUnder
    <3>3. s \in announced' \/ startPc'[s] = "publish" =>
            StartRun(s) \/ s \in announced \/ startPc[s] = "publish"
      BY <1>3, <2>2 DEF StartStep, StartLookup, StartResolve, StartUnique, StartSave,
         StartPublish, StartCache, StartFault, StartGoto, StartDone, RunTypeOK, StartTypeOK
    <3> QED BY <3>1, <3>2, <3>3
  <2> QED BY <2>3, <2>4, <2>5 DEF KeyExecuted
<1> QED BY <1>2, <1>3 DEF Next, StartNext, runVars

(* A run that was announced and is not executed shares its key.            *)
THEOREM OrphansShareKeys == Spec => []OrphanSharesKey
<1>1. Init => KeyExecuted
  BY DEF Init, StartInit, KeyExecuted
<1>2. RunTypeOK /\ KeyExecuted => OrphanSharesKey
  BY DEF KeyExecuted, OrphanSharesKey, RunTypeOK, StartTypeOK
<1> QED BY <1>1, <1>2, KeyExecutedKept, ExecutionSound, RunTypeCorrect, PTL DEF Spec
-----------------------------------------------------------------------------

(* A caller under key k may be told of t's run.                            *)
Tellable(t, k) ==
  /\ t \in announced
  /\ startKey[t] = k
  /\ runs[t].status # "Absent"

AnswerInv ==
  /\ \A s \in Starters :
       /\ startPc[s] = "idle" => answer[s] = None /\ s \notin announced
       /\ startPc[s] \in {"start", "publish", "cache"} => runs[s].status # "Absent"
       /\ startPc[s] = "cache" => s \in announced
       /\ answer[s] # None => Tellable(answer[s], startKey[s])
  /\ \A k \in Keys : outputs[k] # None => Tellable(outputs[k], k)

(* What may be told of may be told of later.                               *)
LEMMA TellableStays ==
  ASSUME RunTypeOK, ControlInv, AnswerInv, [Next]_runVars, NEW t, NEW k, Tellable(t, k)
  PROVE  Tellable(t, k)'
<1>1. t \in Starters /\ t \in Runs
  BY WorkflowAssumption DEF Tellable, RunTypeOK, StartTypeOK
<1>2. runs'[t].status # "Absent"
  BY <1>1, StaysStored DEF Tellable, ControlInv
<1>3. startPc[t] # "idle"
  BY <1>1 DEF Tellable, AnswerInv
<1>4. CASE UNCHANGED startVars
  BY <1>2, <1>4 DEF startVars, Tellable
<1>5. ASSUME NEW s \in Starters, StartStep(s) \/ StartFault(s)
      PROVE  Tellable(t, k)'
  <2>1. startKey'[t] = startKey[t]
    BY <1>1, <1>3, <1>5, StartForward
  <2>2. announced \subseteq announced'
    BY <1>5 DEF StartStep, StartLookup, StartResolve, StartUnique, StartSave, StartRun,
       StartPublish, StartCache, StartFault
  <2> QED BY <1>2, <2>1, <2>2 DEF Tellable
<1> QED BY <1>4, <1>5 DEF Next, StartNext, runVars, startVars

(* A start's own step.                                                     *)
LEMMA AnswersOwn ==
  ASSUME RunTypeOK, ControlInv, AnswerInv, NEW s \in Starters, Next,
         StartStep(s) \/ StartFault(s)
  PROVE  /\ startPc'[s] \in {"start", "publish", "cache"} => runs'[s].status # "Absent"
         /\ startPc'[s] = "cache" => s \in announced'
         /\ answer'[s] # None => Tellable(answer[s], startKey[s])'
         /\ \A k \in Keys : outputs'[k] # None => Tellable(outputs[k], k)'
<1> USE DEF RunTypeOK, StartTypeOK, StartGoto, StartDone, StartPc
<1>1. s \in Runs
  BY WorkflowAssumption
<1>2. \A t, k : Tellable(t, k) => Tellable(t, k)'
  BY TellableStays
<1>3. runs[s].status # "Absent" => runs'[s].status # "Absent"
  BY <1>1, StaysStored DEF ControlInv
<1>4. CASE StartLookup(s)
  <2>1. PICK k \in Keys :
          /\ startKey' = [startKey EXCEPT ![s] = k]
          /\ \/ outputs[k] # None /\ StartDone(s, outputs[k])
             \/ outputs[k] = None /\ StartGoto(s, "resolve")
    BY <1>4 DEF StartLookup
  <2>2. UNCHANGED outputs /\ startPc[s] = "idle" /\ startKey'[s] = k
    BY <1>4, <2>1 DEF StartLookup
  <2>3. answer'[s] # None => answer'[s] = outputs[k] /\ outputs[k] # None
    BY <2>1, <2>2 DEF AnswerInv
  <2>4. \A j \in Keys : outputs[j] # None => \A t : t = outputs[j] => Tellable(t, j)'
    BY <1>2 DEF AnswerInv
  <2>5. startPc'[s] \in {"done", "resolve"}
    BY <2>1
  <2> QED BY <2>2, <2>3, <2>4, <2>5 DEF Tellable
<1>5. CASE ~StartLookup(s) /\ ~StartCache(s)
  <2>1. UNCHANGED outputs /\ startKey'[s] = startKey[s] /\ answer'[s] \in {answer[s], None}
    BY <1>5 DEF StartStep, StartResolve, StartUnique, StartSave, StartRun, StartPublish,
       StartFault
  <2>2. \A t, k :
          /\ (answer[s] = t /\ startKey[s] = k) \/ (k \in Keys /\ outputs[k] = t)
          /\ t # None
          => Tellable(t, k)'
    BY <1>2 DEF AnswerInv
  <2>3. startPc'[s] = "start" => runs'[s].status # "Absent"
    <3>1. startPc'[s] = "start" => StartSave(s)
      BY <1>5 DEF StartStep, StartResolve, StartUnique, StartSave, StartRun, StartPublish,
         StartFault
    <3> QED BY <1>1, <3>1 DEF StartSave, SaveRun, RunStoreTypeOK
  <2>4. startPc'[s] \in {"publish", "cache"} => startPc[s] \in {"start", "publish"}
    BY <1>5 DEF StartStep, StartResolve, StartUnique, StartSave, StartRun, StartPublish,
       StartFault
  <2>5. startPc'[s] = "cache" => s \in announced'
    BY <1>5 DEF StartStep, StartResolve, StartUnique, StartSave, StartRun, StartPublish,
       StartFault
  <2> QED BY <1>3, <2>1, <2>2, <2>3, <2>4, <2>5 DEF AnswerInv, Tellable
<1>6. CASE StartCache(s)
  <2>1. Tellable(s, startKey[s]) /\ UNCHANGED startKey
    BY <1>6 DEF StartCache, AnswerInv, Tellable
  <2>2. \A k : startKey[s] = k => Tellable(s, k)'
    BY <1>2, <2>1
  <2>3. \A t, k : k \in Keys /\ outputs[k] = t /\ t # None => Tellable(t, k)'
    BY <1>2 DEF AnswerInv
  <2>4. startPc'[s] = "done" /\ answer'[s] = s
        /\ \A k \in Keys : outputs'[k] = IF k = startKey[s] THEN s ELSE outputs[k]
    BY <1>6 DEF StartCache
  <2> QED BY <2>1, <2>2, <2>3, <2>4 DEF Tellable
<1> QED BY <1>4, <1>5, <1>6

(* Every step keeps the answers true.                                      *)
LEMMA AnswersKept ==
  ASSUME RunTypeOK, ControlInv, AnswerInv, [Next]_runVars
  PROVE  AnswerInv'
<1>1. \A t, k : Tellable(t, k) => Tellable(t, k)'
  BY TellableStays
<1>2. \A t \in Starters : runs[t].status # "Absent" => runs'[t].status # "Absent"
  BY StaysStored, WorkflowAssumption DEF ControlInv
<1>3. \A t \in Starters : \A u, k :
        answer[t] = u /\ startKey[t] = k /\ u # None => Tellable(u, k)'
  BY <1>1 DEF AnswerInv
<1>4. CASE UNCHANGED startVars
  <2>1. \A u, k : k \in Keys /\ outputs[k] = u /\ u # None => Tellable(u, k)'
    BY <1>1 DEF AnswerInv
  <2> QED BY <1>2, <1>3, <1>4, <2>1 DEF startVars, AnswerInv, Tellable
<1>5. ASSUME NEW s \in Starters, StartStep(s) \/ StartFault(s), Next
      PROVE  AnswerInv'
  <2>1. \A t \in Starters \ {s} :
          startPc'[t] = startPc[t] /\ startKey'[t] = startKey[t] /\ answer'[t] = answer[t]
          /\ (t \in announced' <=> t \in announced)
    <3>1. announced' \ {s} = announced \ {s}
      BY <1>5 DEF StartStep, StartLookup, StartResolve, StartUnique, StartSave, StartRun,
         StartPublish, StartCache, StartFault
    <3> QED BY <1>5, <3>1, StartForward
  <2>2. \A t \in Starters \ {s} : answer'[t] # None => Tellable(answer[t], startKey[t])'
    BY <1>3, <2>1 DEF Tellable
  <2>3. startPc'[s] # "idle"
    BY <1>5, StartForward
  <2>4. /\ startPc'[s] \in {"start", "publish", "cache"} => runs'[s].status # "Absent"
        /\ startPc'[s] = "cache" => s \in announced'
        /\ answer'[s] # None => Tellable(answer[s], startKey[s])'
        /\ \A k \in Keys : outputs'[k] # None => Tellable(outputs[k], k)'
    BY <1>5, AnswersOwn
  <2> QED BY <1>2, <2>1, <2>2, <2>3, <2>4 DEF AnswerInv
<1> QED BY <1>4, <1>5 DEF Next, StartNext, runVars, startVars

(* Callers are told only of runs that are stored and announced, and that   *)
(* were asked for under their key.                                         *)
THEOREM AnswersAreTrue == Spec => []AnsweredIsAnnounced
<1>1. Init => AnswerInv
  BY DEF Init, StartInit, AnswerInv
<1>2. AnswerInv => AnsweredIsAnnounced
  BY DEF AnswerInv, Tellable, AnsweredIsAnnounced
<1> QED BY <1>1, <1>2, AnswersKept, ControlIsChecked, RunTypeCorrect, PTL DEF Spec
=============================================================================
