--------------------------- MODULE ApprovalExpiry ---------------------------
(***************************************************************************)
(* The expiry scheduler: a timer starts sweepExpiredApprovals every        *)
(* interval whether or not the previous sweep has ended, so that sweeps    *)
(* overlap.  A sweep lists the pending approvals, works out in memory      *)
(* which have expired or reached a new escalation step, and then carries   *)
(* these actions out one by one, each over a fresh read.                   *)
(***************************************************************************)
EXTENDS ApprovalStore

CONSTANTS Sweeps,         \* sweeps that may be under way at the same time
          Escalating,     \* approvals created with an escalation chain
          Steps           \* length of the escalation chain

ASSUME SweepAssumption ==
  /\ Escalating \subseteq Approvals
  /\ Steps \in Nat \ {0}

VARIABLES level,          \* level[a]: last chain step whose time has come
          sweepPc,        \* sweepPc[w]: the call the sweep awaits next
          sweepTodo,      \* sweepTodo[w]: pending approvals listed, then actions left
          sweepItem,      \* sweepItem[w]: the action in process
          sweepSeen,      \* sweepSeen[w]: the approval re-read for it
          escalated,      \* defaultEscalationState: last step announced
          announced,      \* announced[a][n]: escalation events for step n
          restarts        \* restarts so far

sweepVars == <<level, sweepPc, sweepTodo, sweepItem, sweepSeen, escalated,
               announced, restarts>>

(* Levels 1..Steps are the chain's steps, Overdue the last step's time     *)
(* plus the grace period.                                                  *)
Overdue == Steps + 1

(* A pending approval as it was listed, with the level it had reached: an  *)
(* expired action when that is Overdue, else an escalated one.             *)
SweepItem == [approval : Approvals, step : 0..Overdue]

NoItem == [approval |-> None, step |-> 0]

SweepTypeOK ==
  /\ level \in [Approvals -> 0..Overdue]
  /\ sweepPc \in [Sweeps ->
       {"idle", "evaluate", "next", "expire", "publish", "evidence"}]
  /\ sweepTodo \in [Sweeps -> SUBSET SweepItem]
  /\ sweepItem \in [Sweeps -> SweepItem \cup {NoItem}]
  /\ sweepSeen \in [Sweeps -> ApprovalRecord]
  /\ escalated \in [Approvals -> 0..Steps]
  /\ announced \in [Approvals -> [1..Steps -> Nat]]
  /\ restarts \in 0..MaxFaults

SweepInit ==
  /\ level = [a \in Approvals |-> 0]
  /\ sweepPc = [w \in Sweeps |-> "idle"]
  /\ sweepTodo = [w \in Sweeps |-> {}]
  /\ sweepItem = [w \in Sweeps |-> NoItem]
  /\ sweepSeen = [w \in Sweeps |-> NoApproval]
  /\ escalated = [a \in Approvals |-> 0]
  /\ announced = [a \in Approvals |-> [n \in 1..Steps |-> 0]]
  /\ restarts = 0

SweepGoto(w, pc) == sweepPc' = [sweepPc EXCEPT ![w] = pc]

(* The action in process is over, and the sweep takes its next one ...     *)
SweepDrop(w) ==
  /\ sweepItem' = [sweepItem EXCEPT ![w] = NoItem]
  /\ sweepSeen' = [sweepSeen EXCEPT ![w] = NoApproval]

(* ... or the sweep is.                                                    *)
SweepEnd(w) ==
  /\ SweepGoto(w, "idle")
  /\ sweepTodo' = [sweepTodo EXCEPT ![w] = {}]
  /\ SweepDrop(w)

(* Hours go by for an approval that was requested: longer than any sweep   *)
(* waits for its list, since afterHours is a positive number of hours.     *)
Elapse(a) ==
  /\ \A w \in Sweeps : sweepPc[w] # "evaluate"
  /\ a \in Escalating
  /\ approvals[a].status # "Absent"
  /\ level[a] < Overdue
  /\ level' = [level EXCEPT ![a] = @ + 1]
  /\ UNCHANGED <<storeVars, faults, sweepPc, sweepTodo, sweepItem, sweepSeen,
                 escalated, announced, restarts>>

-----------------------------------------------------------------------------

(* The timer fires: nowIso is taken and the pending approvals are listed.  *)
(* Those without a chain are skipped.                                      *)
SweepList(w) ==
  LET listed == {a \in Escalating : approvals[a].status = "Pending"} IN
  /\ sweepPc[w] = "idle"
  /\ sweepTodo' = [sweepTodo EXCEPT ![w] =
       {[approval |-> a, step |-> level[a]] : a \in listed}]
  /\ SweepGoto(w, "evaluate")
  /\ UNCHANGED <<storeVars, faults, level, sweepItem, sweepSeen, escalated,
                 announced, restarts>>

(* Bug: the announced steps are not consulted.                             *)
DueAgain(w) == {i \in sweepTodo[w] : i.step > 0}

(* Bug: an item past the last step of its chain has nothing new to it.     *)
DueStepsOnly(w) ==
  {i \in sweepTodo[w] : i.step \in (escalated[i.approval] + 1)..Steps}

(* evaluateOneApproval: an item is acted upon when it is overdue or its    *)
(* step is new.                                                            *)
Due(w) ==
  {i \in sweepTodo[w] : i.step = Overdue \/ i.step > escalated[i.approval]}

(* evaluatePendingApprovals, with no await: what is due is kept; the steps *)
(* now reached are remembered, before anything is published, and approvals *)
(* not listed are forgotten.                                               *)
SweepEvaluate(w) ==
  LET reached(a) == {i.step : i \in {j \in sweepTodo[w] : j.approval = a}} IN
  /\ sweepPc[w] = "evaluate"
  /\ sweepTodo' = [sweepTodo EXCEPT ![w] = Due(w)]
  /\ escalated' = [a \in Approvals |->
       IF reached(a) \in {{}, {Overdue}} THEN 0
       ELSE CHOOSE n \in reached(a) \cup {escalated[a]} :
              \A m \in reached(a) \cup {escalated[a]} : n >= m]
  /\ SweepGoto(w, "next")
  /\ UNCHANGED <<storeVars, faults, level, sweepItem, sweepSeen, announced, restarts>>

(* The next action, or the end of the sweep.  processExpiredAction reads   *)
(* the approval again and drops it unless it is still pending;             *)
(* processEscalatedAction publishes without a look at it.                  *)
SweepProcess(w) ==
  /\ sweepPc[w] = "next"
  /\ \/ sweepTodo[w] = {} /\ SweepEnd(w)
     \/ \E i \in sweepTodo[w] :
          LET approval == approvals[i.approval] IN
          /\ sweepTodo' = [sweepTodo EXCEPT ![w] = @ \ {i}]
          /\ \/ i.step = Overdue /\ approval.status # "Pending"
                /\ UNCHANGED <<sweepPc, sweepItem, sweepSeen>>
             \/ i.step = Overdue /\ approval.status = "Pending"
                /\ sweepItem' = [sweepItem EXCEPT ![w] = i]
                /\ sweepSeen' = [sweepSeen EXCEPT ![w] = approval]
                /\ SweepGoto(w, "expire")
             \/ i.step # Overdue
                /\ sweepItem' = [sweepItem EXCEPT ![w] = i]
                /\ SweepGoto(w, "publish")
                /\ UNCHANGED sweepSeen
  /\ UNCHANGED <<storeVars, faults, level, escalated, announced, restarts>>

(* saveApproval, which is not conditional on the status that was read.     *)
SweepExpire(w) ==
  /\ sweepPc[w] = "expire"
  /\ SaveApproval(sweepItem[w].approval,
       [sweepSeen[w] EXCEPT !.status = "Expired", !.decidedBy = SchedulerActor])
  /\ SweepGoto(w, "publish")
  /\ UNCHANGED <<proposals, trail, faults, level, sweepTodo, sweepItem,
                 sweepSeen, escalated, announced, restarts>>

SweepTrailWhat(w) ==
  IF sweepItem[w].step = Overdue THEN "Expired" ELSE "Escalated"

SweepPublish(w) ==
  LET i == sweepItem[w] IN
  /\ sweepPc[w] = "publish"
  /\ Record("event", SweepTrailWhat(w), i.approval, SchedulerActor)
  /\ announced' = IF i.step = Overdue THEN announced
                  ELSE [announced EXCEPT ![i.approval][i.step] = @ + 1]
  /\ SweepGoto(w, "evidence")
  /\ UNCHANGED <<approvals, proposals, faults, level, sweepTodo, sweepItem,
                 sweepSeen, escalated, restarts>>

SweepEvidence(w) ==
  /\ sweepPc[w] = "evidence"
  /\ Record("evidence", SweepTrailWhat(w), sweepItem[w].approval, SchedulerActor)
  /\ SweepGoto(w, "next")
  /\ SweepDrop(w)
  /\ UNCHANGED <<approvals, proposals, faults, level, sweepTodo, escalated,
                 announced, restarts>>

(* An awaited call throws: onError is told and the rest of the sweep is    *)
(* dropped; the timer goes on.                                             *)
SweepFault(w) ==
  /\ sweepPc[w] # "idle"
  /\ Fault
  /\ SweepEnd(w)
  /\ UNCHANGED <<storeVars, level, escalated, announced, restarts>>

(* The process stops and starts again: its memory is gone.                 *)
SweepRestart ==
  /\ Fault
  /\ restarts' = restarts + 1
  /\ escalated' = [a \in Approvals |-> 0]
  /\ sweepPc' = [w \in Sweeps |-> "idle"]
  /\ sweepTodo' = [w \in Sweeps |-> {}]
  /\ sweepItem' = [w \in Sweeps |-> NoItem]
  /\ sweepSeen' = [w \in Sweeps |-> NoApproval]
  /\ UNCHANGED <<storeVars, level, announced>>

SweepStep(w) ==
  \/ SweepList(w)   \/ SweepEvaluate(w) \/ SweepProcess(w)
  \/ SweepExpire(w) \/ SweepPublish(w)  \/ SweepEvidence(w)

SweepNext ==
  \/ \E a \in Approvals : Elapse(a)
  \/ \E w \in Sweeps : SweepStep(w) \/ SweepFault(w)
  \/ SweepRestart
=============================================================================
