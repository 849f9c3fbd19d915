---------------------------- MODULE PolicyChange ----------------------------
(***************************************************************************)
(* Policy changes: proposePolicyChange, approvePolicyChange,               *)
(* rollbackPolicyChange and recordPolicyChangeReplayReport over the policy *)
(* store, whose writes are plain upserts.  One process per invocation, one *)
(* step per awaited call.  All changes here name one policy, in input and  *)
(* content: proposePolicyChange does not compare the two, and a change     *)
(* whose content is another policy's is left out.                          *)
(***************************************************************************)
EXTENDS Naturals

CONSTANTS Proposals,   \* invocations of proposePolicyChange
          Rollbacks,   \* invocations of rollbackPolicyChange
          Approvals,   \* invocations of approvePolicyChange
          Reports,     \* invocations of recordPolicyChangeReplayReport
          Users,       \* who calls them
          Original,    \* what the policy says before any change
          None,        \* absent value
          MaxFaults    \* bound: failed calls and ended processes

(* A change is named by the invocation that creates it.                    *)
Changes == Proposals \cup Rollbacks

Requests == Changes \cup Approvals \cup Reports

(* What the policy may say: a proposal's content is named like it.         *)
Contents == Proposals \cup {Original}

ASSUME PolicyAssumption ==
  /\ Proposals \cap Rollbacks = {}
  /\ Changes \cap Approvals = {}
  /\ (Changes \cup Approvals) \cap Reports = {}
  /\ Original \notin Proposals
  /\ None \notin Requests \cup Users \cup {Original}
  /\ MaxFaults \in Nat

VARIABLES changes,   \* changes[c]: the stored policy change
          inForce,   \* what the stored policy says, or None
          trail,     \* the audit entries and evidence that were appended
          pc,        \* pc[x]: the call x awaits next
          subject,   \* subject[x]: the change x acts on
          seen,      \* seen[x]: the change x read last
          copy,      \* copy[x]: the change x was asked to store
          faults     \* failures so far

policyVars == <<changes, inForce, trail, pc, subject, seen, copy, faults>>

(* PolicyChangeStatusV1; no command makes a change Rejected or Superseded. *)
ChangeStatus == {"PendingApproval", "Applied", "RolledBack"}

Change ==
  [ status   : ChangeStatus \cup {"Absent"},
    high     : BOOLEAN,                   \* risk: High, or Standard
    approval : BOOLEAN,                   \* approvalRequired
    replay   : BOOLEAN,                   \* replayReportRequired
    report   : Reports \cup {None},       \* replayReportEvidenceId
    proposer : Users \cup {None},
    approver : Users \cup {None},
    base     : Contents \cup {None},      \* basePolicy
    content  : Contents \cup {None},      \* proposedPolicy
    target   : Changes \cup {None},       \* rollbackOfPolicyChangeId
    undoneBy : Changes \cup {None} ]      \* rolledBackByPolicyChangeId

NoChange ==
  [ status |-> "Absent", high |-> FALSE, approval |-> FALSE, replay |-> FALSE,
    report |-> None, proposer |-> None, approver |-> None, base |-> None,
    content |-> None, target |-> None, undoneBy |-> None ]

Persisting == {"change", "policy", "target", "mark", "audit", "evidence", "event"}

Reporting == {"resolve", "append", "attach"}

PolicyPc == {"idle"} \cup Persisting \cup Reporting
              \cup {"done", "refused", "threw", "dead"}

PolicyTypeOK ==
  /\ changes \in [Changes -> Change]
  /\ inForce \in Contents \cup {None}
  /\ trail \subseteq [kind : {"audit", "evidence", "event", "report"}, by : Requests]
  /\ pc \in [Requests -> PolicyPc]
  /\ subject \in [Requests -> Changes \cup {None}]
  /\ seen \in [Requests -> Change]
  /\ copy \in [Requests -> Change]
  /\ faults \in 0..MaxFaults

(* The policy may exist already: otherwise the first change creates it.    *)
Init ==
  /\ changes = [c \in Changes |-> NoChange]
  /\ inForce \in {Original, None}
  /\ trail = {}
  /\ pc = [x \in Requests |-> "idle"]
  /\ subject = [x \in Requests |-> None]
  /\ seen = [x \in Requests |-> NoChange]
  /\ copy = [x \in Requests |-> NoChange]
  /\ faults = 0

-----------------------------------------------------------------------------

(* requiresPolicyChangeApproval.                                           *)
RequiresApproval(change) == change.high \/ change.approval

(* assertReplayReportSatisfied does not throw.                             *)
ReplaySatisfied(change) == change.replay => change.report # None

(* Bug: maker-checker is left to the caller.                               *)
ApprovableByAnyone(change, user) ==
  /\ change.status = "PendingApproval"
  /\ ReplaySatisfied(change)

(* Bug: whatever is stored may be approved.                                *)
ApprovableInAnyStatus(change, user) ==
  /\ change.status # "Absent"
  /\ change.proposer # user
  /\ ReplaySatisfied(change)

(* approvePolicyChangeV1 does not throw.                                   *)
Approvable(change, user) ==
  /\ change.status = "PendingApproval"
  /\ change.proposer # user
  /\ ReplaySatisfied(change)

Approved(change, user) ==
  [change EXCEPT !.status = "Applied", !.approval = TRUE, !.approver = user]

(* attachPolicyChangeReplayReportEvidenceV1: a change that asked for no    *)
(* report asks for one from now on.                                        *)
Attached(change, evidence) == [change EXCEPT !.replay = TRUE, !.report = evidence]

(* markPolicyChangeRolledBackV1, and when it does not throw.               *)
Revocable(change) == change.status = "Applied"

RolledBack(change, by) == [change EXCEPT !.status = "RolledBack", !.undoneBy = by]

Goto(x, label) == pc' = [pc EXCEPT ![x] = label]

SaveChange(c, change) == changes' = [changes EXCEPT ![c] = change]

Append(kind, x) == trail' = trail \cup {[kind |-> kind, by |-> x]}

(* The command gives persistPolicyChange a change to store.                *)
Persist(x, c, change) ==
  /\ subject' = [subject EXCEPT ![x] = c]
  /\ copy' = [copy EXCEPT ![x] = change]
  /\ Goto(x, "change")

Refuse(x) ==
  /\ Goto(x, "refused")
  /\ UNCHANGED <<subject, copy>>

-----------------------------------------------------------------------------

(* The change that is asked for, on the policy that was read.              *)
Proposed(c, user, high, approval, replay) ==
  [NoChange EXCEPT !.status = "PendingApproval", !.high = high, !.approval = approval,
     !.replay = replay, !.proposer = user, !.base = inForce, !.content = c]

(* getPolicyById; without a policy only a Create is accepted.  A standard  *)
(* change that needs neither approval nor a report is applied at once.     *)
Propose(c) ==
  /\ pc[c] = "idle"
  /\ \E user \in Users, high, approval, replay \in BOOLEAN :
       LET asked == Proposed(c, user, high, approval, replay) IN
       /\ high => approval
       /\ Persist(c, c, IF RequiresApproval(asked) \/ replay
                          THEN asked ELSE [asked EXCEPT !.status = "Applied"])
  /\ UNCHANGED <<changes, inForce, trail, seen, faults>>

(* getPolicyChangeById, then approvePolicyChangeV1.                        *)
Approve(a) ==
  /\ pc[a] = "idle"
  /\ \E c \in Changes, user \in Users :
       /\ seen' = [seen EXCEPT ![a] = changes[c]]
       /\ \/ Approvable(changes[c], user) /\ Persist(a, c, Approved(changes[c], user))
          \/ ~Approvable(changes[c], user) /\ Refuse(a)
  /\ UNCHANGED <<changes, inForce, trail, faults>>

(* The change that puts a target's base policy back.  It carries the       *)
(* target's risk and replay requirement, and not its approvalRequired.     *)
Reversal(target, user, t) ==
  [NoChange EXCEPT !.status = "PendingApproval", !.high = target.high,
     !.approval = target.high, !.replay = target.replay, !.proposer = user,
     !.base = target.content, !.content = target.base, !.target = t]

(* getPolicyChangeById.  A standard target that required a report cannot   *)
(* be rolled back: applyStandardPolicyChangeV1 throws, for the reversal    *)
(* has no report of its own.                                               *)
Rollback(r) ==
  /\ pc[r] = "idle"
  /\ \E t \in Changes, user \in Users :
       LET target == changes[t]  reversal == Reversal(target, user, t)  IN
       /\ seen' = [seen EXCEPT ![r] = target]
       /\ \/ /\ Revocable(target) /\ target.base # None
             /\ \/ RequiresApproval(reversal) /\ Persist(r, r, reversal)
                \/ /\ ~RequiresApproval(reversal) /\ ReplaySatisfied(reversal)
                   /\ Persist(r, r, [reversal EXCEPT !.status = "Applied"])
                \/ /\ ~RequiresApproval(reversal) /\ ~ReplaySatisfied(reversal)
                   /\ Refuse(r)
          \/ ~(Revocable(target) /\ target.base # None) /\ Refuse(r)
  /\ UNCHANGED <<changes, inForce, trail, faults>>

-----------------------------------------------------------------------------

(* persistPolicyChange, by whichever command called it.                    *)

PersistChange(x) ==
  /\ pc[x] = "change"
  /\ SaveChange(subject[x], copy[x])
  /\ Goto(x, IF copy[x].status = "Applied" THEN "policy" ELSE "audit")
  /\ UNCHANGED <<inForce, trail, subject, seen, copy, faults>>

PersistPolicy(x) ==
  /\ pc[x] = "policy"
  /\ inForce' = copy[x].content
  /\ Goto(x, IF copy[x].target # None THEN "target" ELSE "audit")
  /\ UNCHANGED <<changes, trail, subject, seen, copy, faults>>

(* Bug: the trail stops short of the target of a rollback.                 *)
PersistMarkReturns(x) ==
  /\ pc[x] = "mark"
  /\ SaveChange(copy[x].target, RolledBack(seen[x], subject[x]))
  /\ Goto(x, "done")
  /\ UNCHANGED <<inForce, trail, subject, seen, copy, faults>>

(* The target is read again; if it is not applied any more, the command    *)
(* ends here, with the change and the policy stored.                       *)
PersistTarget(x) ==
  /\ pc[x] = "target"
  /\ LET target == changes[copy[x].target] IN
       /\ seen' = [seen EXCEPT ![x] = target]
       /\ Goto(x, IF Revocable(target) THEN "mark" ELSE "threw")
  /\ UNCHANGED <<changes, inForce, trail, subject, copy, faults>>

PersistMark(x) ==
  /\ pc[x] = "mark"
  /\ SaveChange(copy[x].target, RolledBack(seen[x], subject[x]))
  /\ Goto(x, "audit")
  /\ UNCHANGED <<inForce, trail, subject, seen, copy, faults>>

(* The audit entry, the policy evidence and the event, in this order.      *)
PersistTrail(x) ==
  /\ \/ pc[x] = "audit"    /\ Append("audit", x)    /\ Goto(x, "evidence")
     \/ pc[x] = "evidence" /\ Append("evidence", x) /\ Goto(x, "event")
     \/ pc[x] = "event"    /\ Append("event", x)    /\ Goto(x, "done")
  /\ UNCHANGED <<changes, inForce, subject, seen, copy, faults>>

-----------------------------------------------------------------------------

(* buildPolicyChangeReplay reads the change; what it replays it on (runs,  *)
(* approvals, human tasks) decides nothing here.                           *)
ReportLoad(t) ==
  /\ pc[t] = "idle"
  /\ \E c \in Changes :
       /\ seen' = [seen EXCEPT ![t] = changes[c]]
       /\ subject' = [subject EXCEPT ![t] = c]
       /\ Goto(t, IF changes[c].status = "Absent" THEN "refused"
                  ELSE IF changes[c].base = None THEN "resolve" ELSE "append")
  /\ UNCHANGED <<changes, inForce, trail, copy, faults>>

(* A change without a base is compared with the policy in force.           *)
ReportResolve(t) ==
  /\ pc[t] = "resolve"
  /\ Goto(t, IF inForce = None THEN "refused" ELSE "append")
  /\ UNCHANGED <<changes, inForce, trail, subject, seen, copy, faults>>

ReportAppend(t) ==
  /\ pc[t] = "append"
  /\ Append("report", t)
  /\ Goto(t, "attach")
  /\ UNCHANGED <<changes, inForce, subject, seen, copy, faults>>

(* The change is stored as it was read before the replay, with its report. *)
ReportAttach(t) ==
  /\ pc[t] = "attach"
  /\ SaveChange(subject[t], Attached(seen[t], t))
  /\ Goto(t, "done")
  /\ UNCHANGED <<inForce, trail, subject, seen, copy, faults>>

(* The awaited call fails, or the process ends: what was stored stays.     *)
PolicyFault(x) ==
  /\ pc[x] \in Persisting \cup Reporting
  /\ faults < MaxFaults
  /\ faults' = faults + 1
  /\ Goto(x, "dead")
  /\ UNCHANGED <<changes, inForce, trail, subject, seen, copy>>

PersistStep(x) ==
  \/ PersistChange(x) \/ PersistPolicy(x) \/ PersistTarget(x)
  \/ PersistMark(x)   \/ PersistTrail(x)

ReportStep(t) ==
  ReportLoad(t) \/ ReportResolve(t) \/ ReportAppend(t) \/ ReportAttach(t)

Next ==
  \/ \E c \in Proposals : Propose(c)
  \/ \E r \in Rollbacks : Rollback(r)
  \/ \E a \in Approvals : Approve(a)
  \/ \E t \in Reports : ReportStep(t)
  \/ \E x \in Requests : PersistStep(x) \/ PolicyFault(x)

Spec == Init /\ [][Next]_policyVars

-----------------------------------------------------------------------------

Applies(x, c) ==
  /\ subject[x] = c
  /\ copy[x].status = "Applied"
  /\ pc[x] \notin {"idle", "change"}

(* x rolled c back, or died on the way.                                    *)
Marked(x, c) ==
  /\ copy[x].target = c
  /\ pc[x] \in {"audit", "evidence", "event", "done", "dead"}

Reopened(t, c) == subject[t] = c /\ pc[t] = "done"

(* The proposal of v needed neither an approval nor a report, or it was    *)
(* approved by another user than its proposer and had its report.          *)
Authorized(v) ==
  LET asked == copy[v] IN
  /\ \/ ~RequiresApproval(asked) /\ ~asked.replay
     \/ \E a \in Approvals : Applies(a, v) /\ copy[a].approver # asked.proposer
  /\ asked.replay =>
       \E t \in Reports : subject[t] = v /\ [kind |-> "report", by |-> t] \in trail

(* What the policy says was authorized: also when a chain of rollbacks,    *)
(* which may need no approval of their own, put it in force.               *)
InForceAuthorized == inForce \in Proposals => Authorized(inForce)

(* A change that is stored as applied has its audit entry, unless the      *)
(* command that applies it is under way, or stopped at a call that failed. *)
(* Only a rollback throws with the policy moved and no call failing, and   *)
(* that takes another command: a second rollback of the same change, or a  *)
(* report that was saved over it.                                          *)
UnauditedIsOvertaken ==
  \A c \in Changes : changes[c].status = "Applied" =>
    \E x \in Requests :
      /\ Applies(x, c)
      /\ \/ [kind |-> "audit", by |-> x] \in trail
         \/ pc[x] \in Persisting \cup {"dead"}
         \/ /\ pc[x] = "threw" /\ copy[x].target \in Changes
            /\ \E y \in Requests \ {x} :
                 \/ Marked(y, copy[x].target)
                 \/ y \in Reports /\ Reopened(y, copy[x].target)

Moves ==
  { <<"Absent", "PendingApproval">>, <<"Absent", "Applied">>,
    <<"PendingApproval", "Applied">>, <<"Applied", "RolledBack">> }

(* A change is applied once and rolled back once, unless a command stores  *)
(* what it made of a copy that is not the stored change any more: so does  *)
(* a report that was replayed while the change was approved, and a second  *)
(* approval that was under way when the change was rolled back.            *)
UndoneByStaleCopy ==
  [][ \A c \in Changes :
        \/ changes'[c].status = changes[c].status
        \/ <<changes[c].status, changes'[c].status>> \in Moves
        \/ \E x \in Requests :
             /\ c \in {subject[x], copy[x].target}
             /\ pc[x] \in {"change", "mark", "attach"}
             /\ pc'[x] # pc[x]
             /\ seen[x] # changes[c] ]_policyVars
=============================================================================
