--------------------------- MODULE ApprovalStore ---------------------------
(***************************************************************************)
(* The durable state the approval commands share, and the operations of    *)
(* its ports: the approval store (Postgres document or in-memory map; both *)
(* implement saveApprovalIfStatus as one atomic compare-and-set), the      *)
(* agent-action proposal store, and the audit trail of published events    *)
(* and appended evidence.  The UnitOfWork of the runtime runs its body     *)
(* with no transaction around it, so every store call is a step.           *)
(***************************************************************************)
EXTENDS Naturals

CONSTANTS Approvals,        \* approval identifiers
          Proposals,        \* proposal identifiers, one per propose request
          Users,            \* principals: requesters, approvers, executors
          SchedulerActor,   \* 'system:scheduler', decider of expired approvals
          Payloads,         \* action parameters
          ProposalKeys,     \* idempotency keys of proposals, given or derived
          Requests,         \* every command invocation that leaves a trail
          MaxFaults,        \* bound: store, publisher and process failures
          None              \* absent value

ASSUME StoreAssumption ==
  /\ None \notin Approvals \cup Proposals \cup Users \cup Payloads
  /\ None \notin ProposalKeys
  /\ SchedulerActor \notin Users
  /\ SchedulerActor # None
  /\ MaxFaults \in Nat

VARIABLES approvals,   \* approvals[a]: the stored approval record
          proposals,   \* proposals[p]: the stored proposal record
          trail,       \* published events and evidence entries
          faults       \* failures so far, over all handlers

storeVars == <<approvals, proposals, trail>>

(* A call fails before it takes effect, or the process stops.              *)
Fault ==
  /\ faults < MaxFaults
  /\ faults' = faults + 1

Decided == {"Approved", "Denied", "RequestChanges", "Expired"}

ApprovalStatus == {"Pending", "Executing", "Executed"} \cup Decided

Deciders == Users \cup {SchedulerActor}

(* approval.proposal stands for runId = planId = the proposal's id; None   *)
(* for an approval created on its own, whose run and plan differ.          *)
ApprovalRecord ==
  [ status      : ApprovalStatus \cup {"Absent"},
    requestedBy : Users \cup {None},
    decidedBy   : Deciders \cup {None},
    proposal    : Proposals \cup {None} ]

NoApproval ==
  [ status |-> "Absent", requestedBy |-> None,
    decidedBy |-> None, proposal |-> None ]

(* Bug: the two arguments swapped.                                         *)
PendingApprovalSwapped(user, p) ==
  [ status |-> "Pending", requestedBy |-> p,
    decidedBy |-> None, proposal |-> user ]

PendingApproval(user, p) ==
  [ status |-> "Pending", requestedBy |-> user,
    decidedBy |-> None, proposal |-> p ]

(* stored is FALSE for a proposal that was never written.                  *)
ProposalRecord ==
  [ stored   : BOOLEAN,
    approval : Approvals \cup {None},
    key      : ProposalKeys \cup {None},
    payload  : Payloads \cup {None} ]

NoProposal ==
  [ stored |-> FALSE, approval |-> None, key |-> None, payload |-> None ]

TrailRecord ==
  [ medium   : {"event", "evidence"},
    what     : {"Requested", "Proposed", "Decided", "Expired", "Escalated",
                "Executed", "ExecutionFailed"},
    approval : Approvals \cup {None},
    by       : Requests \cup {SchedulerActor} ]

StoreTypeOK ==
  /\ approvals \in [Approvals -> ApprovalRecord]
  /\ proposals \in [Proposals -> ProposalRecord]
  /\ trail \subseteq TrailRecord
  /\ faults \in 0..MaxFaults

StoreInit ==
  /\ approvals = [a \in Approvals |-> NoApproval]
  /\ proposals = [p \in Proposals |-> NoProposal]
  /\ trail = {}
  /\ faults = 0

(* getProposalByApprovalId and getProposalByIdempotencyKey.                *)
LinkedTo(a, p) == proposals[p].stored /\ proposals[p].approval = a

HasKey(k, p) == proposals[p].stored /\ proposals[p].key = k

(* saveApproval: an unconditional upsert.                                  *)
SaveApproval(a, record) == approvals' = [approvals EXCEPT ![a] = record]

(* saveApprovalIfStatus, the branch that returns true; a caller's losing   *)
(* branch is guarded by approvals[a].status # expected.                    *)
SaveApprovalIfStatus(a, expected, record) ==
  /\ approvals[a].status = expected
  /\ SaveApproval(a, record)

Record(medium, what, a, by) ==
  trail' = trail \cup
    {[medium |-> medium, what |-> what, approval |-> a, by |-> by]}
=============================================================================
