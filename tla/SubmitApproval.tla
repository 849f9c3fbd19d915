--------------------------- MODULE SubmitApproval ---------------------------
(***************************************************************************)
(* submitApproval: a principal decides a pending approval.  One process    *)
(* per command invocation, one step per awaited call of the handler, so    *)
(* that what was read before an await may be stale when it is used.        *)
(***************************************************************************)
EXTENDS ApprovalStore

CONSTANTS Submitters,     \* submitApproval invocations
          DecisionKeys    \* client Idempotency-Key values

ASSUME SubmitAssumption ==
  /\ Submitters \subseteq Requests
  /\ None \notin DecisionKeys

VARIABLES subPc,      \* subPc[s]: the call the handler awaits next
          subReq,     \* subReq[s]: the request, its ctx.principalId included
          subSeen,    \* subSeen[s]: the approval as getApprovalById returned it
          subReply,   \* subReply[s]: what the caller was told
          decisions   \* decisions[k]: cached envelope of Idempotency-Key k

submitVars == <<subPc, subReq, subSeen, subReply, decisions>>

HumanDecision == {"Approved", "Denied", "RequestChanges"}

SubmitRequest ==
  [ user     : Users \cup {None},
    approval : Approvals \cup {None},
    decision : HumanDecision \cup {None},
    key      : DecisionKeys \cup {None} ]

NoSubmit == [user |-> None, approval |-> None, decision |-> None, key |-> None]

(* The canonical fingerprint is the request without its key.               *)
DecisionEnvelope ==
  [ user     : Users \cup {None},
    approval : Approvals \cup {None},
    decision : HumanDecision \cup {None} ]

NoEnvelope == [user |-> None, approval |-> None, decision |-> None]

Envelope(s) ==
  [ user |-> subReq[s].user, approval |-> subReq[s].approval,
    decision |-> subReq[s].decision ]

SubmitPc == {"idle", "lookup", "recache", "link", "linkById", "persist",
             "publish", "evidence", "cache", "done", "dead"}

SubmitReply == {"None", "NotFound", "Forbidden", "Conflict", "Accepted", "Replayed"}

SubmitTypeOK ==
  /\ subPc \in [Submitters -> SubmitPc]
  /\ subReq \in [Submitters -> SubmitRequest]
  /\ subSeen \in [Submitters -> ApprovalRecord]
  /\ subReply \in [Submitters -> SubmitReply]
  /\ decisions \in [DecisionKeys -> DecisionEnvelope]

SubmitInit ==
  /\ subPc = [s \in Submitters |-> "idle"]
  /\ subReq = [s \in Submitters |-> NoSubmit]
  /\ subSeen = [s \in Submitters |-> NoApproval]
  /\ subReply = [s \in Submitters |-> "None"]
  /\ decisions = [k \in DecisionKeys |-> NoEnvelope]

SubmitGoto(s, pc) ==
  /\ subPc' = [subPc EXCEPT ![s] = pc]
  /\ UNCHANGED subReply

SubmitDone(s, answer) ==
  /\ subPc' = [subPc EXCEPT ![s] = "done"]
  /\ subReply' = [subReply EXCEPT ![s] = answer]

-----------------------------------------------------------------------------

(* Validation and authorization passed; getApprovalById.                   *)
SubmitLoad(s) ==
  /\ subPc[s] = "idle"
  /\ \E u \in Users, a \in Approvals, d \in HumanDecision,
        k \in DecisionKeys \cup {None} :
       /\ subReq' = [subReq EXCEPT ![s] =
            [user |-> u, approval |-> a, decision |-> d, key |-> k]]
       /\ subSeen' = [subSeen EXCEPT ![s] = approvals[a]]
       /\ \/ approvals[a].status = "Absent" /\ SubmitDone(s, "NotFound")
          \/ approvals[a].status # "Absent" /\ SubmitGoto(s, "lookup")
  /\ UNCHANGED <<storeVars, decisions, faults>>

(* Bug: a retry is recognised by its decision, whoever took it.            *)
OwnRetryOfAnyone(s) ==
  subReq[s].key # None /\ subSeen[s].status = subReq[s].decision

(* A decided approval that shows this very decision, asked for with a key. *)
OwnRetry(s) ==
  /\ subReq[s].key # None
  /\ subSeen[s].status = subReq[s].decision
  /\ subSeen[s].decidedBy = subReq[s].user

(* The cached envelope of the key answers first; then a decided approval   *)
(* is either this caller's own retry or a conflict (guardPendingState).    *)
SubmitLookup(s) ==
  LET key    == subReq[s].key
      cached == key # None /\ decisions[key] # NoEnvelope
  IN
  /\ subPc[s] = "lookup"
  /\ \/ cached /\ decisions[key] = Envelope(s) /\ SubmitDone(s, "Replayed")
     \/ cached /\ decisions[key] # Envelope(s) /\ SubmitDone(s, "Conflict")
     \/ ~cached /\ subSeen[s].status = "Pending" /\ SubmitGoto(s, "link")
     \/ ~cached /\ subSeen[s].status # "Pending" /\ OwnRetry(s) /\ SubmitGoto(s, "recache")
     \/ ~cached /\ subSeen[s].status # "Pending" /\ ~OwnRetry(s) /\ SubmitDone(s, "Conflict")
  /\ UNCHANGED <<storeVars, subReq, subSeen, decisions, faults>>

(* idempotency.set: an upsert, whatever the key holds by now.              *)
SetDecision(s) ==
  decisions' = [decisions EXCEPT ![subReq[s].key] = Envelope(s)]

SubmitRecache(s) ==
  /\ subPc[s] = "recache"
  /\ SetDecision(s)
  /\ SubmitDone(s, "Replayed")
  /\ UNCHANGED <<storeVars, subReq, subSeen, faults>>

(* Bug: no maker-checker.                                                  *)
SubmitGuardsSelf(s) ==
  SubmitDone(s, "Forbidden") \/ SubmitGoto(s, "persist")

(* What follows the link checks without another await: maker-checker, then *)
(* the separation-of-duties and feedback rules the caller may have         *)
(* supplied, which refuse or not.                                          *)
SubmitGuards(s) ==
  \/ SubmitDone(s, "Forbidden")
  \/ subReq[s].user # subSeen[s].requestedBy /\ SubmitGoto(s, "persist")

(* guardLinkedAgentActionProposal, getProposalByApprovalId.                *)
SubmitLink(s) ==
  LET a == subReq[s].approval
      p == subSeen[s].proposal
  IN
  /\ subPc[s] = "link"
  /\ \/ \E q \in Proposals : LinkedTo(a, q) /\ q # p /\ SubmitDone(s, "Conflict")
     \/ p # None /\ LinkedTo(a, p) /\ SubmitGuards(s)
     \/ /\ \A q \in Proposals : ~LinkedTo(a, q)
        /\ \/ p = None /\ SubmitGuards(s)
           \/ p # None /\ SubmitGoto(s, "linkById")
  /\ UNCHANGED <<storeVars, subReq, subSeen, decisions, faults>>

(* Bug: an approval whose proposal is not stored is as good as an unbound  *)
(* one.                                                                    *)
SubmitLinkByIdLenient(s) ==
  /\ subPc[s] = "linkById"
  /\ SubmitGuards(s)
  /\ UNCHANGED <<storeVars, subReq, subSeen, decisions, faults>>

(* guardLinkedAgentActionProposal, getProposalById: the proposal may have  *)
(* been written since the previous read.                                   *)
SubmitLinkById(s) ==
  LET linked == LinkedTo(subReq[s].approval, subSeen[s].proposal) IN
  /\ subPc[s] = "linkById"
  /\ \/ linked /\ SubmitGuards(s)
     \/ ~linked /\ SubmitDone(s, "Conflict")
  /\ UNCHANGED <<storeVars, subReq, subSeen, decisions, faults>>

(* buildDecidedApproval over the record that was read.                     *)
DecidedApproval(s) ==
  [subSeen[s] EXCEPT !.status = subReq[s].decision, !.decidedBy = subReq[s].user]

(* Bug: the guard on the copy that was read is relied upon.                *)
SubmitPersistUnguarded(s) ==
  /\ subPc[s] = "persist"
  /\ SaveApproval(subReq[s].approval, DecidedApproval(s))
  /\ SubmitGoto(s, "publish")
  /\ UNCHANGED <<proposals, trail, subReq, subSeen, decisions, faults>>

(* persistDecision: the decision claim.                                    *)
SubmitPersist(s) ==
  LET a == subReq[s].approval IN
  /\ subPc[s] = "persist"
  /\ \/ /\ SaveApprovalIfStatus(a, "Pending", DecidedApproval(s))
        /\ SubmitGoto(s, "publish")
     \/ /\ approvals[a].status # "Pending"
        /\ SubmitDone(s, "Conflict")
        /\ UNCHANGED approvals
  /\ UNCHANGED <<proposals, trail, subReq, subSeen, decisions, faults>>

(* Bug: the handler returns once the event is out.                         *)
SubmitPublishReturns(s) ==
  /\ subPc[s] = "publish"
  /\ Record("event", "Decided", subReq[s].approval, s)
  /\ SubmitDone(s, "Accepted")
  /\ UNCHANGED <<approvals, proposals, subReq, subSeen, decisions, faults>>

SubmitPublish(s) ==
  /\ subPc[s] = "publish"
  /\ Record("event", "Decided", subReq[s].approval, s)
  /\ SubmitGoto(s, "evidence")
  /\ UNCHANGED <<approvals, proposals, subReq, subSeen, decisions, faults>>

SubmitEvidence(s) ==
  /\ subPc[s] = "evidence"
  /\ Record("evidence", "Decided", subReq[s].approval, s)
  /\ \/ subReq[s].key = None /\ SubmitDone(s, "Accepted")
     \/ subReq[s].key # None /\ SubmitGoto(s, "cache")
  /\ UNCHANGED <<approvals, proposals, subReq, subSeen, decisions, faults>>

SubmitCache(s) ==
  /\ subPc[s] = "cache"
  /\ SetDecision(s)
  /\ SubmitDone(s, "Accepted")
  /\ UNCHANGED <<storeVars, subReq, subSeen, faults>>

(* The awaited call fails before taking effect, or the process stops: the  *)
(* handler does nothing more, and what it stored stays stored.             *)
SubmitFault(s) ==
  /\ subPc[s] \notin {"idle", "done", "dead"}
  /\ Fault
  /\ SubmitGoto(s, "dead")
  /\ UNCHANGED <<storeVars, subReq, subSeen, decisions>>

SubmitStep(s) ==
  \/ SubmitLoad(s)    \/ SubmitLookup(s)   \/ SubmitRecache(s)
  \/ SubmitLink(s)    \/ SubmitLinkById(s) \/ SubmitPersist(s)
  \/ SubmitPublish(s) \/ SubmitEvidence(s) \/ SubmitCache(s)

SubmitNext == \E s \in Submitters : SubmitStep(s) \/ SubmitFault(s)
=============================================================================
