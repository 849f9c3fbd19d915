--------------------------- MODULE GovernedAction ---------------------------
(***************************************************************************)
(* The life of a governed action: an approval is asked for (by a proposal  *)
(* or on its own), decided, and the approved action executed, by           *)
(* concurrent invocations of the four commands over one store.             *)
(***************************************************************************)
EXTENDS FiniteSets, CreateApproval, ProposeAgentAction, SubmitApproval,
        ExecuteApprovedAction

vars == <<storeVars, faults, createVars, proposeVars, submitVars, executeVars>>

GovernedTypeOK ==
  /\ StoreTypeOK
  /\ CreateTypeOK
  /\ ProposeTypeOK
  /\ SubmitTypeOK
  /\ ExecuteTypeOK

Init ==
  /\ StoreInit
  /\ CreateInit
  /\ ProposeInit
  /\ SubmitInit
  /\ ExecuteInit

Next ==
  \/ CreateNext  /\ UNCHANGED <<proposeVars, submitVars, executeVars>>
  \/ ProposeNext /\ UNCHANGED <<createVars, submitVars, executeVars>>
  \/ SubmitNext  /\ UNCHANGED <<createVars, proposeVars, executeVars>>
  \/ ExecuteNext /\ UNCHANGED <<createVars, proposeVars, submitVars>>

Spec == Init /\ [][Next]_vars

(* A handler that was entered runs to its end, and the execution plane     *)
(* answers every call.  Nobody has to submit a request.                    *)
Fairness ==
  /\ \A p \in Proposals : WF_vars(propPc[p] # "idle" /\ ProposeStep(p)
       /\ UNCHANGED <<createVars, submitVars, executeVars>>)
  /\ \A s \in Submitters : WF_vars(subPc[s] # "idle" /\ SubmitStep(s)
       /\ UNCHANGED <<createVars, proposeVars, executeVars>>)
  /\ \A e \in Executors : WF_vars(execPc[e] # "idle" /\ ExecStep(e)
       /\ UNCHANGED <<createVars, proposeVars, submitVars>>)
  /\ \A e \in Executors : WF_vars(RunnerStep(e)
       /\ UNCHANGED <<createVars, proposeVars, submitVars>>)

FairSpec == Spec /\ Fairness

-----------------------------------------------------------------------------

(* Executors between a successful claim and the write of the outcome.      *)
Claimants(a) ==
  {e \in Executors :
     execReq[e].approval = a /\ execPc[e] \in {"dispatch", "await", "finalize"}}

(* Executors whose dispatch left for approval a, or under dispatch key k.  *)
DispatchedFor(a) == {e \in Executors : call[e] # "none" /\ execReq[e].approval = a}

DispatchedUnder(k) == {e \in Executors : call[e] # "none" /\ execReq[e].key = k}

(* Maker-checker, both halves, across the stale reads of the two handlers: *)
(* an action leaves for the execution plane only when its approval was     *)
(* decided by a human who neither asked for it nor executes it.            *)
FourEyes ==
  \A e \in Executors : call[e] # "none" =>
    LET r == approvals[execReq[e].approval] IN
    /\ r.decidedBy \in Users
    /\ r.decidedBy # r.requestedBy
    /\ r.decidedBy # execReq[e].user

(* What leaves for the execution plane under a proposal-bound approval is  *)
(* the payload of the stored proposal that the decision was about.         *)
DispatchedAsApproved ==
  \A e \in Executors :
    LET a == execReq[e].approval
        p == approvals[a].proposal
    IN  call[e] # "none" /\ p # None =>
          LinkedTo(a, p) /\ proposals[p].payload = execReq[e].payload

(* submitApproval and executeApprovedAgentAction never act on an approval  *)
(* whose proposal lost its race, or was never stored, although the link is *)
(* read before the decision is written.                                    *)
OrphanNeverDecided ==
  \A a \in Approvals :
    approvals[a].proposal # None /\ approvals[a].status \notin {"Absent", "Pending"}
      => LinkedTo(a, approvals[a].proposal)

(* The Approved -> Executing claim admits one executor at a time, and none *)
(* is left believing in a claim the store has lost.                        *)
SingleClaim ==
  \A a \in Approvals :
    /\ \A e, f \in Claimants(a) : e = f
    /\ Claimants(a) # {} => approvals[a].status = "Executing"

(* Whatever fails, is retried or is released, one dispatch key leads to at *)
(* most one dispatch: the execution plane's own deduplication by key is    *)
(* never needed against this command.                                      *)
DispatchOncePerKey ==
  \A k \in DispatchKeys : \A e, f \in DispatchedUnder(k) : e = f

(* An approval that is Executing has a reservation that is still held, so  *)
(* that its key cannot be used again; or, when the reply to the claim was  *)
(* lost, one that was given up and under which nothing was ever dispatched.*)
ExecutingHasReservation ==
  \A a \in Approvals : approvals[a].status = "Executing" =>
    \E k \in DispatchKeys :
      /\ reservations[k].fingerprint.approval = a
      /\ \/ reservations[k].status = "InProgress"
         \/ AckLoss /\ reservations[k].status = "Released" /\ DispatchedUnder(k) = {}

(* An approval is dispatched again only when every dispatch of it before   *)
(* was reported as failed: it buys at most one effect that its caller was  *)
(* not told had failed, and at most one at all when such a report is true. *)
RedispatchOnlyAfterFailure ==
  \A a \in Approvals : \A e, f \in DispatchedFor(a) :
    outcome[e] # "failed" /\ outcome[f] # "failed" => e = f

(* A completed reservation, and so every replay of it, tells the truth: an *)
(* Executed one was performed by the caller it names and its approval is   *)
(* Executed, a Failed one was dispatched.                                  *)
CompletedTellsTruth ==
  \A k \in DispatchKeys : reservations[k].status = "Completed" =>
    \E e \in DispatchedUnder(k) :
      /\ FingerprintOf(e) = reservations[k].fingerprint
      /\ reservations[k].result = "Executed" =>
           call[e] = "performed" /\ approvals[execReq[e].approval].status = "Executed"
      /\ reservations[k].result = "Failed" => outcome[e] = "failed"

(* The status that a decision leaves behind, as the action is executed.    *)
DecisionStands(d, status) ==
  \/ status = d
  \/ d = "Approved" /\ status \in {"Executing", "Executed"}

(* A cached decision, upserted with no check, is one its user really took  *)
(* and that still stands: no replay ever reports a decision that was lost. *)
CachedDecisionStands ==
  \A k \in DecisionKeys : decisions[k] # NoEnvelope =>
    /\ approvals[decisions[k].approval].decidedBy = decisions[k].user
    /\ DecisionStands(decisions[k].decision, approvals[decisions[k].approval].status)

(* Two deciders of one approval: at most one is told that it decided, and  *)
(* at most one announces a decision.                                       *)
OneDecisionAnnounced ==
  /\ \A s, t \in Submitters :
       subReply[s] = "Accepted" /\ subReply[t] = "Accepted"
         /\ subReq[s].approval = subReq[t].approval => s = t
  /\ \A x, y \in trail :
       x.what = "Decided" /\ y.what = "Decided" /\ x.approval = y.approval
         => x.by = y.by

(* Racing proposals under one key: every caller that is given a proposal   *)
(* is given the same one, as long as no call fails.  (A failed save is     *)
(* swallowed, and the caller is then given a proposal that is not stored.) *)
ConsistentProposal ==
  \A p, q \in Proposals :
    faults = 0 /\
    propReply[p].answer = "Proposed" /\ propReply[q].answer = "Proposed"
      /\ propReq[p].key = propReq[q].key
      => propReply[p].proposal = propReply[q].proposal

(* An approval leaves Executing back to Approved only when its action is   *)
(* known not to happen.                                                    *)
ReleaseOnlyUnaccepted ==
  [][ \A a \in Approvals :
        approvals[a].status = "Executing" /\ approvals'[a].status = "Approved"
          => \A e \in Claimants(a) : call[e] \in {"none", "refused"} ]_vars

(* A caller whose own reservation was released is not stranded: while the  *)
(* approval is still Approved its retry is not refused.                    *)
ReleasedKeyRetries ==
  [][ \A e \in Executors :
        LET r == reservations[execReq[e].key] IN
        execPc[e] = "lookup" /\ r.status = "Released"
          /\ r.fingerprint = FingerprintOf(e) /\ execSeen[e].status = "Approved"
          /\ approvals[execReq[e].approval].status = "Approved"
          => execReply'[e] # "Conflict" ]_vars

(* An action in execution is brought to an end.                            *)
ExecutionSettles ==
  \A a \in Approvals :
    approvals[a].status = "Executing" ~> approvals[a].status # "Executing"

(* Every decision ends up in the evidence log.                             *)
DecisionEvidenced ==
  \A a \in Approvals :
    approvals[a].decidedBy # None ~>
      \E x \in trail : x.medium = "evidence" /\ x.what = "Decided" /\ x.approval = a

-----------------------------------------------------------------------------

(* The inductive invariant behind FourEyes, SingleClaim and                *)
(* DispatchOncePerKey: what the handlers may rely on between two calls.    *)

(* A request that was entered names what it is about.                      *)
RequestsFilled ==
  /\ \A s \in Submitters : subPc[s] # "idle" =>
       /\ subReq[s].user \in Users
       /\ subReq[s].approval \in Approvals
       /\ subReq[s].decision \in HumanDecision
  /\ \A e \in Executors : execPc[e] # "idle" =>
       /\ execReq[e].user \in Users
       /\ execReq[e].approval \in Approvals
       /\ execReq[e].key \in DispatchKeys

HoldingPc == {"claim", "release", "dispatch", "await", "finalize", "publish",
              "evidence", "complete"}

(* Who passed begin holds the reservation of its key alone, and a key that *)
(* was dispatched under never becomes free again.                          *)
KeyHeld ==
  \A e \in Executors :
    /\ execPc[e] \in {"idle", "bind", "lookup", "begin", "claim", "release", "dispatch"}
         => call[e] = "none"
    /\ execPc[e] \in HoldingPc =>
         /\ reservations[execReq[e].key].status = "InProgress"
         /\ reservations[execReq[e].key].fingerprint = FingerprintOf(e)
         /\ \A f \in Executors \ {e} : execReq[f].key = execReq[e].key =>
              execPc[f] \notin HoldingPc /\ call[f] = "none"
    /\ call[e] # "none" =>
         reservations[execReq[e].key].status \in {"InProgress", "Completed"}

Settled(a) == approvals[a].status \notin {"Absent", "Pending"}

(* An approval has a decider when it is settled, and not before.           *)
SettledByOther ==
  \A a \in Approvals :
    /\ Settled(a) =>
         approvals[a].decidedBy \in Users /\ approvals[a].decidedBy # approvals[a].requestedBy
    /\ ~Settled(a) => approvals[a].decidedBy = None

(* A submitter's copy of the approval may be stale in its status but not   *)
(* in who asked for it.                                                    *)
SubmitterKnowsRequester ==
  \A s \in Submitters :
    LET a == subReq[s].approval IN
    /\ subPc[s] \in {"lookup", "link", "linkById", "persist"} =>
         approvals[a].status # "Absent" /\ approvals[a].requestedBy = subSeen[s].requestedBy
    /\ subPc[s] = "persist" => subReq[s].user # subSeen[s].requestedBy

(* An executor's copy of an approved approval has the decision right.      *)
ExecutorKnowsDecision ==
  \A e \in Executors :
    LET a == execReq[e].approval IN
    /\ execPc[e] \in {"begin", "claim", "dispatch", "await", "finalize"} =>
         execSeen[e].status = "Approved"
    /\ execPc[e] \notin {"idle", "done", "dead"} /\ execSeen[e].status = "Approved" =>
         /\ Settled(a)
         /\ approvals[a].requestedBy = execSeen[e].requestedBy
         /\ approvals[a].decidedBy = execSeen[e].decidedBy
         /\ execSeen[e].decidedBy # execReq[e].user
    /\ call[e] # "none" => Settled(a) /\ approvals[a].decidedBy # execReq[e].user

IndInv ==
  /\ GovernedTypeOK
  /\ RequestsFilled
  /\ KeyHeld
  /\ DispatchOncePerKey
  /\ SingleClaim
  /\ SettledByOther
  /\ SubmitterKnowsRequester
  /\ ExecutorKnowsDecision

-----------------------------------------------------------------------------

(* The handlers implement the lifecycle the status table promises.         *)
Lifecycle ==
  INSTANCE ApprovalLifecycle WITH
    status  <- [a \in Approvals |-> approvals[a].status],
    decider <- [a \in Approvals |-> approvals[a].decidedBy]

LifecycleSpec == Lifecycle!LifecycleSpec
=============================================================================
