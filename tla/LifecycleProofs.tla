-------------------------- MODULE LifecycleProofs --------------------------
(***************************************************************************)
(* The four commands implement ApprovalLifecycle: whatever they interleave *)
(* and whatever fails, an approval's status and decider change only as the *)
(* transition table of the domain allows.  From that refinement, what the  *)
(* commands promise of proposals and of decisions.                         *)
(***************************************************************************)
EXTENDS GovernedActionProofs

(* The lifecycle's variables after approval a alone is written as r.       *)
LEMMA OneWrite ==
  ASSUME NEW a \in Approvals, NEW r, approvals \in [Approvals -> ApprovalRecord],
         approvals' = [approvals EXCEPT ![a] = r]
  PROVE  /\ [b \in Approvals |-> approvals[b].status]' =
              [[b \in Approvals |-> approvals[b].status] EXCEPT ![a] = r.status]
         /\ [b \in Approvals |-> approvals[b].decidedBy]' =
              [[b \in Approvals |-> approvals[b].decidedBy] EXCEPT ![a] = r.decidedBy]
  OBVIOUS

(* A write that keeps the decider leaves all deciders as they were.        *)
LEMMA SameDecider ==
  ASSUME NEW a \in Approvals, NEW r, approvals \in [Approvals -> ApprovalRecord],
         approvals' = [approvals EXCEPT ![a] = r],
         r.decidedBy = approvals[a].decidedBy
  PROVE  [b \in Approvals |-> approvals[b].decidedBy]' =
           [b \in Approvals |-> approvals[b].decidedBy]
  OBVIOUS

(* A new approval: the lifecycle's Request.                                *)
LEMMA RequestRefines ==
  ASSUME IndInv, NEW a \in Approvals, NEW u, NEW p, approvals[a].status = "Absent",
         SaveApproval(a, PendingApproval(u, p))
  PROVE  Lifecycle!LifecycleNext
<1> DEFINE r == PendingApproval(u, p)
<1>1. /\ approvals \in [Approvals -> ApprovalRecord]
      /\ approvals' = [approvals EXCEPT ![a] = r]
  BY DEF IndInv, GovernedTypeOK, StoreTypeOK, SaveApproval
<1>2. r.status = "Pending" /\ r.decidedBy = approvals[a].decidedBy
  BY DEF PendingApproval, IndInv, SettledByOther, Settled
<1> HIDE DEF r
<1>3. Lifecycle!Request(a)
  BY <1>1, <1>2, OneWrite, SameDecider DEF Lifecycle!Request
<1> QED BY <1>3 DEF Lifecycle!LifecycleNext

(* The decision claim: the lifecycle's Decide.                             *)
LEMMA PersistRefines ==
  ASSUME IndInv, NEW s \in Submitters, SubmitPersist(s)
  PROVE  Lifecycle!LifecycleNext \/ UNCHANGED approvals
<1> SUFFICES ASSUME ~UNCHANGED approvals PROVE Lifecycle!LifecycleNext
  OBVIOUS
<1>1. PICK a \in Approvals :
        /\ subReq[s].user \in Users /\ subReq[s].decision \in HumanDecision
        /\ approvals[a].status = "Pending"
        /\ approvals' = [approvals EXCEPT ![a] = DecidedApproval(s)]
  BY DEF SubmitPersist, SaveApprovalIfStatus, SaveApproval, IndInv, RequestsFilled
<1> DEFINE r == DecidedApproval(s)
<1>2. r.status \in HumanDecision /\ r.decidedBy \in Users
  BY <1>1 DEF DecidedApproval, IndInv, GovernedTypeOK, SubmitTypeOK, ApprovalRecord
<1>3. approvals \in [Approvals -> ApprovalRecord]
  BY DEF IndInv, GovernedTypeOK, StoreTypeOK
<1>4. r.status \in Lifecycle!Transitions["Pending"] /\ r.decidedBy \in Deciders
  BY <1>2 DEF Lifecycle!Transitions, Lifecycle!Decided, Lifecycle!ApprovalStatus,
     HumanDecision, Deciders
<1> HIDE DEF r
<1>5. Lifecycle!Decide(a)
  BY <1>1, <1>3, <1>4, OneWrite DEF Lifecycle!Decide, r
<1> QED BY <1>5 DEF Lifecycle!LifecycleNext

(* The claim and the write of the outcome: the lifecycle's Progress.       *)
LEMMA ExecuteRefines ==
  ASSUME IndInv, NEW e \in Executors, ExecutorMoves(e)
  PROVE  Lifecycle!LifecycleNext \/ UNCHANGED approvals
<1> SUFFICES ASSUME ~UNCHANGED approvals PROVE Lifecycle!LifecycleNext
  OBVIOUS
<1>1. ExecClaim(e) \/ ExecClaimThrows(e) \/ ExecFinalize(e)
  BY DEF ExecutorMoves, ExecStep, ExecLoad, ExecBind, ExecLookup, ExecBegin,
     ExecRelease, ExecDispatch, ExecResult, ExecPublish, ExecEvidence, ExecComplete,
     RunnerStep, RunnerPerform, RunnerRefuse, ExecFault, storeVars
<1>2. /\ approvals \in [Approvals -> ApprovalRecord] /\ execSeen[e] \in ApprovalRecord
      /\ execReq[e].approval \in Approvals /\ execSeen[e].status = "Approved"
      /\ approvals[execReq[e].approval].decidedBy = execSeen[e].decidedBy
  BY <1>1 DEF ExecClaim, ExecClaimThrows, ExecFinalize, IndInv, RequestsFilled,
     ExecutorKnowsDecision, GovernedTypeOK, StoreTypeOK, ExecuteTypeOK
<1>3. PICK a \in Approvals, r \in {ClaimedApproval(e), FinalApproval(e)} :
        /\ approvals' = [approvals EXCEPT ![a] = r]
        /\ r.decidedBy = approvals[a].decidedBy
        /\ \/ approvals[a].status = "Approved" /\ r.status = "Executing"
           \/ approvals[a].status = "Executing" /\ r.status \in {"Executed", "Approved"}
  <2>1. CASE ExecClaim(e) \/ ExecClaimThrows(e)
    BY <1>2, <2>1 DEF ExecClaim, ExecClaimThrows, SaveApprovalIfStatus, SaveApproval,
       ClaimedApproval, ApprovalRecord
  <2>2. CASE ExecFinalize(e)
    <3>1. /\ FinalApproval(e).decidedBy = execSeen[e].decidedBy
          /\ FinalApproval(e).status \in {"Executed", "Approved"}
      BY <1>2 DEF FinalApproval, ApprovalRecord
    <3> QED
      BY <1>2, <2>2, <3>1 DEF ExecFinalize, SaveApprovalIfStatus, SaveApproval
  <2> QED BY <1>1, <2>1, <2>2
<1>4. r.status \in Lifecycle!Transitions[approvals[a].status]
  BY <1>3 DEF Lifecycle!Transitions, Lifecycle!Decided, Lifecycle!ApprovalStatus
<1>5. Lifecycle!Progress(a)
  BY <1>2, <1>3, <1>4, OneWrite, SameDecider DEF Lifecycle!Progress
<1> QED BY <1>5 DEF Lifecycle!LifecycleNext

(* Every step is a step of the lifecycle or leaves the approvals alone.    *)
LEMMA StepRefines ==
  IndInv /\ [Next]_vars => [Lifecycle!LifecycleNext]_Lifecycle!lifecycleVars
<1> SUFFICES ASSUME IndInv, [Next]_vars
             PROVE  Lifecycle!LifecycleNext \/ UNCHANGED approvals
  BY DEF Lifecycle!lifecycleVars
<1>1. CASE CreateNext \/ ProposeNext
  <2>1. \/ UNCHANGED approvals
        \/ \E a \in Approvals : \E u, p :
             approvals[a].status = "Absent" /\ SaveApproval(a, PendingApproval(u, p))
    BY <1>1 DEF CreateNext, CreateStep, CreateLookup, CreateSave, CreatePublish,
       CreateEvidence, CreateCache, CreateFault, ProposeNext, ProposeStep, ProposeLookup,
       ProposeEvidence, ProposePublish, ProposeApproval, ProposeSave, ProposeSaveFails,
       ProposeRace, ProposeFault, storeVars
  <2> QED BY <2>1, RequestRefines
<1>2. CASE SubmitNext
  <2>1. PICK s \in Submitters : SubmitStep(s) \/ SubmitFault(s)
    BY <1>2 DEF SubmitNext
  <2>2. CASE ~SubmitPersist(s)
    BY <2>1, <2>2 DEF SubmitStep, SubmitLoad, SubmitLookup, SubmitRecache, SubmitLink,
       SubmitLinkById, SubmitPublish, SubmitEvidence, SubmitCache, SubmitFault, storeVars
  <2> QED BY <2>2, PersistRefines
<1>3. CASE ExecuteNext
  <2>1. PICK e \in Executors : ExecutorMoves(e)
    BY <1>3 DEF ExecuteNext, ExecutorMoves
  <2> QED BY <2>1, ExecuteRefines
<1>4. CASE UNCHANGED vars
  BY <1>4 DEF vars, storeVars
<1> QED BY <1>1, <1>2, <1>3, <1>4 DEF Next

(* The commands implement the approval lifecycle.                          *)
THEOREM Refinement == Spec => LifecycleSpec
<1>1. Init => Lifecycle!LifecycleInit
  BY DEF Init, StoreInit, NoApproval, Lifecycle!LifecycleInit
<1>2. IndInv /\ [Next]_vars => [Lifecycle!LifecycleNext]_Lifecycle!lifecycleVars
  BY StepRefines
<1> QED
  BY <1>1, <1>2, Invariant, PTL DEF Spec, LifecycleSpec, Lifecycle!LifecycleSpec

-----------------------------------------------------------------------------

(* The step is that of an executor, or leaves the executors alone.         *)
LEMMA ExecutorOrNot ==
  ASSUME [Next]_vars
  PROVE  \/ UNCHANGED executeVars
         \/ \E e \in Executors : ExecutorMoves(e)
  BY DEF Next, vars, ExecuteNext, ExecutorMoves

(* Who has a request under way, or has dispatched one, named its approval. *)
LEMMA ApprovalNamed ==
  ASSUME IndInv, NEW e \in Executors, execPc[e] # "idle" \/ call[e] # "none"
  PROVE  execReq[e].approval \in Approvals /\ execReq[e].key \in DispatchKeys
         /\ execPc[e] # "idle"
  BY DEF IndInv, RequestsFilled, KeyHeld

(* The lifecycle, spelled out for one approval.                            *)
Moves(a) ==
  LET was == approvals[a].status
      is  == approvals'[a].status
  IN
  \/ was = "Pending" /\ is \in Decided
  \/ /\ approvals'[a].decidedBy = approvals[a].decidedBy
     /\ \/ is = was
        \/ was = "Absent" /\ is = "Pending"
        \/ was = "Approved" /\ is = "Executing"
        \/ was = "Executing" /\ is \in {"Approved", "Executed"}

(* No step moves an approval otherwise.                                    *)
LEMMA StatusMoves ==
  ASSUME IndInv, [Next]_vars, NEW a \in Approvals
  PROVE  Moves(a)
<1> DEFINE st(b) == approvals[b].status
           dec(b) == approvals[b].decidedBy
<1>1. [Lifecycle!LifecycleNext]_Lifecycle!lifecycleVars
  BY StepRefines
<1>2. CASE UNCHANGED Lifecycle!lifecycleVars
  <2>1. [b \in Approvals |-> st(b)]' = [b \in Approvals |-> st(b)]
    BY <1>2 DEF Lifecycle!lifecycleVars
  <2>2. [b \in Approvals |-> dec(b)]' = [b \in Approvals |-> dec(b)]
    BY <1>2 DEF Lifecycle!lifecycleVars
  <2> QED BY <2>1, <2>2 DEF Moves
<1>3. ASSUME NEW b \in Approvals, Lifecycle!Request(b) PROVE Moves(a)
  BY <1>3 DEF Lifecycle!Request, Moves
<1>4. ASSUME NEW b \in Approvals, Lifecycle!Decide(b) PROVE Moves(a)
  BY <1>4 DEF Lifecycle!Decide, Lifecycle!Transitions, Lifecycle!ApprovalStatus,
     Lifecycle!Decided, Decided, Moves
<1>5. ASSUME NEW b \in Approvals, Lifecycle!Progress(b) PROVE Moves(a)
  BY <1>5 DEF Lifecycle!Progress, Lifecycle!Transitions, Lifecycle!ApprovalStatus,
     Lifecycle!Decided, Moves
<1> QED BY <1>1, <1>2, <1>3, <1>4, <1>5 DEF Lifecycle!LifecycleNext

-----------------------------------------------------------------------------

(* Proposals.  A proposal names the approval that was created for it, a    *)
(* stored one never changes, and an approval has at most the one proposal  *)
(* it was created with.                                                    *)

Link(p) ==
  /\ propPc[p] \in {"idle", "evidence", "publish", "approval"} => propApproval[p] = None
  /\ propPc[p] \in {"idle", "evidence", "publish", "approval", "save"} => ~proposals[p].stored
  /\ propApproval[p] # None =>
       /\ approvals[propApproval[p]].status # "Absent"
       /\ approvals[propApproval[p]].proposal = p
  /\ proposals[p].stored => proposals[p].approval = propApproval[p]

LinkInv == \A p \in Proposals : Link(p)

(* The copies of an approval agree with it on the proposal, and who goes   *)
(* on to decide a bound approval has seen its proposal stored.             *)
SubmitterBound(s) ==
  LET a == subReq[s].approval
      p == subSeen[s].proposal
  IN
  /\ subPc[s] \in {"lookup", "link", "linkById", "persist"} =>
       a \in Approvals /\ approvals[a].status # "Absent" /\ approvals[a].proposal = p
  /\ subPc[s] = "persist" /\ p # None => LinkedTo(a, p)

(* An executor's too; and past ExecBind the stored proposal of its         *)
(* approval, if it is bound to one, has the payload it was asked for.      *)
ExecutorBound(e) ==
  LET a == execReq[e].approval
      p == approvals[a].proposal
  IN
  /\ execPc[e] \notin {"idle", "done", "dead"} =>
       approvals[a].status # "Absent" /\ execSeen[e].proposal = p
  /\ execPc[e] \in {"lookup", "begin", "claim", "dispatch"} \/ call[e] # "none" =>
       (p # None => LinkedTo(a, p) /\ proposals[p].payload = execReq[e].payload)

(* What binds a decision, and a dispatch, to the proposal it is about.     *)
ProposalInv ==
  /\ LinkInv
  /\ OrphanNeverDecided
  /\ \A s \in Submitters : SubmitterBound(s)
  /\ \A e \in Executors : ExecutorBound(e)

(* What every step leaves of proposals and of their approvals.             *)
ProposalsKept ==
  /\ \A p \in Proposals : proposals[p].stored => proposals'[p] = proposals[p]
  /\ \A a \in Approvals : approvals[a].status # "Absent" =>
       approvals'[a].status # "Absent" /\ approvals'[a].proposal = approvals[a].proposal

(* The linked proposal of an approval is the one the approval names.       *)
LEMMA LinkMeans ==
  ASSUME LinkInv, NEW a \in Approvals, NEW p \in Proposals, LinkedTo(a, p)
  PROVE  approvals[a].status # "Absent" /\ approvals[a].proposal = p
  BY StoreAssumption DEF LinkInv, Link, LinkedTo

(* Who writes a proposal, and who writes an approval that exists.          *)
LEMMA StoredProposalKept ==
  ASSUME IndInv, LinkInv, [Next]_vars, NEW p \in Proposals, proposals[p].stored
  PROVE  proposals'[p] = proposals[p]
<1>1. CASE \E q \in Proposals : ProposeSave(q)
  BY <1>1 DEF ProposeSave, LinkInv, Link, IndInv, GovernedTypeOK, StoreTypeOK
<1>2. CASE ~\E q \in Proposals : ProposeSave(q)
  BY <1>2 DEF Next, vars, storeVars, CreateNext, CreateStep, CreateLookup, CreateSave,
     CreatePublish, CreateEvidence, CreateCache, CreateFault, ProposeNext, ProposeStep,
     ProposeLookup, ProposeEvidence, ProposePublish, ProposeApproval, ProposeSaveFails,
     ProposeRace, ProposeFault, SubmitNext, SubmitStep, SubmitFault, SubmitLoad,
     SubmitLookup, SubmitRecache, SubmitLink, SubmitLinkById, SubmitPersist,
     SubmitPublish, SubmitEvidence, SubmitCache, ExecuteNext, ExecStep, ExecLoad,
     ExecBind, ExecLookup, ExecBegin, ExecClaim, ExecClaimThrows, ExecRelease,
     ExecDispatch, ExecResult, ExecFinalize, ExecPublish, ExecEvidence, ExecComplete,
     RunnerStep, RunnerPerform, RunnerRefuse, ExecFault
<1> QED BY <1>1, <1>2

(* An approval that exists is written by its decision and its execution    *)
(* only.                                                                   *)
LEMMA ApprovalWriters ==
  ASSUME IndInv, [Next]_vars, NEW a \in Approvals, approvals'[a] # approvals[a],
         approvals[a].status # "Absent"
  PROVE  \/ \E s \in Submitters : SubmitPersist(s) /\ a = subReq[s].approval
              /\ approvals[a].status = "Pending" /\ approvals'[a] = DecidedApproval(s)
         \/ \E e \in Executors : a = execReq[e].approval
              /\ execPc[e] \in {"claim", "finalize"}
              /\ approvals'[a] \in {ClaimedApproval(e), FinalApproval(e)}
<1>1. approvals \in [Approvals -> ApprovalRecord] /\ ~UNCHANGED vars
  BY DEF IndInv, GovernedTypeOK, StoreTypeOK, vars, storeVars
<1>2. CASE CreateNext \/ ProposeNext
  BY <1>1, <1>2 DEF CreateNext, CreateStep, CreateLookup, CreateSave, CreatePublish,
     CreateEvidence, CreateCache, CreateFault, ProposeNext, ProposeStep, ProposeLookup,
     ProposeEvidence, ProposePublish, ProposeApproval, ProposeSave, ProposeSaveFails,
     ProposeRace, ProposeFault, storeVars, SaveApproval
<1>3. CASE SubmitNext
  BY <1>1, <1>3 DEF SubmitNext, SubmitStep, SubmitFault, SubmitLoad, SubmitLookup,
     SubmitRecache, SubmitLink, SubmitLinkById, SubmitPersist, SubmitPublish,
     SubmitEvidence, SubmitCache, storeVars, SaveApprovalIfStatus, SaveApproval
<1>4. CASE ExecuteNext
  <2>1. PICK e \in Executors : ExecutorMoves(e)
    BY <1>4 DEF ExecuteNext, ExecutorMoves
  <2>2. ExecClaim(e) \/ ExecClaimThrows(e) \/ ExecFinalize(e)
    BY <1>1, <2>1 DEF ExecutorMoves, ExecStep, ExecLoad, ExecBind, ExecLookup, ExecBegin,
       ExecRelease, ExecDispatch, ExecResult, ExecPublish, ExecEvidence, ExecComplete,
       RunnerStep, RunnerPerform, RunnerRefuse, ExecFault, storeVars
  <2> QED
    BY <1>1, <2>2 DEF ExecClaim, ExecClaimThrows, ExecFinalize, SaveApprovalIfStatus,
       SaveApproval
<1> QED BY <1>1, <1>2, <1>3, <1>4 DEF Next

(* So stored proposals never change, and approvals keep theirs.            *)
LEMMA ProposalsStay ==
  ASSUME IndInv, ProposalInv, [Next]_vars
  PROVE  ProposalsKept
<1>1. ASSUME NEW a \in Approvals, approvals[a].status # "Absent"
      PROVE  approvals'[a].status # "Absent" /\ approvals'[a].proposal = approvals[a].proposal
  <2>1. approvals'[a].status # "Absent"
    BY <1>1, StatusMoves DEF Moves, Decided
  <2>2. approvals'[a].proposal = approvals[a].proposal
    <3>1. ASSUME NEW s \in Submitters, SubmitPersist(s), a = subReq[s].approval,
                 approvals'[a] = DecidedApproval(s)
          PROVE  approvals'[a].proposal = approvals[a].proposal
      BY <3>1 DEF ProposalInv, SubmitterBound, SubmitPersist, DecidedApproval, IndInv,
         GovernedTypeOK, SubmitTypeOK, ApprovalRecord
    <3>2. ASSUME NEW e \in Executors, a = execReq[e].approval,
                 execPc[e] \in {"claim", "finalize"},
                 approvals'[a] \in {ClaimedApproval(e), FinalApproval(e)}
          PROVE  approvals'[a].proposal = approvals[a].proposal
      BY <3>2 DEF ProposalInv, ExecutorBound, ClaimedApproval, FinalApproval, IndInv,
         GovernedTypeOK, ExecuteTypeOK, ApprovalRecord
    <3> QED BY <1>1, <3>1, <3>2, ApprovalWriters
  <2> QED BY <2>1, <2>2
<1> QED BY <1>1, StoredProposalKept DEF ProposalsKept, ProposalInv

(* A step of proposeAgentAction keeps the links, and its own approval and  *)
(* proposal are linked.                                                    *)
LEMMA LinkStep ==
  ASSUME IndInv, ProposalInv, [Next]_vars
  PROVE  LinkInv'
<1> USE DEF IndInv, GovernedTypeOK, StoreTypeOK, ProposeTypeOK
<1>1. ProposalsKept
  BY ProposalsStay
<1>2. ASSUME NEW q \in Proposals, propPc'[q] = propPc[q], propApproval'[q] = propApproval[q],
             proposals'[q] = proposals[q]
      PROVE  Link(q)'
  BY <1>1, <1>2 DEF ProposalInv, LinkInv, Link, ProposalsKept
<1>3. CASE UNCHANGED proposeVars
  <2>1. proposals' = proposals
    BY <1>3 DEF proposeVars, Next, vars, storeVars, CreateNext, CreateStep, CreateLookup,
       CreateSave, CreatePublish, CreateEvidence, CreateCache, CreateFault, ProposeNext,
       ProposeStep, ProposeLookup, ProposeEvidence, ProposePublish, ProposeApproval,
       ProposeSave, ProposeGoto, ProposeSaveFails, ProposeRace, ProposeFault, SubmitNext,
       SubmitStep, SubmitFault, SubmitLoad, SubmitLookup, SubmitRecache, SubmitLink,
       SubmitLinkById, SubmitPersist, SubmitPublish, SubmitEvidence, SubmitCache,
       ExecuteNext, ExecStep, ExecLoad, ExecBind, ExecLookup, ExecBegin, ExecClaim,
       ExecClaimThrows, ExecRelease, ExecDispatch, ExecResult, ExecFinalize, ExecPublish,
       ExecEvidence, ExecComplete, RunnerStep, RunnerPerform, RunnerRefuse, ExecFault
  <2> QED BY <1>2, <1>3, <2>1 DEF LinkInv, proposeVars
<1>4. ASSUME NEW p \in Proposals, ProposeStep(p) \/ ProposeSaveFails(p) \/ ProposeFault(p)
      PROVE  LinkInv'
  <2>1. \A q \in Proposals \ {p} :
          /\ propPc'[q] = propPc[q] /\ propApproval'[q] = propApproval[q]
          /\ proposals'[q] = proposals[q]
    BY <1>4 DEF ProposeStep, ProposeLookup, ProposeEvidence, ProposePublish,
       ProposeApproval, ProposeSave, ProposeSaveFails, ProposeRace, ProposeFault,
       ProposeGoto, ProposeDone, storeVars
  <2>2. Link(p)
    BY DEF ProposalInv, LinkInv
  <2>3. Link(p)'
    <3>1. CASE ProposeApproval(p)
      <4>1. PICK a \in Approvals :
              /\ approvals' = [approvals EXCEPT ![a] = PendingApproval(propReq[p].user, p)]
              /\ propApproval' = [propApproval EXCEPT ![p] = a]
        BY <3>1 DEF ProposeApproval, SaveApproval
      <4>2. /\ propApproval'[p] = a /\ approvals'[a].proposal = p
            /\ approvals'[a].status = "Pending"
        BY <4>1 DEF PendingApproval
      <4>3. propPc'[p] = "save" /\ proposals' = proposals /\ ~proposals[p].stored
        BY <2>2, <3>1 DEF ProposeApproval, ProposeGoto, Link
      <4> QED BY <4>2, <4>3 DEF Link
    <3>2. CASE ProposeSave(p)
      <4>1. /\ propPc'[p] = "race" /\ UNCHANGED <<propApproval, approvals>>
            /\ \/ proposals' = proposals
               \/ proposals'[p].approval = propApproval[p]
        BY <3>2 DEF ProposeSave, ProposeGoto
      <4> QED BY <2>2, <4>1 DEF Link
    <3>3. CASE \/ ProposeLookup(p) \/ ProposeEvidence(p) \/ ProposePublish(p)
               \/ ProposeSaveFails(p) \/ ProposeRace(p) \/ ProposeFault(p)
      <4>1. /\ UNCHANGED <<proposals, approvals, propApproval>>
            /\ propPc'[p] \in {"evidence", "publish", "approval"} =>
                 propPc[p] \in {"idle", "evidence", "publish"}
            /\ propPc'[p] = "save" => propPc[p] = "publish"
            /\ propPc'[p] # "idle"
        BY <3>3 DEF ProposeLookup, ProposeEvidence, ProposePublish, ProposeSaveFails,
           ProposeRace, ProposeFault, ProposeGoto, ProposeDone, storeVars
      <4> QED BY <2>2, <4>1 DEF Link
    <3> QED BY <1>4, <3>1, <3>2, <3>3 DEF ProposeStep
  <2>4. \A q \in Proposals \ {p} : Link(q)'
    BY <1>2, <2>1
  <2> QED BY <2>3, <2>4 DEF LinkInv
<1> QED BY <1>3, <1>4 DEF Next, vars, ProposeNext

(* What a link check said stays true.                                      *)
LEMMA LinkStays ==
  ASSUME ProposalsKept, NEW p \in Proposals, NEW a, LinkedTo(a, p)
  PROVE  LinkedTo(a, p)' /\ proposals'[p] = proposals[p]
  BY DEF ProposalsKept, LinkedTo

(* A step keeps what submitters know of proposals.                         *)
LEMMA SubmittersBound ==
  ASSUME IndInv, ProposalInv, [Next]_vars, NEW s \in Submitters
  PROVE  SubmitterBound(s)'
<1> DEFINE a == subReq[s].approval
           p == subSeen[s].proposal
           Copying == {"lookup", "link", "linkById", "persist"}
<1>1. /\ subPc \in [Submitters -> SubmitPc]
      /\ approvals \in [Approvals -> ApprovalRecord]
      /\ subSeen \in [Submitters -> ApprovalRecord]
      /\ subReq \in [Submitters -> SubmitRequest]
      /\ p \in Proposals \cup {None}
  BY DEF IndInv, GovernedTypeOK, StoreTypeOK, SubmitTypeOK, ApprovalRecord
<1>2. SubmitterBound(s) /\ ProposalsKept
  BY ProposalsStay DEF ProposalInv
<1>3. ASSUME subReq'[s] = subReq[s], subSeen'[s] = subSeen[s],
             subPc'[s] \in Copying => subPc[s] \in Copying,
             subPc'[s] = "persist" =>
               subPc[s] = "persist" \/ p = None \/ LinkedTo(a, p)
      PROVE  SubmitterBound(s)'
  <2>1. subPc'[s] \in Copying =>
          a \in Approvals /\ approvals'[a].status # "Absent" /\ approvals'[a].proposal = p
    BY <1>2, <1>3 DEF SubmitterBound, ProposalsKept
  <2>2. subPc'[s] = "persist" /\ p # None =>
          proposals'[p].stored /\ proposals'[p].approval = a
    <3>1. subPc'[s] = "persist" /\ p # None => LinkedTo(a, p)
      BY <1>2, <1>3 DEF SubmitterBound
    <3> QED BY <1>1, <1>2, <3>1 DEF LinkedTo, ProposalsKept
  <2> QED BY <1>3, <2>1, <2>2 DEF SubmitterBound, LinkedTo
<1>4. CASE UNCHANGED submitVars
  BY <1>3, <1>4 DEF submitVars
<1>5. ASSUME NEW t \in Submitters, SubmitStep(t) \/ SubmitFault(t), UNCHANGED executeVars
      PROVE  SubmitterBound(s)'
  <2>1. CASE t # s
    <3>1. subReq'[s] = subReq[s] /\ subSeen'[s] = subSeen[s] /\ subPc'[s] = subPc[s]
      BY <1>1, <1>5, <2>1 DEF SubmitStep, SubmitFault, SubmitLoad, SubmitLookup,
         SubmitRecache, SubmitLink, SubmitLinkById, SubmitGuards, SubmitPersist,
         SubmitPublish, SubmitEvidence, SubmitCache, SubmitGoto, SubmitDone
    <3> QED BY <1>3, <3>1
  <2>2. CASE t = s /\ SubmitLoad(s)
    <3>1. PICK b \in Approvals :
            /\ subReq'[s].approval = b /\ subSeen'[s] = approvals[b] /\ approvals' = approvals
            /\ \/ subPc'[s] = "done"
               \/ approvals[b].status # "Absent" /\ subPc'[s] = "lookup"
      BY <1>1, <2>2 DEF SubmitLoad, SubmitGoto, SubmitDone, storeVars
    <3> QED BY <3>1 DEF SubmitterBound
  <2>3. CASE t = s /\ ~SubmitLoad(s)
    <3>1. subReq' = subReq /\ subSeen' = subSeen
      BY <1>5, <2>3 DEF SubmitStep, SubmitFault, SubmitLookup, SubmitRecache, SubmitLink,
         SubmitLinkById, SubmitPersist, SubmitPublish, SubmitEvidence, SubmitCache
    <3>2. subPc'[s] \in Copying => subPc[s] \in Copying
      BY <1>1, <1>5, <2>3 DEF SubmitStep, SubmitFault, SubmitLookup, SubmitRecache,
         SubmitLink, SubmitLinkById, SubmitGuards, SubmitPersist, SubmitPublish,
         SubmitEvidence, SubmitCache, SubmitGoto, SubmitDone
    <3>3. subPc'[s] = "persist" => p = None \/ LinkedTo(a, p)
      BY <1>1, <1>5, <2>3 DEF SubmitStep, SubmitFault, SubmitLookup, SubmitRecache,
         SubmitLink, SubmitLinkById, SubmitGuards, SubmitPersist, SubmitPublish,
         SubmitEvidence, SubmitCache, SubmitGoto, SubmitDone
    <3> QED BY <1>3, <3>1, <3>2, <3>3
  <2> QED BY <1>5, <2>1, <2>2, <2>3
<1> QED BY <1>4, <1>5 DEF Next, vars, SubmitNext

(* What executors read stays with them until they are done.                *)
LEMMA SeenKept ==
  ASSUME NEW e \in Executors, ExecutorMoves(e), ~ExecLoad(e)
  PROVE  /\ execReq' = execReq /\ execSeen' = execSeen
         /\ \/ execPc[e] \notin {"idle", "done", "dead"}
            \/ UNCHANGED execPc
  BY DEF ExecutorMoves, ExecStep, ExecBind, ExecLookup, ExecBegin, ExecClaim,
     ExecClaimThrows, ExecRelease, ExecDispatch, ExecResult, ExecFinalize,
     ExecPublish, ExecEvidence, ExecComplete, RunnerStep, RunnerPerform,
     RunnerRefuse, ExecFault

(* validateApprovedProposalBinding lets a bound approval pass only with the*)
(* stored proposal it names, and with that proposal's payload.             *)
LEMMA BindChecks ==
  ASSUME IndInv, ProposalInv, NEW e \in Executors, ExecBind(e), execPc'[e] = "lookup"
  PROVE  LET a == execReq[e].approval
             p == approvals[a].proposal
         IN  p # None => LinkedTo(a, p) /\ proposals[p].payload = execReq[e].payload
<1> DEFINE a == execReq[e].approval
<1>1. a \in Approvals /\ execSeen[e].proposal = approvals[a].proposal
  BY ApprovalNamed DEF ExecBind, ProposalInv, ExecutorBound
<1>2. \/ \E p \in Proposals : LinkedTo(a, p) /\ proposals[p].payload = execReq[e].payload
      \/ execSeen[e].proposal = None
  BY DEF ExecBind, ExecDone, ExecGoto, IndInv, GovernedTypeOK, ExecuteTypeOK
<1> QED BY <1>1, <1>2, LinkMeans DEF ProposalInv

(* An executor goes past ExecBind with the payload that was proposed       *)
(* only.                                                                   *)
LEMMA ExecutorsBound ==
  ASSUME IndInv, ProposalInv, [Next]_vars, NEW e \in Executors
  PROVE  ExecutorBound(e)'
<1> DEFINE a == execReq[e].approval
           p == approvals[a].proposal
           Past == execPc[e] \in {"lookup", "begin", "claim", "dispatch"} \/ call[e] # "none"
           Matches == p # None => LinkedTo(a, p) /\ proposals[p].payload = execReq[e].payload
<1>1. /\ execPc \in [Executors -> ExecutePc]
      /\ approvals \in [Approvals -> ApprovalRecord]
      /\ execPc[e] # "idle" \/ call[e] # "none" => a \in Approvals
      /\ call \in [Executors -> {"none", "sent", "performed", "refused"}]
  BY ApprovalNamed DEF IndInv, GovernedTypeOK, StoreTypeOK, ExecuteTypeOK
<1>2. ExecutorBound(e) /\ ProposalsKept
  BY ProposalsStay DEF ProposalInv
<1>3. Past => approvals[a].status # "Absent"
  BY <1>2 DEF ExecutorBound, IndInv, ExecutorKnowsDecision, Settled
<1>4. ASSUME execReq'[e] = execReq[e], execSeen'[e] = execSeen[e],
             \/ execPc[e] \notin {"idle", "done", "dead"}
             \/ execPc'[e] \in {"idle", "done", "dead"},
             Past' => (execPc[e] \notin {"idle", "done", "dead"} \/ Past) /\ Matches
      PROVE  ExecutorBound(e)'
  <2>1. execPc'[e] \notin {"idle", "done", "dead"} =>
          /\ approvals'[a].status # "Absent" /\ approvals'[a].proposal = p
          /\ execSeen[e].proposal = p
    BY <1>1, <1>2, <1>4 DEF ExecutorBound, ProposalsKept
  <2>2. Past' => /\ approvals'[a].proposal = p
                 /\ p # None => /\ proposals'[p].stored /\ proposals'[p].approval = a
                                /\ proposals'[p].payload = execReq[e].payload
    <3>1. ASSUME Past' PROVE a \in Approvals /\ approvals[a].status # "Absent"
      BY <1>1, <1>2, <1>3, <1>4, <3>1 DEF ExecutorBound
    <3>2. Past' => approvals'[a].proposal = p
      BY <1>2, <3>1 DEF ProposalsKept
    <3>3. Past' => p \in Proposals \cup {None}
      BY <1>1, <3>1 DEF ApprovalRecord
    <3> QED BY <1>2, <1>4, <3>2, <3>3 DEF LinkedTo, ProposalsKept
  <2> QED BY <1>4, <2>1, <2>2 DEF ExecutorBound, LinkedTo
<1>5. Past => Matches
  BY <1>2 DEF ExecutorBound
<1>6. CASE UNCHANGED executeVars
  BY <1>4, <1>5, <1>6 DEF executeVars
<1>7. ASSUME NEW m \in Executors, ExecutorMoves(m)
      PROVE  ExecutorBound(e)'
  <2>1. CASE m # e
    <3>1. /\ execReq'[e] = execReq[e] /\ execSeen'[e] = execSeen[e]
          /\ execPc'[e] = execPc[e] /\ call'[e] = call[e]
      BY <1>7, <2>1, OthersStay
    <3> QED BY <1>4, <1>5, <3>1
  <2>2. CASE m = e /\ ExecLoad(e)
    <3>1. call'[e] = "none"
      BY <2>2 DEF ExecLoad, IndInv, KeyHeld
    <3>2. PICK b \in Approvals :
            /\ execReq'[e].approval = b /\ execSeen'[e] = approvals[b] /\ approvals' = approvals
            /\ \/ execPc'[e] = "done"
               \/ approvals[b].status # "Absent" /\ execPc'[e] = "bind"
      BY <1>1, <2>2 DEF ExecLoad, ExecGoto, ExecDone, storeVars, IndInv, GovernedTypeOK,
         ExecuteTypeOK
    <3> QED BY <3>1, <3>2 DEF ExecutorBound
  <2>3. CASE m = e /\ ~ExecLoad(e)
    <3>1. /\ execReq' = execReq /\ execSeen' = execSeen
          /\ execPc[e] \notin {"idle", "done", "dead"} \/ execPc' = execPc
      BY <1>7, <2>3, SeenKept
    <3>2. CASE Past
      BY <1>4, <1>5, <3>1, <3>2
    <3>3. CASE ~Past /\ Past'
      <4>1. ExecBind(e) /\ execPc'[e] = "lookup"
        BY <1>1, <1>7, <2>3, <3>3 DEF ExecutorMoves, ExecStep, ExecBind, ExecLookup,
           ReservationAnswers, ExecBegin, ExecClaim, ExecClaimThrows, ExecRelease,
           ExecDispatch, ExecResult, ExecFinalize, ExecPublish, ExecEvidence, ExecComplete,
           RunnerStep, RunnerPerform, RunnerRefuse, ExecFault, ExecGoto, ExecDone
      <4>2. Matches /\ execPc[e] = "bind"
        BY <4>1, BindChecks DEF ExecBind
      <4> QED BY <1>4, <3>1, <4>2
    <3>4. CASE ~Past /\ ~Past'
      BY <1>4, <3>1, <3>4
    <3> QED BY <3>2, <3>3, <3>4
  <2> QED BY <1>7, <2>1, <2>2, <2>3
<1> QED BY <1>6, <1>7, ExecutorOrNot

(* Who decides, or moves on, an approval leaves its proposal linked.       *)
LEMMA OrphanStep ==
  ASSUME IndInv, ProposalInv, [Next]_vars
  PROVE  OrphanNeverDecided'
<1> SUFFICES ASSUME NEW a \in Approvals, approvals'[a].proposal # None,
                    approvals'[a].status \notin {"Absent", "Pending"}
             PROVE  LinkedTo(a, approvals[a].proposal)'
  BY DEF OrphanNeverDecided
<1>1. ProposalsKept /\ approvals \in [Approvals -> ApprovalRecord]
  BY ProposalsStay DEF IndInv, GovernedTypeOK, StoreTypeOK
<1>2. approvals[a].status # "Absent"
  BY StatusMoves DEF Moves
<1>3. approvals'[a].proposal = approvals[a].proposal
  BY <1>1, <1>2 DEF ProposalsKept
<1>4. LinkedTo(a, approvals[a].proposal)
  <2>1. CASE approvals[a].status # "Pending"
    BY <1>2, <1>3, <2>1 DEF ProposalInv, OrphanNeverDecided
  <2>2. CASE approvals[a].status = "Pending"
    <3>1. approvals'[a] # approvals[a]
      BY <2>2
    <3>2. ASSUME NEW e \in Executors, a = execReq[e].approval,
                 execPc[e] \in {"claim", "finalize"}
          PROVE  FALSE
      BY <2>2, <3>2 DEF IndInv, ExecutorKnowsDecision, Settled
    <3>3. PICK s \in Submitters : SubmitPersist(s) /\ a = subReq[s].approval
      BY <1>2, <3>1, <3>2, ApprovalWriters
    <3> QED BY <1>3, <3>3 DEF SubmitPersist, ProposalInv, SubmitterBound
  <2> QED BY <2>1, <2>2
<1> QED BY <1>1, <1>3, <1>4 DEF LinkedTo, ProposalsKept, ApprovalRecord

(* The invariant is inductive ...                                          *)
LEMMA ProposalStep ==
  ASSUME IndInv, ProposalInv, [Next]_vars
  PROVE  ProposalInv'
  BY LinkStep, OrphanStep, SubmittersBound, ExecutorsBound DEF ProposalInv

(* ... and holds of the empty store.                                       *)
LEMMA ProposalInit == Init => ProposalInv
  BY DEF Init, StoreInit, ProposeInit, SubmitInit, ExecuteInit, NoProposal, NoApproval,
     ProposalInv, LinkInv, Link, OrphanNeverDecided, SubmitterBound, ExecutorBound

(* Proposals, the approvals created for them and the copies that the       *)
(* handlers of submitApproval and executeApprovedAgentAction hold always   *)
(* agree.                                                                  *)
THEOREM ProposalInvariant == Spec => []ProposalInv
<1>1. IndInv /\ ProposalInv /\ [Next]_vars => ProposalInv'
  BY ProposalStep
<1> QED BY <1>1, ProposalInit, Invariant, PTL DEF Spec

(* An approval whose proposal lost its race, or was never stored, is never *)
(* decided, although the link is read before the decision is written.      *)
THEOREM OrphansUndecided == Spec => []OrphanNeverDecided
<1>1. ProposalInv => OrphanNeverDecided
  BY DEF ProposalInv
<1> QED BY <1>1, ProposalInvariant, PTL

(* What leaves under a bound approval is the payload that was stored before*)
(* the approval was decided.                                               *)
THEOREM DispatchMatches == Spec => []DispatchedAsApproved
<1>1. ProposalInv => DispatchedAsApproved
  BY DEF ProposalInv, ExecutorBound, DispatchedAsApproved
<1> QED BY <1>1, ProposalInvariant, PTL

-----------------------------------------------------------------------------

(* Racing proposals.  A key has one stored proposal; while nothing failed, *)
(* who is past its save finds it, and whoever was answered was given it.   *)

UniqueKeys ==
  \A p, q \in Proposals :
    proposals[p].stored /\ proposals[q].stored /\ proposals[p].key = proposals[q].key => p = q

(* Who was told of a proposal, or goes on to be told, has one stored       *)
(* under its key.                                                          *)
Told(p) ==
  /\ propPc[p] # "done" => propReply[p].answer # "Proposed"
  /\ faults = 0 /\ propPc[p] = "race" =>
       \E q \in Proposals : HasKey(propReq[p].key, q)
  /\ faults = 0 /\ propReply[p].answer = "Proposed" =>
       propReply[p].proposal \in Proposals /\ HasKey(propReq[p].key, propReply[p].proposal)

(* One stored proposal per key, and callers that are told of it.           *)
KeyInv == UniqueKeys /\ \A p \in Proposals : Told(p)

(* A failure is never forgotten.                                           *)
LEMMA FaultsGrow ==
  ASSUME IndInv, [Next]_vars, faults' = 0
  PROVE  faults = 0
<1>1. faults \in Nat
  BY StoreAssumption DEF IndInv, GovernedTypeOK, StoreTypeOK
<1>2. faults' = faults \/ faults' = faults + 1
  BY DEF Fault, Next, vars, CreateNext, CreateStep, CreateLookup, CreateSave,
     CreatePublish, CreateEvidence, CreateCache, CreateFault, ProposeNext, ProposeStep,
     ProposeLookup, ProposeEvidence, ProposePublish, ProposeApproval, ProposeSave,
     ProposeSaveFails, ProposeRace, ProposeFault, SubmitNext, SubmitStep, SubmitFault,
     SubmitLoad, SubmitLookup, SubmitRecache, SubmitLink, SubmitLinkById, SubmitPersist,
     SubmitPublish, SubmitEvidence, SubmitCache, ExecuteNext, ExecStep, ExecLoad, ExecBind,
     ExecLookup, ExecBegin, ExecClaim, ExecClaimThrows, ExecRelease, ExecDispatch,
     ExecResult, ExecFinalize, ExecPublish, ExecEvidence, ExecComplete, RunnerStep,
     RunnerPerform, RunnerRefuse, ExecFault
<1> QED BY <1>1, <1>2

(* A stored proposal keeps its key.                                        *)
LEMMA KeyStays ==
  ASSUME ProposalsKept, NEW p \in Proposals, NEW k, HasKey(k, p)
  PROVE  proposals'[p].stored /\ proposals'[p].key = k
  BY DEF ProposalsKept, HasKey

(* saveProposal lets the first writer of a key win.                        *)
LEMMA KeysUnique ==
  ASSUME IndInv, ProposalInv, KeyInv, [Next]_vars
  PROVE  UniqueKeys'
<1>1. CASE proposals' = proposals
  BY <1>1 DEF KeyInv, UniqueKeys
<1>2. CASE \E p \in Proposals : ProposeSave(p)
  BY <1>2 DEF ProposeSave, KeyInv, UniqueKeys, HasKey, IndInv, GovernedTypeOK, StoreTypeOK
<1>3. proposals' = proposals \/ \E p \in Proposals : ProposeSave(p)
  BY DEF Next, vars, storeVars, CreateNext, CreateStep, CreateLookup, CreateSave,
     CreatePublish, CreateEvidence, CreateCache, CreateFault, ProposeNext, ProposeStep,
     ProposeLookup, ProposeEvidence, ProposePublish, ProposeApproval, ProposeSaveFails,
     ProposeRace, ProposeFault, SubmitNext, SubmitStep, SubmitFault, SubmitLoad,
     SubmitLookup, SubmitRecache, SubmitLink, SubmitLinkById, SubmitPersist,
     SubmitPublish, SubmitEvidence, SubmitCache, ExecuteNext, ExecStep, ExecLoad,
     ExecBind, ExecLookup, ExecBegin, ExecClaim, ExecClaimThrows, ExecRelease,
     ExecDispatch, ExecResult, ExecFinalize, ExecPublish, ExecEvidence, ExecComplete,
     RunnerStep, RunnerPerform, RunnerRefuse, ExecFault
<1> QED BY <1>1, <1>2, <1>3

(* What a caller was told stays true.                                      *)
LEMMA ToldKept ==
  ASSUME IndInv, ProposalInv, KeyInv, [Next]_vars, NEW p \in Proposals,
         propPc'[p] = propPc[p], propReq'[p] = propReq[p], propReply'[p] = propReply[p]
  PROVE  Told(p)'
<1>1. ProposalsKept /\ Told(p) /\ (faults' = 0 => faults = 0)
  BY ProposalsStay, FaultsGrow DEF KeyInv
<1>2. \A q \in Proposals : HasKey(propReq[p].key, q) =>
        proposals'[q].stored /\ proposals'[q].key = propReq[p].key
  BY <1>1, KeyStays
<1> QED BY <1>1, <1>2 DEF Told, HasKey

(* The reply comes from the lookup, or from the look for a stored winner.  *)
LEMMA ToldMade ==
  ASSUME IndInv, ProposalInv, KeyInv, [Next]_vars, NEW p \in Proposals,
         ProposeStep(p) \/ ProposeSaveFails(p) \/ ProposeFault(p)
  PROVE  Told(p)'
<1>1. /\ propPc \in [Proposals -> ProposePc]
      /\ propReq \in [Proposals -> ProposeRequest]
      /\ propReply \in [Proposals -> ProposeReply]
      /\ proposals \in [Proposals -> ProposalRecord]
      /\ faults \in Nat
  BY StoreAssumption DEF IndInv, GovernedTypeOK, StoreTypeOK, ProposeTypeOK
<1>2. Told(p) /\ (faults' = 0 => faults = 0)
  BY FaultsGrow DEF KeyInv
<1>3. CASE ProposeLookup(p)
  <2>1. propPc[p] = "idle" /\ propReply[p].answer # "Proposed" /\ UNCHANGED proposals
    BY <1>2, <1>3 DEF ProposeLookup, storeVars, Told
  <2>2. PICK k \in ProposalKeys :
          /\ propReq'[p].key = k
          /\ \/ \E q \in Proposals : HasKey(k, q) /\ ProposeDone(p, StoredOutput(q))
             \/ ProposeGoto(p, "evidence")
    BY <1>1, <1>3 DEF ProposeLookup
  <2>3. CASE ProposeGoto(p, "evidence")
    BY <1>1, <2>1, <2>3 DEF ProposeGoto, Told
  <2>4. ASSUME NEW q \in Proposals, HasKey(k, q), ProposeDone(p, StoredOutput(q))
        PROVE  Told(p)'
    <3>1. propPc'[p] = "done" /\ propReply'[p].proposal = q
      BY <1>1, <2>4 DEF ProposeDone, StoredOutput, Proposed
    <3> QED BY <2>1, <2>2, <2>4, <3>1 DEF Told, HasKey
  <2> QED BY <2>2, <2>3, <2>4
<1>4. CASE \/ ProposeEvidence(p) \/ ProposePublish(p) \/ ProposeApproval(p)
           \/ ProposeSaveFails(p) \/ ProposeFault(p)
  <2>1. CASE faults' = 0
    <3>1. /\ propReply'[p].answer # "Proposed"
          /\ propPc'[p] # "race"
      BY <1>1, <1>2, <1>4, <2>1 DEF ProposeEvidence, ProposePublish, ProposeApproval,
         ProposeSaveFails, ProposeFault, ProposeGoto, ProposeDone, Refused, Fault, Told
    <3> QED BY <3>1 DEF Told
  <2>2. CASE faults' # 0
    <3>1. propReply'[p].answer # "Proposed"
      BY <1>1, <1>2, <1>4 DEF ProposeEvidence, ProposePublish, ProposeApproval,
         ProposeSaveFails, ProposeFault, ProposeGoto, ProposeDone, Refused, Told
    <3> QED BY <2>2, <3>1 DEF Told
  <2> QED BY <2>1, <2>2
<1>5. CASE ProposeSave(p)
  <2>1. /\ propPc'[p] = "race" /\ propReply' = propReply /\ propReq' = propReq
        /\ propReply[p].answer # "Proposed"
    BY <1>1, <1>2, <1>5 DEF ProposeSave, ProposeGoto, Told
  <2>2. \E q \in Proposals : proposals'[q].stored /\ proposals'[q].key = propReq[p].key
    <3>1. CASE proposals' = proposals /\ \E q \in Proposals : HasKey(propReq[p].key, q)
      BY <3>1 DEF HasKey
    <3>2. CASE proposals' = [proposals EXCEPT ![p] =
               [ stored |-> TRUE, approval |-> propApproval[p],
                 key |-> propReq[p].key, payload |-> propReq[p].payload ]]
      BY <1>1, <3>2
    <3> QED BY <1>5, <3>1, <3>2 DEF ProposeSave
  <2> QED BY <2>1, <2>2 DEF Told, HasKey
<1>6. CASE ProposeRace(p)
  <2>1. /\ propPc[p] = "race" /\ propPc'[p] = "done"
        /\ UNCHANGED <<proposals, propReq, faults>>
    BY <1>1, <1>6 DEF ProposeRace, ProposeDone, storeVars
  <2>2. ASSUME NEW q \in Proposals, HasKey(propReq[p].key, q), ProposeDone(p, StoredOutput(q))
        PROVE  Told(p)'
    <3>1. propReply'[p].proposal = q
      BY <1>1, <2>2 DEF ProposeDone, StoredOutput, Proposed
    <3> QED BY <2>1, <2>2, <3>1 DEF Told, HasKey
  <2>3. CASE /\ \A q \in Proposals \ {p} : ~HasKey(propReq[p].key, q)
             /\ ProposeDone(p, Proposed(p, propApproval[p]))
    <3>1. propReply'[p].proposal = p
      BY <1>1, <2>3 DEF ProposeDone, Proposed
    <3>2. faults = 0 => HasKey(propReq[p].key, p)
      BY <1>2, <2>1, <2>3 DEF Told
    <3> QED BY <2>1, <3>1, <3>2 DEF Told, HasKey
  <2> QED BY <1>6, <2>2, <2>3 DEF ProposeRace
<1> QED BY <1>3, <1>4, <1>5, <1>6 DEF ProposeStep

(* Every step keeps both.                                                  *)
LEMMA KeyStep ==
  ASSUME IndInv, ProposalInv, KeyInv, [Next]_vars
  PROVE  KeyInv'
<1>1. CASE UNCHANGED proposeVars
  BY <1>1, KeysUnique, ToldKept DEF KeyInv, proposeVars
<1>2. ASSUME NEW p \in Proposals, ProposeStep(p) \/ ProposeSaveFails(p) \/ ProposeFault(p),
             NEW q \in Proposals \ {p}
      PROVE  Told(q)'
  <2>1. propPc'[q] = propPc[q] /\ propReq'[q] = propReq[q] /\ propReply'[q] = propReply[q]
    BY <1>2 DEF ProposeStep, ProposeLookup, ProposeEvidence, ProposePublish,
       ProposeApproval, ProposeSave, ProposeSaveFails, ProposeRace, ProposeFault,
       ProposeGoto, ProposeDone, IndInv, GovernedTypeOK, ProposeTypeOK
  <2> QED BY <2>1, ToldKept
<1> QED BY <1>1, <1>2, KeysUnique, ToldMade DEF KeyInv, Next, vars, ProposeNext

(* Racing proposals under one key are given the same proposal, as long as  *)
(* no call fails: the save lets the first writer win, and the loser looks. *)
THEOREM OneProposal == Spec => []ConsistentProposal
<1>1. Init => KeyInv
  BY DEF Init, StoreInit, ProposeInit, NoProposal, NoProposeReply, KeyInv, UniqueKeys, Told
<1>2. IndInv /\ ProposalInv /\ KeyInv /\ [Next]_vars => KeyInv'
  BY KeyStep
<1>3. KeyInv => ConsistentProposal
  BY DEF KeyInv, UniqueKeys, Told, HasKey, ConsistentProposal
<1> QED BY <1>1, <1>2, <1>3, Invariant, ProposalInvariant, PTL DEF Spec

-----------------------------------------------------------------------------

(* Decisions.  A decision that was stored stands until the end.            *)
Stands(u, a, d) ==
  /\ a \in Approvals /\ d \in HumanDecision
  /\ approvals[a].decidedBy = u
  /\ DecisionStands(d, approvals[a].status)

(* Who won, who answers its own retry, and who read a decision, knows one  *)
(* that stands; and so does every cached envelope.                         *)
DecisionKnown(s) ==
  /\ subPc[s] \in {"publish", "evidence", "cache", "recache"} =>
       Stands(subReq[s].user, subReq[s].approval, subReq[s].decision)
  /\ subPc[s] = "lookup" /\ subSeen[s].status \in HumanDecision =>
       Stands(subSeen[s].decidedBy, subReq[s].approval, subSeen[s].status)

(* The cached decisions stand ...                                          *)
EnvelopesStand ==
  \A k \in DecisionKeys : decisions[k] # NoEnvelope =>
    Stands(decisions[k].user, decisions[k].approval, decisions[k].decision)

(* ... and so do those that are about to be cached.                        *)
DecisionInv == EnvelopesStand /\ \A s \in Submitters : DecisionKnown(s)

(* A decision stays taken: the approval may be executed, but neither its   *)
(* decider nor what was decided changes.                                   *)
LEMMA DecisionStays ==
  ASSUME IndInv, [Next]_vars, NEW u, NEW a, NEW d, Stands(u, a, d)
  PROVE  Stands(u, a, d)'
<1>1. a \in Approvals /\ approvals[a].status \notin {"Absent", "Pending"}
  BY DEF Stands, DecisionStands, HumanDecision
<1>2. Moves(a)
  BY <1>1, StatusMoves
<1> QED BY <1>1, <1>2 DEF Stands, DecisionStands, HumanDecision, Moves

(* A step of another submitter, or of another handler.                     *)
LEMMA DecisionKept ==
  ASSUME IndInv, DecisionInv, [Next]_vars, NEW s \in Submitters,
         subReq'[s] = subReq[s], subSeen'[s] = subSeen[s], subPc'[s] = subPc[s]
  PROVE  DecisionKnown(s)'
<1>1. DecisionKnown(s)
  BY DEF DecisionInv
<1>2. \A u, a, d : Stands(u, a, d) =>
        /\ a \in Approvals /\ d \in HumanDecision
        /\ approvals'[a].decidedBy = u /\ DecisionStands(d, approvals'[a].status)
  <2> SUFFICES ASSUME NEW u, NEW a, NEW d, Stands(u, a, d) PROVE Stands(u, a, d)'
    BY DEF Stands, DecisionStands
  <2> QED BY DecisionStays
<1> QED BY <1>1, <1>2 DEF DecisionKnown, Stands, DecisionStands

(* The submitter that moves: it read, recognised or stored a decision.     *)
LEMMA DecisionMade ==
  ASSUME IndInv, DecisionInv, [Next]_vars, NEW s \in Submitters,
         SubmitStep(s) \/ SubmitFault(s)
  PROVE  DecisionKnown(s)'
<1>1. /\ subPc \in [Submitters -> SubmitPc]
      /\ subReq \in [Submitters -> SubmitRequest]
      /\ subSeen \in [Submitters -> ApprovalRecord]
      /\ approvals \in [Approvals -> ApprovalRecord]
      /\ subPc[s] # "idle" => subReq[s].approval \in Approvals /\ subReq[s].decision \in HumanDecision
  BY DEF IndInv, GovernedTypeOK, StoreTypeOK, SubmitTypeOK, RequestsFilled
<1>2. DecisionKnown(s)
  BY DEF DecisionInv
<1>3. CASE SubmitLoad(s)
  <2>1. PICK a \in Approvals :
          /\ subReq'[s].approval = a /\ subSeen'[s] = approvals[a] /\ approvals' = approvals
          /\ subPc'[s] \in {"done", "lookup"}
    BY <1>1, <1>3 DEF SubmitLoad, SubmitGoto, SubmitDone, storeVars
  <2> QED BY <2>1 DEF DecisionKnown, Stands, DecisionStands
<1>4. CASE SubmitLookup(s)
  <2>1. UNCHANGED <<approvals, subReq>> /\ subPc[s] = "lookup"
    BY <1>4 DEF SubmitLookup, storeVars
  <2>2. CASE subPc'[s] \in {"done", "link"}
    BY <2>2 DEF DecisionKnown
  <2>3. CASE subPc'[s] \notin {"done", "link"}
    <3>1. subPc'[s] = "recache" /\ OwnRetry(s)
      BY <1>1, <1>4, <2>3 DEF SubmitLookup, SubmitGoto, SubmitDone
    <3>2. Stands(subReq[s].user, subReq[s].approval, subReq[s].decision)
      BY <1>1, <1>2, <2>1, <3>1 DEF OwnRetry, DecisionKnown
    <3> QED BY <2>1, <3>1, <3>2 DEF DecisionKnown, Stands, DecisionStands
  <2> QED BY <2>2, <2>3
<1>5. CASE SubmitPersist(s)
  <2>1. CASE subPc'[s] = "done"
    BY <2>1 DEF DecisionKnown
  <2>2. CASE subPc'[s] # "done"
    <3>1. /\ subPc[s] = "persist" /\ subPc'[s] = "publish" /\ subReq' = subReq
          /\ approvals' = [approvals EXCEPT ![subReq[s].approval] = DecidedApproval(s)]
      BY <1>1, <1>5, <2>2 DEF SubmitPersist, SubmitGoto, SubmitDone, SaveApprovalIfStatus,
         SaveApproval
    <3>2. /\ DecidedApproval(s).status = subReq[s].decision
          /\ DecidedApproval(s).decidedBy = subReq[s].user
      BY <1>1 DEF DecidedApproval, ApprovalRecord
    <3>3. approvals'[subReq[s].approval] = DecidedApproval(s)
      BY <1>1, <3>1
    <3> QED BY <1>1, <3>1, <3>2, <3>3 DEF DecisionKnown, Stands, DecisionStands
  <2> QED BY <2>1, <2>2
<1>6. CASE SubmitPublish(s) \/ SubmitEvidence(s)
  <2>1. /\ UNCHANGED <<approvals, subReq>>
        /\ subPc[s] \in {"publish", "evidence"} /\ subPc'[s] \in {"evidence", "cache", "done"}
    BY <1>1, <1>6 DEF SubmitPublish, SubmitEvidence, SubmitGoto, SubmitDone
  <2> QED BY <1>2, <2>1 DEF DecisionKnown, Stands, DecisionStands
<1>7. CASE \/ SubmitRecache(s) \/ SubmitLink(s) \/ SubmitLinkById(s) \/ SubmitCache(s)
           \/ SubmitFault(s)
  <2>1. subPc'[s] \in {"done", "dead", "linkById", "persist"}
    BY <1>1, <1>7 DEF SubmitRecache, SubmitLink, SubmitLinkById, SubmitGuards, SubmitCache,
       SubmitFault, SubmitGoto, SubmitDone
  <2> QED BY <2>1 DEF DecisionKnown
<1> QED BY <1>3, <1>4, <1>5, <1>6, <1>7 DEF SubmitStep

(* The cache is written from a decision that stands.                       *)
LEMMA EnvelopesKept ==
  ASSUME IndInv, DecisionInv, [Next]_vars
  PROVE  EnvelopesStand'
<1> SUFFICES ASSUME NEW k \in DecisionKeys, decisions'[k] # NoEnvelope
             PROVE  LET d == decisions'[k]
                        r == approvals'[d.approval]
                    IN  /\ d.approval \in Approvals /\ d.decision \in HumanDecision
                        /\ r.decidedBy = d.user /\ DecisionStands(d.decision, r.status)
  BY DEF EnvelopesStand, Stands, DecisionStands
<1>1. \A u, a, d : Stands(u, a, d) =>
        /\ a \in Approvals /\ d \in HumanDecision
        /\ approvals'[a].decidedBy = u /\ DecisionStands(d, approvals'[a].status)
  <2> SUFFICES ASSUME NEW u, NEW a, NEW d, Stands(u, a, d) PROVE Stands(u, a, d)'
    BY DEF Stands, DecisionStands
  <2> QED BY DecisionStays
<1>2. CASE decisions'[k] = decisions[k]
  <2>1. Stands(decisions[k].user, decisions[k].approval, decisions[k].decision)
    BY <1>2 DEF DecisionInv, EnvelopesStand
  <2> QED BY <1>1, <1>2, <2>1 DEF Stands, DecisionStands
<1>3. CASE decisions'[k] # decisions[k]
  <2>1. PICK s \in Submitters : SubmitRecache(s) \/ SubmitCache(s)
    BY <1>3 DEF Next, vars, submitVars, SubmitNext, SubmitStep, SubmitFault, SubmitLoad,
       SubmitLookup, SubmitLink, SubmitLinkById, SubmitPersist, SubmitPublish, SubmitEvidence
  <2>2. /\ subPc[s] \in {"recache", "cache"} /\ decisions'[k] = Envelope(s)
    BY <1>3, <2>1 DEF SubmitRecache, SubmitCache, SetDecision, IndInv, GovernedTypeOK,
       SubmitTypeOK
  <2>3. Stands(subReq[s].user, subReq[s].approval, subReq[s].decision)
    BY <2>2 DEF DecisionInv, DecisionKnown
  <2> QED BY <1>1, <2>2, <2>3 DEF Envelope, Stands, DecisionStands
<1> QED BY <1>2, <1>3

(* One submitter moves at a time.                                          *)
LEMMA OneSubmitterMoves ==
  ASSUME IndInv, [Next]_vars, NEW s \in Submitters
  PROVE  \/ SubmitStep(s) \/ SubmitFault(s)
         \/ /\ subPc'[s] = subPc[s] /\ subReq'[s] = subReq[s]
            /\ subSeen'[s] = subSeen[s] /\ subReply'[s] = subReply[s]
<1>1. CASE UNCHANGED submitVars
  BY <1>1 DEF submitVars
<1>2. ASSUME NEW t \in Submitters \ {s}, SubmitStep(t) \/ SubmitFault(t)
      PROVE  /\ subPc'[s] = subPc[s] /\ subReq'[s] = subReq[s]
             /\ subSeen'[s] = subSeen[s] /\ subReply'[s] = subReply[s]
  BY <1>2 DEF SubmitStep, SubmitFault, SubmitLoad, SubmitLookup, SubmitRecache, SubmitLink,
     SubmitLinkById, SubmitGuards, SubmitPersist, SubmitPublish, SubmitEvidence,
     SubmitCache, SubmitGoto, SubmitDone, IndInv, GovernedTypeOK, SubmitTypeOK
<1> QED BY <1>1, <1>2 DEF Next, vars, SubmitNext

(* Every step leaves them standing.                                        *)
LEMMA DecisionStep ==
  ASSUME IndInv, DecisionInv, [Next]_vars
  PROVE  DecisionInv'
<1>1. ASSUME NEW s \in Submitters PROVE DecisionKnown(s)'
  BY <1>1, OneSubmitterMoves, DecisionKept, DecisionMade
<1> QED BY <1>1, EnvelopesKept DEF DecisionInv

(* No replay ever reports a decision that was lost: what the cache holds,  *)
(* though upserted unchecked, was really taken and still stands.           *)
THEOREM ReplayTrue == Spec => []CachedDecisionStands
<1>1. Init => DecisionInv
  BY DEF Init, SubmitInit, DecisionInv, EnvelopesStand, DecisionKnown
<1>2. IndInv /\ DecisionInv /\ [Next]_vars => DecisionInv'
  BY DecisionStep
<1>3. DecisionInv => CachedDecisionStands
  BY DEF DecisionInv, EnvelopesStand, Stands, CachedDecisionStands
<1> QED BY <1>1, <1>2, <1>3, Invariant, PTL DEF Spec

-----------------------------------------------------------------------------

(* Who won an approval: it is on its way to say so, it was told so, or it  *)
(* has announced it.                                                       *)
Announced(s) == \E x \in trail : x.what = "Decided" /\ x.by = s

(* A submitter that got its decision stored.                               *)
Won(s) ==
  \/ subPc[s] \in {"publish", "evidence", "cache"}
  \/ subReply[s] = "Accepted"
  \/ Announced(s)

(* One per approval, and who announces a decision is one.                  *)
WinnerInv ==
  /\ \A s \in Submitters : subPc[s] # "done" => subReply[s] # "Accepted"
  /\ \A s \in Submitters : Won(s) => subPc[s] # "idle" /\ Settled(subReq[s].approval)
  /\ \A s, t \in Submitters :
       Won(s) /\ Won(t) /\ subReq[s].approval = subReq[t].approval => s = t
  /\ \A x \in trail : x.what = "Decided" =>
       x.by \in Submitters /\ x.approval = subReq[x.by].approval

(* Announcements are made by submitters that won, of their own approval.   *)
LEMMA TrailGrows ==
  ASSUME IndInv, [Next]_vars, NEW x \in trail', x \notin trail, x.what = "Decided"
  PROVE  \E s \in Submitters :
           /\ SubmitPublish(s) \/ SubmitEvidence(s)
           /\ x.by = s /\ x.approval = subReq[s].approval
<1>1. trail' # trail
  OBVIOUS
<1>2. CASE CreateNext
  <2>1. PICK c \in Creators : CreatePublish(c) \/ CreateEvidence(c)
    BY <1>1, <1>2 DEF CreateNext, CreateStep, CreateLookup, CreateSave, CreateCache,
       CreateFault, storeVars
  <2>2. x.what = "Requested"
    BY <2>1 DEF CreatePublish, CreateEvidence, Record
  <2> QED BY <2>2
<1>3. CASE ProposeNext
  <2>1. PICK p \in Proposals : ProposeEvidence(p) \/ ProposePublish(p)
    BY <1>1, <1>3 DEF ProposeNext, ProposeStep, ProposeLookup, ProposeApproval, ProposeSave,
       ProposeSaveFails, ProposeRace, ProposeFault, storeVars
  <2>2. x.what = "Proposed"
    BY <2>1 DEF ProposeEvidence, ProposePublish, Record
  <2> QED BY <2>2
<1>4. CASE SubmitNext
  <2>1. PICK s \in Submitters : SubmitPublish(s) \/ SubmitEvidence(s)
    BY <1>1, <1>4 DEF SubmitNext, SubmitStep, SubmitFault, SubmitLoad, SubmitLookup,
       SubmitRecache, SubmitLink, SubmitLinkById, SubmitPersist, SubmitCache, storeVars
  <2>2. x.by = s /\ x.approval = subReq[s].approval
    BY <2>1 DEF SubmitPublish, SubmitEvidence, Record
  <2> QED BY <2>1, <2>2
<1>5. CASE ExecuteNext
  <2>1. PICK e \in Executors : ExecPublish(e) \/ ExecEvidence(e)
    BY <1>1, <1>5 DEF ExecuteNext, ExecStep, ExecLoad, ExecBind, ExecLookup, ExecBegin,
       ExecClaim, ExecClaimThrows, ExecRelease, ExecDispatch, ExecResult, ExecFinalize,
       ExecComplete, RunnerStep, RunnerPerform, RunnerRefuse, ExecFault, storeVars
  <2>2. x.what \in {"Executed", "ExecutionFailed"}
    BY <2>1 DEF ExecPublish, ExecEvidence, Record, ExecTrailWhat
  <2> QED BY <2>2
<1> QED BY <1>1, <1>2, <1>3, <1>4, <1>5 DEF Next, vars, storeVars

(* A submitter wins by its decision claim on a pending approval; what it   *)
(* asked for is fixed by then.                                             *)
LEMMA WinnerMade ==
  ASSUME IndInv, WinnerInv, [Next]_vars, NEW s \in Submitters, Won(s)'
  PROVE  /\ subReq'[s].approval = subReq[s].approval /\ subPc'[s] # "idle"
         /\ subPc[s] # "idle" /\ subReq[s].approval \in Approvals
         /\ \/ Won(s)
            \/ /\ approvals[subReq[s].approval].status = "Pending" /\ SubmitPersist(s)
               /\ approvals'[subReq[s].approval].status # "Pending"
<1>1. /\ subPc \in [Submitters -> SubmitPc] /\ approvals \in [Approvals -> ApprovalRecord]
      /\ subReply \in [Submitters -> SubmitReply]
      /\ subSeen \in [Submitters -> ApprovalRecord]
      /\ subPc[s] # "idle" => subReq[s].approval \in Approvals /\ subReq[s].decision \in HumanDecision
  BY DEF IndInv, GovernedTypeOK, StoreTypeOK, SubmitTypeOK, RequestsFilled
<1>2. Announced(s)' => Announced(s) \/ subPc[s] \in {"publish", "evidence"}
  BY TrailGrows DEF Announced, SubmitPublish, SubmitEvidence
<1>3. subPc[s] = "idle" => ~Won(s)
  BY DEF WinnerInv
<1>4. CASE SubmitLoad(s)
  <2>1. subPc[s] = "idle" /\ subPc'[s] \in {"done", "lookup"}
        /\ subReply'[s] \in {subReply[s], "NotFound"}
    BY <1>1, <1>4 DEF SubmitLoad, SubmitGoto, SubmitDone
  <2> QED BY <1>2, <1>3, <2>1 DEF Won
<1>5. CASE SubmitPersist(s)
  <2>1. subPc[s] = "persist" /\ subReq' = subReq
    BY <1>5 DEF SubmitPersist
  <2>2. CASE approvals' = approvals
    <3>1. subPc'[s] = "done" \/ approvals[subReq[s].approval].status = "Pending"
      BY <1>1, <1>5 DEF SubmitPersist, SubmitDone, SaveApprovalIfStatus
    <3>2. CASE approvals[subReq[s].approval].status = "Pending"
      <4>1. approvals'[subReq[s].approval] = DecidedApproval(s)
        BY <1>1, <1>5, <2>1, <3>2 DEF SubmitPersist, SaveApprovalIfStatus, SaveApproval
      <4>2. DecidedApproval(s).status # "Pending"
        BY <1>1, <2>1 DEF DecidedApproval, ApprovalRecord, HumanDecision
      <4> QED BY <2>2, <3>2, <4>1, <4>2
    <3>3. CASE approvals[subReq[s].approval].status # "Pending"
      <4>1. subPc'[s] = "done" /\ subReply'[s] = "Conflict"
        BY <1>1, <1>5, <3>3 DEF SubmitPersist, SubmitDone, SaveApprovalIfStatus
      <4> QED BY <1>1, <1>2, <2>1, <4>1 DEF Won
    <3> QED BY <3>2, <3>3
  <2>3. CASE approvals' # approvals
    <3>1. /\ approvals[subReq[s].approval].status = "Pending"
          /\ approvals'[subReq[s].approval] = DecidedApproval(s)
          /\ subPc'[s] = "publish"
      BY <1>1, <1>5, <2>1, <2>3 DEF SubmitPersist, SubmitGoto, SaveApprovalIfStatus,
         SaveApproval
    <3>2. DecidedApproval(s).status # "Pending"
      BY <1>1, <2>1 DEF DecidedApproval, ApprovalRecord, HumanDecision
    <3> QED BY <1>1, <1>5, <2>1, <3>1, <3>2
  <2> QED BY <2>2, <2>3
<1>6. CASE (SubmitStep(s) \/ SubmitFault(s)) /\ ~SubmitLoad(s) /\ ~SubmitPersist(s)
  <2>1. /\ subReq' = subReq /\ subPc[s] # "idle" /\ subPc'[s] # "idle"
        /\ subPc'[s] \in {"publish", "evidence", "cache"} =>
             subPc[s] \in {"publish", "evidence", "cache"}
        /\ subReply'[s] = "Accepted" =>
             subReply[s] = "Accepted" \/ subPc[s] \in {"publish", "evidence", "cache"}
    BY <1>1, <1>6 DEF SubmitStep, SubmitFault, SubmitLookup, SubmitRecache, SubmitLink,
       SubmitLinkById, SubmitGuards, SubmitPublish, SubmitEvidence, SubmitCache,
       SubmitGoto, SubmitDone
  <2> QED BY <1>1, <1>2, <2>1 DEF Won
<1>7. CASE /\ subPc'[s] = subPc[s] /\ subReq'[s] = subReq[s]
           /\ subSeen'[s] = subSeen[s] /\ subReply'[s] = subReply[s]
  BY <1>1, <1>2, <1>3, <1>7 DEF Won
<1> QED BY <1>4, <1>5, <1>6, <1>7, OneSubmitterMoves DEF SubmitStep

(* A second winner would need its approval to be pending once more.        *)
LEMMA WinnerStep ==
  ASSUME IndInv, WinnerInv, [Next]_vars
  PROVE  WinnerInv'
<1>1. ASSUME NEW s \in Submitters PROVE subPc'[s] # "done" => subReply'[s] # "Accepted"
  <2>1. subPc[s] # "done" => subReply[s] # "Accepted"
    BY DEF WinnerInv
  <2> QED
    BY <2>1, OneSubmitterMoves DEF SubmitStep, SubmitFault, SubmitLoad, SubmitLookup,
       SubmitRecache, SubmitLink, SubmitLinkById, SubmitGuards, SubmitPersist,
       SubmitPublish, SubmitEvidence, SubmitCache, SubmitGoto, SubmitDone, IndInv,
       GovernedTypeOK, SubmitTypeOK
<1>2. ASSUME NEW s \in Submitters, Won(s)'
      PROVE  subPc'[s] # "idle"
             /\ approvals'[subReq'[s].approval].status \notin {"Absent", "Pending"}
  <2>1. /\ subReq'[s].approval = subReq[s].approval /\ subPc'[s] # "idle"
        /\ subReq[s].approval \in Approvals
        /\ \/ Won(s)
           \/ /\ approvals[subReq[s].approval].status = "Pending"
              /\ approvals'[subReq[s].approval].status # "Pending"
    BY <1>2, WinnerMade
  <2>2. Won(s) => approvals[subReq[s].approval].status \notin {"Absent", "Pending"}
    BY DEF WinnerInv, Settled
  <2>3. Moves(subReq[s].approval)
    BY <2>1, StatusMoves
  <2> QED BY <2>1, <2>2, <2>3 DEF Moves, Decided
<1>3. ASSUME NEW s \in Submitters, NEW t \in Submitters, Won(s)', Won(t)',
             subReq'[s].approval = subReq'[t].approval
      PROVE  s = t
  <2>1. /\ subReq[s].approval = subReq[t].approval
        /\ \/ Won(s)
           \/ approvals[subReq[s].approval].status = "Pending" /\ SubmitPersist(s)
        /\ \/ Won(t)
           \/ approvals[subReq[t].approval].status = "Pending" /\ SubmitPersist(t)
    BY <1>3, WinnerMade
  <2>2. CASE Won(s) /\ Won(t)
    BY <2>1, <2>2 DEF WinnerInv
  <2>3. CASE (~Won(s) /\ Won(t)) \/ (Won(s) /\ ~Won(t))
    BY <2>1, <2>3 DEF WinnerInv, Settled
  <2>4. CASE SubmitPersist(s) /\ SubmitPersist(t)
    BY <2>4 DEF SubmitPersist, SubmitGoto, SubmitDone, IndInv, GovernedTypeOK, SubmitTypeOK
  <2> QED BY <2>1, <2>2, <2>3, <2>4
<1>4. ASSUME NEW x \in trail', x.what = "Decided"
      PROVE  x.by \in Submitters /\ x.approval = subReq'[x.by].approval
  <2>1. CASE x \in trail
    <3>1. x.by \in Submitters /\ x.approval = subReq[x.by].approval /\ subPc[x.by] # "idle"
      BY <1>4, <2>1 DEF WinnerInv, Won, Announced
    <3>2. Won(x.by)'
      <4>1. Announced(x.by)'
        BY <1>4 DEF Announced
      <4> QED BY <4>1 DEF Won, Announced
    <3> QED BY <3>1, <3>2, WinnerMade
  <2>2. CASE x \notin trail
    <3>1. PICK s \in Submitters :
            /\ SubmitPublish(s) \/ SubmitEvidence(s)
            /\ x.by = s /\ x.approval = subReq[s].approval
      BY <1>4, <2>2, TrailGrows
    <3> QED BY <3>1 DEF SubmitPublish, SubmitEvidence
  <2> QED BY <2>1, <2>2
<1> QED BY <1>1, <1>2, <1>3, <1>4 DEF WinnerInv, Settled

(* Two deciders of one approval: at most one is told that it decided, and  *)
(* at most one announces a decision, even to crash before it is told.      *)
THEOREM OneAnnounced == Spec => []OneDecisionAnnounced
<1>1. Init => WinnerInv
  BY DEF Init, StoreInit, SubmitInit, WinnerInv, Won, Announced
<1>2. IndInv /\ WinnerInv /\ [Next]_vars => WinnerInv'
  BY WinnerStep
<1>3. WinnerInv => OneDecisionAnnounced
  BY DEF WinnerInv, Won, Announced, OneDecisionAnnounced
<1> QED BY <1>1, <1>2, <1>3, Invariant, PTL DEF Spec
=============================================================================
