------------------------ MODULE GovernedActionProofs ------------------------
(***************************************************************************)
(* Theorems about GovernedAction, for every value of the constants: IndInv *)
(* is inductive, and so every reachable state has the right types, one     *)
(* dispatch per key, one execution claim per approval, and four eyes.      *)
(* Types alone are not inductive: a decision is written from a request,    *)
(* which must have been filled in (RequestsFilled) by the time it is used. *)
(***************************************************************************)
EXTENDS GovernedAction, TLAPS

(* The initial state has the declared types.                               *)
LEMMA InitType == Init => GovernedTypeOK
<1> SUFFICES ASSUME Init PROVE GovernedTypeOK
  OBVIOUS
<1>1. StoreTypeOK
  BY StoreAssumption DEF Init, StoreInit, StoreTypeOK, ApprovalRecord, NoApproval,
     ProposalRecord, NoProposal
<1>2. CreateTypeOK
  BY DEF Init, CreateInit, CreateTypeOK, CreateRequest, NoCreate
<1>3. ProposeTypeOK
  BY DEF Init, ProposeInit, ProposeTypeOK, ProposeRequest, NoPropose, ProposeReply,
     NoProposeReply, ProposePc
<1>4. SubmitTypeOK
  BY DEF Init, SubmitInit, SubmitTypeOK, ApprovalRecord, NoApproval, SubmitRequest,
     NoSubmit, DecisionEnvelope, NoEnvelope, SubmitPc, SubmitReply
<1>5. ExecuteTypeOK
  BY DEF Init, ExecuteInit, ExecuteTypeOK, ApprovalRecord, NoApproval, ExecutePc,
     ExecuteRequest, NoExecute, ExecuteReply, Reservation, NoReservation, Fingerprint,
     NoFingerprint
<1> QED BY <1>1, <1>2, <1>3, <1>4, <1>5 DEF GovernedTypeOK

(* The records the handlers write have their types.                        *)
LEMMA PendingApprovalType ==
  ASSUME NEW u \in Users \cup {None}, NEW p \in Proposals \cup {None}
  PROVE  PendingApproval(u, p) \in ApprovalRecord
  BY DEF PendingApproval, ApprovalRecord, ApprovalStatus

(* A step of createApproval keeps the types.                               *)
LEMMA CreateType ==
  ASSUME GovernedTypeOK, CreateNext,
         UNCHANGED <<proposeVars, submitVars, executeVars>>
  PROVE  GovernedTypeOK'
<1>1. ProposeTypeOK' /\ SubmitTypeOK' /\ ExecuteTypeOK'
  BY DEF GovernedTypeOK, ProposeTypeOK, SubmitTypeOK, ExecuteTypeOK, proposeVars,
     submitVars, executeVars
<1>2. SUFFICES ASSUME NEW c \in Creators, CreateStep(c) \/ CreateFault(c)
               PROVE  StoreTypeOK' /\ CreateTypeOK'
  BY <1>1 DEF CreateNext, GovernedTypeOK
<1> USE DEF GovernedTypeOK, StoreTypeOK, CreateTypeOK, storeVars, CreateGoto, CreateDone
<1>3. CASE CreateLookup(c)
  BY <1>3 DEF CreateLookup, CreateRequest
<1>4. CASE CreateSave(c)
  <2>1. PICK a \in Approvals :
          /\ SaveApproval(a, PendingApproval(createReq[c].user, createReq[c].binding))
          /\ createReq' = [createReq EXCEPT ![c].approval = a]
    BY <1>4 DEF CreateSave
  <2>2. PendingApproval(createReq[c].user, createReq[c].binding) \in ApprovalRecord
    BY PendingApprovalType DEF CreateRequest
  <2>3. StoreTypeOK'
    BY <1>4, <2>1, <2>2 DEF CreateSave, SaveApproval
  <2>4. CreateTypeOK'
    BY <1>4, <2>1 DEF CreateSave, CreateRequest
  <2> QED BY <2>3, <2>4
<1>5. CASE CreatePublish(c)
  BY <1>5, CreateAssumption DEF CreatePublish, Record, TrailRecord, CreateRequest
<1>6. CASE CreateEvidence(c)
  BY <1>6, CreateAssumption DEF CreateEvidence, Record, TrailRecord, CreateRequest
<1>7. CASE CreateCache(c)
  BY <1>7 DEF CreateCache, CreateRequest
<1>8. CASE CreateFault(c)
  BY <1>8, StoreAssumption DEF CreateFault, Fault
<1> QED BY <1>2, <1>3, <1>4, <1>5, <1>6, <1>7, <1>8 DEF CreateStep

(* A step of proposeAgentAction keeps the types.                           *)
LEMMA ProposeType ==
  ASSUME GovernedTypeOK, ProposeNext,
         UNCHANGED <<createVars, submitVars, executeVars>>
  PROVE  GovernedTypeOK'
<1>1. CreateTypeOK' /\ SubmitTypeOK' /\ ExecuteTypeOK'
  BY DEF GovernedTypeOK, CreateTypeOK, SubmitTypeOK, ExecuteTypeOK, createVars,
     submitVars, executeVars
<1>2. SUFFICES ASSUME NEW p \in Proposals,
                      ProposeStep(p) \/ ProposeSaveFails(p) \/ ProposeFault(p)
               PROVE  StoreTypeOK' /\ ProposeTypeOK'
  BY <1>1 DEF ProposeNext, GovernedTypeOK
<1> USE DEF GovernedTypeOK, StoreTypeOK, ProposeTypeOK, storeVars, ProposeGoto,
     ProposeDone, ProposePc
<1>a. \A q \in Proposals : StoredOutput(q) \in ProposeReply
  BY DEF StoredOutput, Proposed, ProposeReply, ProposalRecord
<1>b. \A a \in Approvals \cup {None} : Proposed(p, a) \in ProposeReply
  BY DEF Proposed, ProposeReply
<1>c. Refused \in ProposeReply
  BY DEF Refused, ProposeReply
<1>3. CASE ProposeLookup(p)
  BY <1>3, <1>a DEF ProposeLookup, ProposeRequest
<1>4. CASE ProposeEvidence(p)
  BY <1>4, ProposeAssumption DEF ProposeEvidence, Record, TrailRecord, GateDecision
<1>5. CASE ProposePublish(p)
  BY <1>5, <1>c, ProposeAssumption DEF ProposePublish, Record, TrailRecord
<1>6. CASE ProposeApproval(p)
  <2>1. PICK a \in Approvals :
          /\ SaveApproval(a, PendingApproval(propReq[p].user, p))
          /\ propApproval' = [propApproval EXCEPT ![p] = a]
    BY <1>6 DEF ProposeApproval
  <2>2. PendingApproval(propReq[p].user, p) \in ApprovalRecord
    BY PendingApprovalType DEF ProposeRequest
  <2>3. StoreTypeOK'
    BY <1>6, <2>1, <2>2 DEF ProposeApproval, SaveApproval
  <2>4. ProposeTypeOK'
    BY <1>6, <2>1 DEF ProposeApproval
  <2> QED BY <2>3, <2>4
<1>7. CASE ProposeSave(p)
  <2>1. [ stored |-> TRUE, approval |-> propApproval[p], key |-> propReq[p].key,
          payload |-> propReq[p].payload ] \in ProposalRecord
    BY DEF ProposeRequest, ProposalRecord
  <2> QED BY <1>7, <2>1 DEF ProposeSave
<1>8. CASE ProposeSaveFails(p)
  BY <1>8, StoreAssumption DEF ProposeSaveFails, Fault
<1>9. CASE ProposeRace(p)
  BY <1>9, <1>a, <1>b DEF ProposeRace
<1>10. CASE ProposeFault(p)
  BY <1>10, StoreAssumption DEF ProposeFault, Fault
<1> QED BY <1>2, <1>3, <1>4, <1>5, <1>6, <1>7, <1>8, <1>9, <1>10 DEF ProposeStep

(* A step of submitApproval keeps the types: the decided record it stores is*)
(* an approval record.                                                     *)
LEMMA SubmitType ==
  ASSUME GovernedTypeOK, RequestsFilled, SubmitNext,
         UNCHANGED <<createVars, proposeVars, executeVars>>
  PROVE  GovernedTypeOK'
<1>1. CreateTypeOK' /\ ProposeTypeOK' /\ ExecuteTypeOK'
  BY DEF GovernedTypeOK, CreateTypeOK, ProposeTypeOK, ExecuteTypeOK, createVars,
     proposeVars, executeVars
<1>2. SUFFICES ASSUME NEW s \in Submitters, SubmitStep(s) \/ SubmitFault(s)
               PROVE  StoreTypeOK' /\ SubmitTypeOK'
  BY <1>1 DEF SubmitNext, GovernedTypeOK
<1> USE DEF GovernedTypeOK, StoreTypeOK, SubmitTypeOK, storeVars, SubmitGoto,
     SubmitDone, SubmitPc, SubmitReply
<1>a. Envelope(s) \in DecisionEnvelope
  BY DEF Envelope, DecisionEnvelope, SubmitRequest
<1>3. CASE SubmitLoad(s)
  <2>1. PICK u \in Users, a \in Approvals, d \in HumanDecision,
             k \in DecisionKeys \cup {None} :
          /\ subReq' = [subReq EXCEPT ![s] =
               [user |-> u, approval |-> a, decision |-> d, key |-> k]]
          /\ subSeen' = [subSeen EXCEPT ![s] = approvals[a]]
          /\ \/ approvals[a].status = "Absent" /\ SubmitDone(s, "NotFound")
             \/ approvals[a].status # "Absent" /\ SubmitGoto(s, "lookup")
    BY <1>3, Zenon DEF SubmitLoad
  <2>2. [user |-> u, approval |-> a, decision |-> d, key |-> k] \in SubmitRequest
    BY DEF SubmitRequest
  <2> QED BY <1>3, <2>1, <2>2 DEF SubmitLoad
<1>4. CASE SubmitLookup(s)
  BY <1>4 DEF SubmitLookup
<1>5. CASE SubmitRecache(s)
  BY <1>5, <1>a DEF SubmitRecache, SetDecision
<1>6. CASE SubmitLink(s)
  BY <1>6 DEF SubmitLink, SubmitGuards
<1>7. CASE SubmitLinkById(s)
  BY <1>7 DEF SubmitLinkById, SubmitGuards
<1>8. CASE SubmitPersist(s)
  <2>1. /\ subReq[s].approval \in Approvals
        /\ subReq[s].user \in Users
        /\ subReq[s].decision \in HumanDecision
    BY <1>8 DEF SubmitPersist, RequestsFilled
  <2>2. DecidedApproval(s) \in ApprovalRecord
    BY <2>1 DEF DecidedApproval, ApprovalRecord, ApprovalStatus, Decided, HumanDecision,
       Deciders
  <2> QED
    BY <1>8, <2>1, <2>2 DEF SubmitPersist, SaveApprovalIfStatus, SaveApproval
<1>9. CASE SubmitPublish(s)
  BY <1>9, SubmitAssumption DEF SubmitPublish, Record, TrailRecord, SubmitRequest
<1>10. CASE SubmitEvidence(s)
  BY <1>10, SubmitAssumption DEF SubmitEvidence, Record, TrailRecord, SubmitRequest
<1>11. CASE SubmitCache(s)
  BY <1>11, <1>a DEF SubmitCache, SetDecision
<1>12. CASE SubmitFault(s)
  BY <1>12, StoreAssumption DEF SubmitFault, Fault
<1> QED BY <1>2, <1>3, <1>4, <1>5, <1>6, <1>7, <1>8, <1>9, <1>10, <1>11, <1>12
        DEF SubmitStep

(* A step of executeApprovedAgentAction or of the execution plane keeps the*)
(* types.                                                                  *)
LEMMA ExecuteType ==
  ASSUME GovernedTypeOK, RequestsFilled, ExecuteNext,
         UNCHANGED <<createVars, proposeVars, submitVars>>
  PROVE  GovernedTypeOK'
<1>1. CreateTypeOK' /\ ProposeTypeOK' /\ SubmitTypeOK'
  BY DEF GovernedTypeOK, CreateTypeOK, ProposeTypeOK, SubmitTypeOK, createVars,
     proposeVars, submitVars
<1>2. SUFFICES ASSUME NEW e \in Executors,
                      ExecStep(e) \/ RunnerStep(e) \/ ExecClaimThrows(e) \/ ExecFault(e)
               PROVE  StoreTypeOK' /\ ExecuteTypeOK'
  BY <1>1 DEF ExecuteNext, GovernedTypeOK
<1>b. ClaimedApproval(e) \in ApprovalRecord /\ FinalApproval(e) \in ApprovalRecord
  <2>1. execSeen[e] \in ApprovalRecord
    BY DEF GovernedTypeOK, ExecuteTypeOK
  <2>2. \A r \in ApprovalRecord, st \in {"Executing", "Executed"} :
          [r EXCEPT !.status = st] \in ApprovalRecord
    BY DEF ApprovalRecord, ApprovalStatus
  <2> QED BY <2>1, <2>2 DEF ClaimedApproval, FinalApproval
<1> USE DEF GovernedTypeOK, StoreTypeOK, ExecuteTypeOK, storeVars, ExecGoto, ExecDone,
     ExecutePc, ExecuteReply
<1>a. FingerprintOf(e) \in Fingerprint
  BY DEF FingerprintOf, Fingerprint, ExecuteRequest
<1>c. \A k \in DispatchKeys :
        reservations[k].result \in {"None", "Executed", "Failed"}
  BY DEF Reservation
<1>d. execPc[e] # "idle" =>
        execReq[e].key \in DispatchKeys /\ execReq[e].approval \in Approvals
  BY DEF RequestsFilled
<1>3. CASE ExecLoad(e)
  BY <1>3 DEF ExecLoad, ExecuteRequest, DispatchKeys
<1>4. CASE ExecBind(e)
  BY <1>4 DEF ExecBind
<1>5. CASE ExecLookup(e)
  BY <1>5, <1>c, <1>d DEF ExecLookup, ReservationAnswers
<1>6. CASE ExecBegin(e)
  <2>1. [status |-> "InProgress", fingerprint |-> FingerprintOf(e), result |-> "None"]
           \in Reservation
    BY <1>a DEF Reservation
  <2> QED
    BY <1>6, <1>c, <1>d, <2>1 DEF ExecBegin, ReservationAnswers
<1>7. CASE ExecClaim(e)
  BY <1>7, <1>b, <1>d DEF ExecClaim, SaveApprovalIfStatus, SaveApproval
<1>8. CASE ExecClaimThrows(e)
  BY <1>8, <1>b, <1>d, StoreAssumption
     DEF ExecClaimThrows, SaveApprovalIfStatus, SaveApproval, Fault
<1>9. CASE ExecRelease(e)
  BY <1>9, <1>d DEF ExecRelease, Reservation
<1>10. CASE ExecDispatch(e)
  BY <1>10 DEF ExecDispatch
<1>11. CASE RunnerStep(e)
  BY <1>11 DEF RunnerStep, RunnerPerform, RunnerRefuse
<1>12. CASE ExecResult(e)
  BY <1>12 DEF ExecResult
<1>13. CASE ExecFinalize(e)
  BY <1>13, <1>b, <1>d DEF ExecFinalize, SaveApprovalIfStatus, SaveApproval
<1>14. CASE ExecPublish(e)
  BY <1>14, <1>d, ExecuteAssumption DEF ExecPublish, Record, TrailRecord, ExecTrailWhat
<1>15. CASE ExecEvidence(e)
  BY <1>15, <1>d, ExecuteAssumption DEF ExecEvidence, Record, TrailRecord, ExecTrailWhat
<1>16. CASE ExecComplete(e)
  BY <1>16, <1>d DEF ExecComplete, Reservation, Answer
<1>17. CASE ExecFault(e)
  BY <1>17, StoreAssumption DEF ExecFault, Fault
<1> QED BY <1>2, <1>3, <1>4, <1>5, <1>6, <1>7, <1>8, <1>9, <1>10, <1>11, <1>12, <1>13,
           <1>14, <1>15, <1>16, <1>17 DEF ExecStep

-----------------------------------------------------------------------------

(* What every step does to a stored approval: it keeps its requester and,  *)
(* once it is settled, its decider.                                        *)
Advance ==
  \A a \in Approvals :
    /\ approvals[a].status # "Absent" =>
         /\ approvals'[a].status # "Absent"
         /\ approvals'[a].requestedBy = approvals[a].requestedBy
    /\ Settled(a) =>
         /\ approvals'[a].status \notin {"Absent", "Pending"}
         /\ approvals'[a].decidedBy = approvals[a].decidedBy

(* A step of a submitter or of a creator leaves claimed approvals alone.   *)
ClaimsKept ==
  \A a \in Approvals :
    approvals[a].status = "Executing" => approvals'[a].status = "Executing"

(* The empty store with no request under way satisfies the invariant.      *)
LEMMA InitInv == Init => IndInv
<1> SUFFICES ASSUME Init PROVE IndInv
  OBVIOUS
<1>1. GovernedTypeOK
  BY InitType
<1>2. RequestsFilled /\ KeyHeld /\ DispatchOncePerKey /\ SubmitterKnowsRequester
      /\ ExecutorKnowsDecision
  BY DEF Init, SubmitInit, ExecuteInit, RequestsFilled, KeyHeld, DispatchOncePerKey,
     DispatchedUnder, SubmitterKnowsRequester, ExecutorKnowsDecision, HoldingPc
<1>3. SingleClaim
  BY DEF Init, ExecuteInit, SingleClaim, Claimants
<1>4. SettledByOther
  BY DEF Init, StoreInit, NoApproval, SettledByOther, Settled
<1> QED BY <1>1, <1>2, <1>3, <1>4 DEF IndInv

-----------------------------------------------------------------------------

(* The conjuncts that a step of another handler cannot disturb.            *)

(* What submitters know of requesters survives a step of anybody else.     *)
LEMMA SubmittersKept ==
  ASSUME IndInv, Advance, UNCHANGED submitVars
  PROVE  SubmitterKnowsRequester'
<1> SUFFICES ASSUME NEW s \in Submitters
             PROVE  LET a == subReq[s].approval IN
      /\ subPc[s] \in {"lookup", "link", "linkById", "persist"} =>
           approvals'[a].status # "Absent" /\ approvals'[a].requestedBy = subSeen[s].requestedBy
      /\ subPc[s] = "persist" => subReq[s].user # subSeen[s].requestedBy
  BY DEF SubmitterKnowsRequester, submitVars
<1>1. subPc[s] \in {"lookup", "link", "linkById", "persist"} => subReq[s].approval \in Approvals
  BY DEF IndInv, RequestsFilled
<1> QED BY <1>1 DEF IndInv, SubmitterKnowsRequester, Advance

(* What executors hold survives a step that leaves claimed approvals alone.*)
LEMMA ExecutorsKept ==
  ASSUME IndInv, Advance, ClaimsKept, UNCHANGED executeVars
  PROVE  KeyHeld' /\ DispatchOncePerKey' /\ SingleClaim' /\ ExecutorKnowsDecision'
<1> USE DEF IndInv, executeVars
<1>1. KeyHeld'
  BY DEF KeyHeld, FingerprintOf, DispatchKeys
<1>2. DispatchOncePerKey'
  BY DEF DispatchOncePerKey, DispatchedUnder
<1>3. SingleClaim'
  BY DEF SingleClaim, Claimants, ClaimsKept
<1>4. ExecutorKnowsDecision'
  <2> SUFFICES ASSUME NEW e \in Executors
               PROVE  LET a == execReq[e].approval IN
      /\ execPc[e] \in {"begin", "claim", "dispatch", "await", "finalize"} =>
           execSeen[e].status = "Approved"
      /\ execPc[e] \notin {"idle", "done", "dead"} /\ execSeen[e].status = "Approved" =>
           /\ approvals'[a].status \notin {"Absent", "Pending"}
           /\ approvals'[a].requestedBy = execSeen[e].requestedBy
           /\ approvals'[a].decidedBy = execSeen[e].decidedBy
           /\ execSeen[e].decidedBy # execReq[e].user
      /\ call[e] # "none" =>
           /\ approvals'[a].status \notin {"Absent", "Pending"}
           /\ approvals'[a].decidedBy # execReq[e].user
    BY DEF ExecutorKnowsDecision, Settled
  <2>1. execPc[e] # "idle" \/ call[e] # "none" => execReq[e].approval \in Approvals
    BY DEF RequestsFilled, KeyHeld
  <2> QED BY <2>1 DEF ExecutorKnowsDecision, Advance, Settled
<1> QED BY <1>1, <1>2, <1>3, <1>4

(* A new approval is pending, under an id that had none.                   *)
LEMMA RequestAdvances ==
  ASSUME IndInv, NEW a \in Approvals, NEW u, NEW p, approvals[a].status = "Absent",
         SaveApproval(a, PendingApproval(u, p))
  PROVE  Advance /\ ClaimsKept /\ SettledByOther'
  BY DEF IndInv, GovernedTypeOK, StoreTypeOK, SaveApproval, PendingApproval, Advance,
     ClaimsKept, SettledByOther, Settled

(* A step that writes no approval disturbs none.                           *)
LEMMA NoWriteAdvances ==
  ASSUME IndInv, UNCHANGED approvals
  PROVE  Advance /\ ClaimsKept /\ SettledByOther'
  BY DEF IndInv, Advance, ClaimsKept, SettledByOther, Settled

(* createApproval and proposeAgentAction only add pending approvals, and keep*)
(* the invariant.                                                          *)
LEMMA RequestInv ==
  ASSUME IndInv,
         \/ CreateNext /\ UNCHANGED <<proposeVars, submitVars, executeVars>>
         \/ ProposeNext /\ UNCHANGED <<createVars, submitVars, executeVars>>
  PROVE  IndInv'
<1>1. GovernedTypeOK'
  BY CreateType, ProposeType DEF IndInv
<1>2. UNCHANGED <<submitVars, executeVars>>
  OBVIOUS
<1>3. Advance /\ ClaimsKept /\ SettledByOther'
  <2>1. CASE UNCHANGED approvals
    BY <2>1, NoWriteAdvances
  <2>2. CASE \E a \in Approvals : \E u, p :
               approvals[a].status = "Absent" /\ SaveApproval(a, PendingApproval(u, p))
    BY <2>2, RequestAdvances
  <2>3. \/ UNCHANGED approvals
        \/ \E a \in Approvals : \E u, p :
             approvals[a].status = "Absent" /\ SaveApproval(a, PendingApproval(u, p))
    BY DEF CreateNext, CreateStep, CreateLookup, CreateSave, CreatePublish, CreateEvidence,
       CreateCache, CreateFault, ProposeNext, ProposeStep, ProposeLookup, ProposeEvidence,
       ProposePublish, ProposeApproval, ProposeSave, ProposeSaveFails, ProposeRace,
       ProposeFault, storeVars
  <2> QED BY <2>1, <2>2, <2>3
<1>4. RequestsFilled'
  BY <1>2 DEF IndInv, RequestsFilled, submitVars, executeVars
<1> QED
  BY <1>1, <1>2, <1>3, <1>4, SubmittersKept, ExecutorsKept DEF IndInv

-----------------------------------------------------------------------------

(* submitApproval: the decision claim is written over a pending approval,  *)
(* by someone else than its requester.                                     *)
LEMMA PersistAdvances ==
  ASSUME IndInv, NEW s \in Submitters, SubmitPersist(s)
  PROVE  Advance /\ ClaimsKept /\ SettledByOther'
<1> DEFINE a == subReq[s].approval
<1>1. /\ a \in Approvals /\ subReq[s].user \in Users /\ subReq[s].decision \in HumanDecision
      /\ subReq[s].user # subSeen[s].requestedBy
      /\ approvals[a].requestedBy = subSeen[s].requestedBy
  BY DEF SubmitPersist, IndInv, RequestsFilled, SubmitterKnowsRequester
<1>2. CASE UNCHANGED approvals
  BY <1>2, NoWriteAdvances
<1>3. CASE SaveApprovalIfStatus(a, "Pending", DecidedApproval(s))
  <2>1. /\ DecidedApproval(s).status \in HumanDecision
        /\ DecidedApproval(s).decidedBy = subReq[s].user
        /\ DecidedApproval(s).requestedBy = subSeen[s].requestedBy
    BY <1>1 DEF DecidedApproval, IndInv, GovernedTypeOK, SubmitTypeOK, ApprovalRecord
  <2>2. approvals[a].status = "Pending" /\ approvals' = [approvals EXCEPT ![a] = DecidedApproval(s)]
    BY <1>3 DEF SaveApprovalIfStatus, SaveApproval
  <2> HIDE DEF a
  <2> QED
    BY <1>1, <2>1, <2>2 DEF IndInv, GovernedTypeOK, StoreTypeOK, Advance, ClaimsKept,
       SettledByOther, Settled, HumanDecision, a
<1> QED BY <1>2, <1>3 DEF SubmitPersist

(* One submitter moves: its request is filled in when it is entered, and   *)
(* it and the others still know who asked.                                 *)
LEMMA SubmitterFills ==
  ASSUME GovernedTypeOK, RequestsFilled, NEW s \in Submitters, SubmitStep(s) \/ SubmitFault(s),
         UNCHANGED executeVars
  PROVE  RequestsFilled'
<1> USE DEF GovernedTypeOK, SubmitTypeOK, RequestsFilled, executeVars, SubmitGoto,
     SubmitDone
<1>1. CASE SubmitLoad(s)
  BY <1>1 DEF SubmitLoad
<1>2. CASE ~SubmitLoad(s)
  <2>1. subReq' = subReq /\ subPc[s] # "idle" /\ \A t \in Submitters \ {s} : subPc'[t] = subPc[t]
    BY <1>2 DEF SubmitStep, SubmitLookup, SubmitRecache, SubmitLink, SubmitLinkById,
       SubmitGuards, SubmitPersist, SubmitPublish, SubmitEvidence, SubmitCache, SubmitFault
  <2> QED BY <2>1
<1> QED BY <1>1, <1>2

(* The guards of submitApproval on its own copy of the approval mean what  *)
(* they say of the stored one, as far as the requester goes.               *)
LEMMA SubmitterLearns ==
  ASSUME IndInv, Advance, NEW s \in Submitters, SubmitStep(s) \/ SubmitFault(s)
  PROVE  SubmitterKnowsRequester'
<1> DEFINE Knows(t) ==
      /\ subPc[t] \in {"lookup", "link", "linkById", "persist"} =>
           /\ approvals[subReq[t].approval].status # "Absent"
           /\ approvals[subReq[t].approval].requestedBy = subSeen[t].requestedBy
      /\ subPc[t] = "persist" => subReq[t].user # subSeen[t].requestedBy
<1>1. SUFFICES \A t \in Submitters : Knows(t)'
  BY DEF SubmitterKnowsRequester
<1>2. \A t \in Submitters : Knows(t)
  BY DEF IndInv, SubmitterKnowsRequester
<1>3. \A t \in Submitters : subPc[t] # "idle" => subReq[t].approval \in Approvals
  BY DEF IndInv, RequestsFilled
<1> USE DEF IndInv, GovernedTypeOK, SubmitTypeOK, Advance, SubmitGoto, SubmitDone
<1>4. CASE SubmitLoad(s)
  BY <1>2, <1>3, <1>4 DEF SubmitLoad, storeVars
<1>5. CASE ~SubmitLoad(s)
  <2>1. /\ subReq' = subReq /\ subSeen' = subSeen /\ subPc[s] # "idle"
        /\ \A t \in Submitters \ {s} : subPc'[t] = subPc[t]
        /\ subPc'[s] \in {"lookup", "link", "linkById", "persist"} =>
             subPc[s] \in {"lookup", "link", "linkById", "persist"}
        /\ subPc'[s] = "persist" => subReq[s].user # subSeen[s].requestedBy
    BY <1>5 DEF SubmitStep, SubmitLookup, SubmitRecache, SubmitLink, SubmitLinkById,
       SubmitGuards, SubmitPersist, SubmitPublish, SubmitEvidence, SubmitCache, SubmitFault
  <2> QED BY <1>2, <1>3, <2>1
<1> QED BY <1>4, <1>5

(* A step of submitApproval keeps the invariant.                           *)
LEMMA SubmitInv ==
  ASSUME IndInv, SubmitNext, UNCHANGED <<createVars, proposeVars, executeVars>>
  PROVE  IndInv'
<1>1. PICK s \in Submitters : SubmitStep(s) \/ SubmitFault(s)
  BY DEF SubmitNext
<1>2. GovernedTypeOK'
  BY SubmitType DEF IndInv
<1>3. Advance /\ ClaimsKept /\ SettledByOther'
  <2>1. CASE SubmitPersist(s)
    BY <2>1, PersistAdvances
  <2>2. CASE ~SubmitPersist(s)
    <3>1. UNCHANGED approvals
      BY <1>1, <2>2 DEF SubmitStep, SubmitLoad, SubmitLookup, SubmitRecache, SubmitLink,
         SubmitLinkById, SubmitPublish, SubmitEvidence, SubmitCache, SubmitFault, storeVars
    <3> QED BY <3>1, NoWriteAdvances
  <2> QED BY <2>1, <2>2
<1>4. RequestsFilled' /\ SubmitterKnowsRequester'
  BY <1>1, <1>3, SubmitterFills, SubmitterLearns DEF IndInv
<1> QED
  BY <1>2, <1>3, <1>4, ExecutorsKept DEF IndInv

-----------------------------------------------------------------------------

(* executeApprovedAgentAction and the execution plane.                     *)

ExecutorMoves(e) ==
  ExecStep(e) \/ RunnerStep(e) \/ ExecClaimThrows(e) \/ ExecFault(e)

(* What is written is the approval as loaded, with its decision intact.    *)
LEMMA ExecutorAdvances ==
  ASSUME IndInv, NEW e \in Executors, ExecutorMoves(e)
  PROVE  Advance /\ SettledByOther'
<1> DEFINE a == execReq[e].approval
<1>1. CASE UNCHANGED approvals
  BY <1>1, NoWriteAdvances
<1>2. CASE ExecClaim(e) \/ ExecClaimThrows(e) \/ ExecFinalize(e)
  <2>1. /\ a \in Approvals /\ Settled(a)
        /\ approvals[a].requestedBy = execSeen[e].requestedBy
        /\ approvals[a].decidedBy = execSeen[e].decidedBy
        /\ execSeen[e].status = "Approved"
    BY <1>2 DEF ExecClaim, ExecClaimThrows, ExecFinalize, IndInv, RequestsFilled,
       ExecutorKnowsDecision
  <2>2. execSeen[e] \in ApprovalRecord
    BY DEF IndInv, GovernedTypeOK, ExecuteTypeOK
  <2>3. \A r \in {ClaimedApproval(e), FinalApproval(e)} :
          /\ r.status \in {"Approved", "Executing", "Executed"}
          /\ r.requestedBy = execSeen[e].requestedBy
          /\ r.decidedBy = execSeen[e].decidedBy
    BY <2>1, <2>2 DEF ClaimedApproval, FinalApproval, ApprovalRecord
  <2>4. UNCHANGED approvals \/ \E r \in {ClaimedApproval(e), FinalApproval(e)} :
          approvals' = [approvals EXCEPT ![a] = r]
    BY <1>2 DEF ExecClaim, ExecClaimThrows, ExecFinalize, SaveApprovalIfStatus,
       SaveApproval
  <2>5. CASE \E r \in {ClaimedApproval(e), FinalApproval(e)} :
          approvals' = [approvals EXCEPT ![a] = r]
    <3> HIDE DEF a
    <3> QED
      BY <2>1, <2>3, <2>5 DEF IndInv, GovernedTypeOK, StoreTypeOK, Advance,
         SettledByOther, Settled
  <2> QED BY <2>4, <2>5, NoWriteAdvances
<1>3. CASE ~(ExecClaim(e) \/ ExecClaimThrows(e) \/ ExecFinalize(e))
  <2>1. UNCHANGED approvals
    BY <1>3 DEF ExecutorMoves, ExecStep, ExecLoad, ExecBind, ExecLookup, ExecBegin,
       ExecRelease, ExecDispatch, ExecResult, ExecPublish, ExecEvidence, ExecComplete,
       RunnerStep, RunnerPerform, RunnerRefuse, ExecFault, storeVars
  <2> QED BY <2>1, NoWriteAdvances
<1> QED BY <1>2, <1>3

(* The executors other than the one that moves stay where they are.        *)
LEMMA OneExecutorMoves ==
  ASSUME GovernedTypeOK, NEW e \in Executors, ExecutorMoves(e)
  PROVE  \A f \in Executors \ {e} :
           /\ execPc'[f] = execPc[f] /\ execReq'[f] = execReq[f]
           /\ execSeen'[f] = execSeen[f] /\ call'[f] = call[f]
           /\ outcome'[f] = outcome[f]
  BY DEF GovernedTypeOK, ExecuteTypeOK, ExecutorMoves, ExecStep, ExecLoad,
     ExecBind, ExecLookup, ReservationAnswers, ExecBegin, ExecClaim, ExecClaimThrows,
     ExecRelease, ExecDispatch, ExecResult, ExecFinalize, ExecPublish, ExecEvidence,
     ExecComplete, RunnerStep, RunnerPerform, RunnerRefuse, ExecFault, ExecGoto, ExecDone

(* The same, under the inductive invariant.                                *)
LEMMA OthersStay ==
  ASSUME IndInv, NEW e \in Executors, ExecutorMoves(e)
  PROVE  \A f \in Executors \ {e} :
           /\ execPc'[f] = execPc[f] /\ execReq'[f] = execReq[f]
           /\ execSeen'[f] = execSeen[f] /\ call'[f] = call[f]
           /\ outcome'[f] = outcome[f]
  BY OneExecutorMoves DEF IndInv

(* A request to execute is filled in when it is entered, and kept.         *)
LEMMA ExecutorFills ==
  ASSUME GovernedTypeOK, RequestsFilled, NEW e \in Executors, ExecutorMoves(e),
         UNCHANGED submitVars
  PROVE  RequestsFilled'
<1>1. CASE ExecLoad(e)
  BY <1>1 DEF ExecLoad, ExecGoto, ExecDone, RequestsFilled, GovernedTypeOK,
     ExecuteTypeOK, DispatchKeys, submitVars
<1>2. CASE ~ExecLoad(e)
  <2>1. execReq' = execReq
    BY <1>2 DEF ExecutorMoves, ExecStep, ExecBind, ExecLookup, ExecBegin, ExecClaim,
       ExecClaimThrows, ExecRelease, ExecDispatch, ExecResult, ExecFinalize,
       ExecPublish, ExecEvidence, ExecComplete, RunnerStep, RunnerPerform,
       RunnerRefuse, ExecFault
  <2>2. execPc[e] = "idle" => execPc'[e] = "idle"
    BY <1>2 DEF ExecutorMoves, ExecStep, ExecBind, ExecLookup, ExecBegin, ExecClaim,
       ExecClaimThrows, ExecRelease, ExecDispatch, ExecResult, ExecFinalize,
       ExecPublish, ExecEvidence, ExecComplete, RunnerStep, RunnerPerform,
       RunnerRefuse, ExecFault
  <2> QED BY <2>1, <2>2, OneExecutorMoves DEF RequestsFilled, submitVars
<1> QED BY <1>1, <1>2

(* Reservations.  KeyOf(e) spells out what e relies on.                    *)
KeyOf(e) ==
  /\ execPc[e] \in {"idle", "bind", "lookup", "begin", "claim", "release", "dispatch"}
       => call[e] = "none"
  /\ execPc[e] \in HoldingPc =>
       /\ reservations[execReq[e].key].status = "InProgress"
       /\ reservations[execReq[e].key].fingerprint = FingerprintOf(e)
       /\ \A f \in Executors \ {e} : execReq[f].key = execReq[e].key =>
            execPc[f] \notin HoldingPc /\ call[f] = "none"
  /\ call[e] # "none" =>
       reservations[execReq[e].key].status \in {"InProgress", "Completed"}

(* A step that leaves the reservations alone, makes no new holder and      *)
(* dispatches only from dispatch.                                          *)
Quiet(e) ==
  /\ UNCHANGED reservations
  /\ execPc'[e] \in HoldingPc => execPc[e] \in HoldingPc
  /\ execPc'[e] \in {"idle", "bind", "lookup", "begin", "claim", "release", "dispatch"}
       => call'[e] = "none"
  /\ call'[e] # "none" => call[e] # "none" \/ execPc[e] = "dispatch"

(* Only the entry of a request writes execReq.                             *)
LEMMA RequestKept ==
  ASSUME NEW e \in Executors, ExecutorMoves(e), ~ExecLoad(e)
  PROVE  execReq' = execReq
  BY DEF ExecutorMoves, ExecStep, ExecBind, ExecLookup, ExecBegin, ExecClaim,
     ExecClaimThrows, ExecRelease, ExecDispatch, ExecResult, ExecFinalize,
     ExecPublish, ExecEvidence, ExecComplete, RunnerStep, RunnerPerform,
     RunnerRefuse, ExecFault

(* What the reservations rest on, whatever becomes of the approvals.       *)
KeysInv == GovernedTypeOK /\ RequestsFilled /\ KeyHeld /\ DispatchOncePerKey

(* A quiet step keeps held keys held.                                      *)
LEMMA KeyHeldWithoutWrite ==
  ASSUME KeysInv, NEW e \in Executors, ExecutorMoves(e), ~ExecLoad(e), Quiet(e)
  PROVE  \A f \in Executors : KeyOf(f)'
<1>1. execReq' = execReq
  BY RequestKept
<1>2. \A f \in Executors : KeyOf(f)
  BY DEF KeysInv, KeyHeld, KeyOf
<1>3. KeyOf(e)'
  BY <1>1, <1>2, OneExecutorMoves DEF KeysInv, KeyOf, Quiet, FingerprintOf, HoldingPc
<1>4. ASSUME NEW f \in Executors \ {e} PROVE KeyOf(f)'
  BY <1>1, <1>2, <1>4, OneExecutorMoves DEF KeysInv, KeyOf, Quiet, FingerprintOf, HoldingPc
<1> QED BY <1>3, <1>4

(* Every step is quiet but the entry of a request, a reservation that is   *)
(* begun, one that is released and one that is completed.                  *)
LEMMA MostStepsQuiet ==
  ASSUME KeysInv, NEW e \in Executors, ExecutorMoves(e), ~ExecLoad(e),
         ~(ExecBegin(e) /\ execPc'[e] = "claim"), ~ExecRelease(e), ~ExecComplete(e)
  PROVE  Quiet(e)
<1>1. /\ execPc \in [Executors -> ExecutePc]
      /\ call \in [Executors -> {"none", "sent", "performed", "refused"}]
  BY DEF KeysInv, GovernedTypeOK, ExecuteTypeOK
<1>2. KeyOf(e)
  BY DEF KeysInv, KeyHeld, KeyOf
<1>3. CASE ExecBind(e) \/ ExecLookup(e)
  BY <1>1, <1>2, <1>3 DEF ExecBind, ExecLookup, ReservationAnswers, ExecGoto, ExecDone,
     Quiet, KeyOf, HoldingPc
<1>4. CASE ExecBegin(e)
  BY <1>1, <1>2, <1>4 DEF ExecBegin, ReservationAnswers, ExecGoto, ExecDone, Quiet,
     KeyOf, HoldingPc
<1>5. CASE ExecClaim(e) \/ ExecClaimThrows(e) \/ ExecDispatch(e) \/ ExecResult(e)
  BY <1>1, <1>2, <1>5 DEF ExecClaim, ExecClaimThrows, ExecDispatch, ExecResult, ExecGoto,
     Quiet, KeyOf, HoldingPc
<1>6. CASE ExecFinalize(e) \/ ExecPublish(e) \/ ExecEvidence(e)
  BY <1>1, <1>2, <1>6 DEF ExecFinalize, ExecPublish, ExecEvidence, ExecGoto, ExecDone,
     Quiet, KeyOf, HoldingPc
<1>7. CASE RunnerStep(e) \/ ExecFault(e)
  BY <1>1, <1>2, <1>7 DEF RunnerStep, RunnerPerform, RunnerRefuse, ExecFault, ExecGoto,
     Quiet, KeyOf, HoldingPc
<1> QED BY <1>3, <1>4, <1>5, <1>6, <1>7 DEF ExecutorMoves, ExecStep

(* Whatever an executor does, keys that are held stay held by one.         *)
LEMMA ExecutorHolds ==
  ASSUME KeysInv, NEW e \in Executors, ExecutorMoves(e)
  PROVE  KeyHeld'
<1> DEFINE key == execReq[e].key
<1>1. \A f \in Executors : KeyOf(f)
  BY DEF KeysInv, KeyHeld, KeyOf
<1>2. /\ execPc[e] # "idle" => key \in DispatchKeys
      /\ \A f \in Executors : execPc[f] \in HoldingPc \/ call[f] # "none" =>
           execReq[f].key \in DispatchKeys
  BY <1>1 DEF KeysInv, RequestsFilled, KeyOf, HoldingPc
<1>3. /\ execPc \in [Executors -> ExecutePc] /\ reservations \in [DispatchKeys -> Reservation]
      /\ call \in [Executors -> {"none", "sent", "performed", "refused"}]
      /\ execReq \in [Executors -> ExecuteRequest]
  BY DEF KeysInv, GovernedTypeOK, ExecuteTypeOK
<1>4. SUFFICES \A f \in Executors : KeyOf(f)'
  BY DEF KeyHeld, KeyOf
<1>5. CASE ExecLoad(e)
  <2>1. execPc[e] = "idle" /\ execPc'[e] \in {"done", "bind"}
        /\ UNCHANGED <<call, reservations>>
    BY <1>3, <1>5 DEF ExecLoad, ExecGoto, ExecDone
  <2>2. call[e] = "none"
    BY <1>1, <2>1 DEF KeyOf
  <2>3. KeyOf(e)'
    BY <2>1, <2>2 DEF KeyOf, HoldingPc
  <2>4. ASSUME NEW f \in Executors \ {e} PROVE KeyOf(f)'
    BY <1>1, <2>1, <2>2, OneExecutorMoves DEF KeysInv, KeyOf, HoldingPc, FingerprintOf
  <2> QED BY <2>3, <2>4
<1>6. CASE ExecBegin(e) /\ execPc'[e] = "claim"
  <2>1. /\ reservations[key].status \in {"None", "Released"}
        /\ reservations' = [reservations EXCEPT ![key] =
             [status |-> "InProgress", fingerprint |-> FingerprintOf(e), result |-> "None"]]
        /\ execPc[e] = "begin" /\ UNCHANGED <<call, execReq>>
    BY <1>3, <1>6 DEF ExecBegin, ReservationAnswers, ExecDone, ExecGoto
  <2>2. call[e] = "none"
    BY <1>1, <2>1 DEF KeyOf
  <2>3. \A f \in Executors : execReq[f].key = key =>
          execPc[f] \notin HoldingPc /\ call[f] = "none"
    BY <1>1, <2>1 DEF KeyOf
  <2>4. KeyOf(e)'
    BY <1>2, <1>3, <1>6, <2>1, <2>2, <2>3, OneExecutorMoves DEF KeysInv, KeyOf, HoldingPc, FingerprintOf
  <2>5. ASSUME NEW f \in Executors \ {e} PROVE KeyOf(f)'
    BY <1>1, <1>2, <1>3, <1>6, <2>1, <2>2, <2>3, OneExecutorMoves DEF KeysInv, KeyOf, HoldingPc, FingerprintOf
  <2> QED BY <2>4, <2>5
<1>7. CASE ExecRelease(e) \/ ExecComplete(e)
  <2>1. /\ execPc[e] \in {"release", "complete"} /\ execPc'[e] = "done"
        /\ UNCHANGED <<call, execReq>>
        /\ \A k \in DispatchKeys \ {key} : reservations'[k] = reservations[k]
        /\ \A k \in DispatchKeys : reservations'[k].fingerprint = reservations[k].fingerprint
        /\ execPc[e] = "complete" =>
             reservations'[key].status \in {reservations[key].status, "Completed"}
    BY <1>2, <1>3, <1>7 DEF ExecRelease, ExecComplete, ExecDone, Reservation
  <2>2. /\ execPc[e] = "release" => call[e] = "none"
        /\ \A f \in Executors \ {e} : execReq[f].key = key =>
             execPc[f] \notin HoldingPc /\ call[f] = "none"
    BY <1>1, <2>1 DEF KeyOf, HoldingPc
  <2>3. KeyOf(e)'
    BY <1>1, <2>1, <2>2 DEF KeyOf, HoldingPc
  <2>4. ASSUME NEW f \in Executors \ {e} PROVE KeyOf(f)'
    BY <1>1, <1>2, <2>1, <2>2, OneExecutorMoves DEF KeysInv, KeyOf, HoldingPc, FingerprintOf
  <2> QED BY <2>3, <2>4
<1>8. CASE /\ ~ExecLoad(e) /\ ~ExecRelease(e) /\ ~ExecComplete(e)
           /\ ~(ExecBegin(e) /\ execPc'[e] = "claim")
  <2>1. ~ExecLoad(e) /\ Quiet(e)
    BY <1>8, MostStepsQuiet
  <2> QED BY <2>1, KeyHeldWithoutWrite
<1> QED BY <1>5, <1>6, <1>7, <1>8

(* Only ExecDispatch makes a call, and nobody else ever called under the   *)
(* key it holds.                                                           *)
LEMMA ExecutorDispatchesOnce ==
  ASSUME KeysInv, NEW e \in Executors, ExecutorMoves(e)
  PROVE  DispatchOncePerKey'
<1>1. CASE ExecDispatch(e)
  <2>1. execPc[e] = "dispatch" /\ UNCHANGED execReq
    BY <1>1 DEF ExecDispatch
  <2>2. \A f \in Executors \ {e} : execReq[f].key = execReq[e].key => call[f] = "none"
    BY <2>1 DEF KeysInv, KeyHeld, HoldingPc
  <2> QED BY <2>1, <2>2, OneExecutorMoves DEF KeysInv, DispatchOncePerKey, DispatchedUnder
<1>2. CASE ExecLoad(e)
  <2>1. call' = call /\ call[e] = "none"
    BY <1>2 DEF ExecLoad, KeysInv, KeyHeld
  <2> QED BY <2>1, OneExecutorMoves DEF KeysInv, DispatchOncePerKey, DispatchedUnder
<1>3. CASE ~ExecDispatch(e) /\ ~ExecLoad(e)
  <2>1. execReq' = execReq
    BY <1>3, RequestKept
  <2>2. call'[e] # "none" => call[e] # "none"
    BY <1>3 DEF ExecutorMoves, ExecStep, ExecBind, ExecLookup, ExecBegin, ExecClaim,
       ExecClaimThrows, ExecRelease, ExecResult, ExecFinalize, ExecPublish, ExecEvidence,
       ExecComplete, RunnerStep, RunnerPerform, RunnerRefuse, ExecFault
  <2> QED BY <2>1, <2>2, OneExecutorMoves DEF KeysInv, DispatchOncePerKey, DispatchedUnder
<1> QED BY <1>1, <1>2, <1>3

(* The claim is granted while the approval is Approved, and so while it    *)
(* has no claimant; only its claimant takes it out of Executing.           *)
LEMMA ExecutorClaimsAlone ==
  ASSUME IndInv, NEW e \in Executors, ExecutorMoves(e)
  PROVE  SingleClaim'
<1>1. /\ execPc \in [Executors -> ExecutePc]
      /\ approvals \in [Approvals -> ApprovalRecord]
  BY DEF IndInv, GovernedTypeOK, ExecuteTypeOK, StoreTypeOK
<1>2. CASE execPc'[e] \notin {"dispatch", "await", "finalize"} /\ approvals' = approvals
  <2>1. \A b \in Approvals : Claimants(b)' \subseteq Claimants(b)
    BY <1>2, OthersStay DEF Claimants
  <2> QED BY <1>2, <2>1 DEF IndInv, SingleClaim
<1>3. CASE /\ execPc[e] \in {"dispatch", "await", "finalize"}
           /\ approvals' = approvals /\ execReq' = execReq
  <2>1. \A b \in Approvals : Claimants(b)' \subseteq Claimants(b)
    BY <1>3, OthersStay DEF Claimants
  <2> QED BY <1>3, <2>1 DEF IndInv, SingleClaim
<1>4. CASE ExecClaim(e) /\ approvals' # approvals
  <2>1. PICK a \in Approvals :
        /\ a = execReq[e].approval /\ approvals[a].status = "Approved" /\ UNCHANGED execReq
        /\ approvals' = [approvals EXCEPT ![a] = ClaimedApproval(e)]
    BY <1>4 DEF ExecClaim, SaveApprovalIfStatus, SaveApproval, IndInv, RequestsFilled
  <2>2. approvals'[a].status = "Executing"
    BY <1>1, <2>1 DEF ClaimedApproval, IndInv, GovernedTypeOK, ExecuteTypeOK, ApprovalRecord
  <2>3. Claimants(a) = {}
    BY <2>1 DEF IndInv, SingleClaim
  <2>4. Claimants(a)' \subseteq {e}
    BY <2>1, <2>3, OthersStay DEF Claimants
  <2>5. \A b \in Approvals \ {a} : Claimants(b)' \subseteq Claimants(b)
    BY <2>1, OthersStay DEF Claimants
  <2>6. \A b \in Approvals \ {a} : approvals'[b] = approvals[b]
    BY <1>1, <2>1
  <2> QED BY <2>2, <2>4, <2>5, <2>6 DEF IndInv, SingleClaim
<1>5. CASE ExecFinalize(e) /\ approvals' # approvals
  <2>1. PICK a \in Approvals :
        /\ a = execReq[e].approval /\ execPc[e] = "finalize" /\ execPc'[e] = "publish"
        /\ approvals' = [approvals EXCEPT ![a] = FinalApproval(e)] /\ UNCHANGED execReq
    BY <1>1, <1>5 DEF ExecFinalize, ExecGoto, SaveApprovalIfStatus, SaveApproval, IndInv,
       RequestsFilled
  <2>2. Claimants(a) \subseteq {e}
    BY <2>1 DEF IndInv, SingleClaim, Claimants
  <2>3. Claimants(a)' = {}
    BY <2>1, <2>2, OthersStay DEF Claimants
  <2>4. \A b \in Approvals \ {a} : Claimants(b)' \subseteq Claimants(b)
    BY <2>1, OthersStay DEF Claimants
  <2>5. \A b \in Approvals \ {a} : approvals'[b] = approvals[b]
    BY <1>1, <2>1
  <2> QED BY <2>3, <2>4, <2>5 DEF IndInv, SingleClaim
<1>6. CASE ExecClaimThrows(e) /\ approvals' # approvals
  <2>1. PICK a \in Approvals :
        /\ a = execReq[e].approval /\ approvals[a].status = "Approved" /\ UNCHANGED execReq
        /\ execPc'[e] = "release"
        /\ approvals' = [approvals EXCEPT ![a] = ClaimedApproval(e)]
    BY <1>1, <1>6 DEF ExecClaimThrows, ExecGoto, SaveApprovalIfStatus, SaveApproval,
       IndInv, RequestsFilled
  <2>2. \A b \in Approvals : Claimants(b)' \subseteq Claimants(b)
    BY <2>1, OthersStay DEF Claimants
  <2>3. Claimants(a) = {} /\ \A b \in Approvals \ {a} : approvals'[b] = approvals[b]
    BY <1>1, <2>1 DEF IndInv, SingleClaim
  <2> QED BY <2>2, <2>3 DEF IndInv, SingleClaim
<1>7. CASE ExecDispatch(e) \/ ExecResult(e)
  BY <1>3, <1>7 DEF ExecDispatch, ExecResult, storeVars
<1>8. CASE \/ ExecLoad(e) \/ ExecBind(e) \/ ExecLookup(e) \/ ExecBegin(e) \/ ExecRelease(e)
           \/ ExecPublish(e) \/ ExecEvidence(e) \/ ExecComplete(e) \/ ExecFault(e)
  <2>1. execPc'[e] \notin {"dispatch", "await", "finalize"} /\ approvals' = approvals
    BY <1>1, <1>8 DEF ExecLoad, ExecBind, ExecLookup, ReservationAnswers, ExecBegin,
       ExecRelease, ExecPublish, ExecEvidence, ExecComplete, ExecFault, ExecGoto, ExecDone,
       storeVars
  <2> QED BY <1>2, <2>1
<1>9. CASE ExecClaim(e) /\ approvals' = approvals
  <2>1. CASE execPc'[e] = "release"
    BY <1>2, <1>9, <2>1
  <2>2. CASE execPc'[e] # "release"
    <3>1. PICK a \in Approvals : approvals[a].status = "Approved"
                               /\ approvals' = [approvals EXCEPT ![a] = ClaimedApproval(e)]
      BY <1>1, <1>9, <2>2 DEF ExecClaim, ExecGoto, SaveApprovalIfStatus, SaveApproval, IndInv,
         RequestsFilled
    <3>2. approvals'[a].status = "Executing"
      BY <1>1, <3>1 DEF ClaimedApproval, IndInv, GovernedTypeOK, ExecuteTypeOK, ApprovalRecord
    <3> QED BY <1>9, <3>1, <3>2
  <2> QED BY <2>1, <2>2
<1>10. CASE (ExecClaimThrows(e) \/ ExecFinalize(e)) /\ approvals' = approvals
  <2>1. execPc'[e] \notin {"dispatch", "await", "finalize"}
    BY <1>1, <1>10 DEF ExecClaimThrows, ExecFinalize, ExecGoto, ExecDone
  <2> QED BY <1>2, <1>10, <2>1
<1>11. CASE RunnerStep(e)
  <2>1. execPc' = execPc /\ execReq' = execReq /\ approvals' = approvals
    BY <1>11 DEF RunnerStep, RunnerPerform, RunnerRefuse, storeVars
  <2> QED BY <2>1 DEF IndInv, SingleClaim, Claimants
<1> QED
  BY <1>4, <1>5, <1>6, <1>7, <1>8, <1>9, <1>10, <1>11 DEF ExecutorMoves, ExecStep

(* What the executor e, loaded with an approved approval, knows of it.     *)
KnowsDecision(e) ==
  LET a == execReq[e].approval IN
  /\ execPc[e] \in {"begin", "claim", "dispatch", "await", "finalize"} =>
       execSeen[e].status = "Approved"
  /\ execPc[e] \notin {"idle", "done", "dead"} /\ execSeen[e].status = "Approved" =>
       /\ Settled(a)
       /\ approvals[a].requestedBy = execSeen[e].requestedBy
       /\ approvals[a].decidedBy = execSeen[e].decidedBy
       /\ execSeen[e].decidedBy # execReq[e].user
  /\ call[e] # "none" => Settled(a) /\ approvals[a].decidedBy # execReq[e].user

(* The guards on the approval as loaded keep their meaning: the decision   *)
(* it carries is that of the stored approval until the outcome is written. *)
LEMMA ExecutorLearns ==
  ASSUME IndInv, Advance, NEW e \in Executors, ExecutorMoves(e)
  PROVE  ExecutorKnowsDecision'
<1>1. SUFFICES \A f \in Executors : KnowsDecision(f)'
  BY DEF ExecutorKnowsDecision, KnowsDecision
<1>2. \A f \in Executors : KnowsDecision(f)
  BY DEF IndInv, ExecutorKnowsDecision, KnowsDecision
<1>3. \A f \in Executors : execPc[f] # "idle" \/ call[f] # "none" =>
        execReq[f].approval \in Approvals
  BY DEF IndInv, RequestsFilled, KeyHeld
<1>4. /\ execPc \in [Executors -> ExecutePc]
      /\ execReq \in [Executors -> ExecuteRequest]
      /\ execSeen \in [Executors -> ApprovalRecord]
      /\ call \in [Executors -> {"none", "sent", "performed", "refused"}]
  BY DEF IndInv, GovernedTypeOK, ExecuteTypeOK
<1>5. ASSUME NEW f \in Executors \ {e} PROVE KnowsDecision(f)'
  BY <1>2, <1>3, <1>5, OthersStay DEF KnowsDecision, Advance, Settled
<1>6. KnowsDecision(e)'
  <2>1. CASE ExecLoad(e)
    <3>1. call'[e] = "none"
      BY <2>1 DEF ExecLoad, IndInv, KeyHeld
    <3>2. CASE execPc'[e] = "done"
      BY <3>1, <3>2 DEF KnowsDecision
    <3>3. CASE execPc'[e] # "done"
      <4>1. PICK u \in Users, a \in Approvals :
              /\ execReq'[e].user = u /\ execReq'[e].approval = a
              /\ execSeen'[e] = approvals[a] /\ approvals' = approvals
              /\ approvals[a].decidedBy # u /\ execPc'[e] = "bind"
        BY <1>4, <2>1, <3>3 DEF ExecLoad, ExecGoto, ExecDone, storeVars
      <4> QED BY <3>1, <4>1 DEF KnowsDecision, Settled
    <3> QED BY <3>2, <3>3
  <2>2. CASE ~ExecLoad(e)
    <3>1. execReq' = execReq
      BY <2>2, RequestKept
    <3>2. \/ execSeen' = execSeen /\ execPc[e] \notin {"idle", "done", "dead"}
          \/ UNCHANGED <<execPc, execSeen>>
      BY <2>2 DEF ExecutorMoves, ExecStep, ExecBind, ExecLookup, ExecBegin, ExecClaim,
         ExecClaimThrows, ExecRelease, ExecDispatch, ExecResult, ExecFinalize,
         ExecPublish, ExecEvidence, ExecComplete, RunnerStep, RunnerPerform,
         RunnerRefuse, ExecFault
    <3>3. call'[e] # "none" =>
            call[e] # "none" \/ execPc[e] = "dispatch"
      BY <2>2 DEF ExecutorMoves, ExecStep, ExecBind, ExecLookup, ExecBegin, ExecClaim,
         ExecClaimThrows, ExecRelease, ExecDispatch, ExecResult, ExecFinalize,
         ExecPublish, ExecEvidence, ExecComplete, RunnerStep, RunnerPerform,
         RunnerRefuse, ExecFault
    <3>4. execPc'[e] \in {"begin", "claim", "dispatch", "await", "finalize"} =>
            execSeen[e].status = "Approved"
      BY <1>2, <1>4, <2>2 DEF ExecutorMoves, ExecStep, ExecBind, ExecLookup,
         ReservationAnswers, ExecBegin, ExecClaim, ExecClaimThrows, ExecRelease,
         ExecDispatch, ExecResult, ExecFinalize, ExecPublish, ExecEvidence, ExecComplete,
         RunnerStep, RunnerPerform, RunnerRefuse, ExecFault, ExecGoto, ExecDone,
         KnowsDecision
    <3> QED BY <1>2, <1>3, <3>1, <3>2, <3>3, <3>4 DEF KnowsDecision, Advance, Settled
  <2> QED BY <2>1, <2>2
<1> QED BY <1>5, <1>6

(* A step of an executor, or of the execution plane on its call.           *)
LEMMA ExecuteInv ==
  ASSUME IndInv, ExecuteNext, UNCHANGED <<createVars, proposeVars, submitVars>>
  PROVE  IndInv'
<1>1. PICK e \in Executors : ExecutorMoves(e)
  BY DEF ExecuteNext, ExecutorMoves
<1>2. GovernedTypeOK'
  BY ExecuteType DEF IndInv
<1>3. Advance /\ SettledByOther'
  BY <1>1, ExecutorAdvances
<1>4. RequestsFilled' /\ SubmitterKnowsRequester'
  BY <1>1, <1>3, ExecutorFills, SubmittersKept DEF IndInv
<1>5. KeyHeld' /\ DispatchOncePerKey' /\ SingleClaim' /\ ExecutorKnowsDecision'
  BY <1>1, <1>3, ExecutorHolds, ExecutorDispatchesOnce, ExecutorClaimsAlone, ExecutorLearns
     DEF IndInv, KeysInv
<1> QED BY <1>2, <1>3, <1>4, <1>5 DEF IndInv

(* Every step of the four commands, and every stuttering step, keeps the   *)
(* invariant.                                                              *)
LEMMA StepInv == IndInv /\ [Next]_vars => IndInv'
<1> SUFFICES ASSUME IndInv, [Next]_vars PROVE IndInv'
  OBVIOUS
<1>1. CASE CreateNext /\ UNCHANGED <<proposeVars, submitVars, executeVars>>
  BY <1>1, RequestInv
<1>2. CASE ProposeNext /\ UNCHANGED <<createVars, submitVars, executeVars>>
  BY <1>2, RequestInv
<1>3. CASE SubmitNext /\ UNCHANGED <<createVars, proposeVars, executeVars>>
  BY <1>3, SubmitInv
<1>4. CASE ExecuteNext /\ UNCHANGED <<createVars, proposeVars, submitVars>>
  BY <1>4, ExecuteInv
<1>5. CASE UNCHANGED vars
  <2>1. UNCHANGED <<submitVars, executeVars, storeVars, createVars, proposeVars, faults>>
    BY <1>5 DEF vars
  <2>2. GovernedTypeOK'
    BY <2>1 DEF IndInv, GovernedTypeOK, StoreTypeOK, CreateTypeOK, ProposeTypeOK,
       SubmitTypeOK, ExecuteTypeOK, storeVars, createVars, proposeVars, submitVars,
       executeVars
  <2>3. Advance /\ ClaimsKept /\ SettledByOther'
    BY <2>1, NoWriteAdvances DEF storeVars
  <2>4. RequestsFilled'
    BY <2>1 DEF IndInv, RequestsFilled, submitVars, executeVars
  <2> QED BY <2>1, <2>2, <2>3, <2>4, SubmittersKept, ExecutorsKept DEF IndInv
<1> QED BY <1>1, <1>2, <1>3, <1>4, <1>5 DEF Next

-----------------------------------------------------------------------------

(* IndInv is an invariant of the four commands, for any number of requests *)
(* and principals, whatever fails and whether or not failures are          *)
(* ambiguous.                                                              *)
THEOREM Invariant == Spec => []IndInv
<1>1. Init => IndInv
  BY InitInv
<1>2. IndInv /\ [Next]_vars => IndInv'
  BY StepInv
<1> QED BY <1>1, <1>2, PTL DEF Spec

(* Every reachable state has the declared types.                           *)
THEOREM TypeCorrect == Spec => []GovernedTypeOK
<1>1. IndInv => GovernedTypeOK
  BY DEF IndInv
<1> QED BY <1>1, Invariant, PTL

(* Whatever fails, is retried or released: one dispatch per dispatch key,  *)
(* from the reservation that is taken before the claim.                    *)
THEOREM DispatchOnce == Spec => []DispatchOncePerKey
<1>1. IndInv => DispatchOncePerKey
  BY DEF IndInv
<1> QED BY <1>1, Invariant, PTL

(* The Approved -> Executing compare-and-set admits one executor per       *)
(* approval and is not lost while it executes.                             *)
THEOREM OneClaim == Spec => []SingleClaim
<1>1. IndInv => SingleClaim
  BY DEF IndInv
<1> QED BY <1>1, Invariant, PTL

(* Four eyes: what was dispatched was decided by a human who neither asked *)
(* for it nor executes it, although both guards look at stale copies.      *)
THEOREM MakerChecker == Spec => []FourEyes
<1>1. IndInv => FourEyes
  <2> SUFFICES ASSUME IndInv, NEW e \in Executors, call[e] # "none"
               PROVE  LET r == approvals[execReq[e].approval] IN
                      /\ r.decidedBy \in Users
                      /\ r.decidedBy # r.requestedBy
                      /\ r.decidedBy # execReq[e].user
    BY DEF FourEyes
  <2>1. execReq[e].approval \in Approvals
    BY DEF IndInv, RequestsFilled, KeyHeld
  <2>2. Settled(execReq[e].approval)
        /\ approvals[execReq[e].approval].decidedBy # execReq[e].user
    BY DEF IndInv, ExecutorKnowsDecision
  <2> QED BY <2>1, <2>2 DEF IndInv, SettledByOther
<1> QED BY <1>1, Invariant, PTL
=============================================================================
