---------------------------- MODULE EffectProofs ----------------------------
(***************************************************************************)
(* Theorems about what an approval buys, whatever fails, is lost or is     *)
(* answered wrongly: a completed reservation tells the truth, an approval  *)
(* is dispatched again, and handed back, only when every dispatch of it    *)
(* was reported as failed, and one in execution has a reservation that is  *)
(* still held, or was given up with nothing dispatched under it.           *)
(***************************************************************************)
EXTENDS LifecycleProofs

(* An executor writes no approval but its own, and only from three calls.  *)
LEMMA ExecutorWritesOwn ==
  ASSUME IndInv, NEW e \in Executors, ExecutorMoves(e), NEW a \in Approvals,
         approvals'[a] # approvals[a]
  PROVE  /\ a = execReq[e].approval
         /\ ExecClaim(e) \/ ExecClaimThrows(e) \/ ExecFinalize(e)
<1>1. approvals \in [Approvals -> ApprovalRecord]
  BY DEF IndInv, GovernedTypeOK, StoreTypeOK
<1>2. ExecClaim(e) \/ ExecClaimThrows(e) \/ ExecFinalize(e)
  BY DEF ExecutorMoves, ExecStep, ExecLoad, ExecBind, ExecLookup, ExecBegin,
     ExecRelease, ExecDispatch, ExecResult, ExecPublish, ExecEvidence, ExecComplete,
     RunnerStep, RunnerPerform, RunnerRefuse, ExecFault, storeVars
<1>3. CASE a # execReq[e].approval
  BY <1>1, <1>2, <1>3 DEF ExecClaim, ExecClaimThrows, ExecFinalize,
     SaveApprovalIfStatus, SaveApproval
<1> QED BY <1>2, <1>3

-----------------------------------------------------------------------------

(* What an executor knows once its call is out: an answer means that it    *)
(* called, a success that the action was performed, and once the outcome   *)
(* is written a success shows in the approval.                             *)
Outcome(e) ==
  /\ execPc[e] = "await" => call[e] # "none"
  /\ execPc[e] \in {"finalize", "publish", "evidence", "complete"} =>
       \/ outcome[e] = "ok" /\ call[e] = "performed"
       \/ outcome[e] = "failed" /\ call[e] # "none"
  /\ execPc[e] \in {"publish", "evidence", "complete"} /\ outcome[e] = "ok" =>
       approvals[execReq[e].approval].status = "Executed"

OutcomeInv == \A e \in Executors : Outcome(e)

(* The caller that a completed reservation names, and what it was told.    *)
Witness(k, e) ==
  /\ call[e] # "none" /\ execReq[e].key = k
  /\ FingerprintOf(e) = reservations[k].fingerprint
  /\ \/ /\ reservations[k].result = "Executed"
        /\ call[e] = "performed"
        /\ approvals[execReq[e].approval].status = "Executed"
     \/ /\ reservations[k].result = "Failed"
        /\ outcome[e] = "failed"

(* Every completed reservation has such an executor behind it.             *)
RecordedInv ==
  \A k \in DispatchKeys : reservations[k].status = "Completed" =>
    \E e \in Executors : Witness(k, e)

(* A step that is not e's keeps what e knows.                              *)
LEMMA OutcomeKept ==
  ASSUME IndInv, [Next]_vars, NEW e \in Executors, Outcome(e),
         execPc'[e] = execPc[e], execReq'[e] = execReq[e], outcome'[e] = outcome[e],
         call'[e] = call[e] \/ (call[e] = "sent" /\ call'[e] # "none")
  PROVE  Outcome(e)'
<1>1. execPc[e] # "idle" =>
        (approvals[execReq[e].approval].status = "Executed" =>
           approvals'[execReq[e].approval].status = "Executed")
  BY ApprovalNamed, StatusMoves DEF Moves
<1> QED BY <1>1 DEF Outcome

(* e's own steps keep what e knows.                                        *)
LEMMA OutcomeMade ==
  ASSUME IndInv, [Next]_vars, NEW e \in Executors, ExecutorMoves(e), Outcome(e)
  PROVE  Outcome(e)'
<1>1. /\ execPc \in [Executors -> ExecutePc]
      /\ outcome \in [Executors -> {"None", "ok", "failed"}]
      /\ call \in [Executors -> {"none", "sent", "performed", "refused"}]
      /\ approvals \in [Approvals -> ApprovalRecord]
      /\ execSeen[e] \in ApprovalRecord
  BY DEF IndInv, GovernedTypeOK, ExecuteTypeOK, StoreTypeOK
<1>2. CASE \/ ExecLoad(e) \/ ExecBind(e) \/ ExecLookup(e) \/ ExecBegin(e) \/ ExecClaim(e)
           \/ ExecClaimThrows(e) \/ ExecRelease(e) \/ ExecComplete(e) \/ ExecFault(e)
  <2>1. execPc'[e] \notin {"await", "finalize", "publish", "evidence", "complete"}
    BY <1>1, <1>2 DEF ExecLoad, ExecBind, ExecLookup, ReservationAnswers, ExecBegin,
       ExecClaim, ExecClaimThrows, ExecRelease, ExecComplete, ExecFault, ExecGoto, ExecDone
  <2> QED BY <2>1 DEF Outcome
<1>3. CASE ExecDispatch(e)
  BY <1>1, <1>3 DEF ExecDispatch, ExecGoto, Outcome
<1>4. CASE RunnerStep(e)
  <2>1. /\ UNCHANGED <<execPc, execReq, outcome>>
        /\ call[e] = "sent" /\ call'[e] # "none"
    BY <1>1, <1>4 DEF RunnerStep, RunnerPerform, RunnerRefuse
  <2> QED BY <2>1, OutcomeKept
<1>5. CASE ExecResult(e)
  BY <1>1, <1>5 DEF ExecResult, ExecGoto, Outcome
<1>6. CASE ExecFinalize(e)
  <2>1. CASE execPc'[e] = "done"
    BY <2>1 DEF Outcome
  <2>2. CASE execPc'[e] # "done"
    <3>1. /\ execPc[e] = "finalize" /\ execPc'[e] = "publish"
          /\ UNCHANGED <<call, outcome, execReq>>
          /\ approvals' = [approvals EXCEPT ![execReq[e].approval] = FinalApproval(e)]
      BY <1>1, <1>6, <2>2 DEF ExecFinalize, ExecGoto, ExecDone, SaveApprovalIfStatus,
         SaveApproval
    <3>2. outcome[e] = "ok" => FinalApproval(e).status = "Executed"
      BY <1>1 DEF FinalApproval, ApprovalRecord
    <3>3. execReq[e].approval \in Approvals
      BY <3>1, ApprovalNamed
    <3> QED BY <1>1, <3>1, <3>2, <3>3 DEF Outcome
  <2> QED BY <2>1, <2>2
<1>7. CASE ExecPublish(e) \/ ExecEvidence(e)
  <2>1. /\ execPc[e] \in {"publish", "evidence"} /\ execPc'[e] \in {"evidence", "complete"}
        /\ UNCHANGED <<call, outcome, execReq, approvals>>
    BY <1>1, <1>7 DEF ExecPublish, ExecEvidence, ExecGoto
  <2> QED BY <2>1 DEF Outcome
<1> QED BY <1>2, <1>3, <1>4, <1>5, <1>6, <1>7 DEF ExecutorMoves, ExecStep

(* What executors know of their calls is an invariant.                     *)
LEMMA OutcomeStep ==
  ASSUME IndInv, OutcomeInv, [Next]_vars
  PROVE  OutcomeInv'
<1>1. ASSUME NEW f \in Executors, UNCHANGED executeVars PROVE Outcome(f)'
  BY <1>1, OutcomeKept DEF OutcomeInv, executeVars
<1>2. ASSUME NEW e \in Executors, ExecutorMoves(e), NEW f \in Executors PROVE Outcome(f)'
  <2>1. CASE f = e
    BY <1>2, <2>1, OutcomeMade DEF OutcomeInv
  <2>2. CASE f # e
    <3>1. /\ execPc'[f] = execPc[f] /\ execReq'[f] = execReq[f]
          /\ call'[f] = call[f] /\ outcome'[f] = outcome[f]
      BY <1>2, <2>2, OthersStay
    <3> QED BY <3>1, OutcomeKept DEF OutcomeInv
  <2> QED BY <2>1, <2>2
<1> QED BY <1>1, <1>2, ExecutorOrNot DEF OutcomeInv

-----------------------------------------------------------------------------

(* The caller a completed reservation names keeps its request, its call    *)
(* and its outcome.                                                        *)
LEMMA WitnessKept ==
  ASSUME IndInv, [Next]_vars, NEW k \in DispatchKeys, NEW e \in Executors, Witness(k, e),
         reservations[k].status = "Completed", reservations'[k] = reservations[k]
  PROVE  Witness(k, e)'
<1>1. /\ execReq[e].approval \in Approvals /\ execPc[e] # "idle"
      /\ execPc[e] # "await"
  BY ApprovalNamed DEF Witness, IndInv, KeyHeld, HoldingPc
<1>2. approvals[execReq[e].approval].status = "Executed" =>
        approvals'[execReq[e].approval].status = "Executed"
  BY <1>1, StatusMoves DEF Moves
<1>3. CASE UNCHANGED executeVars
  BY <1>1, <1>2, <1>3 DEF Witness, FingerprintOf, executeVars
<1>4. ASSUME NEW f \in Executors, ExecutorMoves(f) PROVE Witness(k, e)'
  <2>1. CASE f # e
    <3>1. /\ execReq'[e] = execReq[e] /\ call'[e] = call[e] /\ outcome'[e] = outcome[e]
      BY <1>4, <2>1, OthersStay
    <3> QED BY <1>1, <1>2, <3>1 DEF Witness, FingerprintOf
  <2>2. CASE f = e
    <3>1. ~ExecLoad(e) /\ ~ExecDispatch(e) /\ ~ExecResult(e)
      BY <1>1 DEF Witness, ExecLoad, ExecDispatch, ExecResult, IndInv, KeyHeld
    <3>2. execReq' = execReq
      BY <1>4, <2>2, <3>1, RequestKept
    <3>3. /\ outcome' = outcome
          /\ \/ call'[e] = call[e]
             \/ call[e] = "sent" /\ call'[e] # "none"
      BY <1>4, <2>2, <3>1 DEF ExecutorMoves, ExecStep, ExecBind, ExecLookup, ExecBegin,
         ExecClaim, ExecClaimThrows, ExecRelease, ExecFinalize, ExecPublish, ExecEvidence,
         ExecComplete, RunnerStep, RunnerPerform, RunnerRefuse, ExecFault, IndInv,
         GovernedTypeOK, ExecuteTypeOK
    <3> QED BY <1>1, <1>2, <3>2, <3>3 DEF Witness, FingerprintOf
  <2> QED BY <2>1, <2>2
<1> QED BY <1>3, <1>4, ExecutorOrNot

(* A reservation becomes Completed by its holder's complete only.          *)
LEMMA CompletedByHolder ==
  ASSUME IndInv, NEW e \in Executors, ExecutorMoves(e), NEW k \in DispatchKeys,
         reservations'[k] # reservations[k], reservations'[k].status = "Completed"
  PROVE  /\ ExecComplete(e) /\ k = execReq[e].key
         /\ reservations[k].fingerprint = FingerprintOf(e)
         /\ reservations' = [reservations EXCEPT
              ![k].status = "Completed", ![k].result = Answer(e)]
<1>1. reservations \in [DispatchKeys -> Reservation]
  BY DEF IndInv, GovernedTypeOK, ExecuteTypeOK
<1>2. ExecBegin(e) \/ ExecRelease(e) \/ ExecComplete(e)
  BY DEF ExecutorMoves, ExecStep, ExecLoad, ExecBind, ExecLookup, ExecClaim,
     ExecClaimThrows, ExecDispatch, ExecResult, ExecFinalize, ExecPublish, ExecEvidence,
     RunnerStep, RunnerPerform, RunnerRefuse, ExecFault
<1>3. ~ExecBegin(e)
  BY <1>1 DEF ExecBegin
<1>4. ~ExecRelease(e)
  BY <1>1 DEF ExecRelease, Reservation
<1>5. CASE ExecComplete(e)
  BY <1>1, <1>5 DEF ExecComplete, Reservation
<1> QED BY <1>2, <1>3, <1>4, <1>5

(* A completed reservation keeps, or gets, its witness.                    *)
LEMMA RecordedStep ==
  ASSUME IndInv, OutcomeInv, RecordedInv, [Next]_vars
  PROVE  RecordedInv'
<1> SUFFICES ASSUME NEW k \in DispatchKeys, reservations'[k].status = "Completed"
             PROVE  \E e \in Executors : Witness(k, e)'
  BY DEF RecordedInv
<1>1. CASE reservations'[k] = reservations[k]
  <2>1. PICK e \in Executors : Witness(k, e)
    BY <1>1 DEF RecordedInv
  <2>2. Witness(k, e)'
    BY <1>1, <2>1, WitnessKept
  <2> QED BY <2>2
<1>2. CASE reservations'[k] # reservations[k]
  <2>1. PICK e \in Executors : ExecutorMoves(e)
    BY <1>2, ExecutorOrNot DEF executeVars
  <2>2. /\ ExecComplete(e) /\ k = execReq[e].key
        /\ reservations[k].fingerprint = FingerprintOf(e)
        /\ reservations' = [reservations EXCEPT
              ![k].status = "Completed", ![k].result = Answer(e)]
    BY <1>2, <2>1, CompletedByHolder
  <2>3. /\ execPc[e] = "complete" /\ UNCHANGED <<execReq, call, outcome, approvals>>
    BY <2>2 DEF ExecComplete, storeVars
  <2>4. /\ reservations'[k].fingerprint = reservations[k].fingerprint
        /\ reservations'[k].result = Answer(e)
    BY <2>2 DEF IndInv, GovernedTypeOK, ExecuteTypeOK, Reservation
  <2>5. Outcome(e)
    BY DEF OutcomeInv
  <2>6. Witness(k, e)'
    BY <2>2, <2>3, <2>4, <2>5 DEF Outcome, Witness, Answer, FingerprintOf
  <2> QED BY <2>6
<1> QED BY <1>1, <1>2

(* Whatever fails, a completed reservation, and so every replay of it,     *)
(* tells what became of the dispatch made under its key.                   *)
THEOREM RecordTrue == Spec => []CompletedTellsTruth
<1>1. Init => OutcomeInv /\ RecordedInv
  BY DEF Init, ExecuteInit, OutcomeInv, Outcome, RecordedInv, NoReservation
<1>2. IndInv /\ OutcomeInv /\ RecordedInv /\ [Next]_vars => OutcomeInv' /\ RecordedInv'
  BY OutcomeStep, RecordedStep
<1>3. IndInv /\ RecordedInv => CompletedTellsTruth
  <2> SUFFICES ASSUME IndInv, RecordedInv, NEW k \in DispatchKeys,
                      reservations[k].status = "Completed"
               PROVE  \E e \in DispatchedUnder(k) :
                 /\ FingerprintOf(e) = reservations[k].fingerprint
                 /\ reservations[k].result = "Executed" => call[e] = "performed"
                      /\ approvals[execReq[e].approval].status = "Executed"
                 /\ reservations[k].result = "Failed" => outcome[e] = "failed"
    BY DEF CompletedTellsTruth
  <2>1. PICK e \in Executors : Witness(k, e)
    BY DEF RecordedInv
  <2> QED BY <2>1 DEF Witness, DispatchedUnder
<1> QED BY <1>1, <1>2, <1>3, Invariant, PTL DEF Spec

-----------------------------------------------------------------------------

(* One approval, one effect.  A call that was not reported as failed keeps *)
(* its approval from being claimed again, and so from a second call.       *)

AtRisk(e) == execPc[e] \in {"dispatch", "await", "finalize"}

(* Its call was made and counts: it is not answered yet, was answered well,*)
(* or its answer was lost.  A call that was reported as failed no longer   *)
(* counts, whatever the execution plane did, or does, with it.             *)
Calling(e) == call[e] # "none" /\ outcome[e] # "failed"

(* An executor that is in nobody's way.                                    *)
Idle(e) == ~Calling(e) /\ ~AtRisk(e)

(* An executor that waits has called, and one that stopped waiting has its *)
(* answer.                                                                 *)
Answered(e) ==
  /\ execPc[e] = "await" => call[e] # "none"
  /\ execPc[e] = "finalize" => call[e] # "none" /\ outcome[e] \in {"ok", "failed"}

(* A call that counts is the only one of its approval, which is out of     *)
(* reach of another claim.                                                 *)
Sole(e) ==
  /\ Answered(e)
  /\ Calling(e) =>
       /\ approvals[execReq[e].approval].status \in {"Executing", "Executed"}
       /\ \A f \in Executors \ {e} :
            execReq[f].approval = execReq[e].approval => Idle(f)

SoleInv == \A e \in Executors : Sole(e)

(* Only its claimant takes an approval out of Executing, by writing the    *)
(* outcome.                                                                *)
LEMMA LeavesExecuting ==
  ASSUME IndInv, [Next]_vars, NEW a \in Approvals, approvals[a].status = "Executing",
         approvals'[a].status # "Executing"
  PROVE  \E f \in Claimants(a) :
           /\ ExecFinalize(f) /\ execPc[f] = "finalize"
           /\ approvals'[a] = FinalApproval(f)
<1>1. approvals \in [Approvals -> ApprovalRecord] /\ approvals'[a] # approvals[a]
  BY DEF IndInv, GovernedTypeOK, StoreTypeOK
<1>2. CASE UNCHANGED executeVars
  <2>1. CASE CreateNext \/ ProposeNext
    BY <1>1, <2>1 DEF CreateNext, CreateStep, CreateLookup, CreateSave, CreatePublish,
       CreateEvidence, CreateCache, CreateFault, ProposeNext, ProposeStep, ProposeLookup,
       ProposeEvidence, ProposePublish, ProposeApproval, ProposeSave, ProposeSaveFails,
       ProposeRace, ProposeFault, storeVars, SaveApproval
  <2>2. CASE SubmitNext
    BY <1>1, <2>2 DEF SubmitNext, SubmitStep, SubmitFault, SubmitLoad, SubmitLookup,
       SubmitRecache, SubmitLink, SubmitLinkById, SubmitPersist, SubmitPublish,
       SubmitEvidence, SubmitCache, storeVars, SaveApprovalIfStatus, SaveApproval
  <2>3. CASE UNCHANGED vars
    BY <1>1, <2>3 DEF vars, storeVars
  <2>4. CASE ExecuteNext
    <3>1. PICK e \in Executors : ExecutorMoves(e)
      BY <2>4 DEF ExecuteNext, ExecutorMoves
    <3>2. ExecClaim(e) \/ ExecClaimThrows(e) \/ ExecFinalize(e)
      BY <1>1, <3>1, ExecutorWritesOwn
    <3>3. execPc'[e] # execPc[e]
      BY <3>2 DEF ExecClaim, ExecClaimThrows, ExecFinalize, ExecGoto, ExecDone, IndInv,
         GovernedTypeOK, ExecuteTypeOK
    <3> QED BY <1>2, <3>3 DEF executeVars
  <2> QED BY <2>1, <2>2, <2>3, <2>4 DEF Next
<1>3. ASSUME NEW e \in Executors, ExecutorMoves(e)
      PROVE  e \in Claimants(a) /\ ExecFinalize(e) /\ execPc[e] = "finalize"
             /\ approvals'[a] = FinalApproval(e)
  <2>1. /\ a = execReq[e].approval
        /\ ExecClaim(e) \/ ExecClaimThrows(e) \/ ExecFinalize(e)
    BY <1>1, <1>3, ExecutorWritesOwn
  <2>2. ExecFinalize(e)
    BY <1>1, <2>1 DEF ExecClaim, ExecClaimThrows, SaveApprovalIfStatus
  <2>3. execPc[e] = "finalize" /\ approvals' = [approvals EXCEPT ![a] = FinalApproval(e)]
    BY <1>1, <2>1, <2>2 DEF ExecFinalize, SaveApprovalIfStatus, SaveApproval
  <2> QED BY <1>1, <2>1, <2>2, <2>3 DEF Claimants
<1> QED BY <1>2, <1>3, ExecutorOrNot

(* A claimed approval has no other claimant, and nobody else's call out.   *)
LEMMA ClaimantAlone ==
  ASSUME IndInv, SoleInv, NEW e \in Executors, AtRisk(e)
  PROVE  /\ execReq[e].approval \in Approvals
         /\ approvals[execReq[e].approval].status = "Executing"
         /\ \A f \in Executors \ {e} :
              execReq[f].approval = execReq[e].approval => Idle(f)
<1>1. execReq[e].approval \in Approvals /\ e \in Claimants(execReq[e].approval)
  BY ApprovalNamed DEF AtRisk, Claimants
<1>2. \A f \in Executors \ {e} : execReq[f].approval = execReq[e].approval => ~AtRisk(f)
  BY <1>1 DEF IndInv, SingleClaim, Claimants, AtRisk
<1>3. \A f \in Executors \ {e} : execReq[f].approval = execReq[e].approval => ~Calling(f)
  BY DEF SoleInv, Sole, Idle
<1> QED BY <1>1, <1>2, <1>3 DEF IndInv, SingleClaim, Idle

(* An executor comes to be at risk by its claim on an approved approval,   *)
(* and to be calling by its dispatch or its answer.                        *)
LEMMA RiskGrows ==
  ASSUME GovernedTypeOK, NEW e \in Executors, ExecutorMoves(e)
  PROVE  /\ AtRisk(e)' =>
              AtRisk(e) \/ (ExecClaim(e) /\ approvals[execReq[e].approval].status = "Approved")
         /\ Calling(e)' => Calling(e) \/ ExecDispatch(e) \/ ExecResult(e)
<1>1. /\ execPc \in [Executors -> ExecutePc]
      /\ outcome \in [Executors -> {"None", "ok", "failed"}]
      /\ call \in [Executors -> {"none", "sent", "performed", "refused"}]
  BY DEF GovernedTypeOK, ExecuteTypeOK
<1>2. CASE ExecClaim(e) \/ ExecDispatch(e) \/ ExecResult(e) \/ RunnerStep(e)
  BY <1>1, <1>2 DEF ExecClaim, SaveApprovalIfStatus, ExecDispatch, ExecResult, RunnerStep,
     RunnerPerform, RunnerRefuse, ExecGoto, AtRisk, Calling
<1>3. CASE ~(ExecClaim(e) \/ ExecDispatch(e) \/ ExecResult(e) \/ RunnerStep(e))
  BY <1>1, <1>3 DEF ExecutorMoves, ExecStep, ExecLoad, ExecBind, ExecLookup,
     ReservationAnswers, ExecBegin, ExecClaimThrows, ExecRelease, ExecFinalize,
     ExecPublish, ExecEvidence, ExecComplete, ExecFault, ExecGoto, ExecDone, AtRisk, Calling
<1> QED BY <1>2, <1>3

(* Whom the step of m leaves idle, when the approval cannot be claimed.    *)
LEMMA IdleKept ==
  ASSUME KeysInv, NEW m \in Executors, ExecutorMoves(m), NEW f \in Executors,
         NEW a, approvals[a].status # "Approved",
         execReq[f].approval = a => Idle(f), execReq'[f].approval = a
  PROVE  Idle(f)'
<1>1. CASE f # m
  <2>1. /\ execReq'[f] = execReq[f] /\ execPc'[f] = execPc[f]
        /\ call'[f] = call[f] /\ outcome'[f] = outcome[f]
    BY <1>1, OneExecutorMoves DEF KeysInv
  <2> QED BY <2>1 DEF Idle, Calling, AtRisk
<1>2. CASE f = m /\ ExecLoad(m)
  <2>1. call'[f] = "none" /\ execPc'[f] \in {"bind", "done"}
    BY <1>2 DEF ExecLoad, ExecGoto, ExecDone, KeysInv, GovernedTypeOK, ExecuteTypeOK, KeyHeld
  <2> QED BY <2>1 DEF Idle, Calling, AtRisk
<1>3. CASE f = m /\ ~ExecLoad(m)
  <2>1. execReq' = execReq
    BY <1>3, RequestKept
  <2>2. ~Calling(f) /\ ~AtRisk(f)
    BY <2>1 DEF Idle
  <2>3. ~ExecDispatch(f) /\ ~ExecResult(f)
    BY <2>2 DEF ExecDispatch, ExecResult, AtRisk
  <2> QED BY <1>3, <2>1, <2>2, <2>3, RiskGrows DEF Idle, KeysInv
<1> QED BY <1>1, <1>2, <1>3

(* It keeps knowing it, step by step.                                      *)
LEMMA AnswersKept ==
  ASSUME GovernedTypeOK, NEW e \in Executors, ExecutorMoves(e), Answered(e)
  PROVE  Answered(e)'
<1>1. /\ execPc \in [Executors -> ExecutePc]
      /\ outcome \in [Executors -> {"None", "ok", "failed"}]
      /\ call \in [Executors -> {"none", "sent", "performed", "refused"}]
  BY DEF GovernedTypeOK, ExecuteTypeOK
<1>2. CASE ExecDispatch(e) \/ ExecResult(e)
  BY <1>1, <1>2 DEF ExecDispatch, ExecResult, ExecGoto, Answered
<1>3. CASE RunnerStep(e)
  BY <1>1, <1>3 DEF RunnerStep, RunnerPerform, RunnerRefuse, Answered
<1>4. CASE ~(ExecDispatch(e) \/ ExecResult(e) \/ RunnerStep(e))
  <2>1. execPc'[e] \notin {"await", "finalize"}
    BY <1>1, <1>4 DEF ExecutorMoves, ExecStep, ExecLoad, ExecBind, ExecLookup,
       ReservationAnswers, ExecBegin, ExecClaim, ExecClaimThrows, ExecRelease,
       ExecFinalize, ExecPublish, ExecEvidence, ExecComplete, ExecFault, ExecGoto, ExecDone
  <2> QED BY <2>1 DEF Answered
<1> QED BY <1>2, <1>3, <1>4

(* The approval of a call stays out of reach of another claim.             *)
LEMMA CalledStays ==
  ASSUME IndInv, SoleInv, [Next]_vars, NEW e \in Executors, Calling(e)
  PROVE  approvals'[execReq[e].approval].status \in {"Executing", "Executed"}
<1> DEFINE a == execReq[e].approval
<1>1. a \in Approvals /\ approvals[a].status \in {"Executing", "Executed"}
  BY ApprovalNamed DEF SoleInv, Sole, Calling
<1>2. CASE approvals[a].status = "Executed" \/ approvals'[a].status = "Executing"
  BY <1>1, <1>2, StatusMoves DEF Moves
<1>3. CASE approvals[a].status = "Executing" /\ approvals'[a].status # "Executing"
  <2>1. PICK f \in Claimants(a) :
          execPc[f] = "finalize" /\ approvals'[a] = FinalApproval(f)
    BY <1>1, <1>3, LeavesExecuting
  <2>2. f = e
    BY <2>1 DEF SoleInv, Sole, Idle, AtRisk, Claimants
  <2>3. outcome[e] = "ok"
    BY <2>1, <2>2 DEF SoleInv, Sole, Answered, Calling
  <2>4. FinalApproval(e).status = "Executed"
    BY <2>3 DEF FinalApproval, IndInv, GovernedTypeOK, ExecuteTypeOK, ApprovalRecord
  <2> QED BY <2>1, <2>2, <2>4
<1> QED BY <1>1, <1>2, <1>3

(* Its own steps keep a call the only one.                                 *)
LEMMA SoleMade ==
  ASSUME IndInv, SoleInv, [Next]_vars, NEW e \in Executors, ExecutorMoves(e)
  PROVE  Sole(e)'
<1>2. Sole(e)
  BY DEF SoleInv
<1>3. Answered(e)'
  BY <1>2, AnswersKept DEF Sole, IndInv
<1>4. ASSUME Calling(e)'
      PROVE  /\ approvals'[execReq'[e].approval].status \in {"Executing", "Executed"}
             /\ \A f \in Executors \ {e} :
                  execReq'[f].approval = execReq'[e].approval => Idle(f)'
  <2>1. CASE Calling(e)
    <3>1. execReq' = execReq
      BY <2>1, RequestKept DEF ExecLoad, Calling, IndInv, KeyHeld
    <3>2. approvals[execReq[e].approval].status # "Approved"
          /\ \A f \in Executors \ {e} :
               execReq[f].approval = execReq[e].approval => Idle(f)
      BY <1>2, <2>1 DEF Sole
    <3>3. KeysInv
      BY DEF IndInv, KeysInv
    <3>4. \A f \in Executors \ {e} : execReq'[f].approval = execReq[e].approval => Idle(f)'
      BY <3>2, <3>3, IdleKept
    <3> QED BY <2>1, <3>1, <3>4, CalledStays
  <2>2. CASE ~Calling(e)
    <3>1. ExecDispatch(e) \/ ExecResult(e)
      BY <1>4, <2>2, RiskGrows DEF IndInv
    <3>2. AtRisk(e) /\ execReq' = execReq /\ approvals' = approvals
      BY <3>1 DEF ExecDispatch, ExecResult, AtRisk, storeVars
    <3>3. \A f \in Executors \ {e} : Idle(f)' <=> Idle(f)
      BY OthersStay DEF Idle, Calling, AtRisk
    <3> QED BY <3>2, <3>3, ClaimantAlone
  <2> QED BY <2>1, <2>2
<1> QED BY <1>3, <1>4 DEF Sole

(* Nobody's step makes a second call possible.                             *)
LEMMA SoleStep ==
  ASSUME IndInv, SoleInv, [Next]_vars
  PROVE  SoleInv'
<1>1. ASSUME UNCHANGED executeVars, NEW e \in Executors PROVE Sole(e)'
  <2>1. Calling(e) => approvals'[execReq[e].approval].status \in {"Executing", "Executed"}
    BY CalledStays
  <2> QED BY <1>1, <2>1 DEF SoleInv, Sole, Answered, Calling, Idle, AtRisk, executeVars
<1>2. ASSUME NEW m \in Executors, ExecutorMoves(m), NEW e \in Executors PROVE Sole(e)'
  <2>1. CASE e = m
    BY <1>2, <2>1, SoleMade
  <2>2. CASE e # m
    <3>1. /\ execPc'[e] = execPc[e] /\ execReq'[e] = execReq[e]
          /\ call'[e] = call[e] /\ outcome'[e] = outcome[e]
      BY <1>2, <2>2, OthersStay
    <3>2. Calling(e) =>
            /\ approvals'[execReq[e].approval].status \in {"Executing", "Executed"}
            /\ \A f \in Executors \ {e} :
                 execReq'[f].approval = execReq[e].approval => Idle(f)'
      <4> SUFFICES ASSUME Calling(e)
                   PROVE  \A f \in Executors \ {e} :
                            execReq'[f].approval = execReq[e].approval => Idle(f)'
        BY CalledStays
      <4>1. approvals[execReq[e].approval].status # "Approved"
            /\ \A f \in Executors \ {e} :
                 execReq[f].approval = execReq[e].approval => Idle(f)
        BY DEF SoleInv, Sole
      <4>2. KeysInv
        BY DEF IndInv, KeysInv
      <4> QED BY <1>2, <4>1, <4>2, IdleKept
    <3>3. Sole(e)
      BY DEF SoleInv
    <3> QED BY <3>1, <3>2, <3>3 DEF Sole, Answered, Calling
  <2> QED BY <2>1, <2>2
<1> QED BY <1>1, <1>2, ExecutorOrNot DEF SoleInv

(* The calls that count: each is the only one of its approval.             *)
THEOREM CallSole == Spec => []SoleInv
<1>1. Init => SoleInv
  BY DEF Init, ExecuteInit, SoleInv, Sole, Answered, Calling
<1>2. IndInv /\ SoleInv /\ [Next]_vars => SoleInv'
  BY SoleStep
<1> QED BY <1>1, <1>2, Invariant, PTL DEF Spec

(* However many keys and executors try, and whatever fails, an approval is *)
(* not dispatched again unless its dispatches so far were reported failed. *)
THEOREM EffectOnce == Spec => []RedispatchOnlyAfterFailure
<1>1. SoleInv => RedispatchOnlyAfterFailure
  BY DEF SoleInv, Sole, Idle, Calling, RedispatchOnlyAfterFailure, DispatchedFor
<1> QED BY <1>1, CallSole, PTL

(* An approval leaves Executing back to Approved only when every dispatch  *)
(* ever made of it, by whichever executor, was reported as failed.         *)
HandedBackAsFailed ==
  [][ \A a \in Approvals :
        approvals[a].status = "Executing" /\ approvals'[a].status = "Approved"
          => \A e \in DispatchedFor(a) : outcome[e] = "failed" ]_vars

(* No success, and no call that is still out or whose answer was lost, has *)
(* its approval handed back, to be executed once more.                     *)
THEOREM HandedBackFailed == Spec => HandedBackAsFailed
<1>1. ASSUME IndInv, SoleInv, [Next]_vars, NEW a \in Approvals,
             approvals[a].status = "Executing", approvals'[a].status = "Approved",
             NEW e \in DispatchedFor(a)
      PROVE  outcome[e] = "failed"
  <2>1. PICK f \in Claimants(a) : execPc[f] = "finalize" /\ approvals'[a] = FinalApproval(f)
    BY <1>1, LeavesExecuting
  <2>2. outcome[f] = "failed"
    <3>1. outcome[f] # "ok"
      BY <1>1, <2>1 DEF FinalApproval, IndInv, GovernedTypeOK, ExecuteTypeOK,
         ApprovalRecord, Claimants
    <3> QED BY <1>1, <2>1, <3>1 DEF SoleInv, Sole, Answered, Claimants
  <2>3. CASE e = f
    BY <2>2, <2>3
  <2>4. CASE e # f
    <3>1. ~Idle(f) /\ f \in Executors \ {e} /\ execReq[f].approval = a
      BY <2>1, <2>4 DEF Idle, AtRisk, Claimants
    <3>2. e \in Executors /\ call[e] # "none" /\ execReq[e].approval = a
      BY <1>1 DEF DispatchedFor
    <3> QED BY <1>1, <3>1, <3>2 DEF SoleInv, Sole, Calling
  <2> QED BY <2>3, <2>4
<1>2. IndInv /\ SoleInv /\ [Next]_vars =>
        [ \A a \in Approvals :
            approvals[a].status = "Executing" /\ approvals'[a].status = "Approved"
              => \A e \in DispatchedFor(a) : outcome[e] = "failed" ]_vars
  BY <1>1
<1> QED BY <1>2, Invariant, CallSole, PTL DEF Spec, HandedBackAsFailed

-----------------------------------------------------------------------------

(* The claim was answered: the approval's reservation is in progress and   *)
(* its holder, while there is one, is the claimant; nobody releases or     *)
(* completes it before the outcome is written.                             *)
HeldFor(a, k) ==
  /\ reservations[k].status = "InProgress"
  /\ reservations[k].fingerprint.approval = a
  /\ \A f \in Executors :
       execReq[f].key = k /\ execPc[f] \in HoldingPc => AtRisk(f)

(* The claim was stored and its reply lost: the reservation it was made    *)
(* under is given up, or about to be, and whoever comes to hold it again,  *)
(* having looked it up before, is refused the claim and gives it up too.   *)
LostFor(a, k) ==
  /\ AckLoss
  /\ reservations[k].status \in {"InProgress", "Released"}
  /\ reservations[k].fingerprint.approval = a
  /\ \A f \in Executors : execReq[f].key = k =>
       /\ call[f] = "none"
       /\ execPc[f] \in HoldingPc => execPc[f] \in {"claim", "release"}

(* Every approval in execution has one or the other.                       *)
ReservedInv ==
  \A a \in Approvals : approvals[a].status = "Executing" =>
    \E k \in DispatchKeys : HeldFor(a, k) \/ LostFor(a, k)

(* Such a reservation outlives every step that leaves its approval in      *)
(* execution.                                                              *)
LEMMA ReservationStays ==
  ASSUME IndInv, [Next]_vars, NEW a \in Approvals, NEW k \in DispatchKeys, HeldFor(a, k),
         approvals[a].status = "Executing", approvals'[a].status = "Executing",
         NEW e \in Executors, ExecutorMoves(e)
  PROVE  HeldFor(a, k)'
<1>1. /\ execPc \in [Executors -> ExecutePc]
      /\ reservations \in [DispatchKeys -> Reservation]
      /\ approvals \in [Approvals -> ApprovalRecord]
      /\ execSeen \in [Executors -> ApprovalRecord]
  BY DEF IndInv, GovernedTypeOK, ExecuteTypeOK, StoreTypeOK
<1>2. \A f \in Executors \ {e} : execReq'[f].key = k /\ execPc'[f] \in HoldingPc => AtRisk(f)'
  BY OthersStay DEF HeldFor, AtRisk
<1>3. /\ execReq[e].key = k /\ execPc[e] \in HoldingPc => AtRisk(e)
      /\ reservations[k].status = "InProgress"
  BY DEF HeldFor
<1>4. CASE ExecLoad(e)
  BY <1>1, <1>2, <1>3, <1>4 DEF ExecLoad, ExecGoto, ExecDone, HoldingPc, HeldFor
<1>5. CASE ExecBegin(e)
  <2>1. execReq' = execReq
    BY <1>5 DEF ExecBegin
  <2>2. CASE execReq[e].key = k
    <3>1. reservations' = reservations /\ execPc'[e] = "done"
      BY <1>1, <1>3, <1>5, <2>2 DEF ExecBegin, ReservationAnswers, ExecDone
    <3> QED BY <1>2, <3>1 DEF HeldFor, HoldingPc
  <2>3. CASE execReq[e].key # k
    <3>1. reservations'[k] = reservations[k]
      BY <1>1, <1>5, <2>3 DEF ExecBegin
    <3> QED BY <1>2, <2>1, <2>3, <3>1 DEF HeldFor
  <2> QED BY <2>2, <2>3
<1>6. CASE ExecRelease(e) \/ ExecComplete(e)
  <2>1. execPc[e] \in {"release", "complete"} /\ execPc'[e] = "done" /\ execReq' = execReq
    BY <1>1, <1>6 DEF ExecRelease, ExecComplete, ExecDone
  <2>2. execReq[e].key # k
    BY <1>3, <2>1 DEF HoldingPc, AtRisk
  <2>3. reservations'[k] = reservations[k]
    BY <1>1, <1>6, <2>2 DEF ExecRelease, ExecComplete
  <2> QED BY <1>2, <2>1, <2>3 DEF HeldFor, HoldingPc
<1>7. CASE ExecFinalize(e)
  <2>1. /\ UNCHANGED <<reservations, execReq>> /\ execPc[e] = "finalize"
        /\ execPc'[e] \in {"publish", "done"}
        /\ execPc'[e] = "publish" =>
             approvals' = [approvals EXCEPT ![execReq[e].approval] = FinalApproval(e)]
    BY <1>1, <1>7 DEF ExecFinalize, ExecGoto, ExecDone, SaveApprovalIfStatus, SaveApproval
  <2>2. CASE execPc'[e] = "publish" /\ execReq[e].key = k
    <3>1. execReq[e].approval = a
      <4>1. reservations[execReq[e].key].fingerprint = FingerprintOf(e)
        BY <2>1 DEF IndInv, KeyHeld, HoldingPc
      <4> QED BY <2>2, <4>1 DEF FingerprintOf, HeldFor
    <3>2. FinalApproval(e).status # "Executing"
      BY <1>1, <2>1 DEF FinalApproval, ApprovalRecord, IndInv, ExecutorKnowsDecision
    <3> QED BY <1>1, <2>1, <2>2, <3>1, <3>2
  <2>3. CASE ~(execPc'[e] = "publish" /\ execReq[e].key = k)
    BY <1>2, <2>1, <2>3 DEF HeldFor, HoldingPc
  <2> QED BY <2>2, <2>3
<1>8. CASE RunnerStep(e)
  BY <1>8 DEF RunnerStep, RunnerPerform, RunnerRefuse, HeldFor, AtRisk
<1>9. CASE ExecClaim(e) \/ ExecClaimThrows(e) \/ ExecPublish(e) \/ ExecEvidence(e)
  <2>1. execReq[e].key # k
    BY <1>3, <1>9 DEF ExecClaim, ExecClaimThrows, ExecPublish, ExecEvidence, HoldingPc, AtRisk
  <2>2. UNCHANGED <<reservations, execReq>>
    BY <1>9 DEF ExecClaim, ExecClaimThrows, ExecPublish, ExecEvidence
  <2> QED BY <1>2, <2>1, <2>2 DEF HeldFor
<1>10. CASE \/ ExecBind(e) \/ ExecLookup(e) \/ ExecDispatch(e) \/ ExecResult(e) \/ ExecFault(e)
  <2>1. /\ UNCHANGED <<reservations, execReq>>
        /\ execPc'[e] \in HoldingPc => AtRisk(e)'
    BY <1>1, <1>10 DEF ExecBind, ExecLookup, ReservationAnswers, ExecDispatch, ExecResult,
       ExecFault, ExecGoto, ExecDone, HoldingPc, AtRisk
  <2> QED BY <1>2, <2>1 DEF HeldFor
<1> QED BY <1>4, <1>5, <1>6, <1>7, <1>8, <1>9, <1>10 DEF ExecutorMoves, ExecStep

(* So does a key whose claim was lost: nobody dispatches under it.         *)
LEMMA LossStays ==
  ASSUME IndInv, [Next]_vars, NEW a \in Approvals, NEW k \in DispatchKeys, LostFor(a, k),
         approvals[a].status = "Executing", NEW e \in Executors, ExecutorMoves(e)
  PROVE  LostFor(a, k)'
<1>1. /\ execPc \in [Executors -> ExecutePc]
      /\ reservations \in [DispatchKeys -> Reservation]
      /\ call \in [Executors -> {"none", "sent", "performed", "refused"}]
  BY DEF IndInv, GovernedTypeOK, ExecuteTypeOK
<1>2. \A f \in Executors \ {e} : execReq'[f].key = k =>
        /\ call'[f] = "none"
        /\ execPc'[f] \in HoldingPc => execPc'[f] \in {"claim", "release"}
  BY OthersStay DEF LostFor
<1>3. /\ execReq[e].key = k =>
            call[e] = "none" /\ (execPc[e] \in HoldingPc => execPc[e] \in {"claim", "release"})
      /\ reservations[k].status \in {"InProgress", "Released"}
      /\ reservations[k].fingerprint.approval = a
  BY DEF LostFor
<1>4. CASE ExecLoad(e)
  <2>1. call'[e] = "none" /\ execPc'[e] \notin HoldingPc /\ reservations' = reservations
    BY <1>1, <1>4 DEF ExecLoad, ExecGoto, ExecDone, HoldingPc, IndInv, KeyHeld
  <2> QED BY <1>2, <2>1 DEF LostFor
<1>5. CASE ~ExecLoad(e) /\ execReq[e].key # k
  <2>1. execReq' = execReq
    BY <1>5, RequestKept
  <2>2. reservations'[k] = reservations[k]
    BY <1>1, <1>5 DEF ExecutorMoves, ExecStep, ExecBind, ExecLookup, ExecBegin,
       ExecClaim, ExecClaimThrows, ExecRelease, ExecDispatch, ExecResult, ExecFinalize,
       ExecPublish, ExecEvidence, ExecComplete, RunnerStep, RunnerPerform, RunnerRefuse,
       ExecFault
  <2> QED BY <1>2, <1>5, <2>1, <2>2 DEF LostFor
<1>6. CASE ~ExecLoad(e) /\ execReq[e].key = k
  <2>1. execReq' = execReq
    BY <1>6, RequestKept
  <2>2. /\ call'[e] = "none"
        /\ execPc'[e] \in HoldingPc => execPc'[e] \in {"claim", "release"}
        /\ reservations'[k].status \in {"InProgress", "Released"}
        /\ reservations'[k].fingerprint.approval = a
    <3>1. CASE ExecBind(e) \/ ExecLookup(e) \/ ExecFault(e)
      BY <1>1, <1>3, <1>6, <3>1 DEF ExecBind, ExecLookup, ReservationAnswers, ExecFault,
         ExecGoto, ExecDone, HoldingPc
    <3>2. CASE ExecBegin(e)
      BY <1>1, <1>3, <1>6, <3>2 DEF ExecBegin, ReservationAnswers, ExecGoto, ExecDone,
         HoldingPc, FingerprintOf
    <3>3. CASE ExecClaim(e) \/ ExecClaimThrows(e)
      <4>1. execReq[e].approval = a
        <5>1. reservations[k].fingerprint = FingerprintOf(e)
          BY <1>6, <3>3 DEF ExecClaim, ExecClaimThrows, IndInv, KeyHeld, HoldingPc
        <5> QED BY <1>3, <5>1 DEF FingerprintOf
      <4> QED BY <1>1, <1>3, <1>6, <3>3, <4>1 DEF ExecClaim, ExecClaimThrows,
             SaveApprovalIfStatus, ExecGoto
    <3>4. CASE ExecRelease(e)
      <4>1. /\ execPc'[e] = "done" /\ call' = call
            /\ \/ reservations' = reservations
               \/ reservations' = [reservations EXCEPT ![k].status = "Released"]
        BY <1>1, <1>6, <3>4 DEF ExecRelease, ExecDone
      <4> QED BY <1>1, <1>3, <1>6, <4>1 DEF HoldingPc, Reservation
    <3>5. CASE RunnerStep(e)
      BY <1>3, <1>6, <3>5 DEF RunnerStep, RunnerPerform, RunnerRefuse
    <3>6. CASE \/ ExecDispatch(e) \/ ExecResult(e) \/ ExecFinalize(e) \/ ExecPublish(e)
               \/ ExecEvidence(e) \/ ExecComplete(e)
      BY <1>3, <1>6, <3>6 DEF ExecDispatch, ExecResult, ExecFinalize, ExecPublish,
         ExecEvidence, ExecComplete, HoldingPc
    <3> QED BY <1>6, <3>1, <3>2, <3>3, <3>4, <3>5, <3>6 DEF ExecutorMoves, ExecStep
  <2> QED BY <1>2, <2>1, <2>2 DEF LostFor
<1> QED BY <1>4, <1>5, <1>6

(* An approval enters execution by a claim under the claimant's own        *)
(* reservation, which goes on to the dispatch or, its reply lost, gives    *)
(* the reservation up.                                                     *)
LEMMA ReservedStep ==
  ASSUME IndInv, ReservedInv, [Next]_vars
  PROVE  ReservedInv'
<1> SUFFICES ASSUME NEW a \in Approvals, approvals'[a].status = "Executing"
             PROVE  \E k \in DispatchKeys : HeldFor(a, k)' \/ LostFor(a, k)'
  BY DEF ReservedInv
<1>1. CASE approvals[a].status = "Executing"
  <2>1. PICK k \in DispatchKeys : HeldFor(a, k) \/ LostFor(a, k)
    BY <1>1 DEF ReservedInv
  <2>2. HeldFor(a, k)' \/ LostFor(a, k)'
    <3>1. CASE UNCHANGED executeVars
      BY <2>1, <3>1 DEF HeldFor, LostFor, AtRisk, executeVars
    <3>2. CASE \E e \in Executors : ExecutorMoves(e)
      BY <1>1, <2>1, <3>2, ReservationStays, LossStays
    <3> QED BY <3>1, <3>2, ExecutorOrNot
  <2> QED BY <2>2
<1>2. CASE approvals[a].status # "Executing"
  <2>1. approvals[a].status = "Approved" /\ approvals'[a] # approvals[a]
    BY <1>2, StatusMoves DEF Moves, Decided
  <2>2. PICK e \in Executors : ExecutorMoves(e)
    <3>1. CASE CreateNext \/ ProposeNext
      BY <2>1, <3>1 DEF CreateNext, CreateStep, CreateLookup, CreateSave, CreatePublish,
         CreateEvidence, CreateCache, CreateFault, ProposeNext, ProposeStep, ProposeLookup,
         ProposeEvidence, ProposePublish, ProposeApproval, ProposeSave, ProposeSaveFails,
         ProposeRace, ProposeFault, storeVars, SaveApproval, IndInv, GovernedTypeOK,
         StoreTypeOK
    <3>2. CASE SubmitNext
      BY <2>1, <3>2 DEF SubmitNext, SubmitStep, SubmitFault, SubmitLoad, SubmitLookup,
         SubmitRecache, SubmitLink, SubmitLinkById, SubmitPersist, SubmitPublish,
         SubmitEvidence, SubmitCache, storeVars, SaveApprovalIfStatus, SaveApproval,
         IndInv, GovernedTypeOK, StoreTypeOK
    <3>3. ~UNCHANGED vars
      BY <2>1 DEF vars, storeVars
    <3> QED BY <3>1, <3>2, <3>3 DEF Next, ExecuteNext, ExecutorMoves
  <2>3. /\ a = execReq[e].approval
        /\ ExecClaim(e) \/ ExecClaimThrows(e)
    <3>1. /\ a = execReq[e].approval
          /\ ExecClaim(e) \/ ExecClaimThrows(e) \/ ExecFinalize(e)
      BY <2>1, <2>2, ExecutorWritesOwn
    <3>2. ~ExecFinalize(e)
      BY <2>1, <3>1 DEF ExecFinalize, SaveApprovalIfStatus
    <3> QED BY <3>1, <3>2
  <2>4. PICK k \in DispatchKeys : k = execReq[e].key
    BY <2>3, ApprovalNamed DEF ExecClaim, ExecClaimThrows
  <2>5. /\ reservations[k].status = "InProgress"
        /\ reservations[k].fingerprint.approval = a
        /\ \A f \in Executors \ {e} : execReq[f].key = k =>
             execPc[f] \notin HoldingPc /\ call[f] = "none"
        /\ call[e] = "none"
    <3>1. reservations[k].fingerprint = FingerprintOf(e)
      BY <2>3, <2>4 DEF ExecClaim, ExecClaimThrows, IndInv, KeyHeld, HoldingPc
    <3> QED BY <2>3, <2>4, <3>1 DEF ExecClaim, ExecClaimThrows, IndInv, KeyHeld, HoldingPc,
         FingerprintOf
  <2>6. CASE ExecClaim(e)
    <3>1. execPc'[e] = "dispatch" /\ UNCHANGED <<reservations, execReq>>
      BY <2>1, <2>6 DEF ExecClaim, ExecGoto, IndInv, GovernedTypeOK, ExecuteTypeOK
    <3>2. HeldFor(a, k)'
      BY <2>2, <2>5, <3>1, OthersStay DEF HeldFor, AtRisk
    <3> QED BY <3>2
  <2>7. CASE ExecClaimThrows(e)
    <3>1. /\ AckLoss /\ execPc'[e] = "release"
          /\ UNCHANGED <<reservations, execReq, call>>
      BY <2>1, <2>7 DEF ExecClaimThrows, ExecGoto, IndInv, GovernedTypeOK, ExecuteTypeOK
    <3>2. LostFor(a, k)'
      BY <2>2, <2>5, <3>1, OthersStay DEF LostFor
    <3> QED BY <3>2
  <2> QED BY <2>3, <2>6, <2>7
<1> QED BY <1>1, <1>2

(* An approval that is Executing was claimed under a reservation that is   *)
(* still in progress, so that its key cannot be used again; if the reply   *)
(* to the claim was lost, one that was given up, with nothing dispatched   *)
(* under it.                                                               *)
THEOREM ReservationHeld == Spec => []ExecutingHasReservation
<1>1. Init => ReservedInv
  BY DEF Init, StoreInit, NoApproval, ReservedInv
<1>2. IndInv /\ ReservedInv /\ [Next]_vars => ReservedInv'
  BY ReservedStep
<1>3. ReservedInv => ExecutingHasReservation
  BY DEF ReservedInv, HeldFor, LostFor, ExecutingHasReservation, DispatchedUnder
<1> QED BY <1>1, <1>2, <1>3, Invariant, PTL DEF Spec
=============================================================================
