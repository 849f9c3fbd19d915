----------------------- MODULE ExecuteApprovedAction -----------------------
(***************************************************************************)
(* executeApprovedAgentAction: a principal has an approved action carried  *)
(* out.  A durable reservation is taken under the dispatch key, the        *)
(* approval is claimed (Approved -> Executing), the action is dispatched   *)
(* to the execution plane, and the outcome is written back.  One process   *)
(* per command invocation, one step per awaited call.                      *)
(*                                                                         *)
(* begin, complete and release of PostgresIdempotencyStore each issue two  *)
(* or three statements; they are one step here because a reservation is    *)
(* never deleted, keeps the fingerprint it was inserted with, and every    *)
(* statement that writes is itself conditional on the status it expects.   *)
(***************************************************************************)
EXTENDS ApprovalStore

CONSTANTS Executors,      \* executeApprovedAgentAction invocations
          ExecKeys,       \* client Idempotency-Key values
          Ambiguous,      \* TRUE: a failure reply does not exclude the effect
          AckLoss         \* TRUE: the claim may be stored and its reply lost

ASSUME ExecuteAssumption ==
  /\ Executors \subseteq Requests
  /\ None \notin ExecKeys
  /\ ExecKeys \cap Approvals = {}
  /\ Ambiguous \in BOOLEAN
  /\ AckLoss \in BOOLEAN

VARIABLES execPc,         \* execPc[e]: the call the handler awaits next
          execReq,        \* execReq[e]: the request and its principal
          execSeen,       \* execSeen[e]: the approval as it was loaded
          execReply,      \* execReply[e]: what the caller was told
          outcome,        \* outcome[e]: dispatchResult.ok, as "ok" or "failed"
          call,           \* call[e]: e's dispatch, as the execution plane has it
          reservations    \* reservations[k]: idempotency document of key k

executeVars ==
  <<execPc, execReq, execSeen, execReply, outcome, call, reservations>>

(* The derived key names the approval and its approved flowRef.            *)
DispatchKeys == ExecKeys \cup Approvals

ExecuteRequest ==
  [ user     : Users \cup {None},
    approval : Approvals \cup {None},
    key      : DispatchKeys \cup {None},
    payload  : Payloads \cup {None} ]

NoExecute == [user |-> None, approval |-> None, key |-> None, payload |-> None]

(* stableJson over workspace, approval, flowRef, payload and principal.    *)
Fingerprint ==
  [ user     : Users \cup {None},
    approval : Approvals \cup {None},
    payload  : Payloads \cup {None} ]

NoFingerprint == [user |-> None, approval |-> None, payload |-> None]

Reservation ==
  [ status      : {"None", "InProgress", "Completed", "Released"},
    fingerprint : Fingerprint,
    result      : {"None", "Executed", "Failed"} ]

NoReservation ==
  [status |-> "None", fingerprint |-> NoFingerprint, result |-> "None"]

ExecutePc == {"idle", "bind", "lookup", "begin", "claim", "release", "dispatch",
              "await", "finalize", "publish", "evidence", "complete",
              "done", "dead"}

ExecuteReply == {"None", "NotFound", "Forbidden", "Conflict", "Executing",
                 "Executed", "Failed", "DependencyFailure"}

ExecuteTypeOK ==
  /\ execPc \in [Executors -> ExecutePc]
  /\ execReq \in [Executors -> ExecuteRequest]
  /\ execSeen \in [Executors -> ApprovalRecord]
  /\ execReply \in [Executors -> ExecuteReply]
  /\ outcome \in [Executors -> {"None", "ok", "failed"}]
  /\ call \in [Executors -> {"none", "sent", "performed", "refused"}]
  /\ reservations \in [DispatchKeys -> Reservation]

ExecuteInit ==
  /\ execPc = [e \in Executors |-> "idle"]
  /\ execReq = [e \in Executors |-> NoExecute]
  /\ execSeen = [e \in Executors |-> NoApproval]
  /\ execReply = [e \in Executors |-> "None"]
  /\ outcome = [e \in Executors |-> "None"]
  /\ call = [e \in Executors |-> "none"]
  /\ reservations = [k \in DispatchKeys |-> NoReservation]

ExecGoto(e, pc) ==
  /\ execPc' = [execPc EXCEPT ![e] = pc]
  /\ UNCHANGED execReply

ExecDone(e, answer) ==
  /\ execPc' = [execPc EXCEPT ![e] = "done"]
  /\ execReply' = [execReply EXCEPT ![e] = answer]

FingerprintOf(e) ==
  [ user |-> execReq[e].user, approval |-> execReq[e].approval,
    payload |-> execReq[e].payload ]

(* Bug: a dispatch that was answered counts as executed.                   *)
AnswerAlwaysExecuted(e) == IF outcome[e] = "None" THEN "Failed" ELSE "Executed"

Answer(e) == IF outcome[e] = "ok" THEN "Executed" ELSE "Failed"

-----------------------------------------------------------------------------

(* Validation and authorization passed; getApprovalById, then the second   *)
(* half of maker-checker: who decided may not execute.                     *)
ExecLoad(e) ==
  /\ execPc[e] = "idle"
  /\ \E u \in Users, a \in Approvals, k \in ExecKeys \cup {None}, v \in Payloads :
       LET decider == approvals[a].decidedBy
           key     == IF k = None THEN a ELSE k
       IN
       /\ execReq' = [execReq EXCEPT ![e] =
            [user |-> u, approval |-> a, key |-> key, payload |-> v]]
       /\ execSeen' = [execSeen EXCEPT ![e] = approvals[a]]
       /\ \/ approvals[a].status = "Absent" /\ ExecDone(e, "NotFound")
          \/ approvals[a].status # "Absent" /\ decider = u /\ ExecDone(e, "Forbidden")
          \/ approvals[a].status # "Absent" /\ decider # u /\ ExecGoto(e, "bind")
  /\ UNCHANGED <<storeVars, outcome, call, reservations, faults>>

(* Bug: a linked proposal is enough, whatever it proposed.                 *)
ExecBindAnyPayload(e) ==
  LET linked == {p \in Proposals : LinkedTo(execReq[e].approval, p)} IN
  /\ execPc[e] = "bind"
  /\ \/ linked = {} /\ execSeen[e].proposal # None /\ ExecDone(e, "NotFound")
     \/ (linked # {} \/ execSeen[e].proposal = None) /\ ExecGoto(e, "lookup")
  /\ UNCHANGED <<storeVars, execReq, execSeen, outcome, call, reservations, faults>>

(* getProposalByApprovalId and validateApprovedProposalBinding: a linked   *)
(* proposal must match the request, and a proposal-bound approval needs it.*)
ExecBind(e) ==
  LET linked == {p \in Proposals : LinkedTo(execReq[e].approval, p)}
      Matches(p) == proposals[p].payload = execReq[e].payload
  IN
  /\ execPc[e] = "bind"
  /\ \/ /\ \E p \in linked : Matches(p)
        /\ ExecGoto(e, "lookup")
     \/ /\ \E p \in linked : ~Matches(p)
        /\ ExecDone(e, "Conflict")
     \/ /\ linked = {} /\ execSeen[e].proposal # None
        /\ ExecDone(e, "NotFound")
     \/ /\ linked = {} /\ execSeen[e].proposal = None
        /\ ExecGoto(e, "lookup")
  /\ UNCHANGED <<storeVars, execReq, execSeen, outcome, call, reservations, faults>>

(* What a reservation already under the key answers, at the lookup and     *)
(* again when begin finds one: replay, still in progress, or conflict.     *)
ReservationAnswers(e) ==
  LET r    == reservations[execReq[e].key]
      mine == r.fingerprint = FingerprintOf(e)
  IN
  \/ r.status = "Completed"  /\ mine /\ ExecDone(e, r.result)
  \/ r.status = "InProgress" /\ mine /\ ExecDone(e, "Executing")
  \/ r.status \in {"Completed", "InProgress"} /\ ~mine /\ ExecDone(e, "Conflict")

(* readExistingReservation; normalizeExistingReservation has no case for a *)
(* Released document and answers Conflict.  Then the status guard, on the  *)
(* approval as it was loaded.                                              *)
ExecLookup(e) ==
  LET r      == reservations[execReq[e].key]
      status == execSeen[e].status
  IN
  /\ execPc[e] = "lookup"
  /\ \/ ReservationAnswers(e)
     \/ r.status = "Released" /\ ExecDone(e, "Conflict")
     \/ /\ r.status = "None"
        /\ \/ status = "Approved" /\ ExecGoto(e, "begin")
           \/ status = "Executing" /\ ExecDone(e, "Executing")
           \/ status \notin {"Approved", "Executing"} /\ ExecDone(e, "Conflict")
  /\ UNCHANGED <<storeVars, execReq, execSeen, outcome, call, reservations, faults>>

(* Bug: a retry with the same fingerprint takes its reservation over.      *)
ExecBeginTakesOver(e) ==
  LET key == execReq[e].key
      r   == reservations[key]
      free == r.status = "None" \/ r.fingerprint = FingerprintOf(e)
  IN
  /\ execPc[e] = "begin"
  /\ \/ /\ free
        /\ reservations' = [reservations EXCEPT ![key] =
             [status |-> "InProgress", fingerprint |-> FingerprintOf(e), result |-> "None"]]
        /\ ExecGoto(e, "claim")
     \/ ~free /\ ExecDone(e, "Conflict") /\ UNCHANGED reservations
  /\ UNCHANGED <<storeVars, execReq, execSeen, outcome, call, faults>>

(* idempotency.begin: reserves a new key, or one its own fingerprint       *)
(* released before.  A released key is a conflict for another fingerprint, *)
(* and for its own when a reclaim loses and finds it released once more.   *)
ExecBegin(e) ==
  LET key == execReq[e].key
      r   == reservations[key]
  IN
  /\ execPc[e] = "begin"
  /\ \/ /\ \/ r.status = "None"
           \/ r.status = "Released" /\ r.fingerprint = FingerprintOf(e)
        /\ reservations' = [reservations EXCEPT ![key] =
             [status |-> "InProgress", fingerprint |-> FingerprintOf(e), result |-> "None"]]
        /\ ExecGoto(e, "claim")
     \/ ReservationAnswers(e) /\ UNCHANGED reservations
     \/ r.status = "Released" /\ ExecDone(e, "Conflict") /\ UNCHANGED reservations
  /\ UNCHANGED <<storeVars, execReq, execSeen, outcome, call, faults>>

(* Bug: the claim forgets who decided.                                     *)
ClaimedApprovalAnonymous(e) ==
  [execSeen[e] EXCEPT !.status = "Executing", !.decidedBy = None]

(* The execution claim: Approved -> Executing over the record as loaded.   *)
ClaimedApproval(e) == [execSeen[e] EXCEPT !.status = "Executing"]

(* Bug: the claim is a plain upsert.                                       *)
ExecClaimUnguarded(e) ==
  /\ execPc[e] = "claim"
  /\ SaveApproval(execReq[e].approval, ClaimedApproval(e))
  /\ ExecGoto(e, "dispatch")
  /\ UNCHANGED <<proposals, trail, execReq, execSeen, outcome, call, reservations, faults>>

ExecClaim(e) ==
  LET a == execReq[e].approval IN
  /\ execPc[e] = "claim"
  /\ \/ /\ SaveApprovalIfStatus(a, "Approved", ClaimedApproval(e))
        /\ ExecGoto(e, "dispatch")
     \/ /\ approvals[a].status # "Approved"
        /\ ExecGoto(e, "release")
        /\ UNCHANGED approvals
  /\ UNCHANGED <<proposals, trail, execReq, execSeen, outcome, call, reservations, faults>>

(* Bug: a claim that throws is taken for granted.                          *)
ExecClaimThrowsIgnored(e) ==
  /\ execPc[e] = "claim"
  /\ Fault
  /\ ExecGoto(e, "dispatch")
  /\ UNCHANGED <<storeVars, execReq, execSeen, outcome, call, reservations>>

(* The claim throws: not stored or, when an acknowledgement can be lost,   *)
(* stored all the same.  Either way the handler releases its reservation.  *)
ExecClaimThrows(e) ==
  /\ execPc[e] = "claim"
  /\ Fault
  /\ \/ UNCHANGED approvals
     \/ /\ AckLoss
        /\ SaveApprovalIfStatus(execReq[e].approval, "Approved", ClaimedApproval(e))
  /\ ExecGoto(e, "release")
  /\ UNCHANGED <<proposals, trail, execReq, execSeen, outcome, call, reservations>>

(* idempotency.release, the claim lost or failed.  A false reply is not    *)
(* looked at.                                                              *)
ExecRelease(e) ==
  LET key == execReq[e].key
      r   == reservations[key]
  IN
  /\ execPc[e] = "release"
  /\ \/ /\ r.status = "InProgress" /\ r.fingerprint = FingerprintOf(e)
        /\ reservations' = [reservations EXCEPT ![key].status = "Released"]
     \/ /\ ~(r.status = "InProgress" /\ r.fingerprint = FingerprintOf(e))
        /\ UNCHANGED reservations
  /\ \E answer \in {"Conflict", "DependencyFailure"} : ExecDone(e, answer)
  /\ UNCHANGED <<storeVars, execReq, execSeen, outcome, call, faults>>

-----------------------------------------------------------------------------

(* Bug: the reservation is given up as soon as the approval is claimed.    *)
ExecDispatchReleases(e) ==
  /\ execPc[e] = "dispatch"
  /\ call' = [call EXCEPT ![e] = "sent"]
  /\ reservations' = [reservations EXCEPT ![execReq[e].key].status = "Released"]
  /\ ExecGoto(e, "await")
  /\ UNCHANGED <<storeVars, execReq, execSeen, outcome, faults>>

(* actionRunner.dispatchAction: the call leaves ...                        *)
ExecDispatch(e) ==
  /\ execPc[e] = "dispatch"
  /\ call' = [call EXCEPT ![e] = "sent"]
  /\ ExecGoto(e, "await")
  /\ UNCHANGED <<storeVars, execReq, execSeen, outcome, reservations, faults>>

(* ... the execution plane performs it or refuses it, at any later time    *)
(* and whether or not the caller still waits ...                           *)
RunnerPerform(e) ==
  /\ call[e] = "sent"
  /\ call' = [call EXCEPT ![e] = "performed"]
  /\ UNCHANGED <<storeVars, execPc, execReq, execSeen, execReply, outcome, reservations, faults>>

RunnerRefuse(e) ==
  /\ call[e] = "sent"
  /\ call' = [call EXCEPT ![e] = "refused"]
  /\ UNCHANGED <<storeVars, execPc, execReq, execSeen, execReply, outcome, reservations, faults>>

(* Bug: only a success is waited for.                                      *)
ExecResultOkOnly(e) ==
  /\ execPc[e] = "await"
  /\ call[e] = "performed"
  /\ outcome' = [outcome EXCEPT ![e] = "ok"]
  /\ ExecGoto(e, "finalize")
  /\ UNCHANGED <<storeVars, execReq, execSeen, call, reservations, faults>>

(* ... and the dispatch result comes back.  An ambiguous failure (Timeout, *)
(* RemoteError) may be reported for a call that is or will be performed.   *)
ExecResult(e) ==
  /\ execPc[e] = "await"
  /\ \/ call[e] = "performed" /\ outcome' = [outcome EXCEPT ![e] = "ok"]
     \/ /\ call[e] = "refused" \/ Ambiguous
        /\ outcome' = [outcome EXCEPT ![e] = "failed"]
  /\ ExecGoto(e, "finalize")
  /\ UNCHANGED <<storeVars, execReq, execSeen, call, reservations, faults>>

-----------------------------------------------------------------------------

(* Bug: the approval is handed back after a success too.                   *)
FinalApprovalRestored(e) == execSeen[e]

(* The outcome is written back: Executed, or the approval as it was loaded *)
(* whatever the kind of failure.                                           *)
FinalApproval(e) ==
  IF outcome[e] = "ok" THEN [execSeen[e] EXCEPT !.status = "Executed"]
                       ELSE execSeen[e]

ExecFinalize(e) ==
  LET a == execReq[e].approval IN
  /\ execPc[e] = "finalize"
  /\ \/ /\ SaveApprovalIfStatus(a, "Executing", FinalApproval(e))
        /\ ExecGoto(e, "publish")
     \/ /\ approvals[a].status # "Executing"
        /\ ExecDone(e, "DependencyFailure")
        /\ UNCHANGED approvals
  /\ UNCHANGED <<proposals, trail, execReq, execSeen, outcome, call, reservations, faults>>

ExecTrailWhat(e) == IF outcome[e] = "ok" THEN "Executed" ELSE "ExecutionFailed"

ExecPublish(e) ==
  /\ execPc[e] = "publish"
  /\ Record("event", ExecTrailWhat(e), execReq[e].approval, e)
  /\ ExecGoto(e, "evidence")
  /\ UNCHANGED <<approvals, proposals, execReq, execSeen, outcome, call, reservations, faults>>

ExecEvidence(e) ==
  /\ execPc[e] = "evidence"
  /\ Record("evidence", ExecTrailWhat(e), execReq[e].approval, e)
  /\ ExecGoto(e, "complete")
  /\ UNCHANGED <<approvals, proposals, execReq, execSeen, outcome, call, reservations, faults>>

(* idempotency.complete; a reservation lost before completion throws.      *)
ExecComplete(e) ==
  LET key == execReq[e].key
      r   == reservations[key]
  IN
  /\ execPc[e] = "complete"
  /\ \/ /\ r.status = "InProgress" /\ r.fingerprint = FingerprintOf(e)
        /\ reservations' = [reservations EXCEPT
             ![key].status = "Completed", ![key].result = Answer(e)]
        /\ ExecDone(e, Answer(e))
     \/ /\ ~(r.status = "InProgress" /\ r.fingerprint = FingerprintOf(e))
        /\ ExecDone(e, "DependencyFailure")
        /\ UNCHANGED reservations
  /\ UNCHANGED <<storeVars, execReq, execSeen, outcome, call, faults>>

(* An awaited call fails before taking effect, or the process stops.  A    *)
(* throw at the claim has its own handler, above.                          *)
ExecFault(e) ==
  /\ execPc[e] \notin {"idle", "done", "dead"}
  /\ Fault
  /\ ExecGoto(e, "dead")
  /\ UNCHANGED <<storeVars, execReq, execSeen, outcome, call, reservations>>

ExecStep(e) ==
  \/ ExecLoad(e)    \/ ExecBind(e)     \/ ExecLookup(e)   \/ ExecBegin(e)
  \/ ExecClaim(e)   \/ ExecRelease(e)  \/ ExecDispatch(e) \/ ExecResult(e)
  \/ ExecFinalize(e) \/ ExecPublish(e) \/ ExecEvidence(e) \/ ExecComplete(e)

RunnerStep(e) == RunnerPerform(e) \/ RunnerRefuse(e)

ExecuteNext ==
  \E e \in Executors :
    ExecStep(e) \/ RunnerStep(e) \/ ExecClaimThrows(e) \/ ExecFault(e)
=============================================================================
