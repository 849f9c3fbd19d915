------------------------ MODULE ExpiringActionProofs ------------------------
(***************************************************************************)
(* Theorems about ExpiringAction, for every value of the constants: the    *)
(* types of the approvals, the commands and the sweeps; that an expired    *)
(* approval stays expired; that overlapping sweeps announce each step of a *)
(* pending approval's escalation once per life of the process; and that    *)
(* an expiry in the middle of an execution lets nobody execute again.      *)
(*                                                                         *)
(* IndInv of GovernedActionProofs is of no use here: the sweep's write is  *)
(* unconditional and takes decisions back (DecisionNotExpired does not     *)
(* hold), so that of its parts only the types, RequestsFilled and what the *)
(* reservations rest on (KeysInv) survive.                                 *)
(***************************************************************************)
EXTENDS ExpiringAction, EffectProofs

-----------------------------------------------------------------------------

(* What the four commands do while sweeps run beside them.                 *)

(* A step of a command keeps the types, and fills its request in first.    *)
LEMMA CommandTypes ==
  ASSUME GovernedTypeOK, RequestsFilled, Next
  PROVE  GovernedTypeOK' /\ RequestsFilled'
<1>1. CASE CreateNext /\ UNCHANGED <<proposeVars, submitVars, executeVars>>
  <2>1. RequestsFilled'
    BY <1>1 DEF RequestsFilled, submitVars, executeVars
  <2> QED BY <1>1, <2>1, CreateType
<1>2. CASE ProposeNext /\ UNCHANGED <<createVars, submitVars, executeVars>>
  <2>1. RequestsFilled'
    BY <1>2 DEF RequestsFilled, submitVars, executeVars
  <2> QED BY <1>2, <2>1, ProposeType
<1>3. CASE SubmitNext /\ UNCHANGED <<createVars, proposeVars, executeVars>>
  <2>1. PICK s \in Submitters : SubmitStep(s) \/ SubmitFault(s)
    BY <1>3 DEF SubmitNext
  <2> QED BY <1>3, <2>1, SubmitterFills, SubmitType
<1>4. CASE ExecuteNext /\ UNCHANGED <<createVars, proposeVars, submitVars>>
  <2>1. PICK e \in Executors : ExecutorMoves(e)
    BY <1>4 DEF ExecuteNext, ExecutorMoves
  <2> QED BY <1>4, <2>1, ExecutorFills, ExecuteType
<1> QED BY <1>1, <1>2, <1>3, <1>4 DEF Next

(* An executor goes on to a claim only with an approved approval in hand,  *)
(* which is what it stores again when the dispatch was refused.            *)
SawApproved ==
  \A e \in Executors :
    execPc[e] \in {"begin", "claim", "dispatch", "await", "finalize"} =>
      execSeen[e].status = "Approved"

(* A command never takes that approval away from it.                       *)
LEMMA CommandSeen ==
  ASSUME GovernedTypeOK, SawApproved, Next
  PROVE  SawApproved'
<1>1. CASE UNCHANGED executeVars
  BY <1>1 DEF SawApproved, executeVars
<1>2. CASE ExecuteNext
  <2>1. PICK e \in Executors : ExecutorMoves(e)
    BY <1>2 DEF ExecuteNext, ExecutorMoves
  <2> USE DEF GovernedTypeOK, ExecuteTypeOK, ExecGoto, ExecDone, SawApproved
  <2>2. CASE ExecLoad(e)
    BY <2>2 DEF ExecLoad
  <2>3. CASE ExecLookup(e) \/ ExecBegin(e)
    BY <2>3 DEF ExecLookup, ExecBegin, ReservationAnswers
  <2>4. CASE ~(ExecLoad(e) \/ ExecLookup(e) \/ ExecBegin(e))
    <3>1. UNCHANGED execSeen
      BY <2>1, <2>4 DEF ExecutorMoves, ExecStep, ExecBind, ExecClaim, ExecClaimThrows,
         ExecRelease, ExecDispatch, ExecResult, ExecFinalize, ExecPublish, ExecEvidence,
         ExecComplete, RunnerStep, RunnerPerform, RunnerRefuse, ExecFault
    <3>2. execPc'[e] \in {"begin", "claim", "dispatch", "await", "finalize"} =>
            execPc[e] \in {"begin", "claim", "dispatch", "await", "finalize"}
      BY <2>1, <2>4 DEF ExecutorMoves, ExecStep, ExecBind, ExecClaim, ExecClaimThrows,
         ExecRelease, ExecDispatch, ExecResult, ExecFinalize, ExecPublish, ExecEvidence,
         ExecComplete, RunnerStep, RunnerPerform, RunnerRefuse, ExecFault
    <3> QED BY <2>1, <3>1, <3>2, OneExecutorMoves
  <2> QED BY <2>2, <2>3, <2>4
<1> QED BY <1>1, <1>2 DEF Next

(* Failures are counted up.                                                *)
LEMMA FaultsCounted ==
  ASSUME GovernedTypeOK, Next
  PROVE  faults <= faults'
<1>1. faults \in Nat
  BY StoreAssumption DEF GovernedTypeOK, StoreTypeOK
<1>2. UNCHANGED faults \/ Fault
  BY DEF Next, CreateNext, CreateStep, CreateLookup, CreateSave, CreatePublish,
     CreateEvidence, CreateCache, CreateFault, ProposeNext, ProposeStep, ProposeLookup,
     ProposeEvidence, ProposePublish, ProposeApproval, ProposeSave, ProposeRace,
     ProposeSaveFails, ProposeFault, SubmitNext, SubmitStep, SubmitLoad, SubmitLookup,
     SubmitRecache, SubmitLink, SubmitLinkById, SubmitPersist, SubmitPublish,
     SubmitEvidence, SubmitCache, SubmitFault, ExecuteNext, ExecStep, ExecLoad, ExecBind,
     ExecLookup, ExecBegin, ExecClaim, ExecClaimThrows, ExecRelease, ExecDispatch,
     ExecResult, ExecFinalize, ExecPublish, ExecEvidence, ExecComplete, RunnerStep,
     RunnerPerform, RunnerRefuse, ExecFault
<1> QED BY <1>1, <1>2 DEF Fault

(* What every step may do to the status of approval a.                     *)
ForwardOnly(a) ==
  /\ approvals[a].status = "Expired" => approvals'[a].status = "Expired"
  /\ approvals'[a].status = "Absent" => approvals[a].status = "Absent"
  /\ approvals'[a].status = "Pending" => approvals[a].status \in {"Absent", "Pending"}

(* The commands' writes: a creation, or one conditional on the status read.*)
LEMMA CommandForward ==
  ASSUME GovernedTypeOK, RequestsFilled, SawApproved, Next, NEW a \in Approvals
  PROVE  ForwardOnly(a)
<1> USE DEF ForwardOnly, GovernedTypeOK, StoreTypeOK, storeVars, SaveApproval,
     SaveApprovalIfStatus
<1>1. CASE CreateNext
  <2>1. PICK c \in Creators : CreateStep(c) \/ CreateFault(c)
    BY <1>1 DEF CreateNext
  <2>2. CASE CreateSave(c)
    BY <2>2 DEF CreateSave, PendingApproval
  <2>3. CASE ~CreateSave(c)
    BY <2>1, <2>3 DEF CreateStep, CreateLookup, CreatePublish, CreateEvidence,
       CreateCache, CreateFault
  <2> QED BY <2>2, <2>3
<1>2. CASE ProposeNext
  <2>1. PICK p \in Proposals : ProposeStep(p) \/ ProposeSaveFails(p) \/ ProposeFault(p)
    BY <1>2 DEF ProposeNext
  <2>2. CASE ProposeApproval(p)
    BY <2>2 DEF ProposeApproval, PendingApproval
  <2>3. CASE ~ProposeApproval(p)
    BY <2>1, <2>3 DEF ProposeStep, ProposeLookup, ProposeEvidence, ProposePublish,
       ProposeSave, ProposeRace, ProposeSaveFails, ProposeFault
  <2> QED BY <2>2, <2>3
<1>3. CASE SubmitNext
  <2>1. PICK s \in Submitters : SubmitStep(s) \/ SubmitFault(s)
    BY <1>3 DEF SubmitNext
  <2>2. CASE SubmitPersist(s)
    <3>1. DecidedApproval(s).status \in HumanDecision
      BY <2>2 DEF SubmitPersist, RequestsFilled, DecidedApproval, SubmitTypeOK,
         ApprovalRecord
    <3> QED BY <2>2, <3>1 DEF SubmitPersist, HumanDecision
  <2>3. CASE ~SubmitPersist(s)
    BY <2>1, <2>3 DEF SubmitStep, SubmitLoad, SubmitLookup, SubmitRecache, SubmitLink,
       SubmitLinkById, SubmitGuards, SubmitPublish, SubmitEvidence, SubmitCache,
       SubmitFault
  <2> QED BY <2>2, <2>3
<1>4. CASE ExecuteNext
  <2>1. PICK e \in Executors : ExecutorMoves(e)
    BY <1>4 DEF ExecuteNext, ExecutorMoves
  <2>2. /\ ClaimedApproval(e).status = "Executing"
        /\ execPc[e] = "finalize" => FinalApproval(e).status \in {"Approved", "Executed"}
    <3>1. execSeen[e] \in ApprovalRecord
      BY DEF ExecuteTypeOK
    <3>2. \A r \in ApprovalRecord, st \in {"Executing", "Executed"} :
            [r EXCEPT !.status = st].status = st
      BY DEF ApprovalRecord
    <3> QED BY <3>1, <3>2 DEF ClaimedApproval, FinalApproval, SawApproved
  <2>3. CASE ExecClaim(e)
    BY <2>2, <2>3 DEF ExecClaim
  <2>4. CASE ExecClaimThrows(e)
    BY <2>2, <2>4 DEF ExecClaimThrows
  <2>5. CASE ExecFinalize(e)
    BY <2>2, <2>5 DEF ExecFinalize
  <2>6. CASE ~ExecClaim(e) /\ ~ExecClaimThrows(e) /\ ~ExecFinalize(e)
    BY <2>1, <2>6 DEF ExecutorMoves, ExecStep, ExecLoad, ExecBind, ExecLookup, ExecBegin,
       ExecRelease, ExecDispatch, ExecResult, ExecPublish, ExecEvidence, ExecComplete,
       RunnerStep, RunnerPerform, RunnerRefuse, ExecFault
  <2> QED BY <2>3, <2>4, <2>5, <2>6
<1> QED BY <1>1, <1>2, <1>3, <1>4 DEF Next

-----------------------------------------------------------------------------

(* The types of the sweeps, and what these rest on.                        *)

(* A sweep in the middle of an action has one, and what a sweep has just   *)
(* listed bears the level its approval is at: time does not pass until it  *)
(* has evaluated its list.                                                 *)
SweepShape(w) ==
  /\ sweepPc[w] \in {"expire", "publish", "evidence"} => sweepItem[w] \in SweepItem
  /\ sweepPc[w] = "evaluate" => \A i \in sweepTodo[w] :
       i.approval \in Escalating /\ i.step = level[i.approval]

(* The inductive invariant: the types, and what they rest on.              *)
ExpiringTypeInv ==
  /\ ExpiringTypeOK
  /\ RequestsFilled
  /\ SawApproved
  /\ restarts <= faults
  /\ \A w \in Sweeps : SweepShape(w)

(* The level that is remembered for approval a after a sweep evaluated its *)
(* list: its own when it was listed before it was overdue.                 *)
LEMMA EvaluateMeans ==
  ASSUME ExpiringTypeInv, NEW w \in Sweeps, SweepEvaluate(w), NEW a \in Approvals
  PROVE  /\ (\E i \in sweepTodo[w] : i.approval = a) /\ level[a] # Overdue =>
              IF level[a] >= escalated[a] THEN escalated'[a] = level[a]
                                          ELSE escalated'[a] = escalated[a]
         /\ ~((\E i \in sweepTodo[w] : i.approval = a) /\ level[a] # Overdue) =>
              escalated'[a] = 0
<1> DEFINE reached == {i.step : i \in {j \in sweepTodo[w] : j.approval = a}}
           last == CHOOSE n \in reached \cup {escalated[a]} :
                     \A m \in reached \cup {escalated[a]} : n >= m
<1>1. escalated'[a] = IF reached \in {{}, {Overdue}} THEN 0 ELSE last
  BY DEF SweepEvaluate
<1>2. \A i \in sweepTodo[w] : i.approval = a => i.step = level[a]
  BY DEF SweepEvaluate, ExpiringTypeInv, SweepShape
<1>3. level[a] \in Nat /\ escalated[a] \in Nat
  BY SweepAssumption DEF ExpiringTypeInv, ExpiringTypeOK, SweepTypeOK, Overdue
<1>4. CASE ~\E i \in sweepTodo[w] : i.approval = a
  BY <1>1, <1>4
<1>5. CASE \E i \in sweepTodo[w] : i.approval = a
  <2>1. reached = {level[a]}
    BY <1>2, <1>5
  <2>2. CASE level[a] = Overdue
    BY <1>1, <2>1, <2>2
  <2>3. CASE level[a] # Overdue
    <3>1. escalated'[a] = last
      BY <1>1, <2>1, <2>3
    <3>2. reached \cup {escalated[a]} = {level[a], escalated[a]}
      BY <2>1
    <3>3. \E n \in {level[a], escalated[a]} : \A m \in {level[a], escalated[a]} : n >= m
      BY <1>3
    <3>4. last \in {level[a], escalated[a]} /\ \A m \in {level[a], escalated[a]} : last >= m
      BY <3>2, <3>3
    <3> HIDE DEF last
    <3>5. IF level[a] >= escalated[a] THEN last = level[a] ELSE last = escalated[a]
      BY <1>3, <3>4
    <3> QED BY <1>5, <2>3, <3>1, <3>5
  <2> QED BY <2>2, <2>3
<1> QED BY <1>4, <1>5

(* Nothing is remembered but the level an approval is at.                  *)
LEMMA EvaluateTakes ==
  ASSUME ExpiringTypeInv, NEW w \in Sweeps, SweepEvaluate(w), NEW a \in Approvals
  PROVE  \/ escalated'[a] \in {0, escalated[a]}
         \/ level[a] # Overdue /\ escalated'[a] = level[a]
  BY EvaluateMeans

(* The empty store, with no sweep under way.                               *)
LEMMA ExpiringInitTypes == ExpiringInit => ExpiringTypeInv
<1> SUFFICES ASSUME ExpiringInit PROVE ExpiringTypeInv
  OBVIOUS
<1>1. GovernedTypeOK /\ RequestsFilled /\ SawApproved
  <2>1. Init
    BY DEF ExpiringInit
  <2>2. SawApproved
    BY <2>1 DEF Init, ExecuteInit, SawApproved
  <2> QED BY <2>1, <2>2, InitInv DEF IndInv
<1>2. NoApproval \in ApprovalRecord
  BY DEF NoApproval, ApprovalRecord
<1>3. SweepTypeOK
  BY <1>2, SweepAssumption, StoreAssumption DEF ExpiringInit, SweepInit, SweepTypeOK,
     Overdue
<1>4. restarts <= faults
  BY DEF ExpiringInit, SweepInit, Init, StoreInit
<1>5. \A w \in Sweeps : SweepShape(w)
  BY DEF ExpiringInit, SweepInit, SweepShape
<1> QED BY <1>1, <1>3, <1>4, <1>5 DEF ExpiringTypeInv, ExpiringTypeOK

(* A sweep that moves leaves the other sweeps where they are.              *)
LEMMA OneSweepMoves ==
  ASSUME SweepTypeOK, NEW w \in Sweeps, SweepStep(w) \/ SweepFault(w)
  PROVE  /\ UNCHANGED <<level, restarts>>
         /\ \A v \in Sweeps \ {w} :
              /\ sweepPc'[v] = sweepPc[v] /\ sweepTodo'[v] = sweepTodo[v]
              /\ sweepItem'[v] = sweepItem[v]
  BY DEF SweepTypeOK, SweepStep, SweepList, SweepEvaluate, SweepProcess, SweepExpire,
     SweepPublish, SweepEvidence, SweepFault, SweepEnd, SweepDrop, SweepGoto

(* A step of a sweep, of time or of the process keeps the types.           *)
LEMMA SweepTypes ==
  ASSUME ExpiringTypeInv, SweepNext, UNCHANGED commandVars
  PROVE  ExpiringTypeInv'
<1>1. RequestsFilled' /\ SawApproved'
  BY DEF ExpiringTypeInv, RequestsFilled, SawApproved, commandVars, submitVars, executeVars
<1>2. SUFFICES /\ StoreTypeOK' /\ SweepTypeOK' /\ restarts' <= faults'
               /\ \A w \in Sweeps : SweepShape(w)'
  <2>1. CreateTypeOK' /\ ProposeTypeOK' /\ SubmitTypeOK' /\ ExecuteTypeOK'
    BY DEF ExpiringTypeInv, ExpiringTypeOK, GovernedTypeOK, CreateTypeOK, ProposeTypeOK,
       SubmitTypeOK, ExecuteTypeOK, commandVars, createVars, proposeVars, submitVars,
       executeVars
  <2> QED BY <1>1, <1>2, <2>1 DEF ExpiringTypeInv, ExpiringTypeOK, GovernedTypeOK
<1> USE StoreAssumption, SweepAssumption
    DEF ExpiringTypeInv, ExpiringTypeOK, GovernedTypeOK, StoreTypeOK, storeVars
<1>3. Overdue \in Nat /\ Steps \in Nat
  BY DEF Overdue
<1>4. ASSUME NEW a \in Approvals, Elapse(a)
      PROVE  /\ StoreTypeOK' /\ SweepTypeOK' /\ restarts' <= faults'
             /\ \A w \in Sweeps : SweepShape(w)'
  <2>1. StoreTypeOK' /\ restarts' <= faults'
    BY <1>4 DEF Elapse
  <2>2. SweepTypeOK'
    BY <1>3, <1>4 DEF Elapse, SweepTypeOK
  <2>3. \A w \in Sweeps : SweepShape(w)'
    BY <1>4 DEF Elapse, SweepShape
  <2> QED BY <2>1, <2>2, <2>3
<1>5. ASSUME NEW w \in Sweeps, SweepStep(w) \/ SweepFault(w)
      PROVE  /\ StoreTypeOK' /\ SweepTypeOK' /\ restarts' <= faults'
             /\ \A v \in Sweeps : SweepShape(v)'
  <2>1. SUFFICES StoreTypeOK' /\ SweepTypeOK' /\ restarts' <= faults' /\ SweepShape(w)'
    BY <1>5, <2>1, OneSweepMoves DEF SweepShape
  <2>2. UNCHANGED <<level, restarts>>
    BY <1>5, OneSweepMoves
  <2>3. CASE SweepList(w)
    <3>1. \A a \in Escalating : [approval |-> a, step |-> level[a]] \in SweepItem
      BY DEF SweepItem, SweepTypeOK
    <3> QED BY <2>3, <3>1 DEF SweepList, SweepGoto, SweepTypeOK, SweepShape
  <2>4. CASE SweepEvaluate(w)
    <3>1. \A a \in Approvals : escalated'[a] \in 0..Steps
      <4> SUFFICES ASSUME NEW a \in Approvals PROVE escalated'[a] \in 0..Steps
        OBVIOUS
      <4>1. level[a] \in 0..Overdue /\ escalated[a] \in 0..Steps
        BY DEF SweepTypeOK
      <4>2. \/ escalated'[a] \in {0, escalated[a]}
            \/ level[a] # Overdue /\ escalated'[a] = level[a]
        BY <2>4, EvaluateTakes, Zenon
      <4> QED BY <4>1, <4>2, <1>3 DEF Overdue
    <3>2. escalated' \in [Approvals -> 0..Steps]
      BY <2>4, <3>1 DEF SweepEvaluate
    <3>3. sweepTodo' \in [Sweeps -> SUBSET SweepItem]
      BY <2>4 DEF SweepEvaluate, SweepTypeOK, Due
    <3>4. sweepPc'[w] = "next" /\ sweepPc' \in [Sweeps ->
            {"idle", "evaluate", "next", "expire", "publish", "evidence"}]
      BY <2>4 DEF SweepEvaluate, SweepTypeOK, SweepGoto
    <3> QED BY <2>4, <3>2, <3>3, <3>4 DEF SweepEvaluate, SweepTypeOK, SweepShape
  <2>5. CASE SweepProcess(w)
    <3>1. CASE sweepTodo[w] = {} /\ SweepEnd(w)
      BY <2>5, <3>1 DEF SweepProcess, SweepEnd, SweepDrop, SweepGoto, SweepTypeOK,
         SweepShape, NoApproval, ApprovalRecord
    <3>2. CASE ~(sweepTodo[w] = {} /\ SweepEnd(w))
      <4>1. PICK i \in sweepTodo[w] :
               /\ sweepTodo' = [sweepTodo EXCEPT ![w] = @ \ {i}]
               /\ \/ UNCHANGED <<sweepPc, sweepItem, sweepSeen>>
                  \/ /\ sweepItem' = [sweepItem EXCEPT ![w] = i]
                     /\ sweepSeen' \in {sweepSeen, [sweepSeen EXCEPT ![w] = approvals[i.approval]]}
                     /\ SweepGoto(w, "expire") \/ SweepGoto(w, "publish")
        BY <2>5, <3>2 DEF SweepProcess
      <4>2. i \in SweepItem /\ approvals[i.approval] \in ApprovalRecord
        BY DEF SweepTypeOK, SweepItem
      <4>3. UNCHANGED <<approvals, proposals, trail, faults, level, escalated, announced>>
        BY <2>5 DEF SweepProcess
      <4>4. sweepPc[w] = "next"
        BY <2>5 DEF SweepProcess
      <4>5. StoreTypeOK' /\ restarts' <= faults'
        BY <2>2, <4>3
      <4>6. SweepTypeOK' /\ SweepShape(w)'
        <5>1. CASE UNCHANGED <<sweepPc, sweepItem, sweepSeen>>
          BY <2>2, <4>1, <4>3, <4>4, <5>1 DEF SweepTypeOK, SweepShape
        <5>2. CASE ~UNCHANGED <<sweepPc, sweepItem, sweepSeen>>
          <6>1. sweepPc' \in [Sweeps ->
                  {"idle", "evaluate", "next", "expire", "publish", "evidence"}]
                /\ sweepPc'[w] # "evaluate"
            BY <4>1, <5>2 DEF SweepTypeOK, SweepGoto
          <6>2. sweepItem' \in [Sweeps -> SweepItem \cup {NoItem}] /\ sweepItem'[w] = i
            <7>1. sweepItem' = [sweepItem EXCEPT ![w] = i]
              BY <4>1, <5>2
            <7>2. sweepItem \in [Sweeps -> SweepItem \cup {NoItem}]
              BY DEF SweepTypeOK
            <7> HIDE DEF SweepItem, NoItem
            <7> QED BY <4>2, <7>1, <7>2
          <6>3. sweepSeen' \in [Sweeps -> ApprovalRecord]
            BY <4>1, <4>2, <5>2 DEF SweepTypeOK
          <6>4. sweepTodo' \in [Sweeps -> SUBSET SweepItem]
            BY <4>1 DEF SweepTypeOK
          <6> QED BY <2>2, <4>2, <4>3, <6>1, <6>2, <6>3, <6>4 DEF SweepTypeOK, SweepShape
        <5> QED BY <5>1, <5>2
      <4> QED BY <4>5, <4>6
    <3> QED BY <3>1, <3>2
  <2>6. CASE SweepExpire(w)
    <3>1. sweepSeen[w] \in ApprovalRecord /\ sweepItem[w] \in SweepItem
      BY <2>6 DEF SweepExpire, SweepTypeOK, SweepShape
    <3>2. [sweepSeen[w] EXCEPT !.status = "Expired", !.decidedBy = SchedulerActor]
             \in ApprovalRecord
      BY <3>1 DEF ApprovalRecord, ApprovalStatus, Decided, Deciders
    <3> QED BY <2>6, <3>1, <3>2 DEF SweepExpire, SaveApproval, SweepGoto, SweepTypeOK,
               SweepShape, SweepItem
  <2>7. CASE SweepPublish(w)
    <3>1. sweepItem[w] \in SweepItem
      BY <2>7 DEF SweepPublish, SweepShape
    <3>2. StoreTypeOK'
      BY <2>7, <3>1 DEF SweepPublish, Record, TrailRecord, SweepTrailWhat, SweepItem
    <3>3. announced' \in [Approvals -> [1..Steps -> Nat]]
      <4> DEFINE a == sweepItem[w].approval
                 n == sweepItem[w].step
      <4>1. a \in Approvals /\ announced[a] \in [1..Steps -> Nat]
        BY <3>1 DEF SweepTypeOK, SweepItem
      <4> DEFINE row == [announced[a] EXCEPT ![n] = @ + 1]
      <4>2. row \in [1..Steps -> Nat]
        <5>1. \A m \in 1..Steps : row[m] \in Nat
          <6> SUFFICES ASSUME NEW m \in 1..Steps PROVE row[m] \in Nat
            OBVIOUS
          <6>1. announced[a][m] \in Nat
            BY <4>1
          <6> HIDE DEF n
          <6>2. row[m] = IF m = n THEN announced[a][m] + 1 ELSE announced[a][m]
            BY <4>1
          <6> QED BY <6>1, <6>2
        <5>2. row = [m \in 1..Steps |-> row[m]]
          BY <4>1
        <5> HIDE DEF row
        <5> QED BY <5>1, <5>2
      <4>3. announced' \in {announced, [announced EXCEPT ![a] = row]}
        BY <2>7, <4>1 DEF SweepPublish, SweepTypeOK
      <4> HIDE DEF a, n, row
      <4> QED BY <4>1, <4>2, <4>3 DEF SweepTypeOK
    <3> QED BY <2>7, <3>1, <3>2, <3>3 DEF SweepPublish, SweepGoto, SweepTypeOK, SweepShape
  <2>8. CASE SweepEvidence(w)
    <3>1. sweepItem[w] \in SweepItem
      BY <2>8 DEF SweepEvidence, SweepShape
    <3>2. StoreTypeOK'
      BY <2>8, <3>1 DEF SweepEvidence, Record, TrailRecord, SweepTrailWhat, SweepItem
    <3> QED BY <2>8, <3>2 DEF SweepEvidence, SweepDrop, SweepGoto, SweepTypeOK, SweepShape,
               NoApproval, ApprovalRecord
  <2>9. CASE SweepFault(w)
    BY <2>9 DEF SweepFault, Fault, SweepEnd, SweepDrop, SweepGoto, SweepTypeOK, SweepShape,
       NoApproval, ApprovalRecord
  <2> QED BY <1>5, <2>3, <2>4, <2>5, <2>6, <2>7, <2>8, <2>9 DEF SweepStep
<1>6. ASSUME SweepRestart
      PROVE  /\ StoreTypeOK' /\ SweepTypeOK' /\ restarts' <= faults'
             /\ \A w \in Sweeps : SweepShape(w)'
  <2>1. restarts' \in 0..MaxFaults /\ restarts' <= faults' /\ StoreTypeOK'
    BY <1>6 DEF SweepRestart, Fault, SweepTypeOK
  <2>2. SweepTypeOK'
    BY <1>3, <1>6, <2>1 DEF SweepRestart, SweepTypeOK, NoApproval, ApprovalRecord
  <2>3. \A w \in Sweeps : SweepShape(w)'
    BY <1>6 DEF SweepRestart, SweepShape
  <2> QED BY <2>1, <2>2, <2>3
<1> QED BY <1>4, <1>5, <1>6 DEF SweepNext

(* Every step keeps the types.                                             *)
LEMMA ExpiringTypesKept ==
  ASSUME ExpiringTypeInv, [ExpiringNext]_expiringVars
  PROVE  ExpiringTypeInv'
<1>1. CASE Next /\ UNCHANGED sweepVars
  <2>1. faults <= faults'
    BY <1>1, FaultsCounted DEF ExpiringTypeInv, ExpiringTypeOK
  <2>2. GovernedTypeOK' /\ RequestsFilled' /\ SawApproved'
    BY <1>1, CommandTypes, CommandSeen DEF ExpiringTypeInv, ExpiringTypeOK
  <2>3. SweepTypeOK' /\ \A w \in Sweeps : SweepShape(w)'
    BY <1>1 DEF ExpiringTypeInv, ExpiringTypeOK, SweepTypeOK, SweepShape, sweepVars
  <2>4. restarts' <= faults'
    <3>1. restarts \in Nat /\ faults \in Nat /\ faults' \in Nat /\ restarts' = restarts
      BY <1>1, <2>2, StoreAssumption DEF ExpiringTypeInv, ExpiringTypeOK, SweepTypeOK,
         GovernedTypeOK, StoreTypeOK, sweepVars
    <3> QED BY <2>1, <3>1 DEF ExpiringTypeInv
  <2> QED BY <2>2, <2>3, <2>4 DEF ExpiringTypeInv, ExpiringTypeOK
<1>2. CASE SweepNext /\ UNCHANGED commandVars
  BY <1>2, SweepTypes
<1>3. CASE UNCHANGED expiringVars
  BY <1>3 DEF expiringVars, vars, sweepVars, storeVars, createVars, proposeVars,
     submitVars, executeVars, ExpiringTypeInv, ExpiringTypeOK, GovernedTypeOK, StoreTypeOK,
     CreateTypeOK, ProposeTypeOK, SubmitTypeOK, ExecuteTypeOK, RequestsFilled,
     SawApproved, SweepTypeOK, SweepShape
<1> QED BY <1>1, <1>2, <1>3 DEF ExpiringNext

(* The invariant, which the proofs below use, and the types in it.         *)
LEMMA ExpiringTyped == ExpiringSpec => []ExpiringTypeInv
<1>1. ExpiringInit => ExpiringTypeInv
  BY ExpiringInitTypes
<1>2. ExpiringTypeInv /\ [ExpiringNext]_expiringVars => ExpiringTypeInv'
  BY ExpiringTypesKept
<1> QED BY <1>1, <1>2, PTL DEF ExpiringSpec

(* Whatever the commands and the sweeps do, the approvals, the requests    *)
(* and the memory of the scheduler keep their types.                       *)
THEOREM ExpiringTypes == ExpiringSpec => []ExpiringTypeOK
<1>1. ExpiringTypeInv => ExpiringTypeOK
  BY DEF ExpiringTypeInv
<1> QED BY <1>1, ExpiringTyped, PTL

-----------------------------------------------------------------------------

(* A sweep writes nothing but Expired.                                     *)
LEMMA SweepWrites ==
  ASSUME ExpiringTypeInv, SweepNext, NEW a \in Approvals
  PROVE  approvals'[a] = approvals[a] \/ approvals'[a].status = "Expired"
<1>1. CASE \E w \in Sweeps : SweepExpire(w)
  <2>1. PICK w \in Sweeps : SweepExpire(w)
    BY <1>1
  <2> DEFINE r == [sweepSeen[w] EXCEPT !.status = "Expired", !.decidedBy = SchedulerActor]
  <2>2. r.status = "Expired"
    <3>1. sweepSeen[w] \in ApprovalRecord
      BY DEF ExpiringTypeInv, ExpiringTypeOK, SweepTypeOK
    <3> QED BY <3>1 DEF ApprovalRecord
  <2>3. approvals' = [approvals EXCEPT ![sweepItem[w].approval] = r]
    BY <2>1 DEF SweepExpire, SaveApproval
  <2> HIDE DEF r
  <2> QED BY <2>2, <2>3 DEF ExpiringTypeInv, ExpiringTypeOK, GovernedTypeOK, StoreTypeOK
<1>2. CASE ~\E w \in Sweeps : SweepExpire(w)
  BY <1>2 DEF SweepNext, SweepStep, Elapse, SweepList, SweepEvaluate, SweepProcess,
     SweepPublish, SweepEvidence, SweepFault, SweepRestart, storeVars
<1> QED BY <1>1, <1>2

(* No step undoes an expiry or a request.                                  *)
LEMMA StatusForward ==
  ASSUME ExpiringTypeInv, [ExpiringNext]_expiringVars, NEW a \in Approvals
  PROVE  ForwardOnly(a)
<1>1. CASE Next
  BY <1>1, CommandForward DEF ExpiringTypeInv, ExpiringTypeOK
<1>2. CASE SweepNext
  BY <1>2, SweepWrites DEF ForwardOnly
<1>3. CASE UNCHANGED expiringVars
  BY <1>3 DEF expiringVars, vars, storeVars, ForwardOnly
<1> QED BY <1>1, <1>2, <1>3 DEF ExpiringNext

(* An expired approval stays expired: submitApproval's and                 *)
(* executeApprovedAgentAction's writes are conditional on the status they  *)
(* read, and a sweep's can only expire once more.                          *)
THEOREM ExpiredFinal == ExpiringSpec => ExpiredIsFinal
<1>1. ASSUME ExpiringTypeInv, [ExpiringNext]_expiringVars
      PROVE  \A a \in Approvals :
               approvals[a].status = "Expired" => approvals'[a].status = "Expired"
  BY <1>1, StatusForward DEF ForwardOnly
<1>2. ExpiringTypeInv /\ [ExpiringNext]_expiringVars =>
        [\A a \in Approvals :
           approvals[a].status = "Expired" => approvals'[a].status = "Expired"]_expiringVars
  BY <1>1
<1> QED BY <1>2, ExpiringTyped, PTL DEF ExpiringSpec, ExpiredIsFinal

-----------------------------------------------------------------------------

(* Escalation.  A sweep that has evaluated its list holds the announcement *)
(* of step n for approval a until it publishes it, and evaluating is what  *)
(* takes the step for everybody: it is remembered at once.                 *)

Item(a, n) == [approval |-> a, step |-> n]

Held(w, a, n) ==
  \/ sweepPc[w] # "evaluate" /\ Item(a, n) \in sweepTodo[w]
  \/ sweepPc[w] = "publish" /\ sweepItem[w] = Item(a, n)

(* Nothing that a sweep remembers, carries or has announced is ahead of    *)
(* the time that passed for the approval.                                  *)
Reached(a) ==
  /\ escalated[a] <= level[a]
  /\ \A n \in 1..Steps : announced[a][n] > 0 => n <= level[a]
  /\ approvals[a].status = "Absent" \/ a \notin Escalating => level[a] = 0

Carried(w, a) ==
  \A i \in sweepTodo[w] \cup {sweepItem[w]} :
    i.approval = a => i.step <= level[a] /\ approvals[a].status # "Absent"

(* A sweep about to evaluate has listed every pending approval with a step *)
(* behind it, so that it forgets none that was announced.                  *)
Listed(w, a) ==
  sweepPc[w] = "evaluate" /\ approvals[a].status = "Pending" /\ level[a] > 0
    => \E i \in sweepTodo[w] : i.approval = a

(* An announcement is held by one sweep, once, before the announcement is  *)
(* made; and while it is held, or made in this life of the process, its    *)
(* step is not due again.                                                  *)
Once(a, n) ==
  approvals[a].status \in {"Absent", "Pending"} =>
    /\ announced[a][n] <= restarts + 1
    /\ \A w \in Sweeps :
         sweepPc[w] = "publish" /\ sweepItem[w] = Item(a, n) => Item(a, n) \notin sweepTodo[w]
    /\ \A v, w \in Sweeps : Held(v, a, n) /\ Held(w, a, n) => v = w
    /\ \A w \in Sweeps : Held(w, a, n) =>
         announced[a][n] <= restarts /\ (n <= escalated[a] \/ level[a] = Overdue)
    /\ announced[a][n] = restarts + 1 => n <= escalated[a] \/ level[a] = Overdue

(* What is remembered or listed of an approval is a level it has reached.  *)
LevelInv ==
  \A a \in Approvals : Reached(a) /\ \A w \in Sweeps : Carried(w, a) /\ Listed(w, a)

(* The inductive invariant behind EscalatedOncePerLife.                    *)
EscalationInv ==
  /\ ExpiringTypeInv
  /\ LevelInv
  /\ \A a \in Approvals, n \in 1..Steps : Once(a, n)

(* The numbers the invariant compares.                                     *)
LEMMA Numbers ==
  ASSUME ExpiringTypeInv, NEW a \in Approvals
  PROVE  /\ Steps \in Nat /\ Overdue = Steps + 1 /\ restarts \in Nat
         /\ level[a] \in 0..Overdue /\ escalated[a] \in 0..Steps
         /\ \A n \in 1..Steps : announced[a][n] \in Nat
  BY SweepAssumption, StoreAssumption DEF ExpiringTypeInv, ExpiringTypeOK, SweepTypeOK, Overdue

(* Nothing was announced at first.                                         *)
LEMMA EscalationInit == ExpiringInit => EscalationInv
<1> SUFFICES ASSUME ExpiringInit PROVE EscalationInv
  OBVIOUS
<1>1. ExpiringTypeInv
  BY ExpiringInitTypes
<1>2. LevelInv
  BY StoreAssumption DEF ExpiringInit, SweepInit, NoItem, LevelInv, Reached, Carried, Listed
<1>3. \A a \in Approvals, n \in 1..Steps : Once(a, n)
  BY DEF ExpiringInit, SweepInit, Once, Held
<1> QED BY <1>1, <1>2, <1>3 DEF EscalationInv

(* A step of somebody else than the scheduler.                             *)
LEMMA EscalationCommand ==
  ASSUME EscalationInv, [ExpiringNext]_expiringVars, UNCHANGED sweepVars
  PROVE  LevelInv' /\ \A a \in Approvals, n \in 1..Steps : Once(a, n)'
<1>1. ASSUME NEW a \in Approvals PROVE ForwardOnly(a)
  BY StatusForward DEF EscalationInv
<1>2. LevelInv'
  <2> SUFFICES ASSUME NEW a \in Approvals
               PROVE  Reached(a)' /\ \A w \in Sweeps : Carried(w, a)' /\ Listed(w, a)'
    BY DEF LevelInv
  <2> USE <1>1 DEF EscalationInv, LevelInv, sweepVars, ForwardOnly
  <2>1. Reached(a)'
    BY DEF Reached
  <2>2. \A w \in Sweeps : Carried(w, a)'
    BY DEF Carried
  <2>3. \A w \in Sweeps : Listed(w, a)'
    BY Numbers DEF Listed, Reached
  <2> QED BY <2>1, <2>2, <2>3
<1>3. \A a \in Approvals, n \in 1..Steps : Once(a, n)'
  BY <1>1 DEF EscalationInv, sweepVars, ForwardOnly, Once, Held
<1> QED BY <1>2, <1>3

(* Hours that go by.                                                       *)
LEMMA EscalationElapse ==
  ASSUME EscalationInv, NEW b \in Approvals, Elapse(b)
  PROVE  LevelInv' /\ \A a \in Approvals, n \in 1..Steps : Once(a, n)'
<1>1. /\ approvals' = approvals /\ restarts' = restarts /\ escalated' = escalated
      /\ announced' = announced /\ sweepPc' = sweepPc /\ sweepTodo' = sweepTodo
      /\ sweepItem' = sweepItem
      /\ \A w \in Sweeps : sweepPc[w] # "evaluate"
      /\ b \in Escalating /\ approvals[b].status # "Absent" /\ level[b] < Overdue
  BY DEF Elapse, storeVars
<1>2. \A a \in Approvals : level'[a] = IF a = b THEN level[a] + 1 ELSE level[a]
  BY DEF Elapse, EscalationInv, ExpiringTypeInv, ExpiringTypeOK, SweepTypeOK
<1>3. \A a \in Approvals :
        /\ level[a] \in Nat /\ escalated[a] \in Nat
        /\ \A w \in Sweeps : \A i \in sweepTodo[w] \cup {sweepItem[w]} : i.step \in Nat
  BY Numbers DEF EscalationInv, ExpiringTypeInv, ExpiringTypeOK, SweepTypeOK, SweepItem,
     NoItem
<1>4. LevelInv'
  <2> SUFFICES ASSUME NEW a \in Approvals
               PROVE  Reached(a)' /\ \A w \in Sweeps : Carried(w, a)' /\ Listed(w, a)'
    BY DEF LevelInv
  <2> USE DEF EscalationInv, LevelInv
  <2>1. Reached(a)'
    BY <1>1, <1>2, <1>3 DEF Reached
  <2>2. \A w \in Sweeps : Carried(w, a)'
    BY <1>1, <1>2, <1>3 DEF Carried
  <2>3. \A w \in Sweeps : Listed(w, a)'
    BY <1>1 DEF Listed
  <2> QED BY <2>1, <2>2, <2>3
<1>5. \A a \in Approvals : level[a] = Overdue => level'[a] = Overdue
  BY <1>1, <1>2, Numbers DEF EscalationInv
<1>6. \A a \in Approvals, n \in 1..Steps : Once(a, n)'
  BY <1>1, <1>5 DEF EscalationInv, Once, Held
<1> QED BY <1>4, <1>6

(* The memory of a sweep follows the levels, whichever step it takes.      *)
LEMMA EscalationLevels ==
  ASSUME EscalationInv, NEW w \in Sweeps, SweepStep(w) \/ SweepFault(w),
         [ExpiringNext]_expiringVars
  PROVE  LevelInv'
<1>1. ASSUME NEW a \in Approvals PROVE ForwardOnly(a)
  BY StatusForward DEF EscalationInv
<1>2. /\ UNCHANGED <<level, restarts>>
      /\ \A v \in Sweeps \ {w} :
           /\ sweepPc'[v] = sweepPc[v] /\ sweepTodo'[v] = sweepTodo[v]
           /\ sweepItem'[v] = sweepItem[v]
  BY OneSweepMoves DEF EscalationInv, ExpiringTypeInv, ExpiringTypeOK
<1> SUFFICES ASSUME NEW a \in Approvals
             PROVE  Reached(a)' /\ \A v \in Sweeps : Carried(v, a)' /\ Listed(v, a)'
  BY DEF LevelInv
<1>3. Reached(a) /\ \A v \in Sweeps : Carried(v, a) /\ Listed(v, a)
  BY DEF EscalationInv, LevelInv
<1>4. \A v \in Sweeps \ {w} : Carried(v, a)'
  BY <1>1, <1>2, <1>3 DEF Carried, ForwardOnly
<1>5. \A v \in Sweeps \ {w} : Listed(v, a)'
  BY <1>1, <1>2, <1>3, Numbers DEF EscalationInv, Listed, Reached, ForwardOnly
<1>6. escalated'[a] <= level[a]
  <2>1. CASE SweepEvaluate(w)
    <3>1. \/ escalated'[a] \in {0, escalated[a]}
          \/ level[a] # Overdue /\ escalated'[a] = level[a]
      BY <2>1, EvaluateTakes, Zenon DEF EscalationInv
    <3> QED BY <1>3, <3>1, Numbers DEF Reached, EscalationInv
  <2>2. CASE ~SweepEvaluate(w)
    <3>1. escalated' = escalated
      BY <2>2 DEF SweepStep, SweepList, SweepProcess, SweepExpire, SweepPublish,
         SweepEvidence, SweepFault
    <3> QED BY <1>3, <3>1 DEF Reached
  <2> QED BY <2>1, <2>2
<1>7. \A n \in 1..Steps : announced'[a][n] > 0 => n <= level[a]
  <2>1. CASE SweepPublish(w)
    <3> DEFINE i == sweepItem[w]
    <3>1. i \in SweepItem
      BY <2>1 DEF SweepPublish, EscalationInv, ExpiringTypeInv, SweepShape
    <3>2. i.approval = a => i.step <= level[a]
      BY <1>3 DEF Carried
    <3>3. \A n \in 1..Steps : ~(i.approval = a /\ i.step = n) => announced'[a][n] = announced[a][n]
      BY <2>1 DEF SweepPublish, EscalationInv, ExpiringTypeInv, ExpiringTypeOK, SweepTypeOK
    <3> HIDE DEF i
    <3> QED BY <1>3, <3>2, <3>3 DEF Reached
  <2>2. CASE ~SweepPublish(w)
    <3>1. announced' = announced
      BY <2>2 DEF SweepStep, SweepList, SweepEvaluate, SweepProcess, SweepExpire,
         SweepEvidence, SweepFault
    <3> QED BY <1>3, <3>1 DEF Reached
  <2> QED BY <2>1, <2>2
<1>8. Reached(a)'
  BY <1>1, <1>2, <1>3, <1>6, <1>7 DEF Reached, ForwardOnly
<1>9. Carried(w, a)' /\ Listed(w, a)'
  <2>1. CASE SweepList(w)
    <3>1. sweepTodo'[w] = {[approval |-> b, step |-> level[b]] :
                             b \in {c \in Escalating : approvals[c].status = "Pending"}}
          /\ sweepItem' = sweepItem /\ approvals' = approvals
      BY <2>1 DEF SweepList, storeVars, EscalationInv, ExpiringTypeInv, ExpiringTypeOK, SweepTypeOK
    <3>2. \A i \in sweepTodo'[w] : i.approval = a =>
            i.step = level[a] /\ approvals[a].status = "Pending"
      BY <3>1
    <3>3. Carried(w, a)'
      BY <1>2, <1>3, <3>1, <3>2, Numbers DEF Carried, EscalationInv
    <3>4. Listed(w, a)'
      <4>1. level[a] > 0 => a \in Escalating
        BY <1>3, Numbers DEF Reached, EscalationInv
      <4>2. a \in Escalating /\ approvals[a].status = "Pending" =>
              Item(a, level[a]) \in sweepTodo'[w]
        BY <3>1 DEF Item
      <4>3. Item(a, level[a]).approval = a
        BY DEF Item
      <4> QED BY <1>2, <3>1, <4>1, <4>2, <4>3 DEF Listed
    <3> QED BY <3>3, <3>4
  <2>2. CASE ~SweepList(w)
    <3>1. sweepPc'[w] # "evaluate"
      BY <2>2 DEF SweepStep, SweepEvaluate, SweepProcess, SweepExpire, SweepPublish,
         SweepEvidence, SweepFault, SweepEnd, SweepGoto, EscalationInv, ExpiringTypeInv,
         ExpiringTypeOK, SweepTypeOK
    <3>2. /\ sweepTodo'[w] \subseteq sweepTodo[w]
          /\ sweepItem'[w] \in sweepTodo[w] \cup {sweepItem[w], NoItem}
      BY <2>2 DEF SweepStep, SweepEvaluate, Due, SweepProcess, SweepExpire, SweepPublish,
         SweepEvidence, SweepFault, SweepEnd, SweepDrop, EscalationInv, ExpiringTypeInv,
         ExpiringTypeOK, SweepTypeOK
    <3>3. NoItem.approval # a
      BY StoreAssumption DEF NoItem
    <3> QED BY <1>1, <1>2, <1>3, <3>1, <3>2, <3>3 DEF Carried, Listed, ForwardOnly
  <2> QED BY <2>1, <2>2
<1> QED BY <1>4, <1>5, <1>8, <1>9

(* A step that takes nothing new and announces nothing keeps Once.         *)
LEMMA OnceKept ==
  ASSUME EscalationInv, [ExpiringNext]_expiringVars, NEW a \in Approvals, NEW n \in 1..Steps,
         UNCHANGED <<level, restarts>>, escalated'[a] = escalated[a],
         announced'[a][n] = announced[a][n],
         \A w \in Sweeps : Held(w, a, n)' => Held(w, a, n),
         \A w \in Sweeps : sweepPc'[w] = "publish" /\ sweepItem'[w] = Item(a, n) =>
           Item(a, n) \notin sweepTodo'[w]
  PROVE  Once(a, n)'
<1>1. ForwardOnly(a) /\ Once(a, n)
  BY StatusForward DEF EscalationInv
<1> DEFINE held(w) == Held(w, a, n)
<1>2. \A w \in Sweeps : held(w)' => held(w)
  OBVIOUS
<1> HIDE DEF held
<1>3. approvals'[a].status \in {"Absent", "Pending"} => approvals[a].status \in {"Absent", "Pending"}
  BY <1>1 DEF ForwardOnly
<1> SUFFICES ASSUME approvals'[a].status \in {"Absent", "Pending"} PROVE Once(a, n)'
  BY DEF Once
<1>4. /\ announced[a][n] <= restarts + 1
      /\ \A v, w \in Sweeps : held(v) /\ held(w) => v = w
      /\ \A w \in Sweeps : held(w) =>
           announced[a][n] <= restarts /\ (n <= escalated[a] \/ level[a] = Overdue)
      /\ announced[a][n] = restarts + 1 => n <= escalated[a] \/ level[a] = Overdue
  BY <1>1, <1>3 DEF Once, held
<1>5. Overdue' = Overdue /\ Item(a, n)' = Item(a, n)
  BY DEF Overdue, Item
<1>6. /\ announced'[a][n] <= restarts' + 1
      /\ \A v, w \in Sweeps : held(v)' /\ held(w)' => v = w
      /\ \A w \in Sweeps : held(w)' =>
           announced'[a][n] <= restarts' /\ (n <= escalated'[a] \/ level'[a] = Overdue)
      /\ announced'[a][n] = restarts' + 1 => n <= escalated'[a] \/ level'[a] = Overdue
  BY <1>2, <1>4
<1> QED BY <1>5, <1>6 DEF Once, held

(* Evaluating takes a step that nobody holds, and remembers it.            *)
LEMMA OnceEvaluate ==
  ASSUME EscalationInv, NEW w \in Sweeps, SweepEvaluate(w), NEW a \in Approvals,
         NEW n \in 1..Steps
  PROVE  Once(a, n)'
<1>1. /\ approvals' = approvals /\ level' = level /\ restarts' = restarts
      /\ announced' = announced /\ sweepItem' = sweepItem /\ sweepPc[w] = "evaluate"
      /\ \A v \in Sweeps \ {w} : sweepPc'[v] = sweepPc[v] /\ sweepTodo'[v] = sweepTodo[v]
      /\ sweepTodo'[w] = Due(w) /\ sweepPc'[w] = "next"
  BY DEF SweepEvaluate, SweepGoto, storeVars, EscalationInv, ExpiringTypeInv,
     ExpiringTypeOK, SweepTypeOK
<1> SUFFICES ASSUME approvals[a].status \in {"Absent", "Pending"} PROVE Once(a, n)'
  BY <1>1 DEF Once
<1>2. Once(a, n) /\ Reached(a) /\ \A v \in Sweeps : Carried(v, a) /\ Listed(v, a)
  BY DEF EscalationInv, LevelInv
<1> DEFINE listed == \E i \in sweepTodo[w] : i.approval = a
           taken  == Item(a, n) \in Due(w)
<1>3. /\ Steps \in Nat /\ Overdue = Steps + 1 /\ restarts \in Nat
      /\ level[a] \in 0..Overdue /\ escalated[a] \in 0..Steps /\ announced[a][n] \in Nat
  BY Numbers DEF EscalationInv
<1>4. /\ listed /\ level[a] # Overdue =>
           IF level[a] >= escalated[a] THEN escalated'[a] = level[a]
                                       ELSE escalated'[a] = escalated[a]
      /\ ~(listed /\ level[a] # Overdue) => escalated'[a] = 0
  BY EvaluateMeans DEF EscalationInv
<1>5. /\ Item(a, n).approval = a /\ Item(a, n).step = n
  BY DEF Item
(* Nothing was announced or is held for an approval that is forgotten.     *)
<1>6. ~listed => /\ announced[a][n] = 0
                 /\ \A v \in Sweeps : ~Held(v, a, n)
  <2> SUFFICES ASSUME ~listed
               PROVE  announced[a][n] = 0 /\ \A v \in Sweeps : ~Held(v, a, n)
    OBVIOUS
  <2>1. level[a] = 0
    BY <1>1, <1>2, <1>3 DEF Listed, Reached
  <2>2. announced[a][n] = 0
    BY <1>2, <1>3, <2>1 DEF Reached
  <2>3. \A v \in Sweeps : ~Held(v, a, n)
    BY <1>2, <1>5, <2>1 DEF Held, Carried
  <2> QED BY <2>2, <2>3
<1>7. taken => /\ n = level[a] /\ n > escalated[a] /\ listed
  <2> SUFFICES ASSUME taken PROVE n = level[a] /\ n > escalated[a] /\ listed
    OBVIOUS
  <2>1. Item(a, n) \in sweepTodo[w] /\ (n = Overdue \/ n > escalated[a])
    BY <1>5 DEF Due
  <2>2. n = level[a]
    BY <1>1, <1>5, <2>1 DEF EscalationInv, ExpiringTypeInv, SweepShape
  <2> QED BY <1>3, <1>5, <2>1, <2>2
<1>8. taken => announced[a][n] <= restarts /\ \A v \in Sweeps : ~Held(v, a, n)
  BY <1>2, <1>3, <1>7 DEF Once
<1>9. Held(w, a, n)' <=> taken
  BY <1>1 DEF Held, Item
<1>10. \A v \in Sweeps \ {w} : Held(v, a, n)' <=> Held(v, a, n)
  BY <1>1 DEF Held, Item
<1>11. n <= escalated[a] \/ level[a] = Overdue => ~listed \/ n <= escalated'[a] \/ level[a] = Overdue
  BY <1>3, <1>4
<1>12. taken => n <= escalated'[a]
  BY <1>3, <1>4, <1>7
<1> HIDE DEF taken, listed
<1>13. announced'[a][n] <= restarts' + 1
  BY <1>1, <1>2 DEF Once
<1>14. \A v \in Sweeps :
         sweepPc'[v] = "publish" /\ sweepItem'[v] = Item(a, n)' => Item(a, n)' \notin sweepTodo'[v]
  BY <1>1, <1>2 DEF Once, Item
<1>15. \A u, v \in Sweeps : Held(u, a, n)' /\ Held(v, a, n)' => u = v
  BY <1>2, <1>8, <1>9, <1>10 DEF Once
<1>16. \A v \in Sweeps : Held(v, a, n)' =>
         announced'[a][n] <= restarts' /\ (n <= escalated'[a] \/ level'[a] = Overdue')
  <2>1. Overdue' = Overdue
    BY DEF Overdue
  <2>2. CASE ~taken
    BY <1>1, <1>2, <1>6, <1>9, <1>10, <1>11, <2>1, <2>2 DEF Once
  <2>3. CASE taken
    BY <1>1, <1>8, <1>9, <1>10, <1>12, <2>1, <2>3
  <2> QED BY <2>2, <2>3
<1>17. announced'[a][n] = restarts' + 1 => n <= escalated'[a] \/ level'[a] = Overdue'
  BY <1>1, <1>2, <1>3, <1>6, <1>11 DEF Once, Overdue
<1> QED BY <1>13, <1>14, <1>15, <1>16, <1>17 DEF Once

(* Publishing turns what the sweep held into an announcement.              *)
LEMMA OncePublish ==
  ASSUME EscalationInv, [ExpiringNext]_expiringVars, NEW w \in Sweeps, SweepPublish(w),
         NEW a \in Approvals, NEW n \in 1..Steps
  PROVE  Once(a, n)'
<1>1. /\ approvals' = approvals /\ level' = level /\ restarts' = restarts
      /\ escalated' = escalated /\ sweepItem' = sweepItem /\ sweepTodo' = sweepTodo
      /\ sweepPc[w] = "publish" /\ sweepPc'[w] = "evidence"
      /\ \A v \in Sweeps \ {w} : sweepPc'[v] = sweepPc[v]
  BY DEF SweepPublish, SweepGoto, EscalationInv, ExpiringTypeInv, ExpiringTypeOK, SweepTypeOK
<1>2. \A v \in Sweeps \ {w} : Held(v, a, n)' <=> Held(v, a, n)
  BY <1>1 DEF Held, Item
<1>3. Held(w, a, n)' => Held(w, a, n)
  BY <1>1 DEF Held, Item
<1>4. Steps \in Nat /\ Overdue = Steps + 1 /\ restarts \in Nat /\ announced[a][n] \in Nat
  BY Numbers DEF EscalationInv
<1>5. CASE sweepItem[w] # Item(a, n)
  <2>1. announced'[a][n] = announced[a][n]
    <3>1. sweepItem[w] \in SweepItem
      BY <1>1 DEF EscalationInv, ExpiringTypeInv, SweepShape
    <3>2. ~(sweepItem[w].approval = a /\ sweepItem[w].step = n)
      BY <1>5, <3>1 DEF SweepItem, Item
    <3> DEFINE i == sweepItem[w]
    <3>3. announced' = IF i.step = Overdue THEN announced
                       ELSE [announced EXCEPT ![i.approval][i.step] = @ + 1]
      BY DEF SweepPublish
    <3> HIDE DEF i
    <3>4. ~(i.approval = a /\ i.step = n)
      BY <3>2 DEF i
    <3> QED BY <3>3, <3>4 DEF EscalationInv, ExpiringTypeInv, ExpiringTypeOK, SweepTypeOK
  <2>2. \A v \in Sweeps : sweepPc'[v] = "publish" /\ sweepItem'[v] = Item(a, n) =>
          Item(a, n) \notin sweepTodo'[v] \/ approvals'[a].status \notin {"Absent", "Pending"}
    BY <1>1 DEF EscalationInv, Once
  <2>3. CASE approvals'[a].status \in {"Absent", "Pending"}
    <3>1. \A v \in Sweeps : sweepPc'[v] = "publish" /\ sweepItem'[v] = Item(a, n) =>
            Item(a, n) \notin sweepTodo'[v]
      BY <2>2, <2>3
    <3> QED BY <1>1, <1>2, <1>3, <2>1, <3>1, OnceKept
  <2> QED BY <2>3 DEF Once
<1>6. CASE sweepItem[w] = Item(a, n)
  <2> SUFFICES ASSUME approvals[a].status \in {"Absent", "Pending"} PROVE Once(a, n)'
    BY <1>1 DEF Once
  <2>1. Once(a, n)
    BY DEF EscalationInv
  <2>2. announced'[a][n] = announced[a][n] + 1
    <3>1. sweepItem[w].approval = a /\ sweepItem[w].step = n /\ n # Overdue
      BY <1>4, <1>6 DEF Item
    <3> QED BY <3>1 DEF SweepPublish, EscalationInv, ExpiringTypeInv, ExpiringTypeOK, SweepTypeOK
  <2>3. Held(w, a, n)
    BY <1>1, <1>6 DEF Held
  <2>4. /\ announced[a][n] <= restarts
        /\ n <= escalated[a] \/ level[a] = Overdue
    BY <2>1, <2>3 DEF Once
  <2>5. \A v \in Sweeps : ~Held(v, a, n)'
    <3>1. Item(a, n) \notin sweepTodo[w]
      BY <1>1, <1>6, <2>1 DEF Once
    <3>2. ~Held(w, a, n)'
      BY <1>1, <3>1 DEF Held, Item
    <3> QED BY <1>2, <2>1, <2>3, <3>2 DEF Once
  <2>6. \A v \in Sweeps :
          sweepPc'[v] = "publish" /\ sweepItem'[v] = Item(a, n)' => Item(a, n)' \notin sweepTodo'[v]
    BY <1>1, <2>1 DEF Once, Item
  <2>7. announced'[a][n] <= restarts' + 1
    BY <1>1, <1>4, <2>2, <2>4
  <2> QED BY <1>1, <2>4, <2>5, <2>6, <2>7 DEF Once, Overdue
<1> QED BY <1>5, <1>6

(* The other steps of a sweep hand on or drop what it held.                *)
LEMMA OnceSweep ==
  ASSUME EscalationInv, [ExpiringNext]_expiringVars, NEW w \in Sweeps,
         SweepStep(w) \/ SweepFault(w), NEW a \in Approvals, NEW n \in 1..Steps
  PROVE  Once(a, n)'
<1>1. CASE SweepEvaluate(w)
  BY <1>1, OnceEvaluate
<1>2. CASE SweepPublish(w)
  BY <1>2, OncePublish
<1>3. CASE ~SweepEvaluate(w) /\ ~SweepPublish(w)
  <2> SUFFICES ASSUME approvals'[a].status \in {"Absent", "Pending"} PROVE Once(a, n)'
    BY DEF Once
  <2>1. Once(a, n) /\ approvals[a].status \in {"Absent", "Pending"}
    BY StatusForward DEF EscalationInv, ForwardOnly
  <2>2. \A v \in Sweeps : sweepPc[v] = "publish" /\ sweepItem[v] = Item(a, n) =>
          Item(a, n) \notin sweepTodo[v]
    BY <2>1 DEF Once
  <2>3. /\ UNCHANGED <<level, restarts>>
        /\ \A v \in Sweeps \ {w} :
             /\ sweepPc'[v] = sweepPc[v] /\ sweepTodo'[v] = sweepTodo[v]
             /\ sweepItem'[v] = sweepItem[v]
    BY OneSweepMoves DEF EscalationInv, ExpiringTypeInv, ExpiringTypeOK
  <2>4. UNCHANGED <<escalated, announced>>
    BY <1>3 DEF SweepStep, SweepList, SweepProcess, SweepExpire, SweepEvidence, SweepFault
  <2>5. \/ sweepPc'[w] = "evaluate"
        \/ /\ sweepPc[w] # "evaluate" \/ sweepTodo'[w] = {}
           /\ sweepTodo'[w] \subseteq sweepTodo[w]
           /\ sweepPc'[w] = "publish" /\ sweepItem'[w] = Item(a, n) =>
                Item(a, n) \in sweepTodo[w] /\ Item(a, n) \notin sweepTodo'[w]
    <3> USE DEF EscalationInv, ExpiringTypeInv, ExpiringTypeOK, SweepTypeOK, SweepGoto
    <3>1. CASE SweepList(w)
      BY <3>1 DEF SweepList
    <3>2. CASE SweepProcess(w)
      <4>1. sweepPc[w] = "next"
        BY <3>2 DEF SweepProcess
      <4>2. CASE sweepTodo[w] = {} /\ SweepEnd(w)
        BY <4>1, <4>2 DEF SweepEnd
      <4>3. CASE ~(sweepTodo[w] = {} /\ SweepEnd(w))
        <5>1. PICK i \in sweepTodo[w] :
                 /\ sweepTodo' = [sweepTodo EXCEPT ![w] = @ \ {i}]
                 /\ \/ UNCHANGED <<sweepPc, sweepItem>>
                    \/ sweepItem' = [sweepItem EXCEPT ![w] = i]
          BY <3>2, <4>3 DEF SweepProcess
        <5>2. sweepTodo'[w] = sweepTodo[w] \ {i}
          BY <5>1
        <5>3. sweepPc'[w] = "publish" => sweepItem'[w] = i
          BY <4>1, <5>1
        <5> QED BY <4>1, <5>2, <5>3
      <4> QED BY <4>2, <4>3
    <3>3. CASE SweepExpire(w)
      <4>1. sweepItem'[w] # Item(a, n)
        <5> DEFINE r == [sweepSeen[w] EXCEPT !.status = "Expired", !.decidedBy = SchedulerActor]
        <5>1. r.status = "Expired"
          <6>1. sweepSeen[w] \in ApprovalRecord
            OBVIOUS
          <6> QED BY <6>1 DEF ApprovalRecord
        <5>2. approvals' = [approvals EXCEPT ![sweepItem[w].approval] = r]
          BY <3>3 DEF SweepExpire, SaveApproval
        <5> HIDE DEF r
        <5>3. sweepItem[w].approval # a
          BY <5>1, <5>2 DEF GovernedTypeOK, StoreTypeOK
        <5> QED BY <3>3, <5>3 DEF SweepExpire, Item
      <4> QED BY <3>3, <4>1 DEF SweepExpire
    <3>4. CASE SweepEvidence(w)
      BY <3>4 DEF SweepEvidence
    <3>5. CASE SweepFault(w)
      BY <3>5 DEF SweepFault, SweepEnd
    <3> QED BY <1>3, <3>1, <3>2, <3>3, <3>4, <3>5 DEF SweepStep
  <2>6. \A v \in Sweeps : Held(v, a, n)' => Held(v, a, n)
    <3>1. \A v \in Sweeps : Held(v, a, n)' <=>
            \/ sweepPc'[v] # "evaluate" /\ Item(a, n) \in sweepTodo'[v]
            \/ sweepPc'[v] = "publish" /\ sweepItem'[v] = Item(a, n)
      BY DEF Held, Item
    <3>2. Held(w, a, n)' => Held(w, a, n)
      <4>1. CASE sweepPc'[w] = "evaluate"
        BY <3>1, <4>1
      <4>2. CASE sweepPc'[w] # "evaluate"
        <5>1. Held(w, a, n)' => Item(a, n) \in sweepTodo[w]
          BY <2>5, <3>1, <4>2
        <5>2. CASE sweepPc[w] # "evaluate"
          BY <5>1, <5>2 DEF Held
        <5>3. CASE sweepPc[w] = "evaluate"
          BY <1>3, <5>3 DEF SweepStep, SweepList, SweepProcess, SweepExpire, SweepPublish,
             SweepEvidence, SweepFault, SweepEnd, SweepGoto, Held, EscalationInv,
             ExpiringTypeInv, ExpiringTypeOK, SweepTypeOK
        <5> QED BY <5>2, <5>3
      <4> QED BY <4>1, <4>2
    <3> QED BY <2>3, <3>1, <3>2 DEF Held
  <2>7. \A v \in Sweeps : sweepPc'[v] = "publish" /\ sweepItem'[v] = Item(a, n) =>
          Item(a, n) \notin sweepTodo'[v]
    BY <2>2, <2>3, <2>5
  <2> QED BY <2>3, <2>4, <2>6, <2>7, OnceKept
<1> QED BY <1>1, <1>2, <1>3

(* A new life of the process, with nothing remembered and nothing held.    *)
LEMMA EscalationRestart ==
  ASSUME EscalationInv, SweepRestart
  PROVE  LevelInv' /\ \A a \in Approvals, n \in 1..Steps : Once(a, n)'
<1>1. /\ approvals' = approvals /\ level' = level /\ announced' = announced
      /\ restarts' = restarts + 1
      /\ \A a \in Approvals : escalated'[a] = 0
      /\ \A w \in Sweeps : sweepPc'[w] = "idle" /\ sweepTodo'[w] = {} /\ sweepItem'[w] = NoItem
  BY DEF SweepRestart, storeVars
<1>2. LevelInv'
  <2>1. \A a \in Approvals : level[a] >= 0
    BY Numbers DEF EscalationInv
  <2> QED BY <1>1, <2>1, StoreAssumption DEF EscalationInv, LevelInv, Reached, Carried,
             Listed, NoItem
<1>3. ASSUME NEW a \in Approvals, NEW n \in 1..Steps PROVE Once(a, n)'
  <2>1. restarts \in Nat /\ announced[a][n] \in Nat
    BY Numbers DEF EscalationInv
  <2>2. Once(a, n)
    BY DEF EscalationInv
  <2>3. \A w \in Sweeps : ~Held(w, a, n)'
    BY <1>1 DEF Held
  <2> QED BY <1>1, <2>1, <2>2, <2>3 DEF Once
<1> QED BY <1>2, <1>3

(* Every step accounts for what it announces.                              *)
LEMMA EscalationStep ==
  ASSUME EscalationInv, [ExpiringNext]_expiringVars
  PROVE  EscalationInv'
<1>1. ExpiringTypeInv'
  BY ExpiringTypesKept DEF EscalationInv
<1>2. CASE UNCHANGED sweepVars
  BY <1>1, <1>2, EscalationCommand DEF EscalationInv
<1>3. CASE SweepNext
  <2>1. ASSUME NEW b \in Approvals, Elapse(b) PROVE EscalationInv'
    BY <1>1, <2>1, EscalationElapse DEF EscalationInv
  <2>2. ASSUME NEW w \in Sweeps, SweepStep(w) \/ SweepFault(w) PROVE EscalationInv'
    BY <1>1, <2>2, EscalationLevels, OnceSweep DEF EscalationInv
  <2>3. CASE SweepRestart
    BY <1>1, <2>3, EscalationRestart DEF EscalationInv
  <2> QED BY <1>3, <2>1, <2>2, <2>3 DEF SweepNext
<1> QED BY <1>2, <1>3 DEF ExpiringNext, expiringVars

(* While an approval is pending, overlapping sweeps announce a step of its *)
(* escalation once in a life of the process: the sweep that evaluates it   *)
(* first remembers it before it publishes anything.                        *)
THEOREM EscalatedOnce == ExpiringSpec => []EscalatedOncePerLife
<1>1. ExpiringInit => EscalationInv
  BY EscalationInit
<1>2. EscalationInv /\ [ExpiringNext]_expiringVars => EscalationInv'
  BY EscalationStep
<1>3. EscalationInv => EscalatedOncePerLife
  BY DEF EscalationInv, Once, EscalatedOncePerLife
<1> QED BY <1>1, <1>2, <1>3, PTL DEF ExpiringSpec

-----------------------------------------------------------------------------

(* What the sweeps cannot spoil, although they take approvals away from    *)
(* the executors that have claimed them.                                   *)

(* The reservations are no business of the sweeps.                         *)
LEMMA KeysStep ==
  ASSUME ExpiringTypeInv, KeysInv, [ExpiringNext]_expiringVars
  PROVE  KeysInv'
<1>1. GovernedTypeOK' /\ RequestsFilled'
  BY ExpiringTypesKept DEF ExpiringTypeInv, ExpiringTypeOK
<1>2. CASE UNCHANGED executeVars
  BY <1>1, <1>2 DEF KeysInv, executeVars, KeyHeld, FingerprintOf, DispatchOncePerKey,
     DispatchedUnder
<1>3. CASE ExecuteNext
  <2>1. PICK e \in Executors : ExecutorMoves(e)
    BY <1>3 DEF ExecuteNext, ExecutorMoves
  <2> QED BY <1>1, <2>1, ExecutorHolds, ExecutorDispatchesOnce DEF KeysInv
<1> QED BY <1>2, <1>3 DEF ExpiringNext, Next, expiringVars, vars, commandVars

(* Beside the sweeps too, the keys that are held are held by one.          *)
LEMMA KeysHeld == ExpiringSpec => []KeysInv
<1>1. ExpiringInit => KeysInv
  BY InitInv DEF ExpiringInit, IndInv, KeysInv
<1>2. ExpiringTypeInv /\ KeysInv /\ [ExpiringNext]_expiringVars => KeysInv'
  BY KeysStep
<1> QED BY <1>1, <1>2, ExpiringTyped, PTL DEF ExpiringSpec

(* One dispatch key leads to at most one dispatch, even when the approval  *)
(* expires under an executor.                                              *)
THEOREM ExpiringDispatchOnce == ExpiringSpec => []DispatchOncePerKey
<1>1. KeysInv => DispatchOncePerKey
  BY DEF KeysInv
<1> QED BY <1>1, KeysHeld, PTL

(* An executor is in the way of others while it has claimed its approval   *)
(* and for as long as its call counts.                                     *)
Busy(e) == AtRisk(e) \/ Calling(e)

(* A claim holds until its outcome is written, or a sweep expires the      *)
(* approval; what it leads to has nobody else busy with the approval.      *)
Alone(e) ==
  LET a == execReq[e].approval IN
  /\ Answered(e)
  /\ AtRisk(e) => approvals[a].status \in {"Executing", "Expired"}
  /\ Busy(e) =>
       /\ approvals[a].status \in {"Executing", "Executed", "Expired"}
       /\ \A f \in Executors \ {e} : execReq[f].approval = a => ~Busy(f)

(* All executors at once.                                                  *)
AloneInv == \A e \in Executors : Alone(e)

(* Among the commands, only an executor that has its result writes a       *)
(* claimed approval.                                                       *)
LEMMA ClaimedWrites ==
  ASSUME ExpiringTypeInv, Next, NEW a \in Approvals,
         approvals[a].status \in {"Executing", "Executed", "Expired"},
         approvals'[a] # approvals[a]
  PROVE  \E e \in Executors :
           /\ execReq[e].approval = a /\ execPc[e] = "finalize" /\ execPc'[e] = "publish"
           /\ approvals[a].status = "Executing" /\ approvals'[a] = FinalApproval(e)
           /\ UNCHANGED <<call, outcome>>
<1>1. approvals \in [Approvals -> ApprovalRecord] /\ execPc \in [Executors -> ExecutePc]
  BY DEF ExpiringTypeInv, ExpiringTypeOK, GovernedTypeOK, StoreTypeOK, ExecuteTypeOK
<1>2. CASE CreateNext
  BY <1>1, <1>2 DEF CreateNext, CreateStep, CreateLookup, CreateSave, CreatePublish,
     CreateEvidence, CreateCache, CreateFault, storeVars, SaveApproval
<1>3. CASE ProposeNext
  BY <1>1, <1>3 DEF ProposeNext, ProposeStep, ProposeLookup, ProposeEvidence,
     ProposePublish, ProposeApproval, ProposeSave, ProposeSaveFails, ProposeRace,
     ProposeFault, storeVars, SaveApproval
<1>4. CASE SubmitNext
  BY <1>1, <1>4 DEF SubmitNext, SubmitStep, SubmitFault, SubmitLoad, SubmitLookup,
     SubmitRecache, SubmitLink, SubmitLinkById, SubmitPersist, SubmitPublish,
     SubmitEvidence, SubmitCache, storeVars, SaveApprovalIfStatus, SaveApproval
<1>5. CASE ExecuteNext
  <2>1. PICK e \in Executors : ExecutorMoves(e)
    BY <1>5 DEF ExecuteNext, ExecutorMoves
  <2>2. ExecFinalize(e)
    BY <1>1, <2>1 DEF ExecutorMoves, ExecStep, ExecLoad, ExecBind, ExecLookup, ExecBegin,
       ExecClaim, ExecClaimThrows, ExecRelease, ExecDispatch, ExecResult, ExecPublish,
       ExecEvidence, ExecComplete, RunnerStep, RunnerPerform, RunnerRefuse, ExecFault,
       storeVars, SaveApprovalIfStatus, SaveApproval
  <2> QED BY <1>1, <2>2 DEF ExecFinalize, ExecGoto, SaveApprovalIfStatus, SaveApproval
<1> QED BY <1>2, <1>3, <1>4, <1>5 DEF Next

(* Who becomes busy does so by its claim on an approved approval.          *)
LEMMA BusyGrows ==
  ASSUME KeysInv, NEW m \in Executors, ExecutorMoves(m), NEW f \in Executors, Busy(f)'
  PROVE  /\ execReq'[f] = execReq[f]
         /\ \/ Busy(f)
            \/ f = m /\ ExecClaim(m) /\ approvals[execReq[m].approval].status = "Approved"
<1>1. CASE f # m
  <2>1. /\ execReq'[f] = execReq[f] /\ execPc'[f] = execPc[f]
        /\ call'[f] = call[f] /\ outcome'[f] = outcome[f]
    BY <1>1, OneExecutorMoves DEF KeysInv
  <2> QED BY <2>1 DEF Busy, AtRisk, Calling
<1>2. CASE f = m /\ ExecLoad(m)
  <2>1. call'[f] = "none" /\ execPc'[f] \in {"bind", "done"}
    BY <1>2 DEF ExecLoad, ExecGoto, ExecDone, KeysInv, GovernedTypeOK, ExecuteTypeOK, KeyHeld
  <2> QED BY <2>1 DEF Busy, AtRisk, Calling
<1>3. CASE f = m /\ ~ExecLoad(m)
  <2>1. ExecDispatch(m) \/ ExecResult(m) => AtRisk(m)
    BY DEF ExecDispatch, ExecResult, AtRisk
  <2> QED BY <1>3, <2>1, RequestKept, RiskGrows DEF Busy, KeysInv
<1> QED BY <1>1, <1>2, <1>3

(* The status of an approval that somebody is, and stays, busy with: only  *)
(* the answer or the sweeps move it on.                                    *)
LEMMA BusyStatus ==
  ASSUME ExpiringTypeInv, KeysInv, AloneInv, [ExpiringNext]_expiringVars,
         NEW e \in Executors, Busy(e), Busy(e)'
  PROVE  LET s == approvals'[execReq[e].approval].status IN
         /\ s \in {"Executing", "Executed", "Expired"}
         /\ AtRisk(e)' => s \in {"Executing", "Expired"}
<1> DEFINE a == execReq[e].approval
<1>1. execPc[e] # "idle" /\ Alone(e)
  BY DEF Busy, AtRisk, Calling, KeysInv, KeyHeld, AloneInv
<1>2. a \in Approvals
  BY <1>1 DEF KeysInv, RequestsFilled
<1>3. AtRisk(e)' => AtRisk(e) \/ approvals[a].status = "Approved"
  <2>1. CASE UNCHANGED executeVars
    BY <2>1 DEF AtRisk, executeVars
  <2>2. CASE ExecuteNext
    <3>1. PICK m \in Executors : ExecutorMoves(m)
      BY <2>2 DEF ExecuteNext, ExecutorMoves
    <3>2. CASE m = e
      BY <3>1, <3>2, RiskGrows DEF KeysInv
    <3>3. CASE m # e
      BY <3>1, <3>3, OneExecutorMoves DEF KeysInv, AtRisk
    <3> QED BY <3>2, <3>3
  <2> QED BY <2>1, <2>2 DEF ExpiringNext, Next, expiringVars, vars, commandVars
<1>4. /\ approvals[a].status \in {"Executing", "Executed", "Expired"}
      /\ AtRisk(e)' => approvals[a].status \in {"Executing", "Expired"}
  BY <1>1, <1>3 DEF Alone
<1>5. CASE approvals'[a] = approvals[a] \/ approvals'[a].status = "Expired"
  BY <1>4, <1>5
<1>6. CASE approvals'[a] # approvals[a] /\ approvals'[a].status # "Expired"
  <2>1. Next
    BY <1>2, <1>6, SweepWrites DEF ExpiringNext, expiringVars, vars, storeVars
  <2>2. PICK f \in Executors :
          /\ execReq[f].approval = a /\ execPc[f] = "finalize" /\ execPc'[f] = "publish"
          /\ approvals'[a] = FinalApproval(f) /\ UNCHANGED <<call, outcome>>
    BY <1>2, <1>4, <1>6, <2>1, ClaimedWrites
  <2>3. f = e
    BY <1>1, <2>2 DEF Alone, Busy, AtRisk
  <2>4. ~AtRisk(e)' /\ Calling(e)
    BY <2>2, <2>3 DEF Busy, AtRisk, Calling
  <2>5. outcome[e] = "ok"
    BY <1>1, <2>2, <2>3, <2>4 DEF Alone, Answered, Calling
  <2>6. FinalApproval(e).status = "Executed"
    BY <2>5 DEF FinalApproval, KeysInv, GovernedTypeOK, ExecuteTypeOK, ApprovalRecord
  <2> QED BY <2>2, <2>3, <2>4, <2>6
<1> QED BY <1>5, <1>6

(* A claim is granted on an approved approval, which nobody is busy with.  *)
LEMMA ClaimGranted ==
  ASSUME KeysInv, NEW e \in Executors, ExecClaim(e), AtRisk(e)',
         approvals[execReq[e].approval].status = "Approved"
  PROVE  approvals'[execReq[e].approval].status = "Executing"
<1> DEFINE a == execReq[e].approval
<1>1. a \in Approvals /\ execPc'[e] = "dispatch"
  BY DEF KeysInv, RequestsFilled, GovernedTypeOK, ExecuteTypeOK, ExecClaim, ExecGoto, AtRisk
<1>2. approvals' = [approvals EXCEPT ![a] = ClaimedApproval(e)]
  BY <1>1 DEF ExecClaim, SaveApprovalIfStatus, SaveApproval
<1>3. ClaimedApproval(e).status = "Executing"
  BY DEF ClaimedApproval, KeysInv, GovernedTypeOK, ExecuteTypeOK, ApprovalRecord
<1> QED BY <1>1, <1>2, <1>3 DEF KeysInv, GovernedTypeOK, StoreTypeOK

(* The step of an executor keeps everybody alone with its approval.        *)
LEMMA AloneMade ==
  ASSUME ExpiringTypeInv, KeysInv, AloneInv, [ExpiringNext]_expiringVars,
         NEW m \in Executors, ExecutorMoves(m), NEW e \in Executors
  PROVE  Alone(e)'
<1>1. GovernedTypeOK /\ \A f \in Executors : Alone(f)
  BY DEF KeysInv, AloneInv
<1>2. Answered(e)'
  <2>1. CASE e = m
    BY <1>1, <2>1, AnswersKept DEF Alone
  <2>2. CASE e # m
    BY <1>1, <2>2, OneExecutorMoves DEF Alone, Answered
  <2> QED BY <2>1, <2>2
<1>3. ASSUME Busy(e)'
      PROVE  LET a == execReq'[e].approval IN
             /\ AtRisk(e)' => approvals'[a].status \in {"Executing", "Expired"}
             /\ approvals'[a].status \in {"Executing", "Executed", "Expired"}
             /\ \A f \in Executors \ {e} : execReq'[f].approval = a => ~Busy(f)'
  <2> DEFINE a == execReq[e].approval
  <2>1. execReq'[e] = execReq[e]
    BY <1>3, BusyGrows
  <2>2. CASE Busy(e)
    <3>1. /\ approvals[a].status \in {"Executing", "Executed", "Expired"}
          /\ \A f \in Executors \ {e} : execReq[f].approval = a => ~Busy(f)
      BY <1>1, <2>2 DEF Alone
    <3>2. \A f \in Executors \ {e} : execReq'[f].approval = a => ~Busy(f)'
      BY <3>1, BusyGrows
    <3> QED BY <1>3, <2>1, <2>2, <3>2, BusyStatus
  <2>3. CASE ~Busy(e)
    <3>1. e = m /\ ExecClaim(e) /\ approvals[a].status = "Approved"
      BY <1>3, <2>3, BusyGrows
    <3>2. AtRisk(e)'
      BY <1>3, <2>3, <3>1 DEF Busy, Calling, ExecClaim
    <3>3. \A f \in Executors : execReq[f].approval = a => ~Busy(f)
      BY <1>1, <3>1 DEF Alone
    <3>4. \A f \in Executors \ {e} : execReq'[f].approval = a => ~Busy(f)'
      BY <3>1, <3>3, BusyGrows
    <3> QED BY <2>1, <3>1, <3>2, <3>4, ClaimGranted
  <2> QED BY <2>2, <2>3
<1> QED BY <1>2, <1>3 DEF Alone, Busy

(* So does every other step.                                               *)
LEMMA AloneStep ==
  ASSUME ExpiringTypeInv, KeysInv, AloneInv, [ExpiringNext]_expiringVars
  PROVE  AloneInv'
<1>1. CASE UNCHANGED executeVars
  <2> SUFFICES ASSUME NEW e \in Executors PROVE Alone(e)'
    BY DEF AloneInv
  <2>1. /\ execReq' = execReq /\ (Answered(e)' <=> Answered(e))
        /\ \A f \in Executors : (AtRisk(f)' <=> AtRisk(f)) /\ (Busy(f)' <=> Busy(f))
    BY <1>1 DEF executeVars, Answered, Busy, AtRisk, Calling
  <2>2. Alone(e)
    BY DEF AloneInv
  <2>3. CASE Busy(e)
    <3>1. Busy(e)'
      BY <2>1, <2>3
    <3>2. LET s == approvals'[execReq[e].approval].status IN
          /\ s \in {"Executing", "Executed", "Expired"}
          /\ AtRisk(e)' => s \in {"Executing", "Expired"}
      BY <2>3, <3>1, BusyStatus
    <3>3. \A f \in Executors \ {e} :
            execReq'[f].approval = execReq'[e].approval => ~Busy(f)'
      BY <2>1, <2>2, <2>3 DEF Alone
    <3> QED BY <2>1, <2>2, <3>2, <3>3 DEF Alone
  <2>4. CASE ~Busy(e)
    BY <2>1, <2>2, <2>4 DEF Alone, Busy
  <2> QED BY <2>3, <2>4
<1>2. CASE ExecuteNext
  <2>1. PICK m \in Executors : ExecutorMoves(m)
    BY <1>2 DEF ExecuteNext, ExecutorMoves
  <2> QED BY <2>1, AloneMade DEF AloneInv
<1> QED BY <1>1, <1>2 DEF ExpiringNext, Next, expiringVars, vars, commandVars

(* The claims and the calls, beside the sweeps.                            *)
LEMMA ExecutorsAlone == ExpiringSpec => []AloneInv
<1>1. ExpiringInit => AloneInv
  BY DEF ExpiringInit, Init, ExecuteInit, AloneInv, Alone, Answered, Busy, AtRisk, Calling
<1>2. ExpiringTypeInv /\ KeysInv /\ AloneInv /\ [ExpiringNext]_expiringVars => AloneInv'
  BY AloneStep
<1> QED BY <1>1, <1>2, ExpiringTyped, KeysHeld, PTL DEF ExpiringSpec

(* The claim admits one executor at a time although sweeps expire claimed  *)
(* approvals, which SingleClaim does not allow for.                        *)
OneClaimant ==
  \A a \in Approvals :
    /\ \A e, f \in Claimants(a) : e = f
    /\ Claimants(a) # {} => approvals[a].status \in {"Executing", "Expired"}

(* No second executor is let in by an expiry, whichever calls fail or are  *)
(* answered ambiguously.                                                   *)
THEOREM ExpiringOneClaimant == ExpiringSpec => []OneClaimant
<1>1. AloneInv => OneClaimant
  BY DEF AloneInv, Alone, OneClaimant, Claimants, Busy, AtRisk
<1> QED BY <1>1, ExecutorsAlone, PTL

(* An approval is dispatched again only after its dispatches so far were   *)
(* reported as failed, even if it expires while it is executed.            *)
THEOREM ExpiringEffectOnce == ExpiringSpec => []RedispatchOnlyAfterFailure
<1>1. AloneInv => RedispatchOnlyAfterFailure
  BY DEF AloneInv, Alone, Busy, Calling, RedispatchOnlyAfterFailure, DispatchedFor
<1> QED BY <1>1, ExecutorsAlone, PTL
=============================================================================
