--------------------------- MODULE ExpiringAction ---------------------------
(***************************************************************************)
(* The governed action with the expiry scheduler beside it: the approvals  *)
(* in Escalating were created with an escalation chain, which only         *)
(* createApproval can give one.                                            *)
(***************************************************************************)
EXTENDS GovernedAction, ApprovalExpiry

commandVars == <<createVars, proposeVars, submitVars, executeVars>>

expiringVars == <<vars, sweepVars>>

ExpiringTypeOK == GovernedTypeOK /\ SweepTypeOK

ExpiringInit == Init /\ SweepInit

ExpiringNext ==
  \/ Next /\ UNCHANGED sweepVars
  \/ SweepNext /\ UNCHANGED commandVars

ExpiringSpec == ExpiringInit /\ [][ExpiringNext]_expiringVars

(* The timer keeps firing, whatever a sweep throws, and a sweep that was   *)
(* started runs to its end.  Nobody has to decide, and time need not pass. *)
FairExpiringSpec ==
  /\ ExpiringSpec
  /\ \A w \in Sweeps : WF_expiringVars(SweepStep(w) /\ UNCHANGED commandVars)

-----------------------------------------------------------------------------

(* While an approval is pending, overlapping sweeps announce a step of its *)
(* escalation once; only a restart, which loses the in-memory record of    *)
(* it, repeats it, once per restart.                                       *)
EscalatedOncePerLife ==
  \A a \in Approvals, n \in 1..Steps :
    approvals[a].status = "Pending" => announced[a][n] <= restarts + 1

(* An expired approval stays expired: a decision whose handler read it     *)
(* while it was pending does not get past the sweep.                       *)
ExpiredIsFinal ==
  [][ \A a \in Approvals :
        approvals[a].status = "Expired" => approvals'[a].status = "Expired" ]_expiringVars

(* An overdue approval that nobody decides is expired, although sweeps     *)
(* fail half-way, overlap and lose their memory.                           *)
OverdueSettles ==
  \A a \in Escalating :
    level[a] = Overdue /\ approvals[a].status = "Pending"
      ~> approvals[a].status # "Pending"

(* A human decision is not undone by the sweep: it "only process[es] if    *)
(* still Pending".                                                         *)
DecisionNotExpired ==
  [][ \A a \in Approvals :
        approvals[a].status \in HumanDecision
          => approvals'[a].status # "Expired" ]_expiringVars
=============================================================================
