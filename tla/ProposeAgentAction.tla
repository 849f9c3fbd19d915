------------------------- MODULE ProposeAgentAction -------------------------
(***************************************************************************)
(* proposeAgentAction: an agent asks for a tool call.  The policy gate     *)
(* allows it, refuses it, or requires an approval, which is then created   *)
(* and bound to the proposal.  One process per command invocation; an      *)
(* invocation generates one proposal id and is named by it.                *)
(***************************************************************************)
EXTENDS ApprovalStore

ASSUME ProposeAssumption == Proposals \subseteq Requests

VARIABLES propPc,         \* propPc[p]: the call the handler awaits next
          propReq,        \* propReq[p]: the request
          propDecision,   \* propDecision[p]: what the policy gate decided
          propApproval,   \* propApproval[p]: the approval id generated for p
          propReply       \* propReply[p]: what the caller was told

proposeVars == <<propPc, propReq, propDecision, propApproval, propReply>>

ProposeRequest ==
  [ user    : Users \cup {None},
    key     : ProposalKeys \cup {None},
    payload : Payloads \cup {None} ]

NoPropose == [user |-> None, key |-> None, payload |-> None]

ProposeReply ==
  [ answer   : {"None", "Proposed", "Forbidden"},
    proposal : Proposals \cup {None},
    approval : Approvals \cup {None} ]

NoProposeReply == [answer |-> "None", proposal |-> None, approval |-> None]

Refused == [answer |-> "Forbidden", proposal |-> None, approval |-> None]

Proposed(p, a) == [answer |-> "Proposed", proposal |-> p, approval |-> a]

GateDecision == {"Allow", "NeedsApproval", "Denied"}

ProposePc == {"idle", "evidence", "publish", "approval", "save", "race",
              "done", "dead"}

ProposeTypeOK ==
  /\ propPc \in [Proposals -> ProposePc]
  /\ propReq \in [Proposals -> ProposeRequest]
  /\ propDecision \in [Proposals -> GateDecision \cup {"None"}]
  /\ propApproval \in [Proposals -> Approvals \cup {None}]
  /\ propReply \in [Proposals -> ProposeReply]

ProposeInit ==
  /\ propPc = [p \in Proposals |-> "idle"]
  /\ propReq = [p \in Proposals |-> NoPropose]
  /\ propDecision = [p \in Proposals |-> "None"]
  /\ propApproval = [p \in Proposals |-> None]
  /\ propReply = [p \in Proposals |-> NoProposeReply]

ProposeGoto(p, pc) ==
  /\ propPc' = [propPc EXCEPT ![p] = pc]
  /\ UNCHANGED propReply

ProposeDone(p, reply) ==
  /\ propPc' = [propPc EXCEPT ![p] = "done"]
  /\ propReply' = [propReply EXCEPT ![p] = reply]

(* proposalToOutput of the stored proposal q.                              *)
StoredOutput(q) == Proposed(q, proposals[q].approval)

-----------------------------------------------------------------------------

(* getProposalByIdempotencyKey: a stored proposal answers, whatever its    *)
(* payload.  Every request has a key, derived from its content if need be. *)
ProposeLookup(p) ==
  /\ propPc[p] = "idle"
  /\ \E u \in Users, k \in ProposalKeys, v \in Payloads :
       /\ propReq' = [propReq EXCEPT ![p] = [user |-> u, key |-> k, payload |-> v]]
       /\ \/ \E q \in Proposals : HasKey(k, q) /\ ProposeDone(p, StoredOutput(q))
          \/ (\A q \in Proposals : ~HasKey(k, q)) /\ ProposeGoto(p, "evidence")
  /\ UNCHANGED <<storeVars, propDecision, propApproval, faults>>

(* The policies are loaded and evaluated, and the evaluation is put in the *)
(* evidence log whatever it says.                                          *)
ProposeEvidence(p) ==
  /\ propPc[p] = "evidence"
  /\ \E d \in GateDecision : propDecision' = [propDecision EXCEPT ![p] = d]
  /\ Record("evidence", "Proposed", None, p)
  /\ ProposeGoto(p, "publish")
  /\ UNCHANGED <<approvals, proposals, propReq, propApproval, faults>>

(* The event; then the policy gate refuses, allows, or wants an approval.  *)
ProposePublish(p) ==
  /\ propPc[p] = "publish"
  /\ Record("event", "Proposed", None, p)
  /\ \/ propDecision[p] = "Denied" /\ ProposeDone(p, Refused)
     \/ propDecision[p] = "Allow" /\ ProposeGoto(p, "save")
     \/ propDecision[p] = "NeedsApproval" /\ ProposeGoto(p, "approval")
  /\ UNCHANGED <<approvals, proposals, propReq, propDecision, propApproval, faults>>

(* saveApproval of a pending approval whose run and plan are the proposal. *)
ProposeApproval(p) ==
  /\ propPc[p] = "approval"
  /\ \E a \in Approvals :
       /\ approvals[a].status = "Absent"
       /\ SaveApproval(a, PendingApproval(propReq[p].user, p))
       /\ propApproval' = [propApproval EXCEPT ![p] = a]
  /\ ProposeGoto(p, "save")
  /\ UNCHANGED <<proposals, trail, propReq, propDecision, faults>>

(* saveProposal: the unique key index lets the first writer win and the    *)
(* loser's write is silently ignored.                                      *)
ProposeSave(p) ==
  LET key == propReq[p].key IN
  /\ propPc[p] = "save"
  /\ \/ /\ \A q \in Proposals : ~HasKey(key, q)
        /\ proposals' = [proposals EXCEPT ![p] =
             [ stored |-> TRUE, approval |-> propApproval[p],
               key |-> key, payload |-> propReq[p].payload ]]
     \/ /\ \E q \in Proposals : HasKey(key, q)
        /\ UNCHANGED proposals
  /\ ProposeGoto(p, "race")
  /\ UNCHANGED <<approvals, trail, propReq, propDecision, propApproval, faults>>

(* saveProposal throws and the handler goes on as if it had not.           *)
ProposeSaveFails(p) ==
  /\ propPc[p] = "save"
  /\ Fault
  /\ ProposeGoto(p, "race")
  /\ UNCHANGED <<storeVars, propReq, propDecision, propApproval>>

(* Bug: the reply does not look for a stored winner.                       *)
ProposeRaceUnchecked(p) ==
  /\ propPc[p] = "race"
  /\ ProposeDone(p, Proposed(p, propApproval[p]))
  /\ UNCHANGED <<storeVars, propReq, propDecision, propApproval, faults>>

(* checkIdempotencyRaceWinner: the stored proposal of the key answers.     *)
ProposeRace(p) ==
  LET winners == {q \in Proposals \ {p} : HasKey(propReq[p].key, q)} IN
  /\ propPc[p] = "race"
  /\ \/ \E q \in winners : ProposeDone(p, StoredOutput(q))
     \/ winners = {} /\ ProposeDone(p, Proposed(p, propApproval[p]))
  /\ UNCHANGED <<storeVars, propReq, propDecision, propApproval, faults>>

(* Another awaited call fails before taking effect, or the process stops.  *)
ProposeFault(p) ==
  /\ propPc[p] \notin {"idle", "done", "dead"}
  /\ Fault
  /\ ProposeGoto(p, "dead")
  /\ UNCHANGED <<storeVars, propReq, propDecision, propApproval>>

ProposeStep(p) ==
  \/ ProposeLookup(p)   \/ ProposeEvidence(p) \/ ProposePublish(p)
  \/ ProposeApproval(p) \/ ProposeSave(p)     \/ ProposeRace(p)

ProposeNext ==
  \E p \in Proposals : ProposeStep(p) \/ ProposeSaveFails(p) \/ ProposeFault(p)
=============================================================================
