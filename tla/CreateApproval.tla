--------------------------- MODULE CreateApproval ---------------------------
(***************************************************************************)
(* createApproval: a principal asks for an approval on its own, outside    *)
(* the propose command.  One process per command invocation.               *)
(***************************************************************************)
EXTENDS ApprovalStore

CONSTANTS Creators,       \* createApproval invocations
          CreateKeys      \* client Idempotency-Key values

ASSUME CreateAssumption ==
  /\ Creators \subseteq Requests
  /\ None \notin CreateKeys

VARIABLES createPc,       \* createPc[c]: the call the handler awaits next
          createReq,      \* createReq[c]: the request and its principal
          createReply,    \* createReply[c]: the approval answered, or None
          created         \* created[k]: cached output of Idempotency-Key k

createVars == <<createPc, createReq, createReply, created>>

(* binding is the run and plan the caller names when the two are equal: a  *)
(* proposal's id, stored by now or not; None when they differ.             *)
CreateRequest ==
  [ user     : Users \cup {None},
    key      : CreateKeys \cup {None},
    binding  : Proposals \cup {None},
    approval : Approvals \cup {None} ]

NoCreate == [user |-> None, key |-> None, binding |-> None, approval |-> None]

CreateTypeOK ==
  /\ createPc \in [Creators ->
       {"idle", "save", "publish", "evidence", "cache", "done", "dead"}]
  /\ createReq \in [Creators -> CreateRequest]
  /\ createReply \in [Creators -> Approvals \cup {None}]
  /\ created \in [CreateKeys -> Approvals \cup {None}]

CreateInit ==
  /\ createPc = [c \in Creators |-> "idle"]
  /\ createReq = [c \in Creators |-> NoCreate]
  /\ createReply = [c \in Creators |-> None]
  /\ created = [k \in CreateKeys |-> None]

CreateGoto(c, pc) ==
  /\ createPc' = [createPc EXCEPT ![c] = pc]
  /\ UNCHANGED createReply

CreateDone(c, a) ==
  /\ createPc' = [createPc EXCEPT ![c] = "done"]
  /\ createReply' = [createReply EXCEPT ![c] = a]

-----------------------------------------------------------------------------

(* The cached output of the key answers before anything else is done.      *)
CreateLookup(c) ==
  /\ createPc[c] = "idle"
  /\ \E u \in Users, k \in CreateKeys \cup {None}, p \in Proposals \cup {None} :
       LET cached == k # None /\ created[k] # None IN
       /\ createReq' = [createReq EXCEPT ![c] =
            [user |-> u, key |-> k, binding |-> p, approval |-> None]]
       /\ \/ cached /\ CreateDone(c, created[k])
          \/ ~cached /\ CreateGoto(c, "save")
  /\ UNCHANGED <<storeVars, created, faults>>

(* saveApproval under a generated id, which no approval has yet.           *)
CreateSave(c) ==
  /\ createPc[c] = "save"
  /\ \E a \in Approvals :
       /\ approvals[a].status = "Absent"
       /\ SaveApproval(a, PendingApproval(createReq[c].user, createReq[c].binding))
       /\ createReq' = [createReq EXCEPT ![c].approval = a]
  /\ CreateGoto(c, "publish")
  /\ UNCHANGED <<proposals, trail, created, faults>>

CreatePublish(c) ==
  /\ createPc[c] = "publish"
  /\ Record("event", "Requested", createReq[c].approval, c)
  /\ CreateGoto(c, "evidence")
  /\ UNCHANGED <<approvals, proposals, createReq, created, faults>>

CreateEvidence(c) ==
  /\ createPc[c] = "evidence"
  /\ Record("evidence", "Requested", createReq[c].approval, c)
  /\ \/ createReq[c].key = None /\ CreateDone(c, createReq[c].approval)
     \/ createReq[c].key # None /\ CreateGoto(c, "cache")
  /\ UNCHANGED <<approvals, proposals, createReq, created, faults>>

CreateCache(c) ==
  /\ createPc[c] = "cache"
  /\ created' = [created EXCEPT ![createReq[c].key] = createReq[c].approval]
  /\ CreateDone(c, createReq[c].approval)
  /\ UNCHANGED <<storeVars, createReq, faults>>

(* The awaited call fails before taking effect, or the process stops.      *)
CreateFault(c) ==
  /\ createPc[c] \notin {"idle", "done", "dead"}
  /\ Fault
  /\ CreateGoto(c, "dead")
  /\ UNCHANGED <<storeVars, createReq, created>>

CreateStep(c) ==
  \/ CreateLookup(c)   \/ CreateSave(c) \/ CreatePublish(c)
  \/ CreateEvidence(c) \/ CreateCache(c)

CreateNext == \E c \in Creators : CreateStep(c) \/ CreateFault(c)
=============================================================================
