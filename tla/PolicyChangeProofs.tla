------------------------- MODULE PolicyChangeProofs -------------------------
(***************************************************************************)
(* Theorems about policy changes, for any number of proposals, rollbacks,  *)
(* approvals, reports, users and failures.                                 *)
(***************************************************************************)
EXTENDS PolicyChange, TLAPS

(* What x does, apart from failing.                                        *)
PolicyStep(x) ==
  \/ x \in Proposals /\ Propose(x)
  \/ x \in Rollbacks /\ Rollback(x)
  \/ x \in Approvals /\ Approve(x)
  \/ x \in Reports /\ ReportStep(x)
  \/ PersistStep(x)

LEMMA NextIsStep ==
  ASSUME Next
  PROVE  \E x \in Requests : PolicyStep(x) \/ PolicyFault(x)
  BY DEF Next, PolicyStep, Requests, Changes

(* None stands for nothing else.                                           *)
LEMMA NoneIsNothing == None \notin Changes /\ None \notin Contents /\ None \notin Reports
  BY PolicyAssumption DEF Requests, Changes, Contents

(* The records that the commands build.                                    *)
LEMMA ChangeTypes ==
  /\ NoChange \in Change
  /\ \A ch \in Change : \A u \in Users : Approved(ch, u) \in Change
  /\ \A ch \in Change : \A t \in Reports : Attached(ch, t) \in Change
  /\ \A ch \in Change : \A c \in Changes \cup {None} : RolledBack(ch, c) \in Change
  /\ \A ch \in Change : \A u \in Users, t \in Changes : Reversal(ch, u, t) \in Change
  /\ \A ch \in Change : [ch EXCEPT !.status = "Applied"] \in Change
<1> USE DEF Change, ChangeStatus
<1>1. NoChange \in Change
  BY DEF NoChange
<1>2. \A ch \in Change : \A u \in Users : Approved(ch, u) \in Change
  BY DEF Approved
<1>3. \A ch \in Change : \A t \in Reports : Attached(ch, t) \in Change
  BY DEF Attached
<1>4. \A ch \in Change : \A c \in Changes \cup {None} : RolledBack(ch, c) \in Change
  BY DEF RolledBack
<1>5. ASSUME NEW ch \in Change, NEW u \in Users, NEW t \in Changes
      PROVE  Reversal(ch, u, t) \in Change
  <2>1. ch.high \in BOOLEAN /\ ch.replay \in BOOLEAN
    OBVIOUS
  <2>2. ch.base \in Contents \cup {None} /\ ch.content \in Contents \cup {None}
    OBVIOUS
  <2> QED BY <2>1, <2>2 DEF Reversal, NoChange
<1>6. \A ch \in Change : [ch EXCEPT !.status = "Applied"] \in Change
  OBVIOUS
<1> QED BY <1>1, <1>2, <1>3, <1>4, <1>5, <1>6

(* What a proposal asks for is a change.                                   *)
LEMMA ProposedType ==
  ASSUME PolicyTypeOK, NEW c \in Proposals, NEW user \in Users,
         NEW high \in BOOLEAN, NEW approval \in BOOLEAN, NEW replay \in BOOLEAN
  PROVE  Proposed(c, user, high, approval, replay) \in Change
  BY DEF Proposed, NoChange, Change, ChangeStatus, PolicyTypeOK, Contents

-----------------------------------------------------------------------------

(* A request's own part of the state is written by nobody else, and what   *)
(* it acts on and was asked to store is set once, when it is entered.      *)
LEMMA OwnStep ==
  ASSUME PolicyTypeOK, NEW x \in Requests, PolicyStep(x) \/ PolicyFault(x)
  PROVE  /\ \A y \in Requests \ {x} :
              /\ pc'[y] = pc[y] /\ seen'[y] = seen[y]
              /\ subject'[y] = subject[y] /\ copy'[y] = copy[y]
         /\ pc[x] # "idle" => subject'[x] = subject[x] /\ copy'[x] = copy[x]
         /\ pc'[x] # "idle"
<1> USE DEF PolicyTypeOK, Goto
<1>1. CASE x \in Proposals /\ Propose(x)
  BY <1>1 DEF Propose, Persist
<1>2. CASE x \in Rollbacks /\ Rollback(x)
  BY <1>2 DEF Rollback, Persist, Refuse
<1>3. CASE x \in Approvals /\ Approve(x)
  BY <1>3 DEF Approve, Persist, Refuse
<1>4. CASE x \in Reports /\ ReportStep(x)
  BY <1>4 DEF ReportStep, ReportLoad, ReportResolve, ReportAppend, ReportAttach
<1>5. CASE PersistStep(x)
  BY <1>5 DEF PersistStep, PersistChange, PersistPolicy, PersistTarget, PersistMark,
     PersistTrail
<1>6. CASE PolicyFault(x)
  BY <1>6 DEF PolicyFault
<1> QED BY <1>1, <1>2, <1>3, <1>4, <1>5, <1>6 DEF PolicyStep

(* A rollback that looks for its target has one.                           *)
PolicyTypes ==
  /\ PolicyTypeOK
  /\ \A x \in Requests : pc[x] = "target" => copy[x].target # None

(* Every step keeps the types.                                             *)
LEMMA TypesKept ==
  ASSUME PolicyTypes, [Next]_policyVars
  PROVE  PolicyTypeOK'
<1> USE DEF PolicyTypes, PolicyTypeOK, Goto, PolicyPc, Persisting, Reporting, Requests
<1>1. CASE UNCHANGED policyVars
  BY <1>1 DEF policyVars
<1>2. ASSUME NEW c \in Proposals, Propose(c)
      PROVE  PolicyTypeOK'
  <2>1. PICK user \in Users, high, approval, replay \in BOOLEAN :
          LET asked == Proposed(c, user, high, approval, replay) IN
          Persist(c, c, IF RequiresApproval(asked) \/ replay
                          THEN asked ELSE [asked EXCEPT !.status = "Applied"])
    BY <1>2 DEF Propose
  <2>2. \E ch \in Change : Persist(c, c, ch)
    BY <2>1, ProposedType, ChangeTypes
  <2> QED BY <1>2, <2>2 DEF Propose, Persist, Changes
<1>3. ASSUME NEW r \in Rollbacks, Rollback(r)
      PROVE  PolicyTypeOK'
  <2>1. PICK t \in Changes, user \in Users :
          LET reversal == Reversal(changes[t], user, t) IN
          /\ seen' = [seen EXCEPT ![r] = changes[t]]
          /\ \/ Persist(r, r, reversal)
             \/ Persist(r, r, [reversal EXCEPT !.status = "Applied"])
             \/ Refuse(r)
    BY <1>3 DEF Rollback
  <2>2. \/ \E ch \in Change : Persist(r, r, ch)
        \/ Refuse(r)
    BY <2>1, ChangeTypes
  <2> QED BY <1>3, <2>1, <2>2 DEF Rollback, Persist, Refuse, Changes
<1>4. ASSUME NEW a \in Approvals, Approve(a)
      PROVE  PolicyTypeOK'
  <2>1. PICK c \in Changes, user \in Users :
          /\ seen' = [seen EXCEPT ![a] = changes[c]]
          /\ Persist(a, c, Approved(changes[c], user)) \/ Refuse(a)
    BY <1>4 DEF Approve
  <2>2. Approved(changes[c], user) \in Change
    BY ChangeTypes
  <2> QED BY <1>4, <2>1, <2>2 DEF Approve, Persist, Refuse
<1>5. ASSUME NEW t \in Reports, ReportStep(t)
      PROVE  PolicyTypeOK'
  <2>1. CASE ReportLoad(t) \/ ReportResolve(t) \/ ReportAppend(t)
    BY <2>1 DEF ReportLoad, ReportResolve, ReportAppend, Append
  <2>2. CASE ReportAttach(t)
    BY <2>2, ChangeTypes DEF ReportAttach, SaveChange
  <2> QED BY <1>5, <2>1, <2>2 DEF ReportStep
<1>6. ASSUME NEW x \in Requests, PersistStep(x)
      PROVE  PolicyTypeOK'
  <2>1. CASE PersistChange(x) \/ PersistPolicy(x) \/ PersistTrail(x)
    BY <2>1 DEF PersistChange, PersistPolicy, PersistTrail, SaveChange, Append, Change
  <2>2. CASE PersistTarget(x)
    <3>1. changes[copy[x].target] \in Change
      BY <2>2 DEF PersistTarget, Change
    <3> QED BY <2>2, <3>1 DEF PersistTarget
  <2>3. CASE PersistMark(x)
    <3>1. RolledBack(seen[x], subject[x]) \in Change
      BY ChangeTypes
    <3> QED BY <2>3, <3>1 DEF PersistMark, SaveChange
  <2> QED BY <1>6, <2>1, <2>2, <2>3 DEF PersistStep
<1>7. ASSUME NEW x \in Requests, PolicyFault(x)
      PROVE  PolicyTypeOK'
  BY <1>7, PolicyAssumption DEF PolicyFault
<1> QED BY <1>1, <1>2, <1>3, <1>4, <1>5, <1>6, <1>7 DEF Next

LEMMA TargetsKept ==
  ASSUME PolicyTypes, [Next]_policyVars, NEW x \in Requests, pc'[x] = "target"
  PROVE  copy'[x].target # None
<1>1. CASE pc'[x] = pc[x]
  <2>1. copy'[x] = copy[x]
    <3>1. CASE UNCHANGED policyVars
      BY <3>1 DEF policyVars
    <3>2. ASSUME NEW y \in Requests, PolicyStep(y) \/ PolicyFault(y)
          PROVE  copy'[x] = copy[x]
      BY <3>2, <1>1, OwnStep DEF PolicyTypes
    <3> QED BY <3>1, <3>2, NextIsStep
  <2> QED BY <1>1, <2>1 DEF PolicyTypes
<1>2. CASE pc'[x] # pc[x]
  <2>1. PICK y \in Requests : PolicyStep(y) \/ PolicyFault(y)
    BY <1>2, NextIsStep DEF policyVars
  <2>2. y = x
    BY <2>1, <1>2, OwnStep DEF PolicyTypes
  <2>3. PersistPolicy(x)
    BY <2>1, <2>2 DEF PolicyStep, PolicyFault, PolicyTypes, PolicyTypeOK, Goto, Propose,
       Rollback, Approve, Persist, Refuse, ReportStep, ReportLoad, ReportResolve,
       ReportAppend, ReportAttach, PersistStep, PersistChange, PersistTarget, PersistMark,
       PersistTrail
  <2> QED BY <2>3 DEF PersistPolicy, PolicyTypes, PolicyTypeOK, Goto
<1> QED BY <1>1, <1>2

(* The types of the policy store and of the commands.                      *)
THEOREM PolicyTypeCorrect == Spec => []PolicyTypeOK
<1>1. Init => PolicyTypes
  BY ChangeTypes, PolicyAssumption DEF Init, PolicyTypes, PolicyTypeOK, PolicyPc, Contents
<1>2. PolicyTypes /\ [Next]_policyVars => PolicyTypes'
  BY TypesKept, TargetsKept DEF PolicyTypes
<1>3. PolicyTypes => PolicyTypeOK
  BY DEF PolicyTypes
<1> QED BY <1>1, <1>2, <1>3, PTL DEF Spec

-----------------------------------------------------------------------------

Commands == Changes \cup Approvals

(* x was asked to store a change.                                          *)
Entered(x) == pc[x] \notin {"idle", "refused"}

(* The change that c is named after is stored.                             *)
Stored(c) == pc[c] \notin {"idle", "refused", "change"}

(* Commands and reports have stations of their own, and a request that was *)
(* not entered acts on nothing.                                            *)
Stations ==
  /\ \A x \in Requests : pc[x] = "idle" => subject[x] = None
  /\ \A x \in Requests : pc[x] \in {"idle", "refused"} => copy[x] = NoChange
  /\ \A x \in Commands : pc[x] \notin Reporting
  /\ \A t \in Reports : pc[t] \notin Persisting \cup {"threw"} /\ copy[t] = NoChange

LEMMA SortsOfRequest ==
  /\ Requests = Commands \cup Reports
  /\ Commands \cap Reports = {}
  /\ Proposals \cap Rollbacks = {} /\ Changes \cap Approvals = {}
  /\ Changes \subseteq Commands /\ Approvals \subseteq Commands
  BY PolicyAssumption DEF Requests, Commands, Changes

(* From where to where a request goes.                                     *)
LEMMA StationsOfStep ==
  ASSUME PolicyTypes, Stations, NEW x \in Requests, PolicyStep(x) \/ PolicyFault(x)
  PROVE  /\ x \in Commands => pc'[x] \notin Reporting
         /\ x \in Reports => pc'[x] \notin Persisting \cup {"threw"}
         /\ pc'[x] \in {"refused", "change"} => pc[x] \in {"idle", "resolve"}
         /\ pc'[x] = "change" => x \in Commands /\ pc[x] = "idle"
         /\ pc[x] = "idle" /\ x \in Commands => pc'[x] \in {"change", "refused"}
         /\ pc[x] # "idle" => subject'[x] = subject[x] /\ copy'[x] = copy[x]
         /\ x \in Reports => copy'[x] = copy[x]
         /\ pc'[x] = "refused" => copy'[x] = copy[x]
         /\ pc[x] \notin {"refused", "threw", "done", "dead"}
         /\ trail \subseteq trail'
<1> USE SortsOfRequest DEF PolicyTypes, PolicyTypeOK, Stations, Goto, Reporting, Persisting
<1>1. CASE x \in Proposals /\ Propose(x)
  BY <1>1 DEF Propose, Persist, Changes
<1>2. CASE x \in Rollbacks /\ Rollback(x)
  BY <1>2 DEF Rollback, Persist, Refuse, Changes
<1>3. CASE x \in Approvals /\ Approve(x)
  BY <1>3 DEF Approve, Persist, Refuse
<1>4. CASE x \in Reports /\ ReportStep(x)
  BY <1>4 DEF ReportStep, ReportLoad, ReportResolve, ReportAppend, ReportAttach, Append
<1>5. CASE PersistStep(x)
  BY <1>5 DEF PersistStep, PersistChange, PersistPolicy, PersistTarget, PersistMark,
     PersistTrail, Append
<1>6. CASE PolicyFault(x)
  BY <1>6 DEF PolicyFault
<1> QED BY <1>1, <1>2, <1>3, <1>4, <1>5, <1>6 DEF PolicyStep

LEMMA StationsKept ==
  ASSUME PolicyTypes, Stations, [Next]_policyVars
  PROVE  Stations'
<1>1. CASE UNCHANGED policyVars
  BY <1>1 DEF policyVars, Stations
<1>2. ASSUME NEW x \in Requests, PolicyStep(x) \/ PolicyFault(x)
      PROVE  Stations'
  <2>1. \A y \in Requests \ {x} : pc'[y] = pc[y] /\ subject'[y] = subject[y] /\ copy'[y] = copy[y]
    BY <1>2, OwnStep DEF PolicyTypes
  <2>2. pc'[x] # "idle" /\ (pc'[x] = "refused" => copy'[x] = NoChange)
    <3>1. pc'[x] # "idle"
      BY <1>2, OwnStep DEF PolicyTypes
    <3>2. pc'[x] = "refused" => pc[x] \in {"idle", "resolve"} /\ copy'[x] = copy[x]
      BY <1>2, StationsOfStep
    <3>3. pc[x] = "resolve" => x \in Reports
      BY SortsOfRequest DEF Stations, Reporting
    <3> QED BY <3>1, <3>2, <3>3 DEF Stations
  <2>3. /\ x \in Commands => pc'[x] \notin Reporting
        /\ x \in Reports => pc'[x] \notin Persisting \cup {"threw"} /\ copy'[x] = copy[x]
    BY <1>2, StationsOfStep
  <2> QED BY <2>1, <2>2, <2>3, SortsOfRequest DEF Stations
<1> QED BY <1>1, <1>2, NextIsStep

-----------------------------------------------------------------------------

AppliedBy(c) == \E x \in Commands : Applies(x, c)

(* v is the original policy, or its proposal was authorized.               *)
Backed(v) == v \in Proposals => pc[v] # "idle" /\ Authorized(v)

(* ch is a version of the change that c was asked to store.                *)
Descends(ch, c) ==
  /\ Stored(c)
  /\ ch.proposer = copy[c].proposer /\ ch.target = copy[c].target
  /\ ch.base = copy[c].base /\ ch.content = copy[c].content
  /\ copy[c].replay => ch.replay
  /\ ch.report # None =>
       /\ ch.report \in Reports /\ pc[ch.report] # "idle" /\ subject[ch.report] = c
       /\ [kind |-> "report", by |-> ch.report] \in trail

Version(ch, c) ==
  /\ Descends(ch, c)
  /\ ch.status \in {"Applied", "RolledBack"} => AppliedBy(c)

(* What holds of a request or a record holds of it later.                  *)
LEMMA Lasting ==
  ASSUME PolicyTypes, Stations, [Next]_policyVars
  PROVE  /\ \A x \in Commands : Entered(x) => Entered(x)' /\ copy'[x] = copy[x]
                                              /\ subject'[x] = subject[x]
         /\ \A x \in Requests : \A c : Applies(x, c) => Applies(x, c)'
         /\ \A c : AppliedBy(c) => AppliedBy(c)'
         /\ \A v : Backed(v) => Backed(v)'
         /\ \A c \in Changes : Stored(c) => Stored(c)'
         /\ \A ch : \A c \in Changes : Descends(ch, c) => Descends(ch, c)'
         /\ \A ch : \A c \in Changes : Version(ch, c) => Version(ch, c)'
<1>1. \A x \in Requests :
        /\ pc[x] # "idle" => pc'[x] # "idle" /\ subject'[x] = subject[x] /\ copy'[x] = copy[x]
        /\ x \in Commands /\ Entered(x) => Entered(x)'
        /\ pc[x] \notin {"idle", "change"} => pc'[x] \notin {"idle", "change"}
        /\ x \in Commands /\ Stored(x) => Stored(x)'
  <2>1. CASE UNCHANGED policyVars
    BY <2>1 DEF policyVars, Entered, Stored
  <2>2. ASSUME NEW y \in Requests, PolicyStep(y) \/ PolicyFault(y), NEW x \in Requests
        PROVE  /\ pc[x] # "idle" => pc'[x] # "idle" /\ subject'[x] = subject[x]
                                    /\ copy'[x] = copy[x]
               /\ x \in Commands /\ Entered(x) => Entered(x)'
               /\ pc[x] \notin {"idle", "change"} => pc'[x] \notin {"idle", "change"}
               /\ x \in Commands /\ Stored(x) => Stored(x)'
    <3>1. CASE x # y
      BY <2>2, <3>1, OwnStep DEF PolicyTypes, Entered, Stored
    <3>2. CASE x = y
      BY <2>2, <3>2, OwnStep, StationsOfStep DEF PolicyTypes, Entered, Stored,
         Stations, Reporting
    <3> QED BY <3>1, <3>2
  <2> QED BY <2>1, <2>2, NextIsStep
<1>2. trail \subseteq trail'
  BY StationsOfStep, NextIsStep DEF policyVars
<1>3. \A x \in Requests : \A c : Applies(x, c) => Applies(x, c)'
  BY <1>1 DEF Applies
<1>4. \A c : AppliedBy(c) => AppliedBy(c)'
  BY <1>3, SortsOfRequest DEF AppliedBy
<1>5. ASSUME NEW v, Backed(v)
      PROVE  Backed(v)'
  <2> SUFFICES ASSUME v \in Proposals PROVE pc'[v] # "idle" /\ Authorized(v)'
    BY DEF Backed
  <2>1. pc[v] # "idle" /\ Authorized(v) /\ v \in Requests
    BY <1>5 DEF Backed, Requests, Changes
  <2>2. copy'[v] = copy[v] /\ pc'[v] # "idle"
    BY <1>1, <2>1
  <2>3. \A a \in Approvals : Applies(a, v) => Applies(a, v)' /\ copy'[a] = copy[a]
    BY <1>1, <1>3, SortsOfRequest DEF Applies
  <2>4. \A t \in Reports : subject[t] = v => subject'[t] = v
    <3>1. v # None
      BY NoneIsNothing DEF Changes
    <3> QED BY <1>1, <3>1, SortsOfRequest DEF Stations
  <2> QED BY <2>1, <2>2, <2>3, <2>4, <1>2 DEF Authorized
<1>6. ASSUME NEW ch, NEW c \in Changes, Descends(ch, c)
      PROVE  Descends(ch, c)'
  <2>1. Stored(c) /\ c \in Commands /\ c \in Requests /\ pc[c] # "idle"
    BY <1>6, SortsOfRequest DEF Descends, Stored
  <2>2. Stored(c)' /\ copy'[c] = copy[c]
    BY <1>1, <2>1
  <2>3. \A t \in Reports : pc[t] # "idle" => pc'[t] # "idle" /\ subject'[t] = subject[t]
    BY <1>1, SortsOfRequest
  <2> QED BY <1>6, <2>2, <2>3, <1>2 DEF Descends
<1>7. \A ch : \A c \in Changes : Version(ch, c) => Version(ch, c)'
  BY <1>4, <1>5, <1>6 DEF Version
<1> QED BY <1>1, <1>3, <1>4, <1>5, <1>6, <1>7, SortsOfRequest DEF Entered

-----------------------------------------------------------------------------

(* What the commands were asked to store.                                  *)
ProposalHolds(c) ==
  /\ subject[c] = c
  /\ copy[c].content = c /\ copy[c].target = None /\ copy[c].report = None
  /\ copy[c].status \in {"PendingApproval", "Applied"}
  /\ copy[c].status = "Applied" => ~RequiresApproval(copy[c]) /\ ~copy[c].replay
  /\ Backed(copy[c].base)

RollbackHolds(r) ==
  /\ subject[r] = r
  /\ copy[r].report = None
  /\ copy[r].status \in {"PendingApproval", "Applied"}
  /\ Backed(copy[r].base) /\ Backed(copy[r].content)

ApprovalHolds(a) ==
  /\ subject[a] \in Changes
  /\ copy[a].status = "Applied" /\ ReplaySatisfied(copy[a])
  /\ copy[a].approver # copy[a].proposer
  /\ Descends(copy[a], subject[a])

CommandHolds(x) ==
  /\ x \in Proposals => ProposalHolds(x)
  /\ x \in Rollbacks => RollbackHolds(x)
  /\ x \in Approvals => ApprovalHolds(x)

CommandsHold == \A x \in Commands : Entered(x) => CommandHolds(x)

StoreHolds == \A c \in Changes : changes[c].status # "Absent" => Version(changes[c], c)

(* What a request read and will store is a version of what it acts on.     *)
SeenHolds ==
  /\ \A t \in Reports : pc[t] \in Reporting =>
       subject[t] \in Changes /\ Version(seen[t], subject[t])
  /\ \A t \in Reports : pc[t] = "attach" => [kind |-> "report", by |-> t] \in trail
  /\ \A a \in Approvals : pc[a] = "change" => seen[a].status = "PendingApproval"
  /\ \A x \in Commands : pc[x] \in {"policy", "target", "mark"} => copy[x].status = "Applied"
  /\ \A x \in Commands : pc[x] = "mark" =>
       /\ copy[x].target \in Changes /\ seen[x].status = "Applied"
       /\ Version(seen[x], copy[x].target)

PolicyCore == PolicyTypes /\ Stations /\ CommandsHold /\ StoreHolds /\ SeenHolds

(* The content of a change that was applied was authorized.                *)
LEMMA AppliedIsBacked ==
  ASSUME PolicyTypes, Stations, CommandsHold, NEW x \in Commands, NEW c, Applies(x, c)
  PROVE  Backed(copy[x].content)
<1>1. x \in Requests /\ copy[x].status = "Applied"
  BY SortsOfRequest DEF Applies
<1>2. Entered(x)
  BY <1>1 DEF Applies, Entered, Stations, NoChange
<1>3. CommandHolds(x)
  BY <1>2 DEF CommandsHold
<1>4. CASE x \in Proposals
  BY <1>1, <1>2, <1>3, <1>4 DEF CommandHolds, ProposalHolds, Backed, Authorized, Entered
<1>5. CASE x \in Rollbacks
  BY <1>3, <1>5 DEF CommandHolds, RollbackHolds
<1>6. CASE x \in Approvals
  <2> DEFINE s == subject[x]
  <2>1. s \in Changes /\ Descends(copy[x], s) /\ Entered(s) /\ s \in Commands
    BY <1>3, <1>6, SortsOfRequest DEF CommandHolds, ApprovalHolds, Descends, Stored, Entered
  <2>2. copy[x].content = copy[s].content /\ CommandHolds(s)
    BY <2>1 DEF Descends, CommandsHold
  <2>3. CASE s \in Rollbacks
    BY <2>2, <2>3 DEF CommandHolds, RollbackHolds
  <2>4. CASE s \in Proposals
    <3>1. copy[s].content = s
      BY <2>2, <2>4 DEF CommandHolds, ProposalHolds
    <3>2. Applies(x, s) /\ copy[x].approver # copy[s].proposer
      BY <1>3, <1>6, <2>1 DEF Applies, CommandHolds, ApprovalHolds, Descends
    <3>3. copy[s].replay =>
            \E t \in Reports : subject[t] = s /\ [kind |-> "report", by |-> t] \in trail
      BY <1>3, <1>6, <2>1 DEF CommandHolds, ApprovalHolds, ReplaySatisfied, Descends
    <3> QED BY <1>6, <2>1, <2>2, <3>1, <3>2, <3>3 DEF Backed, Authorized, Entered
  <2> QED BY <2>1, <2>3, <2>4 DEF Changes
<1> QED BY <1>4, <1>5, <1>6 DEF Commands, Changes

(* So was the content of a stored change, once it is applied.              *)
LEMMA StoredIsBacked ==
  ASSUME PolicyCore, NEW c \in Changes, changes[c].status = "Applied"
  PROVE  Backed(changes[c].content) /\ Backed(changes[c].base)
<1>1. Version(changes[c], c) /\ AppliedBy(c) /\ c \in Commands
  BY SortsOfRequest DEF PolicyCore, StoreHolds, Version
<1>2. Entered(c) /\ CommandHolds(c)
  BY <1>1 DEF Version, Descends, Stored, Entered, PolicyCore, CommandsHold
<1>3. PICK x \in Commands : Applies(x, c)
  BY <1>1 DEF AppliedBy
<1>4. Backed(copy[x].content) /\ Entered(x) /\ CommandHolds(x)
  <2>1. Backed(copy[x].content)
    BY <1>3, AppliedIsBacked DEF PolicyCore
  <2>2. Entered(x)
    BY <1>3, SortsOfRequest DEF Applies, Entered, PolicyCore, Stations, NoChange
  <2> QED BY <2>1, <2>2 DEF PolicyCore, CommandsHold
<1>5. copy[x].content = copy[c].content
  BY <1>3, <1>4, SortsOfRequest DEF Applies, CommandHolds, ProposalHolds, RollbackHolds,
     ApprovalHolds, Descends, Commands, Changes
<1>6. changes[c].content = copy[c].content /\ changes[c].base = copy[c].base
  BY <1>1 DEF Version, Descends
<1>7. Backed(copy[c].base)
  BY <1>2 DEF CommandHolds, ProposalHolds, RollbackHolds, Changes
<1> QED BY <1>4, <1>5, <1>6, <1>7

-----------------------------------------------------------------------------

(* Nothing but an authorized content is in force.                          *)
ForceHolds == Backed(inForce)

PolicyInv == PolicyCore /\ ForceHolds

(* A command is entered when it is called.                                 *)
LEMMA Enters ==
  ASSUME PolicyTypes, Stations, [Next]_policyVars, NEW x \in Commands, Entered(x)', ~Entered(x)
  PROVE  \/ x \in Proposals /\ Propose(x)
         \/ x \in Rollbacks /\ Rollback(x)
         \/ x \in Approvals /\ Approve(x)
<1>1. PICK y \in Requests : PolicyStep(y) \/ PolicyFault(y)
  BY NextIsStep DEF policyVars, Entered
<1>2. y = x
  BY <1>1, OwnStep, SortsOfRequest DEF PolicyTypes, Entered
<1>3. pc[x] = "idle"
  BY <1>1, <1>2, StationsOfStep DEF Entered
<1> QED BY <1>1, <1>2, <1>3, SortsOfRequest DEF PolicyStep, PersistStep, PersistChange,
      PersistPolicy, PersistTarget, PersistMark, PersistTrail, PolicyFault, Persisting,
      Reporting

LEMMA CommandsKept ==
  ASSUME PolicyInv, [Next]_policyVars
  PROVE  CommandsHold'
<1> USE DEF PolicyInv, PolicyCore
<1> SUFFICES ASSUME NEW x \in Commands, Entered(x)' PROVE CommandHolds(x)'
  BY DEF CommandsHold
<1>1. CASE Entered(x)
  <2>1. CommandHolds(x) /\ copy'[x] = copy[x] /\ subject'[x] = subject[x]
    BY <1>1, Lasting DEF CommandsHold
  <2> QED BY <2>1, Lasting DEF CommandHolds, ProposalHolds, RollbackHolds, ApprovalHolds
<1>2. CASE ~Entered(x) /\ x \in Proposals /\ Propose(x)
  <2>1. PICK user \in Users, high, approval, replay \in BOOLEAN :
          LET asked == Proposed(x, user, high, approval, replay) IN
          Persist(x, x, IF RequiresApproval(asked) \/ replay
                          THEN asked ELSE [asked EXCEPT !.status = "Applied"])
    BY <1>2 DEF Propose
  <2>2. subject'[x] = x
    BY <2>1, SortsOfRequest DEF Persist, PolicyTypes, PolicyTypeOK
  <2>3. copy'[x] = IF RequiresApproval(Proposed(x, user, high, approval, replay)) \/ replay
                     THEN Proposed(x, user, high, approval, replay)
                     ELSE [Proposed(x, user, high, approval, replay) EXCEPT !.status = "Applied"]
    BY <2>1, SortsOfRequest DEF Persist, PolicyTypes, PolicyTypeOK
  <2>4. Backed(inForce)'
    BY <1>2, Lasting DEF ForceHolds, Propose
  <2>5. Backed(inForce)' => ProposalHolds(x)'
    BY <2>2, <2>3, Lasting, <1>2
       DEF ProposalHolds, Proposed, NoChange, RequiresApproval, ForceHolds, Propose
  <2> QED BY <1>2, <2>4, <2>5, SortsOfRequest DEF CommandHolds, Changes
<1>3. CASE ~Entered(x) /\ x \in Rollbacks /\ Rollback(x)
  <2>1. PICK t \in Changes, user \in Users :
          LET reversal == Reversal(changes[t], user, t) IN
          \/ Refuse(x)
          \/ /\ Revocable(changes[t])
             /\ \/ Persist(x, x, reversal)
                \/ Persist(x, x, [reversal EXCEPT !.status = "Applied"])
    BY <1>3 DEF Rollback
  <2>2. ~Refuse(x)
    BY <1>3, SortsOfRequest DEF Refuse, Goto, Entered, PolicyTypes, PolicyTypeOK
  <2>3. subject'[x] = x
    BY <2>1, <2>2, SortsOfRequest DEF Persist, PolicyTypes, PolicyTypeOK
  <2>4. \/ copy'[x] = Reversal(changes[t], user, t)
        \/ copy'[x] = [Reversal(changes[t], user, t) EXCEPT !.status = "Applied"]
    BY <2>1, <2>2, SortsOfRequest DEF Persist, PolicyTypes, PolicyTypeOK
  <2>5. Backed(changes[t].content)' /\ Backed(changes[t].base)'
    <3>1. Backed(changes[t].content) /\ Backed(changes[t].base)
      BY <2>1, <2>2, StoredIsBacked DEF Revocable
    <3>2. changes' = changes
      BY <1>3 DEF Rollback
    <3> QED BY <3>1, <3>2, Lasting
  <2>6. /\ copy'[x].report = None /\ copy'[x].status \in {"PendingApproval", "Applied"}
        /\ copy'[x].base = changes[t].content /\ copy'[x].content = changes[t].base
    BY <2>4 DEF Reversal, NoChange
  <2>7. changes' = changes
    BY <1>3 DEF Rollback
  <2> QED BY <1>3, <2>3, <2>5, <2>6, <2>7, SortsOfRequest
    DEF CommandHolds, RollbackHolds, Changes
<1>4. CASE ~Entered(x) /\ x \in Approvals /\ Approve(x)
  <2>1. PICK c \in Changes, user \in Users :
          \/ Refuse(x)
          \/ Approvable(changes[c], user) /\ Persist(x, c, Approved(changes[c], user))
    BY <1>4 DEF Approve
  <2>2. ~Refuse(x)
    BY <1>4, SortsOfRequest DEF Refuse, Goto, Entered, PolicyTypes, PolicyTypeOK
  <2>3. subject'[x] = c /\ copy'[x] = Approved(changes[c], user)
    BY <2>1, <2>2, SortsOfRequest DEF Persist, PolicyTypes, PolicyTypeOK
  <2>4. changes[c] \in Change
    BY DEF PolicyTypes, PolicyTypeOK
  <2>5. /\ copy'[x].status = "Applied" /\ copy'[x].approver = user
        /\ copy'[x].proposer = changes[c].proposer /\ copy'[x].replay = changes[c].replay
        /\ copy'[x].report = changes[c].report /\ copy'[x].target = changes[c].target
        /\ copy'[x].base = changes[c].base /\ copy'[x].content = changes[c].content
    BY <2>3, <2>4 DEF Approved, Change
  <2>6. Descends(changes[c], c)'
    <3>1. Descends(changes[c], c) /\ changes' = changes
      BY <1>4, <2>1, <2>2 DEF Approvable, StoreHolds, Version, Approve
    <3> QED BY <3>1, Lasting
  <2>7. changes' = changes
    BY <1>4 DEF Approve
  <2>8. Descends(copy[x], c)'
    BY <2>5, <2>6, <2>7 DEF Descends
  <2>9. ApprovalHolds(x)'
    BY <2>1, <2>2, <2>3, <2>5, <2>8 DEF ApprovalHolds, Approvable, ReplaySatisfied
  <2> QED BY <1>4, <2>9, SortsOfRequest DEF CommandHolds, Changes
<1> QED BY <1>1, <1>2, <1>3, <1>4, Enters

(* Who stores a change.                                                    *)
LEMMA Writers ==
  ASSUME PolicyTypes, Stations, [Next]_policyVars, NEW c \in Changes, changes'[c] # changes[c]
  PROVE  \E y \in Requests :
           \/ y \in Commands /\ PersistChange(y) /\ subject[y] = c
           \/ y \in Commands /\ PersistMark(y) /\ copy[y].target = c
           \/ y \in Reports /\ ReportAttach(y) /\ subject[y] = c
<1>1. PICK y \in Requests : PolicyStep(y) \/ PolicyFault(y)
  BY NextIsStep DEF policyVars
<1>2. \/ y \in Commands /\ PersistChange(y)
      \/ y \in Commands /\ PersistMark(y)
      \/ y \in Reports /\ ReportAttach(y)
  <2>1. ~(Propose(y) \/ Rollback(y) \/ Approve(y) \/ PolicyFault(y))
    BY DEF Propose, Rollback, Approve, PolicyFault
  <2>2. CASE y \in Reports /\ ReportStep(y)
    BY <2>2 DEF ReportStep, ReportLoad, ReportResolve, ReportAppend
  <2>3. CASE PersistStep(y)
    <3>1. PersistChange(y) \/ PersistMark(y)
      BY <2>3 DEF PersistStep, PersistPolicy, PersistTarget, PersistTrail
    <3>2. pc[y] \in Persisting
      BY <3>1 DEF PersistChange, PersistMark, Persisting
    <3>3. y \in Commands
      BY <3>2, SortsOfRequest DEF Stations
    <3> QED BY <3>1, <3>3
  <2> QED BY <1>1, <2>1, <2>2, <2>3 DEF PolicyStep
<1> QED BY <1>2 DEF PersistChange, PersistMark, ReportAttach, SaveChange, PolicyTypes, PolicyTypeOK

LEMMA StoreKept ==
  ASSUME PolicyInv, [Next]_policyVars
  PROVE  StoreHolds'
<1> USE DEF PolicyInv, PolicyCore
<1> SUFFICES ASSUME NEW c \in Changes, changes'[c].status # "Absent"
             PROVE  Version(changes[c], c)'
  BY DEF StoreHolds
<1> USE DEF PolicyTypes, PolicyTypeOK, SaveChange
<1>1. CASE changes'[c] = changes[c]
  <2>1. Version(changes[c], c)
    BY <1>1 DEF StoreHolds
  <2>2. \A ch : Version(ch, c) => Version(ch, c)'
    BY Lasting
  <2> QED BY <1>1, <2>1, <2>2 DEF Version, Descends
<1>2. ASSUME NEW x \in Commands, PersistChange(x), subject[x] = c
      PROVE  Version(changes[c], c)'
  <2>1. changes'[c] = copy[x] /\ copy' = copy /\ subject' = subject /\ x \in Requests
    BY <1>2, SortsOfRequest DEF PersistChange
  <2>2. pc'[x] \in {"policy", "audit"} /\ Entered(x)
    BY <1>2, <2>1 DEF PersistChange, Goto, Entered
  <2>3. CommandHolds(x)
    BY <2>2 DEF CommandsHold
  <2>4. Descends(copy[x], c)'
    <3>1. CASE x \in Approvals
      <4>1. Descends(copy[x], c)
        BY <1>2, <2>3, <3>1 DEF CommandHolds, ApprovalHolds
      <4> QED BY <2>1, <4>1, Lasting DEF Descends
    <3>2. CASE x \in Changes
      <4>1. c = x /\ copy[x].report = None
        BY <1>2, <2>3, <3>2 DEF CommandHolds, ProposalHolds, RollbackHolds, Changes
      <4> QED BY <2>1, <2>2, <4>1 DEF Descends, Stored
    <3> QED BY <3>1, <3>2 DEF Commands
  <2>5. copy'[x].status = "Applied" => AppliedBy(c)'
    BY <1>2, <2>1, <2>2 DEF AppliedBy, Applies
  <2>6. copy'[x].status # "RolledBack"
    BY <2>1, <2>3 DEF CommandHolds, ProposalHolds, RollbackHolds, ApprovalHolds, Commands, Changes
  <2> QED BY <2>1, <2>4, <2>5, <2>6 DEF Version, Descends
<1>3. ASSUME NEW x \in Commands, PersistMark(x), copy[x].target = c
      PROVE  Version(changes[c], c)'
  <2>1. Version(seen[x], c)' /\ seen[x].status = "Applied"
    <3>1. Version(seen[x], c) /\ seen[x].status = "Applied" /\ seen' = seen
      BY <1>3 DEF PersistMark, SeenHolds
    <3> QED BY <3>1, Lasting
  <2>2. changes'[c] = RolledBack(seen[x], subject[x]) /\ seen[x] \in Change /\ seen' = seen
    BY <1>3, SortsOfRequest DEF PersistMark
  <2>3. /\ changes'[c].proposer = seen[x].proposer /\ changes'[c].target = seen[x].target
        /\ changes'[c].base = seen[x].base /\ changes'[c].content = seen[x].content
        /\ changes'[c].replay = seen[x].replay /\ changes'[c].report = seen[x].report
    BY <2>2 DEF RolledBack, Change
  <2> QED BY <2>1, <2>2, <2>3 DEF Version, Descends
<1>4. ASSUME NEW t \in Reports, ReportAttach(t), subject[t] = c
      PROVE  Version(changes[c], c)'
  <2>1. Version(seen[t], c)' /\ [kind |-> "report", by |-> t] \in trail
    <3>1. Version(seen[t], c) /\ [kind |-> "report", by |-> t] \in trail /\ seen' = seen
      BY <1>4 DEF ReportAttach, SeenHolds, Reporting
    <3> QED BY <3>1, Lasting
  <2>2. /\ changes'[c] = Attached(seen[t], t) /\ seen[t] \in Change /\ seen' = seen
        /\ trail' = trail /\ subject' = subject /\ pc'[t] = "done"
    BY <1>4, SortsOfRequest DEF ReportAttach, Goto
  <2>3. /\ changes'[c].proposer = seen[t].proposer /\ changes'[c].target = seen[t].target
        /\ changes'[c].base = seen[t].base /\ changes'[c].content = seen[t].content
        /\ changes'[c].replay /\ changes'[c].report = t
        /\ changes'[c].status = seen[t].status
    BY <2>2 DEF Attached, Change
  <2> QED BY <1>4, <2>1, <2>2, <2>3 DEF Version, Descends
<1> QED BY <1>1, <1>2, <1>3, <1>4, Writers

(* Where a request that moves comes from.                                  *)
LEMMA Moved ==
  ASSUME PolicyTypes, Stations, [Next]_policyVars, NEW x \in Requests,
         pc'[x] # pc[x] \/ seen'[x] # seen[x]
  PROVE  /\ PolicyStep(x) \/ PolicyFault(x)
         /\ pc'[x] \in {"resolve", "append"} =>
              x \in Reports /\ (ReportLoad(x) \/ ReportResolve(x))
         /\ pc'[x] = "attach" => x \in Reports /\ ReportAppend(x)
         /\ x \in Approvals /\ pc'[x] = "change" => Approve(x)
         /\ pc'[x] = "policy" => PersistChange(x)
         /\ pc'[x] = "target" => PersistPolicy(x)
         /\ pc'[x] \in {"mark", "threw"} => PersistTarget(x)
<1>1. PolicyStep(x) \/ PolicyFault(x)
  BY NextIsStep, OwnStep DEF policyVars, PolicyTypes
<1> USE SortsOfRequest DEF PolicyTypes, PolicyTypeOK, Goto
<1>2. CASE x \in Proposals /\ Propose(x)
  BY <1>1, <1>2 DEF Propose, Persist, Changes
<1>3. CASE x \in Rollbacks /\ Rollback(x)
  BY <1>1, <1>3 DEF Rollback, Persist, Refuse, Changes
<1>4. CASE x \in Approvals /\ Approve(x)
  BY <1>1, <1>4 DEF Approve, Persist, Refuse
<1>5. CASE x \in Reports /\ ReportStep(x)
  BY <1>1, <1>5 DEF ReportStep, ReportLoad, ReportResolve, ReportAppend, ReportAttach
<1>6. CASE PersistStep(x)
  BY <1>1, <1>6 DEF PersistStep, PersistChange, PersistPolicy, PersistTarget, PersistMark,
     PersistTrail
<1>7. CASE PolicyFault(x)
  BY <1>1, <1>7 DEF PolicyFault
<1> QED BY <1>1, <1>2, <1>3, <1>4, <1>5, <1>6, <1>7 DEF PolicyStep

LEMMA SeenKept ==
  ASSUME PolicyInv, [Next]_policyVars
  PROVE  SeenHolds'
<1> USE DEF PolicyInv, PolicyCore, PolicyTypes, PolicyTypeOK
<1>1. ASSUME NEW t \in Reports, pc'[t] \in Reporting
      PROVE  subject'[t] \in Changes /\ Version(seen[t], subject[t])'
  <2>1. CASE pc'[t] = pc[t] /\ seen'[t] = seen[t]
    <3>1. subject[t] \in Changes /\ Version(seen[t], subject[t])
      BY <1>1, <2>1 DEF SeenHolds
    <3>2. subject'[t] = subject[t]
      <4>1. t \in Requests
        BY SortsOfRequest
      <4>2. CASE UNCHANGED policyVars
        BY <4>2 DEF policyVars
      <4>3. ASSUME NEW y \in Requests, PolicyStep(y) \/ PolicyFault(y)
            PROVE  subject'[t] = subject[t]
        BY <4>1, <4>3, <1>1, <2>1, OwnStep DEF Reporting
      <4> QED BY <4>2, <4>3, NextIsStep
    <3>3. \A ch : \A c \in Changes : Version(ch, c) => Version(ch, c)'
      BY Lasting
    <3> QED BY <2>1, <3>1, <3>2, <3>3 DEF Version, Descends
  <2>2. CASE ~(pc'[t] = pc[t] /\ seen'[t] = seen[t])
    <3>1. ReportLoad(t) \/ ReportResolve(t) \/ ReportAppend(t)
      BY <1>1, <2>2, Moved, SortsOfRequest DEF Reporting
    <3>2. CASE ReportLoad(t)
      <4>1. PICK c \in Changes :
              /\ seen' = [seen EXCEPT ![t] = changes[c]]
              /\ subject' = [subject EXCEPT ![t] = c]
              /\ changes[c].status # "Absent"
        BY <1>1, <3>2, SortsOfRequest DEF ReportLoad, Goto, Reporting
      <4>2. Version(changes[c], c)' /\ changes' = changes
        BY <3>2, <4>1, Lasting DEF StoreHolds, ReportLoad
      <4>3. seen'[t] = changes[c] /\ subject'[t] = c
        BY <4>1, SortsOfRequest
      <4> QED BY <4>2, <4>3 DEF Version, Descends
    <3>3. CASE ReportResolve(t) \/ ReportAppend(t)
      <4>1. pc[t] \in Reporting /\ seen' = seen /\ subject' = subject
        BY <3>3 DEF ReportResolve, ReportAppend, Reporting
      <4>2. subject[t] \in Changes /\ Version(seen[t], subject[t])'
        BY <4>1, Lasting DEF SeenHolds
      <4> QED BY <4>1, <4>2 DEF Version, Descends
    <3> QED BY <3>1, <3>2, <3>3
  <2> QED BY <2>1, <2>2
<1>2. ASSUME NEW t \in Reports, pc'[t] = "attach"
      PROVE  [kind |-> "report", by |-> t] \in trail'
  <2>1. trail \subseteq trail'
    BY StationsOfStep, NextIsStep DEF policyVars
  <2>2. CASE pc[t] = "attach"
    BY <2>1, <2>2 DEF SeenHolds
  <2>3. CASE pc[t] # "attach"
    BY <1>2, <2>3, Moved, SortsOfRequest DEF ReportAppend, Append
  <2> QED BY <2>2, <2>3
<1>3. ASSUME NEW a \in Approvals, pc'[a] = "change"
      PROVE  seen'[a].status = "PendingApproval"
  <2>1. CASE pc'[a] = pc[a] /\ seen'[a] = seen[a]
    BY <1>3, <2>1 DEF SeenHolds
  <2>2. CASE ~(pc'[a] = pc[a] /\ seen'[a] = seen[a])
    BY <1>3, <2>2, Moved, SortsOfRequest DEF Approve, Approvable, Refuse, Goto
  <2> QED BY <2>1, <2>2
<1>4. ASSUME NEW x \in Commands, pc'[x] \in {"policy", "target", "mark"}
      PROVE  copy'[x].status = "Applied"
  <2>1. CASE pc'[x] = pc[x]
    BY <1>4, <2>1, Lasting DEF SeenHolds, Entered
  <2>2. CASE pc'[x] # pc[x]
    BY <1>4, <2>2, Moved, SortsOfRequest
       DEF SeenHolds, PersistChange, PersistPolicy, PersistTarget, Goto
  <2> QED BY <2>1, <2>2
<1>5. ASSUME NEW x \in Commands, pc'[x] = "mark"
      PROVE  /\ copy'[x].target \in Changes /\ seen'[x].status = "Applied"
             /\ Version(seen[x], copy[x].target)'
  <2>1. CASE pc'[x] = pc[x] /\ seen'[x] = seen[x]
    <3>1. /\ copy[x].target \in Changes /\ seen[x].status = "Applied"
          /\ Version(seen[x], copy[x].target)
      BY <1>5, <2>1 DEF SeenHolds
    <3>2. copy'[x] = copy[x] /\ Version(seen[x], copy[x].target)'
      BY <1>5, <2>1, <3>1, Lasting DEF Entered
    <3> QED BY <2>1, <3>1, <3>2 DEF Version, Descends
  <2>2. CASE ~(pc'[x] = pc[x] /\ seen'[x] = seen[x])
    <3>1. PersistTarget(x) /\ x \in Requests
      BY <1>5, <2>2, Moved, SortsOfRequest
    <3>2. copy[x].target \in Changes
      BY <3>1 DEF PersistTarget, Change
    <3>3. seen'[x] = changes[copy[x].target] /\ seen'[x].status = "Applied"
          /\ copy' = copy /\ changes' = changes
      BY <1>5, <3>1 DEF PersistTarget, Revocable, Goto
    <3>4. Version(changes[copy[x].target], copy[x].target)
      BY <3>2, <3>3 DEF StoreHolds
    <3>5. \A ch : \A c \in Changes : Version(ch, c) => Version(ch, c)'
      BY Lasting
    <3> QED BY <3>2, <3>3, <3>4, <3>5 DEF Version, Descends
  <2> QED BY <2>1, <2>2
<1> QED BY <1>1, <1>2, <1>3, <1>4, <1>5 DEF SeenHolds

LEMMA ForceKept ==
  ASSUME PolicyInv, [Next]_policyVars
  PROVE  ForceHolds'
<1> USE DEF PolicyInv, PolicyCore
<1>1. CASE inForce' = inForce
  <2>1. Backed(inForce)
    BY DEF ForceHolds
  <2>2. \A v : Backed(v) => Backed(v)'
    BY Lasting
  <2> QED BY <1>1, <2>1, <2>2 DEF ForceHolds, Backed, Authorized
<1>2. CASE inForce' # inForce
  <2>1. PICK y \in Requests : PersistPolicy(y)
    BY <1>2 DEF Next, policyVars, Propose, Rollback, Approve, ReportStep, ReportLoad,
       ReportResolve, ReportAppend, ReportAttach, PersistStep, PersistChange, PersistTarget,
       PersistMark, PersistTrail, PolicyFault
  <2>2. y \in Commands /\ copy[y].status = "Applied"
    BY <2>1, SortsOfRequest DEF PersistPolicy, Stations, Persisting, SeenHolds
  <2>3. Applies(y, subject[y])
    BY <2>1, <2>2 DEF PersistPolicy, Applies
  <2>4. Backed(copy[y].content)
    BY <2>2, <2>3, AppliedIsBacked
  <2>5. Backed(copy[y].content)' /\ inForce' = copy'[y].content
    BY <2>1, <2>4, Lasting DEF PersistPolicy
  <2> QED BY <2>5 DEF ForceHolds, Backed, Authorized, Applies
<1> QED BY <1>1, <1>2

LEMMA PolicyInvHolds == Spec => []PolicyInv
<1>1. Init => PolicyInv
  <2> SUFFICES ASSUME Init PROVE PolicyInv
    OBVIOUS
  <2>1. PolicyTypes
    BY ChangeTypes, PolicyAssumption DEF Init, PolicyTypes, PolicyTypeOK, PolicyPc, Contents
  <2>2. \A x \in Requests : pc[x] = "idle" /\ subject[x] = None /\ copy[x] = NoChange
    BY DEF Init
  <2>3. Stations /\ CommandsHold /\ SeenHolds
    BY <2>2, SortsOfRequest
       DEF Stations, CommandsHold, SeenHolds, Entered, Reporting, Persisting
  <2>4. StoreHolds
    BY DEF Init, StoreHolds, NoChange
  <2>5. ForceHolds
    BY PolicyAssumption, NoneIsNothing DEF Init, ForceHolds, Backed, Contents
  <2> QED BY <2>1, <2>3, <2>4, <2>5 DEF PolicyInv, PolicyCore
<1>2. PolicyInv /\ [Next]_policyVars => PolicyInv'
  <2> SUFFICES ASSUME PolicyInv, [Next]_policyVars PROVE PolicyInv'
    OBVIOUS
  <2>1. PolicyTypes'
    BY TypesKept, TargetsKept DEF PolicyInv, PolicyCore, PolicyTypes
  <2>2. Stations'
    BY StationsKept DEF PolicyInv, PolicyCore
  <2> QED BY <2>1, <2>2, CommandsKept, StoreKept, SeenKept, ForceKept DEF PolicyInv, PolicyCore
<1> QED BY <1>1, <1>2, PTL DEF Spec

(* Whatever chain of changes and rollbacks put it in force, what the       *)
(* policy says was proposed as a change that needed nobody, or it was      *)
(* approved by another user and replayed where a report was asked for.     *)
THEOREM AuthorizedInForce == Spec => []InForceAuthorized
<1>1. PolicyInv => InForceAuthorized
  BY DEF PolicyInv, ForceHolds, Backed, InForceAuthorized
<1> QED BY <1>1, PolicyInvHolds, PTL

(* A stored change is applied once and rolled back once, unless a command  *)
(* stores a copy that is stale.                                            *)
THEOREM StaleCopiesOnly == Spec => UndoneByStaleCopy
<1>1. ASSUME PolicyInv, [Next]_policyVars, NEW c \in Changes
      PROVE  \/ changes'[c].status = changes[c].status
             \/ <<changes[c].status, changes'[c].status>> \in Moves
             \/ \E x \in Requests :
                  /\ c \in {subject[x], copy[x].target}
                  /\ pc[x] \in {"change", "mark", "attach"}
                  /\ pc'[x] # pc[x]
                  /\ seen[x] # changes[c]
  <2> USE <1>1 DEF PolicyInv, PolicyCore, PolicyTypes, PolicyTypeOK, SaveChange, Goto
  <2> SUFFICES ASSUME changes'[c] # changes[c]
               PROVE  \/ changes'[c].status = changes[c].status
                      \/ <<changes[c].status, changes'[c].status>> \in Moves
                      \/ \E x \in Requests :
                           /\ c \in {subject[x], copy[x].target}
                           /\ pc[x] \in {"change", "mark", "attach"}
                           /\ pc'[x] # pc[x]
                           /\ seen[x] # changes[c]
    OBVIOUS
  <2>1. PICK y \in Requests :
           \/ y \in Commands /\ PersistChange(y) /\ subject[y] = c
           \/ y \in Commands /\ PersistMark(y) /\ copy[y].target = c
           \/ y \in Reports /\ ReportAttach(y) /\ subject[y] = c
    BY Writers
  <2>2. CASE y \in Commands /\ PersistChange(y) /\ subject[y] = c
    <3>1. /\ pc[y] = "change" /\ pc'[y] # pc[y] /\ changes'[c] = copy[y]
          /\ CommandHolds(y)
      BY <2>2 DEF PersistChange, CommandsHold, Entered
    <3>2. CASE y \in Approvals
      <4>1. seen[y].status = "PendingApproval" /\ copy[y].status = "Applied"
        BY <3>1, <3>2 DEF SeenHolds, CommandHolds, ApprovalHolds
      <4> QED BY <2>2, <3>1, <4>1 DEF Moves
    <3>3. CASE y \in Changes
      <4>1. c = y /\ copy[y].status \in {"PendingApproval", "Applied"}
        BY <2>2, <3>1, <3>3 DEF CommandHolds, ProposalHolds, RollbackHolds, Changes
      <4>2. changes[c].status = "Absent"
        BY <3>1, <4>1 DEF StoreHolds, Version, Descends, Stored
      <4> QED BY <3>1, <4>1, <4>2 DEF Moves
    <3> QED BY <2>2, <3>2, <3>3 DEF Commands
  <2>3. CASE y \in Commands /\ PersistMark(y) /\ copy[y].target = c
    <3>1. /\ pc[y] = "mark" /\ pc'[y] # pc[y] /\ seen[y].status = "Applied"
          /\ changes'[c] = RolledBack(seen[y], subject[y]) /\ seen[y] \in Change
      BY <2>3 DEF PersistMark, SeenHolds
    <3>2. changes'[c].status = "RolledBack"
      BY <3>1 DEF RolledBack, Change
    <3> QED BY <2>3, <3>1, <3>2 DEF Moves
  <2>4. CASE y \in Reports /\ ReportAttach(y) /\ subject[y] = c
    <3>1. /\ pc[y] = "attach" /\ pc'[y] # pc[y] /\ seen[y] \in Change
          /\ changes'[c] = Attached(seen[y], y)
      BY <2>4 DEF ReportAttach
    <3>2. changes'[c].status = seen[y].status
      BY <3>1 DEF Attached, Change
    <3> QED BY <2>4, <3>1, <3>2
  <2> QED BY <2>1, <2>2, <2>3, <2>4
<1>2. PolicyInv /\ [Next]_policyVars =>
        [ \A c \in Changes :
            \/ changes'[c].status = changes[c].status
            \/ <<changes[c].status, changes'[c].status>> \in Moves
            \/ \E x \in Requests :
                 /\ c \in {subject[x], copy[x].target}
                 /\ pc[x] \in {"change", "mark", "attach"}
                 /\ pc'[x] # pc[x]
                 /\ seen[x] # changes[c] ]_policyVars
  BY <1>1
<1> QED BY <1>2, PolicyInvHolds, PTL DEF Spec, UndoneByStaleCopy

-----------------------------------------------------------------------------

(* c is applied still, or somebody rolled it back or saved a report on it. *)
Overtaken(c) ==
  \E y \in Requests : Marked(y, c) \/ (y \in Reports /\ Reopened(y, c))

(* A command that found its target applied still finds it so, unless it is *)
(* overtaken; one that threw was; and one that ended has its audit entry.  *)
TrailHolds ==
  /\ \A x \in Commands : Entered(x) /\ copy[x].target # None =>
       changes[copy[x].target].status = "Applied" \/ Overtaken(copy[x].target)
  /\ \A x \in Commands : pc[x] = "threw" =>
       copy[x].target \in Changes /\ Overtaken(copy[x].target)
  /\ \A x \in Commands : pc[x] \in {"evidence", "event", "done"} =>
       [kind |-> "audit", by |-> x] \in trail

LEMMA OvertakenLasts ==
  ASSUME PolicyInv, [Next]_policyVars, NEW c \in Changes, Overtaken(c)
  PROVE  Overtaken(c)'
<1> USE DEF PolicyInv, PolicyCore
<1>1. PICK y \in Requests : Marked(y, c) \/ (y \in Reports /\ Reopened(y, c))
  BY DEF Overtaken
<1>2. c # None
  BY NoneIsNothing
<1>3. CASE Marked(y, c)
  <2>1. pc[y] # "idle" /\ copy[y].target = c
    BY <1>3 DEF Marked
  <2>2. copy'[y] = copy[y]
    <3>1. CASE UNCHANGED policyVars
      BY <3>1 DEF policyVars
    <3>2. ASSUME NEW z \in Requests, PolicyStep(z) \/ PolicyFault(z)
          PROVE  copy'[y] = copy[y]
      BY <2>1, <3>2, OwnStep DEF PolicyTypes
    <3> QED BY <3>1, <3>2, NextIsStep
  <2>3. CASE pc'[y] = pc[y]
    <3>1. Marked(y, c)'
      BY <1>3, <2>2, <2>3 DEF Marked
    <3> QED BY <3>1 DEF Overtaken
  <2>4. CASE pc'[y] # pc[y]
    <3>1. PolicyStep(y) \/ PolicyFault(y)
      BY <2>4, Moved
    <3>2. PersistTrail(y) \/ PolicyFault(y)
      BY <1>3, <3>1 DEF Marked, PolicyStep, Propose, Rollback, Approve, ReportStep, ReportLoad,
         ReportResolve, ReportAppend, ReportAttach, PersistStep, PersistChange, PersistPolicy,
         PersistTarget, PersistMark
    <3>3. pc'[y] \in {"evidence", "event", "done", "dead"}
      BY <3>2 DEF PersistTrail, PolicyFault, Goto, PolicyTypes, PolicyTypeOK
    <3>4. Marked(y, c)'
      BY <2>1, <2>2, <3>3 DEF Marked
    <3> QED BY <3>4 DEF Overtaken
  <2> QED BY <2>3, <2>4
<1>4. CASE y \in Reports /\ Reopened(y, c)
  <2>1. pc'[y] = pc[y]
    BY <1>4, Moved, NextIsStep, StationsOfStep DEF Reopened
  <2>2. subject'[y] = subject[y]
    <3>1. CASE UNCHANGED policyVars
      BY <3>1 DEF policyVars
    <3>2. ASSUME NEW z \in Requests, PolicyStep(z) \/ PolicyFault(z)
          PROVE  subject'[y] = subject[y]
      BY <1>4, <3>2, OwnStep DEF PolicyTypes, Reopened
    <3> QED BY <3>1, <3>2, NextIsStep
  <2> QED BY <1>4, <2>1, <2>2 DEF Reopened, Overtaken
<1> QED BY <1>1, <1>3, <1>4

(* A change stops being applied when it is overtaken.                      *)
LEMMA AppliedUntilOvertaken ==
  ASSUME PolicyInv, [Next]_policyVars, NEW c \in Changes, changes[c].status = "Applied"
  PROVE  changes'[c].status = "Applied" \/ Overtaken(c)'
<1> USE DEF PolicyInv, PolicyCore, PolicyTypes, PolicyTypeOK
<1> SUFFICES ASSUME changes'[c] # changes[c]
             PROVE  changes'[c].status = "Applied" \/ Overtaken(c)'
  OBVIOUS
<1>1. PICK y \in Requests :
         \/ y \in Commands /\ PersistChange(y) /\ subject[y] = c
         \/ y \in Commands /\ PersistMark(y) /\ copy[y].target = c
         \/ y \in Reports /\ ReportAttach(y) /\ subject[y] = c
  BY Writers
<1>2. CASE y \in Commands /\ PersistChange(y) /\ subject[y] = c
  <2>1. pc[y] = "change" /\ changes'[c] = copy[y] /\ CommandHolds(y)
    BY <1>2 DEF PersistChange, CommandsHold, Entered, SaveChange
  <2>2. pc[c] # "change"
    BY DEF StoreHolds, Version, Descends, Stored
  <2>3. y \in Approvals
    BY <1>2, <2>1, <2>2
       DEF CommandHolds, ProposalHolds, RollbackHolds, Commands, Changes
  <2> QED BY <2>1, <2>3 DEF CommandHolds, ApprovalHolds
<1>3. CASE y \in Commands /\ PersistMark(y) /\ copy[y].target = c
  <2>1. pc'[y] = "audit" /\ copy'[y].target = c
    BY <1>3 DEF PersistMark, Goto
  <2>2. Marked(y, c)'
    BY <2>1 DEF Marked
  <2> QED BY <2>2 DEF Overtaken
<1>4. CASE y \in Reports /\ ReportAttach(y) /\ subject[y] = c
  <2>1. pc'[y] = "done" /\ subject'[y] = c
    BY <1>4 DEF ReportAttach, Goto
  <2> QED BY <1>4, <2>1 DEF Overtaken, Reopened
<1> QED BY <1>1, <1>2, <1>3, <1>4

(* What a rollback or the approval of one acts on is applied.              *)
LEMMA TargetApplied ==
  ASSUME PolicyInv, TrailHolds, [Next]_policyVars, NEW x \in Commands,
         Entered(x)', ~Entered(x), copy'[x].target # None
  PROVE  LET t == copy'[x].target IN
         t \in Changes /\ (changes[t].status = "Applied" \/ Overtaken(t))
<1> USE SortsOfRequest DEF PolicyInv, PolicyCore, PolicyTypes, PolicyTypeOK
<1>1. CASE x \in Proposals /\ Propose(x)
  <2>1. CommandHolds(x)'
    BY CommandsKept DEF CommandsHold
  <2> QED BY <1>1, <2>1 DEF CommandHolds, ProposalHolds
<1>2. CASE x \in Rollbacks /\ Rollback(x)
  <2>1. PICK t \in Changes, user \in Users :
          LET reversal == Reversal(changes[t], user, t) IN
          \/ Refuse(x)
          \/ /\ Revocable(changes[t])
             /\ \/ Persist(x, x, reversal)
                \/ Persist(x, x, [reversal EXCEPT !.status = "Applied"])
    BY <1>2 DEF Rollback
  <2>2. ~Refuse(x)
    BY <1>2 DEF Refuse, Goto, Entered
  <2>3. \/ copy'[x] = Reversal(changes[t], user, t)
        \/ copy'[x] = [Reversal(changes[t], user, t) EXCEPT !.status = "Applied"]
    BY <2>1, <2>2 DEF Persist
  <2>4. copy'[x].target = t
    BY <2>3 DEF Reversal, NoChange
  <2> QED BY <2>1, <2>2, <2>4 DEF Revocable
<1>3. CASE x \in Approvals /\ Approve(x)
  <2>1. PICK c \in Changes, user \in Users :
          \/ Refuse(x)
          \/ Approvable(changes[c], user) /\ Persist(x, c, Approved(changes[c], user))
    BY <1>3 DEF Approve
  <2>2. ~Refuse(x)
    BY <1>3 DEF Refuse, Goto, Entered
  <2>3. copy'[x] = Approved(changes[c], user) /\ changes[c] \in Change
    BY <2>1, <2>2 DEF Persist
  <2>4. copy'[x].target = changes[c].target
    BY <2>3 DEF Approved, Change
  <2>5. Entered(c) /\ copy[c].target = changes[c].target
    BY <2>1, <2>2 DEF Approvable, StoreHolds, Version, Descends, Stored, Entered
  <2>6. changes[c].target \in Changes
    BY <2>3, <2>4 DEF Change
  <2> QED BY <2>4, <2>5, <2>6 DEF TrailHolds
<1> QED BY <1>1, <1>2, <1>3, Enters

LEMMA TrailKept ==
  ASSUME PolicyInv, TrailHolds, [Next]_policyVars
  PROVE  TrailHolds'
<1> USE DEF PolicyInv, PolicyCore
<1>1. ASSUME NEW x \in Commands, Entered(x)', copy'[x].target # None
      PROVE  changes'[copy'[x].target].status = "Applied" \/ Overtaken(copy[x].target)'
  <2> DEFINE t == copy'[x].target
  <2>1. t \in Changes /\ (changes[t].status = "Applied" \/ Overtaken(t))
    <3>1. CASE Entered(x)
      <4>1. copy'[x] = copy[x] /\ x \in Requests
        BY <3>1, Lasting, SortsOfRequest
      <4>2. copy[x] \in Change
        BY <4>1 DEF PolicyTypes, PolicyTypeOK
      <4> QED BY <1>1, <3>1, <4>1, <4>2 DEF TrailHolds, Change
    <3>2. CASE ~Entered(x)
      BY <1>1, <3>2, TargetApplied
    <3> QED BY <3>1, <3>2
  <2>2. changes'[t].status = "Applied" \/ \A c : c = t => Overtaken(c)'
    BY <2>1, AppliedUntilOvertaken, OvertakenLasts
  <2> QED BY <2>2 DEF Overtaken, Marked, Reopened
<1>2. ASSUME NEW x \in Commands, pc'[x] = "threw"
      PROVE  copy'[x].target \in Changes /\ Overtaken(copy[x].target)'
  <2>1. x \in Requests
    BY SortsOfRequest
  <2>2. copy[x].target \in Changes /\ Overtaken(copy[x].target) /\ copy'[x] = copy[x]
    <3>1. CASE pc[x] = "threw"
      BY <1>2, <3>1, Lasting DEF Entered, TrailHolds
    <3>2. CASE pc[x] # "threw"
      <4>1. PersistTarget(x)
        BY <1>2, <2>1, <3>2, Moved
      <4>2. changes[copy[x].target].status # "Applied" /\ copy' = copy /\ Entered(x)
        BY <1>2, <2>1, <4>1
           DEF PersistTarget, Revocable, Goto, Entered, PolicyTypes, PolicyTypeOK
      <4>3. copy[x].target \in Changes
        BY <2>1, <4>1 DEF PersistTarget, PolicyTypes, PolicyTypeOK, Change
      <4> QED BY <4>2, <4>3, NoneIsNothing DEF TrailHolds
    <3> QED BY <3>1, <3>2
  <2>3. \A c \in Changes : c = copy[x].target => Overtaken(c)'
    BY <2>2, OvertakenLasts
  <2> QED BY <2>2, <2>3 DEF Overtaken, Marked, Reopened
<1>3. ASSUME NEW x \in Commands, pc'[x] \in {"evidence", "event", "done"}
      PROVE  [kind |-> "audit", by |-> x] \in trail'
  <2>1. x \in Requests /\ trail \subseteq trail'
    BY SortsOfRequest, StationsOfStep, NextIsStep DEF policyVars
  <2>2. CASE pc'[x] = pc[x]
    BY <1>3, <2>1, <2>2 DEF TrailHolds
  <2>3. CASE pc'[x] # pc[x]
    <3>1. PolicyStep(x) \/ PolicyFault(x)
      BY <2>1, <2>3, Moved
    <3>2. PersistTrail(x)
      BY <1>3, <2>1, <3>1, SortsOfRequest DEF PolicyStep, Propose, Rollback, Approve, Persist,
         Refuse, ReportStep, PersistStep, PersistChange, PersistPolicy, PersistTarget,
         PersistMark, PolicyFault, Goto, PolicyTypes, PolicyTypeOK
    <3> QED BY <1>3, <2>1, <3>2
            DEF TrailHolds, PersistTrail, Append, Goto, PolicyTypes, PolicyTypeOK
  <2> QED BY <2>2, <2>3
<1> QED BY <1>1, <1>2, <1>3 DEF TrailHolds

(* A change that is stored as applied has its audit entry, unless the      *)
(* command that applies it is under way, failed, or was overtaken by       *)
(* another rollback of its target or by a report saved over it.            *)
THEOREM OvertakenOnly == Spec => []UnauditedIsOvertaken
<1>1. Init => TrailHolds
  BY SortsOfRequest DEF Init, TrailHolds, Entered
<1>2. PolicyInv /\ TrailHolds /\ [Next]_policyVars => TrailHolds'
  BY TrailKept
<1>3. PolicyInv /\ TrailHolds => UnauditedIsOvertaken
  <2> SUFFICES ASSUME PolicyInv, TrailHolds, NEW c \in Changes, changes[c].status = "Applied"
               PROVE  \E x \in Requests :
                        /\ Applies(x, c)
                        /\ \/ [kind |-> "audit", by |-> x] \in trail
                           \/ pc[x] \in Persisting \cup {"dead"}
                           \/ /\ pc[x] = "threw" /\ copy[x].target \in Changes
                              /\ \E y \in Requests \ {x} :
                                   \/ Marked(y, copy[x].target)
                                   \/ y \in Reports /\ Reopened(y, copy[x].target)
    BY DEF UnauditedIsOvertaken
  <2>1. PICK x \in Commands : Applies(x, c)
    BY DEF PolicyInv, PolicyCore, StoreHolds, Version, AppliedBy
  <2>2. /\ x \in Requests
        /\ pc[x] \in {"done", "threw", "dead"} \cup Persisting
    BY <2>1, SortsOfRequest DEF Applies, PolicyInv, PolicyCore, PolicyTypes, PolicyTypeOK,
       PolicyPc, Stations, NoChange
  <2>3. CASE pc[x] = "done"
    BY <2>1, <2>2, <2>3 DEF TrailHolds
  <2>4. CASE pc[x] = "threw"
    <3>1. PICK y \in Requests :
            \/ Marked(y, copy[x].target)
            \/ y \in Reports /\ Reopened(y, copy[x].target)
      BY <2>4 DEF TrailHolds, Overtaken
    <3>2. y # x
      BY <2>4, <3>1 DEF Marked, Reopened
    <3>3. copy[x].target \in Changes
      BY <2>1, <2>4 DEF TrailHolds
    <3> QED BY <2>1, <2>2, <2>4, <3>1, <3>2, <3>3
  <2> QED BY <2>1, <2>2, <2>3, <2>4
<1> QED BY <1>1, <1>2, <1>3, PolicyInvHolds, PTL DEF Spec
=============================================================================
