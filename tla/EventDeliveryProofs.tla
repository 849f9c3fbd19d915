------------------------- MODULE EventDeliveryProofs -------------------------
(***************************************************************************)
(* Theorems about EventDelivery, for any number of events, dispatchers,    *)
(* workers and failures: types, the outbox contract, and what the          *)
(* projection keeps of the evidence it acknowledges.                       *)
(***************************************************************************)
EXTENDS EventDelivery, FiniteSetTheorems, WellFoundedInduction, TLAPS

(* A nonempty set of naturals has a least element.                         *)
LEMMA Least ==
  ASSUME NEW S \in SUBSET Nat, S # {}
  PROVE  \E e \in S : \A f \in S : e <= f
<1>1. PICK e \in S : \A f \in S : ~(<<f, e>> \in OpToRel(<, Nat))
  BY WFMin, NatLessThanWellFounded
<1>2. \A f \in S : ~(f < e)
  BY <1>1 DEF OpToRel
<1> QED BY <1>2

(* The loop's current entry is one of the batch.                           *)
LEMMA CurrentInBatch ==
  ASSUME DeliveryTypeOK, NEW d \in Dispatchers, batch[d] # {}
  PROVE  Current(d) \in batch[d]
<1>1. batch[d] \in SUBSET Nat
  BY OutboxAssumption DEF DeliveryTypeOK, OutboxTypeOK
<1> QED BY <1>1, Least DEF Current

(* The loop's current message is one of those left.                        *)
LEMMA TurnInTodo ==
  ASSUME DeliveryTypeOK, NEW w \in Workers, todo[w] # {}
  PROVE  Turn(w) \in todo[w]
<1>1. todo[w] \in SUBSET Nat
  BY DEF DeliveryTypeOK, OutboxTypeOK, WorkerTypeOK, Messages
<1> QED BY <1>1, Least DEF Turn

-----------------------------------------------------------------------------

(* What the bodies of the two loops rely on: there is an entry, or a       *)
(* message, to go on with.                                                 *)
LoopsFilled ==
  /\ \A d \in Dispatchers : dispPc[d] # "idle" => batch[d] # {}
  /\ \A w \in Workers :
       workPc[w] \in {"index", "graph", "checkpoint"} => todo[w] # {}

DeliveryInv == DeliveryTypeOK /\ LoopsFilled

(* The initial state.                                                      *)
LEMMA InitDelivery == Init => DeliveryInv
  BY OutboxAssumption, WorkerAssumption
  DEF Init, OutboxInit, WorkerInit, DeliveryInv, DeliveryTypeOK, OutboxTypeOK,
      WorkerTypeOK, LoopsFilled, EntryStatus, DispPc, WorkPc, Messages

(* A failure is counted within its bound.                                  *)
LEMMA FaultType ==
  ASSUME DeliveryTypeOK, Fault
  PROVE  faults' \in 0..MaxFaults
  BY OutboxAssumption DEF DeliveryTypeOK, OutboxTypeOK, Fault

(* A longer stream has the messages of the shorter one, with their events. *)
LEMMA StreamGrows ==
  ASSUME NEW e \in Events, stream \in Seq(Events), stream' = Append(stream, e)
  PROVE  /\ stream' \in Seq(Events)
         /\ Messages' = Messages \cup {Len(stream) + 1}
         /\ \A m \in Messages : stream'[m] = stream[m]
         /\ stream'[Len(stream) + 1] = e
         /\ Len(stream) + 1 \notin Messages
         /\ Messages \subseteq Nat
  BY DEF Messages

(* A dispatcher's steps keep the types and its loop filled.                *)
LEMMA DispatcherType ==
  ASSUME DeliveryInv, OutboxNext, UNCHANGED workerVars
  PROVE  DeliveryInv'
<1> USE DEF DeliveryInv, DeliveryTypeOK, OutboxTypeOK, LoopsFilled
<1>1. WorkerTypeOK' /\ (\A w \in Workers :
         workPc[w]' \in {"index", "graph", "checkpoint"} => todo[w]' # {})
  <2>1. Messages \subseteq Messages'
    <3>1. CASE UNCHANGED stream
      BY <3>1 DEF Messages
    <3>2. CASE \E e \in Events : stream' = Append(stream, e)
      BY <3>2, StreamGrows
    <3>3. CASE \E d \in Dispatchers : Publish(d) \/ PublishFails(d)
      <4>1. PICK d \in Dispatchers : Publish(d) \/ PublishFails(d)
        BY <3>3
      <4>2. Current(d) \in Events
        BY <4>1, CurrentInBatch DEF Publish, PublishFails
      <4> QED BY <3>1, <3>2, <4>1, <4>2 DEF Publish, PublishFails
    <3>4. UNCHANGED stream \/ \E d \in Dispatchers : Publish(d) \/ PublishFails(d)
      BY DEF OutboxNext, DispatchStep, DispatchFault, Enqueue, Fetch, MarkPublished,
         MarkFails, MarkFailed, AbandonCycle
    <3> QED BY <3>1, <3>3, <3>4
  <2> QED BY <2>1 DEF WorkerTypeOK, workerVars
<1>2. OutboxTypeOK' /\ (\A d \in Dispatchers : dispPc'[d] # "idle" => batch'[d] # {})
  <2>1. CASE \E e \in Events : Enqueue(e)
    BY <2>1 DEF Enqueue, EntryStatus
  <2>2. ASSUME NEW d \in Dispatchers, DispatchStep(d) \/ DispatchFault(d)
        PROVE  OutboxTypeOK' /\ (\A c \in Dispatchers : dispPc'[c] # "idle" => batch'[c] # {})
    <3>1. CASE Fetch(d)
      <4>1. Fetchables \in SUBSET Events /\ Fetchables # {}
        BY <3>1 DEF Fetch, Fetchables, FirstOf, Listed, Enqueued
      <4> QED BY <3>1, <4>1 DEF Fetch, DispPc
    <3>2. CASE ~Fetch(d)
      <4>1. batch[d] # {}
        BY <2>2, <3>2 DEF DispatchStep, DispatchFault, Publish, PublishFails, MarkPublished,
           MarkFails, MarkFailed, AbandonCycle
      <4>2. Current(d) \in Events
        BY <4>1, CurrentInBatch
      <4>3. CASE Publish(d)
        BY <4>2, <4>3, StreamGrows DEF Publish, DispGoto, DispPc
      <4>4. CASE PublishFails(d)
        BY <4>2, <4>4, StreamGrows, FaultType DEF PublishFails, DispGoto, DispPc
      <4>5. CASE MarkPublished(d)
        BY <4>2, <4>5 DEF MarkPublished, NextEntry, DispPc, EntryStatus
      <4>6. CASE MarkFails(d)
        BY <4>6, FaultType DEF MarkFails, DispGoto, DispPc
      <4>7. CASE MarkFailed(d)
        BY <4>2, <4>7 DEF MarkFailed, NextEntry, DispPc, EntryStatus
      <4>8. CASE AbandonCycle(d)
        BY <4>8, FaultType DEF AbandonCycle, DispPc
      <4> QED BY <2>2, <3>2, <4>3, <4>4, <4>5, <4>6, <4>7, <4>8
              DEF DispatchStep, DispatchFault
    <3> QED BY <3>1, <3>2
  <2> QED BY <2>1, <2>2 DEF OutboxNext
<1> QED BY <1>1, <1>2

(* A worker's steps keep the types and its loop filled.                    *)
LEMMA WorkerType ==
  ASSUME DeliveryInv, WorkerNext, UNCHANGED outboxVars
  PROVE  DeliveryInv'
<1> USE DEF DeliveryInv, DeliveryTypeOK, WorkerTypeOK, LoopsFilled
<1>1. UNCHANGED <<entries, stream, dispPc, batch, Messages>>
  BY DEF outboxVars, Messages
<1>2. PICK w \in Workers :
        \/ WorkerStep(w) /\ UNCHANGED faults
        \/ WorkerFails(w) \/ AckWaitExpires(w)
  BY DEF WorkerNext
<1>3. OutboxTypeOK'
  BY <1>1, <1>2, FaultType DEF OutboxTypeOK, WorkerFails, AckWaitExpires
<1>4. \A m \in Messages : stream[m] \in Events
  BY DEF OutboxTypeOK, Messages
<1> DEFINE Filled == \A v \in Workers :
             workPc'[v] \in {"index", "graph", "checkpoint"} => todo'[v] # {}
<1>5. WorkerTypeOK' /\ Filled
  <2>1. CASE WorkerFetch(w)
    BY <1>1, <2>1 DEF WorkerFetch, WorkGoto, WorkPc
  <2>2. CASE WorkerLoad(w)
    BY <1>1, <2>2 DEF WorkerLoad, Unprojected, WorkGoto, WorkPc
  <2>3. CASE WorkerIndex(w)
    <3>1. Turn(w) \in Messages
      BY <2>3, TurnInTodo DEF WorkerIndex
    <3> QED BY <1>1, <1>4, <2>3, <3>1 DEF WorkerIndex, WorkGoto, WorkPc
  <2>4. CASE WorkerGraph(w)
    <3>1. Turn(w) \in todo[w]
      BY <2>4, TurnInTodo DEF WorkerGraph
    <3> QED BY <1>1, <1>4, <2>4, <3>1 DEF WorkerGraph, WorkGoto, WorkPc
  <2>5. CASE WorkerCheckpoint(w)
    <3>1. Turn(w) \in Messages
      BY <2>5, TurnInTodo DEF WorkerCheckpoint
    <3> QED BY <1>1, <1>4, <2>5, <3>1 DEF WorkerCheckpoint, WorkGoto, WorkPc
  <2>6. CASE WorkerAck(w)
    BY <1>1, <2>6 DEF WorkerAck, LetGo, WorkGoto, WorkPc
  <2>7. CASE WorkerFails(w)
    BY <1>1, <2>7 DEF WorkerFails, LetGo, WorkGoto, WorkPc
  <2>8. CASE AckWaitExpires(w)
    BY <1>1, <2>8 DEF AckWaitExpires
  <2> QED BY <1>2, <2>1, <2>2, <2>3, <2>4, <2>5, <2>6, <2>7, <2>8 DEF WorkerStep
<1>6. \A d \in Dispatchers : dispPc'[d] # "idle" => batch'[d] # {}
  BY <1>1
<1> QED BY <1>3, <1>5, <1>6

(* Every reachable state has the declared types, and no loop is entered    *)
(* with nothing to do.                                                     *)
THEOREM DeliveryTypes == Spec => []DeliveryInv
<1>1. DeliveryInv /\ [Next]_deliveryVars => DeliveryInv'
  <2> SUFFICES ASSUME DeliveryInv, [Next]_deliveryVars PROVE DeliveryInv'
    OBVIOUS
  <2>1. CASE UNCHANGED deliveryVars
    BY <2>1 DEF deliveryVars, outboxVars, workerVars, DeliveryInv, DeliveryTypeOK,
       OutboxTypeOK, WorkerTypeOK, LoopsFilled, Messages
  <2> QED BY <2>1, DispatcherType, WorkerType DEF Next
<1> QED BY <1>1, InitDelivery, PTL DEF Spec

(* Every variable keeps its type, however many processes there are.        *)
THEOREM DeliveryTypeCorrect == Spec => []DeliveryTypeOK
<1>1. DeliveryInv => DeliveryTypeOK
  BY DEF DeliveryInv
<1> QED BY <1>1, DeliveryTypes, PTL

-----------------------------------------------------------------------------

(* A batch holds accepted events, and the one to be marked was published.  *)
BatchesAccepted ==
  \A d \in Dispatchers :
    /\ batch[d] \subseteq Enqueued
    /\ dispPc[d] = "mark" => Current(d) \in Reached

(* Workers leave the outbox alone.                                         *)
LEMMA WorkersKeepBatches ==
  ASSUME BatchesAccepted, UNCHANGED outboxVars
  PROVE  BatchesAccepted'
  BY DEF BatchesAccepted, outboxVars, Enqueued, Current, Reached, Messages

(* What reached the bus, after a message more.                             *)
LEMMA ReachedGrows ==
  ASSUME NEW e \in Events, stream \in Seq(Events), stream' = Append(stream, e)
  PROVE  Reached' = Reached \cup {e}
  BY StreamGrows DEF Reached

(* A dispatcher's steps: batches stay accepted, and what happens to the    *)
(* events is a step of the contract.                                       *)
LEMMA DispatcherKeepsContract ==
  ASSUME DeliveryInv, BatchesAccepted, OutboxNext
  PROVE  BatchesAccepted' /\ (Contract!ContractNext \/ UNCHANGED <<entries, Reached>>)
<1> USE DEF DeliveryInv, DeliveryTypeOK, OutboxTypeOK
<1>1. CASE \E e \in Events : Enqueue(e)
  <2>1. PICK e \in Events : Enqueue(e)
    BY <1>1
  <2>2. UNCHANGED Reached
    BY <2>1 DEF Enqueue, Reached, Messages
  <2>3. Contract!Accept(e)
    BY <2>1, <2>2 DEF Enqueue, Contract!Accept
  <2>4. BatchesAccepted'
    BY <2>1, <2>2 DEF Enqueue, BatchesAccepted, Enqueued, Current
  <2> QED BY <2>3, <2>4 DEF Contract!ContractNext
<1>2. ASSUME NEW d \in Dispatchers, DispatchStep(d) \/ DispatchFault(d)
      PROVE  BatchesAccepted' /\ (Contract!ContractNext \/ UNCHANGED <<entries, Reached>>)
  <2>1. \A c \in Dispatchers \ {d} :
          dispPc'[c] = dispPc[c] /\ batch'[c] = batch[c] /\ Current(c)' = Current(c)
    BY <1>2 DEF DispatchStep, DispatchFault, Fetch, Publish, PublishFails, MarkPublished,
       MarkFails, MarkFailed, AbandonCycle, DispGoto, NextEntry, Current
  <2>2. CASE Fetch(d)
    <3>1. Fetchables \subseteq Enqueued
      BY DEF Fetchables, FirstOf, Listed
    <3>2. UNCHANGED <<entries, Reached, Enqueued>>
      BY <2>2 DEF Fetch, Reached, Messages, Enqueued
    <3>3. batch'[d] = Fetchables /\ dispPc'[d] # "mark"
      BY <2>2 DEF Fetch
    <3> QED BY <2>1, <3>1, <3>2, <3>3 DEF BatchesAccepted
  <2>3. CASE ~Fetch(d)
    <3>1. batch[d] # {}
      BY <1>2, <2>3 DEF DispatchStep, DispatchFault, Publish, PublishFails, MarkPublished,
         MarkFails, MarkFailed, AbandonCycle, LoopsFilled
    <3>2. Current(d) \in batch[d] /\ Current(d) \in Events /\ entries[Current(d)] # "Absent"
      BY <3>1, CurrentInBatch DEF BatchesAccepted, Enqueued
    <3>3. CASE (Publish(d) \/ PublishFails(d)) /\ stream' # stream
      <4>1. Reached' = Reached \cup {Current(d)} /\ UNCHANGED <<entries, batch, Enqueued>>
        BY <3>2, <3>3, ReachedGrows DEF Publish, PublishFails, DispGoto, Enqueued
      <4>2. Contract!Deliver(Current(d))
        BY <3>2, <4>1 DEF Contract!Deliver
      <4>3. Current(d)' = Current(d)
        BY <4>1 DEF Current
      <4> QED BY <2>1, <3>2, <4>1, <4>2, <4>3 DEF BatchesAccepted, Contract!ContractNext
    <3>4. CASE \/ (Publish(d) \/ PublishFails(d)) /\ stream' = stream
               \/ MarkFails(d) \/ AbandonCycle(d)
      <4>1. UNCHANGED <<entries, Reached, Enqueued>>
        BY <3>4 DEF Publish, PublishFails, MarkFails, AbandonCycle, Reached, Messages,
           Enqueued
      <4>2. batch'[d] \subseteq batch[d] /\ (dispPc'[d] = "mark" => FALSE)
        <5>1. ~(Publish(d) /\ stream' = stream)
          BY <3>2 DEF Publish
        <5> QED BY <3>4, <5>1 DEF PublishFails, MarkFails, AbandonCycle, DispGoto
      <4> QED BY <2>1, <4>1, <4>2 DEF BatchesAccepted
    <3>5. CASE MarkPublished(d) \/ MarkFailed(d)
      <4>1. UNCHANGED Reached /\ Enqueued' = Enqueued
        BY <3>2, <3>5 DEF MarkPublished, MarkFailed, Reached, Messages, Enqueued
      <4>2. batch'[d] \subseteq batch[d] /\ dispPc'[d] # "mark"
        BY <3>5 DEF MarkPublished, MarkFailed, NextEntry
      <4>3. BatchesAccepted'
        BY <2>1, <4>1, <4>2 DEF BatchesAccepted
      <4>4. MarkPublished(d) => Contract!Settle(Current(d))
        BY <3>2, <4>1 DEF MarkPublished, BatchesAccepted, Contract!Settle
      <4>5. MarkFailed(d) => Contract!Park(Current(d))
        BY <3>2, <4>1 DEF MarkFailed, Contract!Park
      <4> QED BY <3>2, <3>5, <4>3, <4>4, <4>5 DEF Contract!ContractNext
    <3> QED BY <1>2, <2>3, <3>3, <3>4, <3>5 DEF DispatchStep, DispatchFault
  <2> QED BY <2>2, <2>3
<1> QED BY <1>1, <1>2 DEF OutboxNext

(* The outbox and its dispatchers implement the delivery contract.         *)
THEOREM ContractImplemented == Spec => ContractKept
<1>1. Init => BatchesAccepted /\ Contract!ContractInit
  BY DEF Init, OutboxInit, BatchesAccepted, Contract!ContractInit, Reached, Messages
<1>2. DeliveryInv /\ BatchesAccepted /\ [Next]_deliveryVars
        => BatchesAccepted' /\ [Contract!ContractNext]_Contract!contractVars
  <2> SUFFICES ASSUME DeliveryInv, BatchesAccepted, [Next]_deliveryVars
               PROVE  /\ BatchesAccepted'
                      /\ Contract!ContractNext \/ UNCHANGED <<entries, Reached>>
    BY DEF Contract!contractVars
  <2>1. CASE OutboxNext
    BY <2>1, DispatcherKeepsContract
  <2>2. CASE UNCHANGED outboxVars
    BY <2>2, WorkersKeepBatches DEF outboxVars, Reached, Messages
  <2> QED BY <2>1, <2>2 DEF Next, deliveryVars
<1> QED
  BY <1>1, <1>2, DeliveryTypes, PTL DEF Spec, ContractKept, Contract!ContractSpec
-----------------------------------------------------------------------------

(* The evidence of message m is projected, or some with a greater id is.   *)
Covered(m) == \E e \in indexed \cap graphed : e >= stream[m]

(* How far a worker is with its batch: what it has put behind it is        *)
(* covered, at the checkpoint what is left is projected as well.           *)
BatchProgress(w) ==
  /\ workPc[w] \in {"index", "graph", "checkpoint"} =>
       \A m \in messages[w] \ todo[w] : Covered(m)
  /\ workPc[w] = "graph" => stream[Turn(w)] \in indexed
  /\ workPc[w] = "checkpoint" => \A m \in todo[w] : stream[m] \in indexed \cap graphed
  /\ workPc[w] = "ack" => \A m \in messages[w] : Covered(m)

ProjectionInv ==
  /\ CheckpointBacked
  /\ \A m \in acked : Covered(m)
  /\ \A w \in Workers : BatchProgress(w)

(* A step that takes nothing from the artifacts and nothing from the       *)
(* stream leaves what is covered covered.                                  *)
ArtifactsGrow ==
  /\ indexed \subseteq indexed' /\ graphed \subseteq graphed'
  /\ Messages \subseteq Messages'
  /\ \A m \in Messages : stream'[m] = stream[m]

(* What was covered stays covered.                                         *)
LEMMA CoveredStays ==
  ASSUME ArtifactsGrow, NEW m \in Messages, Covered(m)
  PROVE  Covered(m)'
  BY DEF ArtifactsGrow, Covered

(* It leaves a worker that takes no part in it where it was.               *)
LEMMA OthersStay ==
  ASSUME DeliveryInv, ArtifactsGrow, NEW w \in Workers, BatchProgress(w),
         workPc'[w] = workPc[w], messages'[w] = messages[w], todo'[w] = todo[w]
  PROVE  BatchProgress(w)'
<1>1. Turn(w)' = Turn(w)
  BY DEF Turn
<1>2. messages[w] \subseteq Messages /\ todo[w] \subseteq Messages
  BY DEF DeliveryInv, DeliveryTypeOK, WorkerTypeOK
<1>3. workPc[w] = "graph" => Turn(w) \in Messages
  BY <1>2, TurnInTodo DEF DeliveryInv, LoopsFilled
<1> QED BY <1>1, <1>2, <1>3, CoveredStays DEF BatchProgress, ArtifactsGrow

(* A dispatcher only makes the stream longer.                              *)
LEMMA DispatcherKeepsProjection ==
  ASSUME DeliveryInv, ProjectionInv, OutboxNext, UNCHANGED workerVars
  PROVE  ProjectionInv'
<1>1. \/ UNCHANGED stream
      \/ \E e \in Events : stream' = Append(stream, e)
  <2>1. ASSUME NEW d \in Dispatchers, Publish(d) \/ PublishFails(d)
        PROVE  Current(d) \in Events
    <3>1. batch[d] # {}
      BY <2>1 DEF DeliveryInv, LoopsFilled, Publish, PublishFails
    <3> QED BY <3>1, CurrentInBatch DEF DeliveryInv, DeliveryTypeOK, OutboxTypeOK
  <2> QED
    BY <2>1 DEF OutboxNext, DispatchStep, DispatchFault, Enqueue, Fetch, Publish,
       PublishFails, MarkPublished, MarkFails, MarkFailed, AbandonCycle
<1>2. ArtifactsGrow
  BY <1>1, StreamGrows DEF ArtifactsGrow, workerVars, DeliveryInv, DeliveryTypeOK,
     OutboxTypeOK, Messages
<1>3. acked \subseteq Messages
  BY DEF DeliveryInv, DeliveryTypeOK, WorkerTypeOK
<1> QED BY <1>2, <1>3, CoveredStays, OthersStay DEF ProjectionInv, CheckpointBacked, workerVars

(* A worker's steps.                                                       *)
LEMMA WorkerKeepsProjection ==
  ASSUME DeliveryInv, ProjectionInv, WorkerNext, UNCHANGED outboxVars
  PROVE  ProjectionInv'
<1> USE DEF DeliveryInv, DeliveryTypeOK, WorkerTypeOK
<1>1. UNCHANGED <<stream, Messages>>
  BY DEF outboxVars, Messages
<1>2. PICK w \in Workers :
        \/ WorkerStep(w) /\ UNCHANGED faults
        \/ WorkerFails(w) \/ AckWaitExpires(w)
  BY DEF WorkerNext
<1>3. ArtifactsGrow
  BY <1>1, <1>2 DEF ArtifactsGrow, WorkerStep, WorkerFetch, WorkerLoad, WorkerIndex,
     WorkerGraph, WorkerCheckpoint, WorkerAck, LetGo, WorkerFails, AckWaitExpires
<1>4. \A v \in Workers \ {w} :
        workPc'[v] = workPc[v] /\ messages'[v] = messages[v] /\ todo'[v] = todo[v]
  BY <1>2 DEF WorkerStep, WorkerFetch, WorkerLoad, WorkerIndex, WorkerGraph,
     WorkerCheckpoint, WorkerAck, LetGo, WorkGoto, WorkerFails, AckWaitExpires
<1>5. \A v \in Workers \ {w} : BatchProgress(v)'
  BY <1>3, <1>4, OthersStay DEF ProjectionInv
<1>6. \A m \in Messages : stream[m] \in Nat /\ stream[m] \in Events
  <2>1. \A m \in Messages : stream[m] \in Events
    BY DEF OutboxTypeOK, Messages
  <2> QED BY <2>1, OutboxAssumption
<1>7. \A m \in acked \cup messages[w] : m \in Messages /\ (Covered(m) => Covered(m)')
  BY <1>3, CoveredStays
<1>8. BatchProgress(w) /\ CheckpointBacked /\ \A m \in acked : Covered(m)
  BY DEF ProjectionInv
<1> SUFFICES BatchProgress(w)' /\ CheckpointBacked' /\ \A m \in acked' : Covered(m)'
  BY <1>5 DEF ProjectionInv
<1>9. CASE WorkerFetch(w)
  BY <1>7, <1>8, <1>9 DEF WorkerFetch, WorkGoto, BatchProgress, CheckpointBacked
<1>10. CASE WorkerLoad(w)
  <2>1. \A m \in messages[w] \ Unprojected(w) : Covered(m)'
    <3> SUFFICES ASSUME NEW m \in messages[w] \ Unprojected(w) PROVE Covered(m)
      BY <1>7
    <3>1. checkpoint \in indexed \cap graphed /\ ~(stream[m] > checkpoint)
      BY <1>8 DEF Unprojected, CheckpointBacked
    <3>2. checkpoint \in Nat /\ stream[m] \in Nat
      BY <1>6, <3>1, OutboxAssumption
    <3>3. checkpoint >= stream[m]
      BY <3>1, <3>2
    <3> QED BY <3>1, <3>3 DEF Covered
  <2>2. CheckpointBacked' /\ \A m \in acked' : Covered(m)'
    BY <1>7, <1>8, <1>10 DEF WorkerLoad, CheckpointBacked
  <2>3. messages'[w] = messages[w] /\ todo'[w] = Unprojected(w)
        /\ workPc'[w] = IF Unprojected(w) = {} THEN "ack" ELSE "index"
    BY <1>10 DEF WorkerLoad, WorkGoto
  <2> QED BY <2>1, <2>2, <2>3 DEF BatchProgress
<1>11. CASE WorkerIndex(w)
  <2>1. Turn(w)' = Turn(w)
    BY <1>11 DEF WorkerIndex, Turn
  <2>2. BatchProgress(w)'
    BY <1>1, <1>7, <1>8, <1>11, <2>1 DEF WorkerIndex, WorkGoto, BatchProgress
  <2> QED BY <1>7, <1>8, <1>11, <2>2 DEF WorkerIndex, CheckpointBacked
<1>12. CASE WorkerGraph(w)
  <2>1. PICK t \in todo[w] : t = Turn(w) /\ t \in Messages
    BY <1>12, TurnInTodo DEF WorkerGraph, LoopsFilled
  <2>2. stream'[t] \in indexed' \cap graphed'
    BY <1>1, <1>8, <1>12, <2>1 DEF WorkerGraph, BatchProgress
  <2>3. Covered(t)'
    BY <1>1, <1>6, <2>1, <2>2 DEF Covered
  <2>4. \A m \in messages[w] \ todo[w] : Covered(m)'
    BY <1>7, <1>8, <1>12 DEF WorkerGraph, BatchProgress
  <2> DEFINE rest == todo[w] \ {t}
  <2>5. messages'[w] = messages[w]
        /\ todo'[w] = (IF rest = {} THEN {t} ELSE rest)
        /\ workPc'[w] = (IF rest = {} THEN "checkpoint" ELSE "index")
    BY <1>12, <2>1 DEF WorkerGraph, WorkGoto
  <2>6. \A m \in messages'[w] \ todo'[w] : Covered(m)'
    BY <2>1, <2>3, <2>4, <2>5
  <2>7. workPc'[w] = "checkpoint" => \A m \in todo'[w] : stream'[m] \in indexed' \cap graphed'
    BY <2>2, <2>5
  <2>8. workPc'[w] # "graph" /\ workPc'[w] # "ack"
    BY <2>5
  <2>9. BatchProgress(w)'
    BY <2>6, <2>7, <2>8 DEF BatchProgress
  <2> QED BY <1>7, <1>8, <1>12, <2>9 DEF WorkerGraph, CheckpointBacked
<1>13. CASE WorkerCheckpoint(w)
  <2>1. Turn(w) \in todo[w]
    BY <1>13, TurnInTodo DEF WorkerCheckpoint, LoopsFilled
  <2>2. stream[Turn(w)] \in indexed \cap graphed
    BY <1>8, <1>13, <2>1 DEF WorkerCheckpoint, BatchProgress
  <2>3. \A m \in messages[w] : Covered(m)'
    <3> SUFFICES ASSUME NEW m \in messages[w] PROVE Covered(m)
      BY <1>7
    <3>1. CASE m \in todo[w]
      BY <1>6, <1>8, <1>13, <3>1 DEF WorkerCheckpoint, BatchProgress, Covered
    <3>2. CASE m \notin todo[w]
      BY <1>8, <1>13, <3>2 DEF WorkerCheckpoint, BatchProgress
    <3> QED BY <3>1, <3>2
  <2> QED BY <1>7, <1>8, <1>13, <2>2, <2>3
          DEF WorkerCheckpoint, WorkGoto, BatchProgress, CheckpointBacked
<1>14. CASE WorkerAck(w)
  BY <1>7, <1>8, <1>14 DEF WorkerAck, LetGo, WorkGoto, BatchProgress, CheckpointBacked
<1>15. CASE WorkerFails(w)
  BY <1>7, <1>8, <1>15 DEF WorkerFails, LetGo, WorkGoto, BatchProgress, CheckpointBacked
<1>16. CASE AckWaitExpires(w)
  <2>1. BatchProgress(w)'
    BY <1>3, <1>8, <1>16, OthersStay DEF AckWaitExpires
  <2> QED BY <1>7, <1>8, <1>16, <2>1 DEF AckWaitExpires, CheckpointBacked
<1> QED BY <1>2, <1>9, <1>10, <1>11, <1>12, <1>13, <1>14, <1>15, <1>16 DEF WorkerStep

(* Batches are projected before they are acknowledged or checkpointed,     *)
(* whatever fails in between and however the workers overlap.              *)
THEOREM ProjectionSound == Spec => []ProjectionInv
<1>1. Init => ProjectionInv
  BY DEF Init, WorkerInit, ProjectionInv, CheckpointBacked, BatchProgress
<1>2. DeliveryInv /\ ProjectionInv /\ [Next]_deliveryVars => ProjectionInv'
  <2> SUFFICES ASSUME DeliveryInv, ProjectionInv, [Next]_deliveryVars PROVE ProjectionInv'
    OBVIOUS
  <2>1. CASE UNCHANGED deliveryVars
    BY <2>1 DEF deliveryVars, outboxVars, workerVars, ProjectionInv, CheckpointBacked,
       BatchProgress, Covered, Turn
  <2> QED BY <2>1, DispatcherKeepsProjection, WorkerKeepsProjection DEF Next
<1> QED BY <1>1, <1>2, DeliveryTypes, PTL DEF Spec

(* The checkpoint names evidence that is in both artifacts.                *)
THEOREM CheckpointIsBacked == Spec => []CheckpointBacked
<1>1. ProjectionInv => CheckpointBacked
  BY DEF ProjectionInv
<1> QED BY <1>1, ProjectionSound, PTL

(* Acknowledged evidence is projected, or evidence with a greater id is.   *)
THEOREM AcknowledgedIsProjected == Spec => []AckedIsProjected
<1>1. DeliveryInv /\ ProjectionInv => AckedIsProjected
  <2> SUFFICES ASSUME DeliveryInv, ProjectionInv, NEW m \in acked
               PROVE  \/ stream[m] \in indexed \cap graphed
                      \/ \E e \in indexed \cap graphed : e > stream[m]
    BY DEF AckedIsProjected
  <2>1. PICK e \in indexed \cap graphed : e >= stream[m]
    BY DEF ProjectionInv, Covered
  <2>2. e \in Events /\ stream[m] \in Events
    BY DEF DeliveryInv, DeliveryTypeOK, WorkerTypeOK, OutboxTypeOK, Messages
  <2>3. e \in Nat /\ stream[m] \in Nat
    BY <2>2, OutboxAssumption
  <2> QED BY <2>1, <2>3
<1> QED BY <1>1, ProjectionSound, DeliveryTypes, PTL

-----------------------------------------------------------------------------

(* Duplicates.  Each copy of an event is charged to a failure, to a        *)
(* dispatcher about to mark the event, or, once the event is settled and   *)
(* is fetched no more, to a dispatcher that had it in its batch before.    *)

(* Dispatchers that published the event and will settle it.                *)
Marking(e) == {d \in Dispatchers : dispPc[d] = "mark" /\ e = Current(d)}

(* Dispatchers that may publish the event from the batch they have.        *)
Owing(e) ==
  {d \in Dispatchers :
     e \in batch[d] /\ ~(dispPc[d] \in {"mark", "fail"} /\ e = Current(d))}

(* Copies made before the event is settled are charged to the dispatchers  *)
(* about to settle it; all copies, and those still owed, to dispatchers.   *)
Charged(e) ==
  /\ entries[e] \in {"Absent", "Pending"} => Copies(e) <= Cardinality(Marking(e)) + faults
  /\ Copies(e) + Cardinality(Owing(e)) <= Cardinality(Dispatchers) + faults

(* The counts are numbers, and nobody both marks and owes.                 *)
LEMMA Counts ==
  ASSUME DeliveryInv, NEW e \in Events
  PROVE  /\ Copies(e) \in Nat /\ faults \in Nat
         /\ IsFiniteSet({m \in Messages : stream[m] = e})
         /\ IsFiniteSet(Marking(e)) /\ Cardinality(Marking(e)) \in Nat
         /\ IsFiniteSet(Owing(e)) /\ Cardinality(Owing(e)) \in Nat
         /\ Cardinality(Dispatchers) \in Nat
<1>1. IsFiniteSet(Dispatchers) /\ Cardinality(Dispatchers) \in Nat
  BY OutboxAssumption, FS_CardinalityType
<1>2. Marking(e) \in SUBSET Dispatchers /\ Owing(e) \in SUBSET Dispatchers
  BY DEF Marking, Owing
<1>3. IsFiniteSet(Marking(e)) /\ IsFiniteSet(Owing(e))
  BY <1>1, <1>2, FS_Subset
<1>4. Len(stream) \in Nat
  BY DEF DeliveryInv, DeliveryTypeOK, OutboxTypeOK
<1>5. IsFiniteSet(Messages)
  BY <1>4, FS_Interval DEF Messages
<1>6. {m \in Messages : stream[m] = e} \in SUBSET Messages
  OBVIOUS
<1>7. IsFiniteSet({m \in Messages : stream[m] = e})
  BY <1>5, <1>6, FS_Subset
<1>8. faults \in Nat
  BY OutboxAssumption DEF DeliveryInv, DeliveryTypeOK, OutboxTypeOK
<1> QED BY <1>1, <1>3, <1>7, <1>8, FS_CardinalityType DEF Copies

(* A message more is a copy more of its event.                             *)
LEMMA CopiesGrow ==
  ASSUME DeliveryInv, NEW c \in Events, stream' = Append(stream, c), NEW e \in Events
  PROVE  Copies(e)' = IF e = c THEN Copies(e) + 1 ELSE Copies(e)
<1> DEFINE S == {m \in Messages : stream[m] = e}
<1>1. /\ Messages' = Messages \cup {Len(stream) + 1} /\ Len(stream) + 1 \notin Messages
      /\ \A m \in Messages : stream'[m] = stream[m]
      /\ stream'[Len(stream) + 1] = c
  BY StreamGrows DEF DeliveryInv, DeliveryTypeOK, OutboxTypeOK
<1>2. S' = IF e = c THEN S \cup {Len(stream) + 1} ELSE S
  BY <1>1
<1>3. IsFiniteSet(S)
  BY Counts
<1>4. Cardinality(S \cup {Len(stream) + 1}) = Cardinality(S) + 1
  BY <1>1, <1>3, FS_AddElement
<1> QED BY <1>2, <1>4 DEF Copies

(* A step of a dispatcher.                                                 *)
LEMMA DispatcherCharged ==
  ASSUME DeliveryInv, NEW d \in Dispatchers, DispatchStep(d) \/ DispatchFault(d),
         NEW e \in Events, Charged(e)
  PROVE  Charged(e)'
<1> DEFINE c == Current(d)
<1>1. \A b \in Dispatchers \ {d} :
        dispPc'[b] = dispPc[b] /\ batch'[b] = batch[b] /\ Current(b)' = Current(b)
  BY DEF DispatchStep, DispatchFault, Fetch, Publish, PublishFails, MarkPublished,
     MarkFails, MarkFailed, AbandonCycle, DispGoto, NextEntry, Current, DeliveryInv,
     DeliveryTypeOK, OutboxTypeOK
<1>2. \A b \in Dispatchers \ {d} :
        (b \in Marking(e)' <=> b \in Marking(e)) /\ (b \in Owing(e)' <=> b \in Owing(e))
  BY <1>1 DEF Marking, Owing
<1>3. /\ Copies(e) \in Nat /\ faults \in Nat
      /\ IsFiniteSet(Marking(e)) /\ Cardinality(Marking(e)) \in Nat
      /\ IsFiniteSet(Owing(e)) /\ Cardinality(Owing(e)) \in Nat
      /\ Cardinality(Dispatchers) \in Nat
  BY Counts
<1>4. Marking(e)' \subseteq Dispatchers /\ Owing(e)' \subseteq Dispatchers
      /\ Marking(e) \subseteq Dispatchers /\ Owing(e) \subseteq Dispatchers
  BY DEF Marking, Owing
<1>5. /\ d \in Marking(e) <=> dispPc[d] = "mark" /\ e = c
      /\ d \in Owing(e) <=> e \in batch[d] /\ ~(dispPc[d] \in {"mark", "fail"} /\ e = c)
      /\ d \in Marking(e)' <=> dispPc'[d] = "mark" /\ e = c'
      /\ d \in Owing(e)' <=> e \in batch'[d] /\ ~(dispPc'[d] \in {"mark", "fail"} /\ e = c')
  BY DEF Marking, Owing
<1>6. /\ Cardinality(Marking(e) \ {d}) =
           IF d \in Marking(e) THEN Cardinality(Marking(e)) - 1 ELSE Cardinality(Marking(e))
      /\ Cardinality(Owing(e) \ {d}) =
           IF d \in Owing(e) THEN Cardinality(Owing(e)) - 1 ELSE Cardinality(Owing(e))
      /\ Cardinality(Marking(e) \cup {d}) =
           IF d \in Marking(e) THEN Cardinality(Marking(e)) ELSE Cardinality(Marking(e)) + 1
  BY <1>3, FS_AddElement, FS_RemoveElement
(* The two sets change by d at most.                                       *)
<1>7. /\ d \in Marking(e)' => Marking(e)' = Marking(e) \cup {d}
      /\ d \notin Marking(e)' => Marking(e)' = Marking(e) \ {d}
      /\ d \notin Owing(e)' => Owing(e)' = Owing(e) \ {d}
      /\ d \in Owing(e) /\ d \in Owing(e)' => Owing(e)' = Owing(e)
  BY <1>2, <1>4
<1>8. CASE Fetch(d)
  <2>1. UNCHANGED <<entries, stream, faults>> /\ dispPc[d] = "idle" /\ dispPc'[d] = "publish"
        /\ batch'[d] = Fetchables
    BY <1>8 DEF Fetch, DeliveryInv, DeliveryTypeOK, OutboxTypeOK
  <2>2. Copies(e)' = Copies(e)
    BY <2>1 DEF Copies, Messages
  <2>3. Marking(e)' = Marking(e)
    BY <1>5, <1>7, <2>1
  <2>4. Copies(e) + Cardinality(Owing(e)') <= Cardinality(Dispatchers) + faults
    <3>1. CASE e \notin Fetchables
      <4>1. Owing(e)' = Owing(e) \ {d}
        BY <1>5, <1>7, <2>1, <3>1
      <4> QED BY <1>3, <1>6, <4>1 DEF Charged
    <3>2. CASE e \in Fetchables
      <4>1. entries[e] = "Pending"
        BY <3>2 DEF Fetchables, FirstOf
      <4>2. Copies(e) <= Cardinality(Marking(e)) + faults
        BY <4>1 DEF Charged
      <4>3. Owing(e)' \in SUBSET (Dispatchers \ Marking(e))
        BY <1>4, <2>3 DEF Marking, Owing
      <4>4. /\ IsFiniteSet(Dispatchers \ Marking(e))
            /\ Cardinality(Dispatchers \ Marking(e)) = Cardinality(Dispatchers) - Cardinality(Marking(e))
        <5>1. Dispatchers \cap Marking(e) = Marking(e)
          BY <1>4
        <5> QED BY <5>1, OutboxAssumption, FS_Difference
      <4>5. Cardinality(Owing(e)') \in Nat
            /\ Cardinality(Owing(e)') <= Cardinality(Dispatchers) - Cardinality(Marking(e))
        BY <4>3, <4>4, FS_Subset, FS_CardinalityType
      <4> QED BY <1>3, <4>2, <4>5
    <3> QED BY <3>1, <3>2
  <2> QED BY <2>1, <2>2, <2>3, <2>4 DEF Charged
<1>9. CASE ~Fetch(d)
  <2>1. c \in batch[d] /\ c \in Events
    <3>1. batch[d] # {}
      BY <1>9 DEF DispatchStep, DispatchFault, Publish, PublishFails, MarkPublished,
         MarkFails, MarkFailed, AbandonCycle, DeliveryInv, LoopsFilled
    <3> QED BY <3>1, CurrentInBatch DEF DeliveryInv, DeliveryTypeOK, OutboxTypeOK
  <2>2. CASE Publish(d)
    <3>1. /\ entries' = entries /\ faults' = faults /\ dispPc[d] = "publish"
          /\ dispPc'[d] = "mark" /\ batch' = batch /\ stream' = Append(stream, c)
      BY <2>2 DEF Publish, DispGoto, DeliveryInv, DeliveryTypeOK, OutboxTypeOK
    <3>2. c' = c
      BY <3>1 DEF Current
    <3>3. Copies(e)' = IF e = c THEN Copies(e) + 1 ELSE Copies(e)
      BY <2>1, <3>1, CopiesGrow
    <3> HIDE DEF c
    <3>4. CASE e = c
      <4>1. Marking(e)' = Marking(e) \cup {d} /\ Owing(e)' = Owing(e) \ {d}
            /\ d \notin Marking(e) /\ d \in Owing(e)
        BY <1>5, <1>7, <2>1, <3>1, <3>2, <3>4
      <4> QED BY <1>3, <1>6, <3>1, <3>3, <3>4, <4>1 DEF Charged
    <3>5. CASE e # c
      <4>1. Marking(e)' = Marking(e)
        BY <1>5, <1>7, <3>1, <3>2, <3>5
      <4>2. Owing(e)' = Owing(e)
        BY <1>5, <1>7, <3>1, <3>2, <3>5
      <4> QED BY <3>1, <3>3, <3>5, <4>1, <4>2 DEF Charged
    <3> QED BY <3>4, <3>5
  <2>3. CASE PublishFails(d) \/ MarkFails(d) \/ AbandonCycle(d)
    <3>1. /\ entries' = entries /\ faults' = faults + 1
          /\ dispPc'[d] # "mark" /\ batch'[d] \in {batch[d], {}}
          /\ batch'[d] = batch[d] => dispPc'[d] = "fail" \/ batch[d] = {}
      BY <2>3 DEF PublishFails, MarkFails, AbandonCycle, Fault, DispGoto, DeliveryInv,
         DeliveryTypeOK, OutboxTypeOK
    <3>2. batch'[d] = batch[d] => c' = c
      BY DEF Current
    <3> HIDE DEF c
    <3>3. Marking(e)' = Marking(e) \ {d}
      BY <1>5, <1>7, <3>1
    <3>4. d \in Owing(e)' => d \in Owing(e) /\ e # c
      BY <1>5, <2>1, <3>1, <3>2
    <3>5. Cardinality(Owing(e)') <= Cardinality(Owing(e)) /\ Cardinality(Owing(e)') \in Nat
      <4>1. CASE d \in Owing(e)'
        BY <1>3, <1>7, <3>4, <4>1
      <4>2. CASE d \notin Owing(e)'
        <5>1. Owing(e)' = Owing(e) \ {d}
          BY <1>7, <4>2
        <5>2. Cardinality(Owing(e) \ {d}) \in Nat
          BY <1>3, FS_RemoveElement, FS_CardinalityType
        <5> QED BY <1>3, <1>6, <5>1, <5>2
      <4> QED BY <4>1, <4>2
    <3>6. CASE stream' = stream
      <4>1. Copies(e)' = Copies(e)
        BY <3>6 DEF Copies, Messages
      <4> QED BY <1>3, <1>6, <3>1, <3>3, <3>5, <4>1 DEF Charged
    <3>7. CASE stream' # stream
      <4>1. PublishFails(d) /\ stream' = Append(stream, Current(d))
        BY <2>3, <3>7 DEF PublishFails, MarkFails, AbandonCycle
      <4>2. dispPc[d] = "publish"
        BY <4>1 DEF PublishFails
      <4>3. Copies(e)' = IF e = c THEN Copies(e) + 1 ELSE Copies(e)
        BY <2>1, <4>1, CopiesGrow DEF c
      <4>4. e = c => d \in Owing(e) /\ d \notin Owing(e)'
        BY <1>5, <2>1, <3>4, <4>2
      <4>5. Marking(e)' = Marking(e)
        BY <1>5, <3>3, <4>2
      <4> QED BY <1>3, <1>6, <1>7, <3>1, <3>5, <4>3, <4>4, <4>5 DEF Charged
    <3> QED BY <3>6, <3>7
  <2>4. CASE MarkPublished(d) \/ MarkFailed(d)
    <3>1. /\ UNCHANGED <<stream, faults>> /\ batch'[d] = batch[d] \ {c}
          /\ dispPc[d] \in {"mark", "fail"} /\ dispPc'[d] \in {"idle", "publish"}
          /\ entries'[c] \in {"Published", "Failed"}
          /\ e # c => entries'[e] = entries[e]
      BY <2>1, <2>4 DEF MarkPublished, MarkFailed, NextEntry, DeliveryInv, DeliveryTypeOK,
         OutboxTypeOK
    <3>2. Copies(e)' = Copies(e)
      BY <3>1 DEF Copies, Messages
    <3> HIDE DEF c
    <3>3. Marking(e)' = Marking(e) \ {d} /\ (e # c => d \notin Marking(e))
      BY <1>5, <1>7, <3>1
    <3>4. d \in Owing(e)' => d \in Owing(e)
      BY <1>5, <3>1
    <3>5. Cardinality(Owing(e)') <= Cardinality(Owing(e)) /\ Cardinality(Owing(e)') \in Nat
      <4>1. CASE d \in Owing(e)'
        BY <1>3, <1>7, <3>4, <4>1
      <4>2. CASE d \notin Owing(e)'
        <5>1. Owing(e)' = Owing(e) \ {d}
          BY <1>7, <4>2
        <5>2. Cardinality(Owing(e) \ {d}) \in Nat
          BY <1>3, FS_RemoveElement, FS_CardinalityType
        <5> QED BY <1>3, <1>6, <5>1, <5>2
      <4> QED BY <4>1, <4>2
    <3>6. CASE e = c
      BY <1>3, <3>1, <3>2, <3>5, <3>6 DEF Charged
    <3>7. CASE e # c
      BY <1>3, <1>6, <3>1, <3>2, <3>3, <3>5, <3>7 DEF Charged
    <3> QED BY <3>6, <3>7
  <2> QED BY <1>9, <2>2, <2>3, <2>4 DEF DispatchStep, DispatchFault
<1> QED BY <1>8, <1>9

(* At most one copy too many for each other dispatcher and each failure.   *)
THEOREM DuplicatesAreBounded == Spec => []DuplicatesBounded
<1> DEFINE AllCharged == \A e \in Events : Charged(e)
<1>1. Init => AllCharged
  <2> SUFFICES ASSUME Init, NEW e \in Events PROVE Charged(e)
    OBVIOUS
  <2>1. Cardinality(Dispatchers) \in Nat /\ Cardinality({}) = 0
    BY OutboxAssumption, FS_CardinalityType, FS_EmptySet
  <2>2. {m \in Messages : stream[m] = e} = {} /\ Marking(e) = {} /\ Owing(e) = {}
    BY DEF Init, OutboxInit, Messages, Marking, Owing
  <2>3. faults = 0
    BY DEF Init, OutboxInit
  <2> QED BY <2>1, <2>2, <2>3 DEF Charged, Copies
<1>2. DeliveryInv /\ AllCharged /\ [Next]_deliveryVars => AllCharged'
  <2> SUFFICES ASSUME DeliveryInv, AllCharged, [Next]_deliveryVars, NEW e \in Events
               PROVE  Charged(e)'
    OBVIOUS
  <2>1. CASE \E d \in Dispatchers : DispatchStep(d) \/ DispatchFault(d)
    BY <2>1, DispatcherCharged
  <2>2. CASE \E f \in Events : Enqueue(f)
    <3>1. PICK f \in Events : Enqueue(f)
      BY <2>2
    <3>2. UNCHANGED <<Copies(e), Marking(e), Owing(e), faults>>
      BY <3>1 DEF Enqueue, Copies, Messages, Marking, Owing, Current
    <3>3. entries'[e] \in {"Absent", "Pending"} => entries[e] \in {"Absent", "Pending"}
      BY <3>1 DEF Enqueue, DeliveryInv, DeliveryTypeOK, OutboxTypeOK
    <3> QED BY <3>2, <3>3 DEF Charged
  <2>3. CASE UNCHANGED outboxVars /\ (faults' = faults \/ Fault)
    <3>1. UNCHANGED <<Copies(e), Marking(e), Owing(e), entries>>
      BY <2>3 DEF outboxVars, Copies, Messages, Marking, Owing, Current
    <3>2. faults' = faults \/ faults' = faults + 1
      BY <2>3 DEF Fault
    <3>3. /\ Copies(e) \in Nat /\ faults \in Nat /\ Cardinality(Dispatchers) \in Nat
          /\ Cardinality(Marking(e)) \in Nat /\ Cardinality(Owing(e)) \in Nat
      BY Counts
    <3>4. Charged(e)
      OBVIOUS
    <3> QED BY <3>1, <3>2, <3>3, <3>4 DEF Charged
  <2>4. \/ OutboxNext
        \/ UNCHANGED outboxVars /\ (faults' = faults \/ Fault)
    BY DEF Next, deliveryVars, WorkerNext, WorkerFails, AckWaitExpires
  <2> QED BY <2>1, <2>2, <2>3, <2>4 DEF OutboxNext
<1>3. DeliveryInv /\ AllCharged => DuplicatesBounded
  <2> SUFFICES ASSUME DeliveryInv, AllCharged, NEW e \in Events
               PROVE  Copies(e) <= Cardinality(Dispatchers) + faults
    BY DEF DuplicatesBounded
  <2>1. /\ Copies(e) \in Nat /\ faults \in Nat /\ Cardinality(Dispatchers) \in Nat
        /\ Cardinality(Owing(e)) \in Nat
    BY Counts
  <2>2. Copies(e) + Cardinality(Owing(e)) <= Cardinality(Dispatchers) + faults
    BY DEF Charged
  <2> QED BY <2>1, <2>2
<1> HIDE DEF AllCharged
<1> QED BY <1>1, <1>2, <1>3, DeliveryTypes, PTL DEF Spec
=============================================================================
