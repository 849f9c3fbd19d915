---------------------------- MODULE EventDelivery ----------------------------
(***************************************************************************)
(* An event's way from the outbox over the bus into the derived artifacts. *)
(***************************************************************************)
EXTENDS ProjectionWorker

deliveryVars == <<outboxVars, faults, workerVars>>

DeliveryTypeOK == OutboxTypeOK /\ WorkerTypeOK

Init == OutboxInit /\ WorkerInit

Next ==
  \/ OutboxNext /\ UNCHANGED workerVars
  \/ WorkerNext /\ UNCHANGED outboxVars

Spec == Init /\ [][Next]_deliveryVars

(* The poll loop and the fetch loop run for ever: a failed cycle is        *)
(* swallowed and the next one is scheduled.                                *)
Fairness ==
  /\ \A d \in Dispatchers : WF_deliveryVars(DispatchStep(d) /\ UNCHANGED workerVars)
  /\ \A w \in Workers :
       WF_deliveryVars(WorkerStep(w) /\ UNCHANGED faults /\ UNCHANGED outboxVars)

FairSpec == Spec /\ Fairness

-----------------------------------------------------------------------------

Reached == {stream[m] : m \in Messages}

Copies(e) == Cardinality({m \in Messages : stream[m] = e})

(* The outbox keeps what EventContract promises, with dispatchers that     *)
(* overlap, fail between two calls and write over each other's outcome.    *)
Contract == INSTANCE EventContract WITH outcome <- entries, delivered <- Reached

ContractKept == Contract!ContractSpec

(* An event is duplicated at most once for each other dispatcher and each  *)
(* failure: no poll cycle repeats what was settled.                        *)
DuplicatesBounded ==
  \A e \in Events : Copies(e) <= Cardinality(Dispatchers) + faults

(* Evidence that was acknowledged is projected, in both artifacts, or some *)
(* evidence with a greater id was projected before it: a failure half-way  *)
(* through a batch loses nothing, the order of random ids does.            *)
AckedIsProjected ==
  \A m \in acked :
    \/ stream[m] \in indexed \cap graphed
    \/ \E e \in indexed \cap graphed : e > stream[m]

(* What the checkpoint names is projected in both artifacts.               *)
CheckpointBacked == checkpoint # Nothing => checkpoint \in indexed \cap graphed

(* A pending event that the dispatchers can see is settled, unless entries *)
(* with smaller ids push it out of the listed documents.                   *)
PendingIsSettled ==
  \A e \in Events :
    entries[e] = "Pending" /\ e \in Listed
      ~> entries[e] # "Pending" \/ e \notin Listed

(* Every message is acknowledged in the end.                               *)
StreamDrains == \A e \in Events : e \in Reached ~> Messages \subseteq acked

-----------------------------------------------------------------------------

(* "Failed deliveries are retried": an event whose delivery failed is      *)
(* delivered by a later attempt, once the bus works again.                 *)
FailedIsRetried ==
  \A e \in Events : entries[e] = "Failed" ~> entries[e] = "Published"
=============================================================================
