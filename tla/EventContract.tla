---------------------------- MODULE EventContract ----------------------------
(***************************************************************************)
(* What the outbox promises of an event: only accepted events are          *)
(* delivered, any number of times and in any order; an outcome is recorded *)
(* as Published only of an event that was delivered; and one that is       *)
(* parked as Failed may have been.                                         *)
(***************************************************************************)
CONSTANT Events

VARIABLES outcome,     \* outcome[e]: what the outbox says of event e
          delivered    \* the events that reached the bus

contractVars == <<outcome, delivered>>

Outcome == {"Absent", "Pending", "Published", "Failed"}

ContractInit ==
  /\ outcome = [e \in Events |-> "Absent"]
  /\ delivered = {}

Accept(e) ==
  /\ outcome[e] = "Absent"
  /\ outcome' = [outcome EXCEPT ![e] = "Pending"]
  /\ UNCHANGED delivered

Deliver(e) ==
  /\ outcome[e] # "Absent"
  /\ delivered' = delivered \cup {e}
  /\ UNCHANGED outcome

Settle(e) ==
  /\ outcome[e] # "Absent"
  /\ e \in delivered
  /\ outcome' = [outcome EXCEPT ![e] = "Published"]
  /\ UNCHANGED delivered

Park(e) ==
  /\ outcome[e] # "Absent"
  /\ outcome' = [outcome EXCEPT ![e] = "Failed"]
  /\ UNCHANGED delivered

ContractNext == \E e \in Events : Accept(e) \/ Deliver(e) \/ Settle(e) \/ Park(e)

ContractSpec == ContractInit /\ [][ContractNext]_contractVars
=============================================================================
