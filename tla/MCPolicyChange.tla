---------------------------- MODULE MCPolicyChange ----------------------------
(* PolicyChange on small instances, with the symmetry of its constants.    *)
EXTENDS PolicyChange, FiniteSets, TLC

(* Bound: how many of the commands are entered, whichever they are.        *)
CONSTANT MaxEntered

MCNext ==
  /\ Next
  /\ Cardinality({x \in Requests : pc'[x] # "idle"}) <= MaxEntered

MCSpec == Init /\ [][MCNext]_policyVars

Symmetry ==
  Permutations(Proposals) \cup Permutations(Rollbacks) \cup Permutations(Approvals)
    \cup Permutations(Reports) \cup Permutations(Users)
=============================================================================
