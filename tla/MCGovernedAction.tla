-------------------------- MODULE MCGovernedAction --------------------------
(* GovernedAction on small instances, with the symmetry of its constants.  *)
EXTENDS GovernedAction, TLC

(* Constants of one kind are interchangeable.  Used with safety only.      *)
Symmetry ==
  Permutations(Users) \cup Permutations(Approvals) \cup Permutations(Payloads)
    \cup Permutations(Submitters) \cup Permutations(Executors)
    \cup Permutations(Proposals) \cup Permutations(ExecKeys)
    \cup Permutations(DecisionKeys) \cup Permutations(Creators)
=============================================================================
