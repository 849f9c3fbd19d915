-------------------------- MODULE MCExpiringAction --------------------------
(* ExpiringAction on small instances, with the symmetry of its constants.  *)
EXTENDS ExpiringAction, TLC

Symmetry ==
  Permutations(Users) \cup Permutations(Sweeps) \cup Permutations(Submitters)
=============================================================================
