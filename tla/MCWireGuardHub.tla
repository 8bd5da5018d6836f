--------------------------- MODULE MCWireGuardHub ---------------------------
(* Symmetry for the runs of WireGuardHub: addresses and keys are only      *)
(* compared for equality.                                                  *)
EXTENDS WireGuardHub, TLC

DataSymmetry == Permutations(Addresses) \cup Permutations(Keys)
=============================================================================
