---------------------------- MODULE MCWorkClaims ----------------------------
(* Symmetry for WorkClaims.                                                 *)
EXTENDS WorkClaims, TLC

Symmetry == Permutations(Claimants) \cup Permutations(Packages)
=============================================================================
