-------------------------- MODULE MCExternalActions --------------------------
(* Model values and symmetry for ExternalActions.                           *)
EXTENDS ExternalActions, TLC

Symmetry == Permutations(Agents) \cup Permutations(Actions) \cup Permutations(Requests)
==============================================================================
