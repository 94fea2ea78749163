------------------------- MODULE MCEvidencePublish -------------------------
(***************************************************************************)
(* Two commands and another program on one control document.               *)
(***************************************************************************)
EXTENDS EvidencePublish, TLC

Symmetric == Permutations(Writers) \cup Permutations(Foreign)
=============================================================================
