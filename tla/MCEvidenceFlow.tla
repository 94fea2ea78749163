-------------------------- MODULE MCEvidenceFlow --------------------------
(***************************************************************************)
(* A small package and the commands that work on it at the same time.       *)
(***************************************************************************)
EXTENDS EvidenceFlow, TLC

(* Two collects and a redaction; or one collect and everything after it.    *)
Overlapping ==
    {Collects \cup Redacts}
      \cup {{c} \cup Redacts \cup Moves \cup Attaches : c \in Collects}

Symmetric == Permutations(Collects)
=============================================================================
