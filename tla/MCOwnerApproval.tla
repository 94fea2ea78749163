-------------------------- MODULE MCOwnerApproval --------------------------
(* Constants of OwnerApproval for TLC.  Sessions, contents, keys and       *)
(* audiences are interchangeable.                                           *)
EXTENDS OwnerApproval, TLC

Symmetry == Permutations(Sessions) \cup Permutations(Versions) \cup Permutations(Keys)
            \cup Permutations(Audiences)

============================================================================
