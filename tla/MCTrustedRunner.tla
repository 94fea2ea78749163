-------------------------- MODULE MCTrustedRunner --------------------------
(* TrustedRunner for TLC: activations that compete for one receipt, and      *)
(* three contents of the approver stores: the one the requests are bound to,*)
(* another that trusts the signer too, and one that does not.               *)
EXTENDS TrustedRunner

CONSTANTS Other, Revoked

MCTrusts == [v \in Versions |-> IF v = Revoked THEN {} ELSE Receipts]
=============================================================================
