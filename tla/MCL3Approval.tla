---------------------------- MODULE MCL3Approval ----------------------------
(***************************************************************************)
(* L3Approval for TLC: two agents in one clone, one receipt.                *)
(***************************************************************************)
EXTENDS L3Approval, TLC

CONSTANTS a1, a2, c1, r1, n1

SameClone == (a1 :> c1) @@ (a2 :> c1)
OneNonce == (r1 :> n1)
=============================================================================
