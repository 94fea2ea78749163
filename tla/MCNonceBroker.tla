--------------------------- MODULE MCNonceBroker ---------------------------
(***************************************************************************)
(* NonceBroker for TLC: two daemons on one ledger, three connections, three *)
(* nonces, room for two records.                                            *)
(***************************************************************************)
EXTENDS NonceBroker, TLC

Symmetry == Permutations(Brokers) \cup Permutations(Conns) \cup Permutations(Nonces)
=============================================================================
