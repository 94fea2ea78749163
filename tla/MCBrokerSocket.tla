--------------------------- MODULE MCBrokerSocket ---------------------------
(***************************************************************************)
(* BrokerSocket for TLC: three runs of the service, so that one can publish *)
(* while a second one gives back the path of a third.                       *)
(***************************************************************************)
EXTENDS BrokerSocket
=============================================================================
