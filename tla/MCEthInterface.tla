---------------------------- MODULE MCEthInterface ----------------------------
(* Model checking instance of EthInterface. *)
EXTENDS EthInterface
=============================================================================
