---------------------------- MODULE MCEthReset ----------------------------
(* Model checking instance of EthReset. *)
EXTENDS EthReset
=============================================================================
