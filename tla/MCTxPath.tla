------------------------------- MODULE MCTxPath -------------------------------
(* Model checking instance of TxPath: frames that end in a full USB packet, in a *)
(* full word, and that are longer or shorter than what the endpoint holds.      *)
EXTENDS TxPath
=============================================================================
