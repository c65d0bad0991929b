------------------------------ MODULE MCDriverRx ------------------------------
(* Model checking instance of DriverRx: a frame of one short packet over a   *)
(* full one, and a frame that fills the URB's buffer.                        *)
EXTENDS DriverRx
=============================================================================
