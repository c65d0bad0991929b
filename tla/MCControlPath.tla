---------------------------- MODULE MCControlPath ----------------------------
(* Model checking instance of ControlPath.  The value written has a bit that      *)
(* COMMAND would take for RSTAT, as the register number has.                      *)
EXTENDS ControlPath

McPhyValues == {<<{1}, {}>>}
=============================================================================
