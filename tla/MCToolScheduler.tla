--------------------------- MODULE MCToolScheduler ---------------------------
(* Model checking ToolScheduler: four calls and two slots, so that a       *)
(* parallel call can wait for a slot, a serial one can have calls on both   *)
(* sides, and one retry, so that the last attempt differs from the first.   *)
EXTENDS ToolScheduler
=============================================================================
