----------------------------- MODULE MCToolLoop -----------------------------
(* Model checking ToolLoop: three prompts with two rounds kept, so that a     *)
(* summary can itself be compacted; two turns and three calls, so that       *)
(* either limit can end a run first; two tool errors in a row, which may     *)
(* come from one turn or from two.                                           *)
EXTENDS ToolLoop
=============================================================================
