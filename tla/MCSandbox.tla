------------------------------ MODULE MCSandbox ------------------------------
(***************************************************************************)
(* Two calls, in one run or in two, so that one finds the machine or the   *)
(* commands the other left; two machines, so that one could be forgotten   *)
(* while another is started.                                               *)
(***************************************************************************)
EXTENDS Sandbox
=============================================================================
