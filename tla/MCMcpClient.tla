----------------------------- MODULE MCMcpClient -----------------------------
(***************************************************************************)
(* Two tool calls, so that one can wait for the mutex while another holds  *)
(* it and the loop wants it too; three processes, of which a client that   *)
(* did not close its servers could have two alive and start a third.       *)
(***************************************************************************)
EXTENDS McpClient
=============================================================================
