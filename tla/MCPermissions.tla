---------------------------- MODULE MCPermissions ----------------------------
(***************************************************************************)
(* The parent's turn and one worker, which is what it takes to cover a     *)
(* prompt; two bash commands, of which one is read-only, so that a hook    *)
(* can make either of them the other.                                      *)
(***************************************************************************)
EXTENDS Permissions
=============================================================================
