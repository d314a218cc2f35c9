----------------------------- MODULE MCLearning -----------------------------
(***************************************************************************)
(* Two skills, which may be written, removed and written again by this     *)
(* agent and by others; a review is due after every call.                  *)
(***************************************************************************)
EXTENDS Learning
=============================================================================
