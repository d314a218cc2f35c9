---------------------------- MODULE MCCoordinator ----------------------------
(* Model checking Coordinator: two workers and one subagent call, so that a   *)
(* stop or an await can meet every step of a worker, while another worker     *)
(* waits for the single place of a batch.                                     *)
EXTENDS Coordinator
=============================================================================
