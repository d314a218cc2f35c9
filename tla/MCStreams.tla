----------------------------- MODULE MCStreams ------------------------------
(***************************************************************************)
(* Three calls of two parts each: parts can be interleaved, a call can end *)
(* before or after another, and the limit can cut off one or two.          *)
(***************************************************************************)
EXTENDS Streams
=============================================================================
