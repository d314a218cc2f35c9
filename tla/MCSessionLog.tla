----------------------------- MODULE MCSessionLog -----------------------------
(***************************************************************************)
(* Two terminals draw three sessions and save five times, with a log that  *)
(* is rewritten as soon as it holds more than one record: enough for one   *)
(* terminal to resume the session of the other while that one is between   *)
(* truncating and writing it, and to be resumed itself after a crash.      *)
(***************************************************************************)
EXTENDS SessionLog, TLC

CONSTANTS t1, t2, s1, s2, s3

Symmetry == Permutations({t1, t2}) \union Permutations({s1, s2, s3})
=============================================================================
