---------------------------- MODULE MCSkillUsage ----------------------------
(***************************************************************************)
(* Two agents over two skills: a use and an eviction, or the uses of two   *)
(* skills, overlap at every step.  No property tells the agents apart, nor *)
(* the skills while none is the user's own (MCSkillUsage.cfg).             *)
(***************************************************************************)
EXTENDS SkillUsage, TLC

Same == Permutations(Agents) \union Permutations(Skills)
=============================================================================
