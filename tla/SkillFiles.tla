------------------------------ MODULE SkillFiles ------------------------------
(***************************************************************************)
(* The directory ~/.codingman/skills as every agent finds it: one SKILL.md *)
(* for each user-level skill (agent/skill.go), some marked as written by   *)
(* CodingMan itself.  The text of a skill is left out, and so are the      *)
(* skills of a project, which hide the user's of that name.                *)
(***************************************************************************)
EXTENDS Naturals, FiniteSets

CONSTANT Skills       \* names of user-level skills

VARIABLES
    file,       \* the skills with a SKILL.md
    generated   \* the files marked codingman_generated

\* saveSkillDocumentWithTools creates or edits the file; ensureSkillDocument
\* marks it, unless its frontmatter is not closed or has a mark of its own.
PutFile(s) ==
    /\ file' = file \union {s}
    /\ generated' \in {generated \union {s}, generated \ {s}}

\* removeGeneratedUserSkill; a directory that is gone already is no error.
RemoveFile(s) ==
    /\ file' = file \ {s}
    /\ generated' = generated \ {s}
=============================================================================
