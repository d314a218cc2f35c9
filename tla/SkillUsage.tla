------------------------------ MODULE SkillUsage ------------------------------
(***************************************************************************)
(* The record of the uses of skills and the eviction of the unused ones    *)
(* (agent/skill_usage.go) by all the agents that share the home directory: *)
(* the terminal's, its workers (a2a.go, each an Agent that runs            *)
(* RunToolLoop in a goroutine of its own) and those of other terminals.    *)
(* Nothing locks ~/.codingman/skills/.codingman_usage.json: each of them   *)
(* loads it, changes its copy and saves that, os.WriteFile first cutting   *)
(* the file to nothing and then writing it.                                *)
(*                                                                         *)
(* A read of a file is one step, and so is the write of a whole one.  A    *)
(* time is within UnusedDays of now or older; counts stop at MinUses.      *)
(***************************************************************************)
EXTENDS SkillFiles

CONSTANTS Agents,     \* the agents at the same home directory
          Own,        \* the skills the user writes
          MinUses,    \* SkillEvictionConfig.MinUses
          MaxPeriods  \* bound of the model: periods of UnusedDays that pass

ASSUME UsageAssumption ==
    /\ Own \subseteq Skills /\ MinUses \in Nat \ {0} /\ MaxPeriods \in Nat

VARIABLES
    young,      \* the marked skills whose SKILL.md was updated within the period
    usage,      \* what the usage file says: the entries, and whether
                \* LastEvictionCheckAt is less than the interval ago
    written,    \* is the usage file whole, cut to nothing, or no JSON
    job,        \* what each agent is doing at these files
    used,       \* the skills with a use saved within the period (history)
    lost,       \* those whose use the usage file has lost (history)
    periods     \* periods that have passed

usageVars == <<file, generated, young, usage, written, job, used, lost, periods>>

NoUse == [uses |-> 0, last |-> "never"]
NoUsage == [entries |-> [s \in Skills |-> NoUse], checked |-> FALSE]

\* step is where the agent is; uses the skill it records, if it records one;
\* todo the skills it has judged unused and not yet removed; behind those whose use
\* was saved and is not in its copy (history).
Idle == [step |-> "rest", uses |-> {}, copy |-> NoUsage, todo |-> {}, behind |-> {}]
Loaded == {"list", "evict", "save", "write"}

UsageInit ==
    /\ file \in SUBSET Skills /\ generated \in SUBSET (file \ Own)
    /\ young = {}
    /\ \E old \in SUBSET file :
          usage = [NoUsage EXCEPT !.entries =
                     [s \in Skills |-> IF s \in old THEN [uses |-> 1, last |-> "old"] ELSE NoUse]]
    /\ written = "whole"
    /\ job = [a \in Agents |-> Idle]
    /\ used = {} /\ lost = {} /\ periods = 0

Used(u, s) ==
    [u EXCEPT !.entries[s] = [uses |-> IF @.uses < MinUses THEN @.uses + 1 ELSE MinUses,
                              last |-> "recent"]]

\* A copy of the file lacks what the file has lost, and all of it while the file
\* is cut: loadSkillUsage takes an empty one for no usage.
BehindNow == IF written = "whole" THEN lost ELSE used
-----------------------------------------------------------------------------
(* Uses.                                                                   *)

\* The router of a run, or /skill use, has taken a skill from its list.
Choose(a, s) ==
    /\ job[a].step = "rest" /\ s \in file
    /\ job' = [job EXCEPT ![a] = [Idle EXCEPT !.step = "use", !.uses = {s}]]
    /\ UNCHANGED <<file, generated, young, usage, written, used, lost, periods>>

\* Mutant: LastUsedAt is only set by the first use.
CountUseFirst(a, s) ==
    /\ job[a].step = "use" /\ s \in job[a].uses
    /\ written # "broken"
    /\ LET last == usage.entries[s].last
       IN job' = [job EXCEPT ![a].step = "save", ![a].behind = BehindNow,
                             ![a].copy = [Used(usage, s) EXCEPT !.entries[s].last =
                                            IF last = "never" THEN "recent" ELSE last]]
    /\ UNCHANGED <<file, generated, young, usage, written, used, lost, periods>>

\* recordSkillUsage up to its save.
CountUse(a, s) ==
    /\ job[a].step = "use" /\ s \in job[a].uses
    /\ written # "broken"
    /\ job' = [job EXCEPT ![a].step = "save", ![a].behind = BehindNow,
                          ![a].copy = Used(usage, s)]
    /\ UNCHANGED <<file, generated, young, usage, written, used, lost, periods>>
-----------------------------------------------------------------------------
(* Evictions.                                                              *)

\* MaybeEvictGeneratedSkills, when an agent is made and when a run ends: the usage
\* file is loaded, unless it was checked within the interval.
LoadForEvict(a) ==
    /\ job[a].step = "rest"
    /\ written # "broken" /\ ~usage.checked
    /\ job' = [job EXCEPT ![a] = [Idle EXCEPT !.step = "list", !.behind = BehindNow,
                                              !.copy = [usage EXCEPT !.checked = TRUE]]]
    /\ UNCHANGED <<file, generated, young, usage, written, used, lost, periods>>

\* The entry of a skill that was never used gets the time of its file.
Entry(u, s) ==
    IF u.entries[s].last # "never" THEN u.entries[s]
    ELSE [u.entries[s] EXCEPT !.last = IF s \in young THEN "recent" ELSE "old"]

Unused(u, s) == u.entries[s].uses < MinUses /\ u.entries[s].last = "old"

\* LoadUserSkillsWithWarnings, and what the loop makes of each skill; without any
\* skill there is nothing to save.
List(a) ==
    /\ job[a].step = "list"
    /\ LET copy == [job[a].copy EXCEPT !.entries =
                      [s \in Skills |-> IF s \in generated THEN Entry(job[a].copy, s) ELSE @[s]]]
       IN job' = IF file = {} THEN [job EXCEPT ![a] = Idle]
                 ELSE [job EXCEPT ![a].step = "evict", ![a].copy = copy,
                                  ![a].todo = {s \in generated : Unused(copy, s)}]
    /\ UNCHANGED <<file, generated, young, usage, written, used, lost, periods>>

\* One of them is removed: its directory, then its entry.
EvictSkill(a, s) ==
    /\ job[a].step = "evict" /\ s \in job[a].todo
    /\ RemoveFile(s)
    /\ young' = young \ {s} /\ used' = used \ {s} /\ lost' = lost \ {s}
    /\ job' = [job EXCEPT ![a].todo = @ \ {s}, ![a].copy.entries[s] = NoUse]
    /\ UNCHANGED <<usage, written, periods>>
-----------------------------------------------------------------------------
(* saveSkillUsage.                                                         *)

\* os.WriteFile opens the file, which cuts it ...
Truncate(a) ==
    /\ job[a].step = "save" \/ (job[a].step = "evict" /\ job[a].todo = {})
    /\ job' = [job EXCEPT ![a].step = "write"]
    /\ written' = "empty" /\ usage' = NoUsage
    /\ UNCHANGED <<file, generated, young, used, lost, periods>>

\* ... and writes the copy from the start: over what another has written since
\* then, of which an end may be left.
Write(a) ==
    /\ job[a].step = "write"
    /\ written' \in IF written = "empty" THEN {"whole"} ELSE {"whole", "broken"}
    /\ usage' = job[a].copy
    /\ used' = used \union job[a].uses
    /\ lost' = (job[a].behind \intersect used) \ job[a].uses
    /\ job' = [b \in Agents |->
                 IF b = a THEN Idle
                 ELSE IF job[b].step \in Loaded
                      THEN [job[b] EXCEPT !.behind = @ \union job[a].uses]
                      ELSE job[b]]
    /\ UNCHANGED <<file, generated, young, periods>>

\* A load, a removal or a save fails, which is only logged, or the program is
\* killed: a write may have been cut short.
GiveUp(a) ==
    /\ job[a].step # "rest"
    /\ job' = [job EXCEPT ![a] = Idle]
    /\ written' \in IF job[a].step = "write" THEN {written, "broken"} ELSE {written}
    /\ UNCHANGED <<file, generated, young, usage, used, lost, periods>>
-----------------------------------------------------------------------------
\* A review in the background writes a skill, with the time of now.
ReviewWrites(s) ==
    /\ PutFile(s)
    /\ young' = (young \union {s}) \intersect generated'
    /\ UNCHANGED <<usage, written, job, used, lost, periods>>

\* UnusedDays pass, and the interval of the check with them.
PeriodPasses ==
    /\ \A a \in Agents : job[a].step = "rest"
    /\ periods < MaxPeriods
    /\ periods' = periods + 1
    /\ young' = {} /\ used' = {} /\ lost' = {}
    /\ usage' = [entries |-> [s \in Skills |->
                    [usage.entries[s] EXCEPT !.last = IF @ = "recent" THEN "old" ELSE @]],
                 checked |-> FALSE]
    /\ UNCHANGED <<file, generated, written, job>>

UsageNext ==
    \/ \E a \in Agents :
          \/ LoadForEvict(a) \/ List(a) \/ Truncate(a) \/ Write(a) \/ GiveUp(a)
          \/ \E s \in Skills : Choose(a, s) \/ CountUse(a, s) \/ EvictSkill(a, s)
    \/ \E s \in Skills : ReviewWrites(s)
    \/ PeriodPasses

UsageSpec == UsageInit /\ [][UsageNext]_usageVars
-----------------------------------------------------------------------------
Uses == [uses : 0 .. MinUses, last : {"never", "old", "recent"}]
Usages == [entries : [Skills -> Uses], checked : BOOLEAN]

UsageTypeOK ==
    /\ {file, generated, young, used, lost} \subseteq SUBSET Skills
    /\ usage \in Usages
    /\ written \in {"whole", "empty", "broken"}
    /\ job \in [Agents -> [step : {"rest", "use"} \union Loaded, uses : SUBSET Skills,
                           copy : Usages, todo : SUBSET Skills, behind : SUBSET Skills]]
    /\ periods \in 0 .. MaxPeriods

\* An eviction takes a skill with a use saved within the period only when its own
\* copy of the usage file has missed that use: it was loaded before the save, or
\* from a file that another's copy had overwritten or that was just being written.
UsedSkillsStay ==
    [][\A s \in (used \intersect file) \ file' :
          \E a \in Agents : job[a].step = "evict" /\ s \in job[a].todo \intersect job[a].behind]_usageVars

\* What the README says (line 239): a skill that was not left unused for the period
\* is not evicted.  Here, for the uses that were saved without an error.
SavedUsesCount == [][used \intersect file \subseteq file']_usageVars

\* What the README says (line 239): a skill the user has written is never evicted,
\* not even after a review has rewritten it and marked it as generated.
OwnSkillsStay == [][file \intersect Own \subseteq file']_usageVars
=============================================================================
