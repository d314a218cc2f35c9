------------------------------ MODULE Learning ------------------------------
(***************************************************************************)
(* What one agent does with the user-level skills and with what it learns: *)
(* the router that activates a skill for a prompt (agent/skill_autoload.go)*)
(* the skills it knows while evictions remove them (agent/skill_usage.go), *)
(* the review in the background that writes them (skill_evolution.go), and *)
(* the extraction of cross-session memory (agent.go), also in background.  *)
(*                                                                         *)
(* Which skills an eviction finds unused is SkillUsage's: here it may be   *)
(* any that are marked.  The workers of the agent, and other terminals,    *)
(* write and remove files of the same directory at any time (Others).  Of  *)
(* the active skill its text and its allowlist are left out.               *)
(***************************************************************************)
EXTENDS SkillFiles

CONSTANTS None,       \* no skill
          Threshold   \* skillEvolutionThreshold

ASSUME LearningAssumption == None \notin Skills /\ Threshold \in Nat \ {0}

Steps == {"idle", "route", "tools", "stop", "evict", "end"}

VARIABLES
    evicted,    \* the skills its evictions have removed, not written since (history)
    stale,      \* an eviction failed that had removed skills, none was loaded since (history)
    known,      \* agent.skills, as loaded
    active,     \* activeSkill, activeSkillAuto
    run,        \* where the thread of the run is
    seen,       \* the skills it has listed for the router or the eviction, is one removed
    calls,      \* toolCallsSinceSkillReview, up to the threshold
    review,     \* skillEvolutionRunning, jobs queued, where its worker is
    memory      \* crossMemoryJobs, its worker, is a scheduled turn not read yet (history)

disk == <<file, generated, evicted>>
vars == <<disk, stale, known, active, run, seen, calls, review, memory>>

NoSkill == [name |-> None, auto |-> FALSE]
NothingSeen == [skills |-> {}, gone |-> FALSE]
NoMemory == [jobs |-> 0, worker |-> "wait", owed |-> FALSE]
NoReview == [running |-> FALSE, jobs |-> 0, worker |-> "wait"]

\* NewAgent: the skills are loaded, then the eviction is run.
Fresh ==
    /\ known' = file /\ stale' = FALSE /\ evicted' = {}
    /\ active' = NoSkill /\ run' = "stop" /\ seen' = NothingSeen
    /\ calls' = 0 /\ review' = NoReview /\ memory' = NoMemory

Init ==
    /\ file \in SUBSET Skills /\ generated \in SUBSET file
    /\ evicted = {} /\ stale = FALSE
    /\ known = file
    /\ active = NoSkill /\ run = "stop" /\ seen = NothingSeen
    /\ calls = 0 /\ review = NoReview /\ memory = NoMemory

\* refreshActiveSkillLocked, after the skills have been loaded again.
Refreshed(skills) == IF active.name \in skills THEN active ELSE NoSkill
-----------------------------------------------------------------------------
(* A run: the router, the tools, the eviction when it ends.                *)

Go(step) == run' = step

\* Mutant: the router does not ask who has chosen the active skill.
StartRunAlways ==
    /\ run = "idle"
    /\ Go(IF file = {} THEN "tools" ELSE "route")
    /\ active' = IF active.auto /\ file = {} THEN NoSkill ELSE active
    /\ seen' = [seen EXCEPT !.skills = file]
    /\ UNCHANGED <<disk, stale, known, calls, review, memory>>

\* AutoSelectSkillForPrompt up to its request.
StartRun ==
    /\ run = "idle"
    /\ LET manual == active.name # None /\ ~active.auto
       IN /\ Go(IF manual \/ file = {} THEN "tools" ELSE "route")
          /\ active' = IF file = {} /\ active.auto THEN NoSkill ELSE active
          /\ seen' = IF manual THEN seen ELSE [seen EXCEPT !.skills = file]
    /\ UNCHANGED <<disk, stale, known, calls, review, memory>>

\* No skill fits, the answer names none, or the request fails.
RouteNone ==
    /\ run = "route"
    /\ Go("tools")
    /\ active' = IF active.auto THEN NoSkill ELSE active
    /\ seen' = NothingSeen
    /\ UNCHANGED <<disk, stale, known, calls, review, memory>>

\* activateAutoSkill; a use that cannot be recorded is only logged.
Route(s) ==
    /\ run = "route" /\ s \in seen.skills
    /\ active' = [name |-> s, auto |-> TRUE]
    /\ seen' = NothingSeen
    /\ Go("tools")
    /\ UNCHANGED <<disk, stale, known, calls, review, memory>>

\* /skill use between runs.
UseSkill(s) ==
    /\ run = "idle" /\ s \in known
    /\ active' = [name |-> s, auto |-> FALSE]
    /\ UNCHANGED <<disk, stale, known, run, seen, calls, review, memory>>

\* /skill clear.
ClearSkill ==
    /\ run = "idle"
    /\ active' = NoSkill
    /\ UNCHANGED <<disk, stale, known, run, seen, calls, review, memory>>

\* A tool has been called: RecordToolCall, then MaybeEvolveSkills.
Work ==
    /\ run = "tools"
    /\ calls' = IF calls < Threshold THEN calls + 1 ELSE Threshold
    /\ review' = IF calls' = Threshold /\ ~review.running /\ review.jobs = 0
                 THEN [review EXCEPT !.running = TRUE, !.jobs = 1] ELSE review
    /\ UNCHANGED <<disk, stale, known, active, run, seen, memory>>

\* The loop ends, for whatever reason.
EndRun ==
    /\ run = "tools"
    /\ Go("stop")
    /\ UNCHANGED <<disk, stale, known, active, seen, calls, review, memory>>

\* MaybeEvictGeneratedSkills up to its loop: nothing is due, or the usage file
\* cannot be loaded; or the skills are listed.
BeginEvict ==
    /\ run = "stop"
    /\ \/ Go("end") /\ UNCHANGED seen
       \/ /\ file # {}
          /\ Go("evict")
          /\ seen' = [skills |-> generated, gone |-> FALSE]
    /\ UNCHANGED <<disk, stale, known, active, calls, review, memory>>

\* A skill that was listed is found unused and removed.
Evict(s) ==
    /\ run = "evict" /\ s \in seen.skills
    /\ seen' = [skills |-> seen.skills \ {s}, gone |-> TRUE]
    /\ RemoveFile(s)
    /\ evicted' = evicted \union {s}
    /\ UNCHANGED <<stale, known, active, run, calls, review, memory>>

\* Mutant: the agent keeps the skills it has loaded.
EndEvictStale ==
    /\ run = "evict"
    /\ Go("end")
    /\ UNCHANGED <<disk, stale, known, active, seen, calls, review, memory>>

\* The others stay, saveSkillUsage; the skills are loaded again when some are gone.
EndEvict ==
    /\ run = "evict"
    /\ known' = IF seen.gone THEN file ELSE known
    /\ stale' = (stale /\ ~seen.gone)
    /\ active' = IF seen.gone THEN Refreshed(file) ELSE active
    /\ Go("end")
    /\ UNCHANGED <<disk, seen, calls, review, memory>>

\* A directory cannot be removed, or the usage file not be saved: the loop ends
\* there, and the skills are not loaded again.
EvictFails ==
    /\ run = "evict"
    /\ stale' = (stale \/ seen.gone)
    /\ Go("end")
    /\ UNCHANGED <<disk, known, active, seen, calls, review, memory>>

\* Mutant: the channel has no buffer, so a busy worker is not told.
FinishUnbuffered ==
    /\ run = "end"
    /\ Go("idle") /\ seen' = NothingSeen
    /\ \/ memory' = [memory EXCEPT !.jobs = IF memory.worker = "wait" THEN 1 ELSE @,
                                   !.owed = TRUE]
       \/ UNCHANGED memory
    /\ UNCHANGED <<disk, stale, known, active, calls, review>>

\* The terminal schedules the extraction, unless the run has failed.
Finish ==
    /\ run = "end"
    /\ Go("idle") /\ seen' = NothingSeen
    /\ \/ memory' = [memory EXCEPT !.jobs = 1, !.owed = TRUE]
       \/ UNCHANGED memory
    /\ UNCHANGED <<disk, stale, known, active, calls, review>>
-----------------------------------------------------------------------------
(* The workers in the background.                                          *)

\* runSkillEvolution takes the job and sends its request.
TakeReview ==
    /\ review.worker = "wait" /\ review.jobs = 1
    /\ review' = [review EXCEPT !.jobs = 0, !.worker = "review"]
    /\ UNCHANGED <<disk, stale, known, active, run, seen, calls, memory>>

\* An item of the answer: saveSkillDocumentWithTools.
WriteSkill(s) ==
    /\ review.worker = "review"
    /\ PutFile(s)
    /\ evicted' = evicted \ {s}
    /\ UNCHANGED <<stale, known, active, run, seen, calls, review, memory>>

\* Mutant: a review that fails stays the running one.
ReviewFailsRunning ==
    /\ review.worker = "review"
    /\ review' = [review EXCEPT !.worker = "wait"]
    /\ UNCHANGED <<disk, stale, known, active, run, seen, calls, memory>>

\* The request, an answer that is no JSON, or a write fails.
ReviewFails ==
    /\ review.worker = "review"
    /\ review' = NoReview
    /\ UNCHANGED <<disk, stale, known, active, run, seen, calls, memory>>

\* finishSkillEvolution(true).
ReviewEnds ==
    /\ review.worker = "review"
    /\ review' = NoReview
    /\ calls' = 0
    /\ known' = file /\ active' = Refreshed(file) /\ stale' = FALSE
    /\ UNCHANGED <<disk, run, seen, memory>>

\* ExtractCrossSessionMemory: the messages are read, then summarised.
TakeMemory ==
    /\ memory.worker = "wait" /\ memory.jobs = 1
    /\ memory' = [memory EXCEPT !.jobs = 0, !.worker = "extract", !.owed = FALSE]
    /\ UNCHANGED <<disk, stale, known, active, run, seen, calls, review>>

MemoryEnds ==
    /\ memory.worker = "extract"
    /\ memory' = [memory EXCEPT !.worker = "wait"]
    /\ UNCHANGED <<disk, stale, known, active, run, seen, calls, review>>
-----------------------------------------------------------------------------
(* The others at the directory, and the user.                              *)

\* The review of another agent writes a skill, or its eviction removes one.
Others(s) ==
    /\ \/ PutFile(s) /\ evicted' = evicted \ {s}
       \/ s \in generated /\ RemoveFile(s) /\ UNCHANGED evicted
    /\ UNCHANGED <<stale, known, active, run, seen, calls, review, memory>>

\* The program ends, is killed, and is started again.
Restart ==
    /\ Fresh
    /\ UNCHANGED <<file, generated>>

Next ==
    \/ StartRun \/ RouteNone \/ ClearSkill \/ Work \/ EndRun
    \/ BeginEvict \/ EndEvict \/ EvictFails \/ Finish
    \/ \E s \in Skills : Route(s) \/ UseSkill(s) \/ Evict(s) \/ WriteSkill(s) \/ Others(s)
    \/ TakeReview \/ ReviewFails \/ ReviewEnds \/ TakeMemory \/ MemoryEnds
    \/ Restart

Spec == Init /\ [][Next]_vars
-----------------------------------------------------------------------------
TypeOK ==
    /\ {file, known, generated, evicted} \subseteq SUBSET Skills
    /\ stale \in BOOLEAN
    /\ active \in [name : Skills \union {None}, auto : BOOLEAN]
    /\ run \in Steps
    /\ calls \in 0 .. Threshold
    /\ review \in [running : BOOLEAN, jobs : {0, 1}, worker : {"wait", "review"}]
    /\ memory \in [jobs : {0, 1}, worker : {"wait", "extract"}, owed : BOOLEAN]

\* A skill the user has chosen stays the active one, against the router, the
\* reviews and the evictions, until the user decides or the skill is gone.
ManualChoiceStays ==
    [][active.name # None /\ ~active.auto /\ run # "idle"
           => active' = active \/ active.name \notin file' \/ Restart]_vars

\* Between runs the agent neither offers nor applies a skill that it has evicted,
\* unless the eviction has failed half-way.
EvictedAreForgotten ==
    run \in {"end", "idle"} /\ ~stale => (known \union {active.name}) \intersect evicted = {}

\* There is one review at a time, and no flag is left that would stop the next.
OneReview ==
    review.running <=> review.jobs = 1 \/ review.worker # "wait"

\* A turn that was scheduled for extraction and not read yet has a job in the
\* channel, also when the worker was busy with an older one: none is dropped.
NoTurnIsDropped == memory.owed => memory.jobs = 1
=============================================================================
