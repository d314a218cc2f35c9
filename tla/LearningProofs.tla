---------------------------- MODULE LearningProofs ----------------------------
(***************************************************************************)
(* Proofs about Learning and SkillUsage for any skills, agents, thresholds *)
(* and periods.                                                            *)
(***************************************************************************)
EXTENDS Learning, SkillUsage, TLAPS

Seen == [skills : SUBSET Skills, gone : BOOLEAN]
Choice == [name : Skills \union {None}, auto : BOOLEAN]
Review == [running : BOOLEAN, jobs : {0, 1}, worker : {"wait", "review"}]
Memory == [jobs : {0, 1}, worker : {"wait", "extract"}, owed : BOOLEAN]

\* What the thread of the run has seen has its type too.
TypeInv == TypeOK /\ seen \in Seen

\* The router is asked only when the user has chosen nothing.
ChoiceInv == run = "route" => active.name = None \/ active.auto

\* What the agent has evicted is not there, and but for what an eviction has
\* removed so far it is neither known nor offered to the router.
KnownInv ==
    /\ evicted \intersect file = {} /\ None \notin evicted
    /\ run = "route" => seen.skills \intersect evicted = {}
    /\ ~stale /\ ~(run = "evict" /\ seen.gone)
           => (known \union {active.name}) \intersect evicted = {}

IInv == TypeInv /\ ChoiceInv /\ KnownInv /\ OneReview /\ NoTurnIsDropped

LEMMA Zero == 0 \in 0 .. Threshold
BY LearningAssumption

LEMMA NothingType ==
    /\ NothingSeen \in Seen /\ NoSkill \in Choice
    /\ NoReview \in Review /\ NoMemory \in Memory
BY DEF NothingSeen, Seen, NoSkill, Choice, NoReview, Review, NoMemory, Memory

\* TypeOK in the words used here.
LEMMA Typed ==
    TypeOK <=>
        /\ file \subseteq Skills /\ known \subseteq Skills /\ generated \subseteq Skills
        /\ evicted \subseteq Skills /\ stale \in BOOLEAN
        /\ active \in Choice /\ run \in Steps /\ calls \in 0 .. Threshold
        /\ review \in Review /\ memory \in Memory
BY DEF TypeOK, Choice, Review, Memory

LEMMA TypedNext ==
    TypeOK' <=>
        /\ file' \subseteq Skills /\ known' \subseteq Skills /\ generated' \subseteq Skills
        /\ evicted' \subseteq Skills /\ stale' \in BOOLEAN
        /\ active' \in Choice /\ run' \in Steps /\ calls' \in 0 .. Threshold
        /\ review' \in Review /\ memory' \in Memory
BY DEF TypeOK, Choice, Review, Memory

LEMMA InitIInv == Init => IInv
<1> SUFFICES ASSUME Init PROVE IInv
  OBVIOUS
<1>1. TypeInv
  BY Zero, NothingType, Typed DEF Init, TypeInv, Steps
<1>2. ChoiceInv /\ KnownInv
  BY DEF Init, ChoiceInv, KnownInv, NoSkill
<1>3. OneReview /\ NoTurnIsDropped
  BY DEF Init, OneReview, NoTurnIsDropped, NoReview, NoMemory
<1>4. QED
  BY <1>1, <1>2, <1>3 DEF IInv
-----------------------------------------------------------------------------
(* Every variable keeps its type.                                          *)

LEMMA NextType == TypeInv /\ [Next]_vars => TypeInv'
<1> SUFFICES ASSUME TypeInv, [Next]_vars PROVE TypeInv'
  OBVIOUS
<1> USE LearningAssumption DEF Go, disk
<1>a. Steps = {"idle", "route", "tools", "stop", "evict", "end"}
  BY DEF Steps
<1>b. TypeOK /\ seen \in Seen
  BY DEF TypeInv
<1>c. TypeOK' /\ seen' \in Seen => TypeInv'
  BY DEF TypeInv
<1> USE <1>a, <1>b, Typed
<1>1. CASE StartRun
  <2>1. seen' \in Seen
    BY <1>1 DEF StartRun, Seen
  <2>2. QED
    BY <1>1, <1>c, <2>1, NothingType, TypedNext DEF StartRun
<1>2. CASE RouteNone \/ ClearSkill
  BY <1>2, <1>c, NothingType, TypedNext DEF RouteNone, ClearSkill
<1>3. ASSUME NEW s \in Skills, Route(s) \/ UseSkill(s) PROVE TypeInv'
  <2>1. seen' \in Seen
    BY <1>3, NothingType DEF Route, UseSkill
  <2>2. active' \in Choice
    <3>1. active' = [name |-> s, auto |-> TRUE] \/ active' = [name |-> s, auto |-> FALSE]
      BY <1>3 DEF Route, UseSkill
    <3>2. \A b \in BOOLEAN : [name |-> s, auto |-> b] \in Choice
      BY DEF Choice
    <3>3. QED
      BY <3>1, <3>2
  <2>3. QED
    BY <1>3, <1>c, <2>1, <2>2, TypedNext DEF Route, UseSkill
<1>4. CASE Work
  <2>1. calls' \in 0 .. Threshold
    <3>1. calls \in 0 .. Threshold /\ Threshold \in Nat
      OBVIOUS
    <3>2. calls' = IF calls < Threshold THEN calls + 1 ELSE Threshold
      BY <1>4 DEF Work
    <3>3. QED
      BY <3>1, <3>2
  <2>2. review' \in Review
    BY <1>4 DEF Work, Review
  <2>3. QED
    BY <1>4, <1>c, <2>1, <2>2, TypedNext DEF Work
<1>5. CASE EndRun \/ EvictFails
  BY <1>5, <1>c, TypedNext DEF EndRun, EvictFails, Seen
<1>6. CASE BeginEvict
  <2>1. seen' \in Seen
    <3>1. [skills |-> generated, gone |-> FALSE] \in Seen
      BY DEF Seen
    <3>2. QED
      BY <1>6, <3>1 DEF BeginEvict
  <2>2. QED
    BY <1>6, <1>c, <2>1, TypedNext DEF BeginEvict
<1>7. ASSUME NEW s \in Skills, Evict(s) PROVE TypeInv'
  <2>1. seen' \in Seen
    BY <1>7 DEF Evict, Seen
  <2>2. QED
    BY <1>7, <1>c, <2>1, TypedNext DEF Evict, RemoveFile
<1>8. CASE EndEvict
  BY <1>8, <1>c, NothingType, TypedNext DEF EndEvict, Refreshed, Seen
<1>9. CASE Finish
  <2>1. memory' \in Memory
    BY <1>9 DEF Finish, Memory
  <2>2. QED
    BY <1>9, <1>c, <2>1, NothingType, TypedNext DEF Finish
<1>10. CASE TakeReview
  <2>1. review' \in Review
    BY <1>10 DEF TakeReview, Review
  <2>2. QED
    BY <1>10, <1>c, <2>1, TypedNext DEF TakeReview
<1>11. CASE ReviewFails
  BY <1>11, <1>c, NothingType, TypedNext DEF ReviewFails
<1>12. CASE ReviewEnds
  <2>1. active' \in Choice
    BY <1>12, NothingType DEF ReviewEnds, Refreshed
  <2>2. QED
    BY <1>12, <1>c, <2>1, Zero, NothingType, TypedNext DEF ReviewEnds
<1>13. ASSUME NEW s \in Skills, WriteSkill(s) \/ Others(s) PROVE TypeInv'
  BY <1>13, <1>c, TypedNext DEF WriteSkill, Others, PutFile, RemoveFile
<1>14. CASE TakeMemory \/ MemoryEnds
  <2>1. memory' \in Memory
    BY <1>14 DEF TakeMemory, MemoryEnds, Memory
  <2>2. QED
    BY <1>14, <1>c, <2>1, TypedNext DEF TakeMemory, MemoryEnds
<1>15. CASE Restart
  BY <1>15, <1>c, Zero, NothingType, TypedNext DEF Restart, Fresh
<1>16. CASE UNCHANGED vars
  BY <1>16, <1>c, TypedNext DEF vars
<1>17. QED
  BY <1>1, <1>2, <1>3, <1>4, <1>5, <1>6, <1>7, <1>8, <1>9, <1>10, <1>11, <1>12, <1>13,
     <1>14, <1>15, <1>16
  DEF Next
-----------------------------------------------------------------------------
(* What was evicted is not known, and the user's choice is not routed.     *)

LEMMA NextChoice == TypeInv /\ ChoiceInv /\ [Next]_vars => ChoiceInv'
<1> SUFFICES ASSUME TypeInv, ChoiceInv, [Next]_vars PROVE ChoiceInv'
  OBVIOUS
<1> USE DEF ChoiceInv, Go, disk
<1>1. CASE StartRun
  BY <1>1 DEF StartRun, NoSkill
<1>2. CASE RouteNone \/ ClearSkill \/ Work \/ EndRun
  BY <1>2 DEF RouteNone, ClearSkill, Work, EndRun, NoSkill
<1>3. CASE BeginEvict \/ EndEvict \/ EvictFails \/ Finish
  BY <1>3 DEF BeginEvict, EndEvict, EvictFails, Finish
<1>4. ASSUME NEW s \in Skills, Route(s) \/ UseSkill(s) \/ Evict(s) \/ WriteSkill(s) \/ Others(s)
      PROVE  ChoiceInv'
  BY <1>4 DEF Route, UseSkill, Evict, WriteSkill, Others
<1>5. CASE TakeReview \/ ReviewFails \/ TakeMemory \/ MemoryEnds
  BY <1>5 DEF TakeReview, ReviewFails, TakeMemory, MemoryEnds
<1>6. CASE ReviewEnds
  BY <1>6 DEF ReviewEnds, Refreshed, NoSkill
<1>7. CASE Restart
  BY <1>7 DEF Restart, Fresh
<1>8. CASE UNCHANGED vars
  BY <1>8 DEF vars
<1>9. QED
  BY <1>1, <1>2, <1>3, <1>4, <1>5, <1>6, <1>7, <1>8 DEF Next

LEMMA NextKnown == TypeInv /\ KnownInv /\ [Next]_vars => KnownInv'
<1> SUFFICES ASSUME TypeInv, KnownInv, [Next]_vars PROVE KnownInv'
  OBVIOUS
<1> USE LearningAssumption DEF KnownInv, Go, disk
<1>a. seen \in Seen /\ file \subseteq Skills /\ stale \in BOOLEAN
  BY DEF TypeInv, TypeOK
<1>1. CASE StartRun
  <2>1. seen'.skills = file \/ run' # "route"
    BY <1>1, <1>a DEF StartRun, Seen
  <2>2. active' \in {active, NoSkill} /\ run = "idle" /\ UNCHANGED <<file, evicted, known, stale>>
    BY <1>1 DEF StartRun
  <2>3. run' # "evict"
    BY <1>1 DEF StartRun
  <2>4. QED
    BY <2>1, <2>2, <2>3 DEF NoSkill
<1>2. CASE RouteNone \/ ClearSkill \/ Work \/ EndRun \/ Finish
  BY <1>2 DEF RouteNone, ClearSkill, Work, EndRun, Finish, NoSkill
<1>3. CASE BeginEvict
  BY <1>3 DEF BeginEvict
<1>4. ASSUME NEW s \in Skills, Route(s) \/ UseSkill(s) PROVE KnownInv'
  BY <1>4 DEF Route, UseSkill
<1>5. ASSUME NEW s \in Skills, Evict(s) PROVE KnownInv'
  <2>1. run = "evict" /\ run' = "evict" /\ seen'.gone
    BY <1>5 DEF Evict
  <2>2. file' = file \ {s} /\ evicted' = evicted \union {s}
    BY <1>5 DEF Evict, RemoveFile
  <2>3. QED
    BY <2>1, <2>2
<1>6. CASE EndEvict
  <2>1. seen.gone => known' = file' /\ active' \in {active, NoSkill}
                      /\ (active'.name \in file' \/ active' = NoSkill)
    BY <1>6 DEF EndEvict, Refreshed
  <2>2. ~seen.gone => UNCHANGED <<file, evicted, known, active, stale>>
    BY <1>6, <1>a DEF EndEvict
  <2>3. run' = "end" /\ run = "evict" /\ UNCHANGED <<file, evicted>>
    BY <1>6 DEF EndEvict
  <2>4. QED
    BY <2>1, <2>2, <2>3 DEF NoSkill
<1>7. CASE EvictFails
  BY <1>7 DEF EvictFails
<1>8. ASSUME NEW s \in Skills, WriteSkill(s) \/ Others(s) PROVE KnownInv'
  <2>1. evicted' \subseteq evicted /\ evicted' \intersect file' = {}
    BY <1>8 DEF WriteSkill, Others, PutFile, RemoveFile
  <2>2. UNCHANGED <<stale, known, active, run, seen>>
    BY <1>8 DEF WriteSkill, Others
  <2>3. QED
    BY <2>1, <2>2
<1>9. CASE TakeReview \/ ReviewFails \/ TakeMemory \/ MemoryEnds
  BY <1>9 DEF TakeReview, ReviewFails, TakeMemory, MemoryEnds
<1>10. CASE ReviewEnds
  BY <1>10 DEF ReviewEnds, Refreshed, NoSkill
<1>11. CASE Restart
  BY <1>11 DEF Restart, Fresh, NoSkill
<1>12. CASE UNCHANGED vars
  BY <1>12 DEF vars
<1>13. QED
  BY <1>1, <1>2, <1>3, <1>4, <1>5, <1>6, <1>7, <1>8, <1>9, <1>10, <1>11, <1>12 DEF Next
-----------------------------------------------------------------------------
(* The background workers.                                                 *)

LEMMA NextOneReview == TypeInv /\ OneReview /\ [Next]_vars => OneReview'
<1> SUFFICES ASSUME TypeInv, OneReview, [Next]_vars PROVE OneReview'
  OBVIOUS
<1> USE DEF OneReview, Go, disk
<1>a. review \in Review
  BY DEF TypeInv, TypeOK, Review
<1>1. CASE Work
  <2>1. \/ review' = review
        \/ review'.running /\ review'.jobs = 1
    BY <1>1, <1>a DEF Work, Review
  <2>2. QED
    BY <2>1
<1>2. CASE TakeReview
  <2>1. review'.running = review.running /\ review'.jobs = 0 /\ review'.worker = "review"
    BY <1>2, <1>a DEF TakeReview, Review
  <2>2. review.running
    BY <1>2 DEF TakeReview
  <2>3. QED
    BY <2>1, <2>2
<1>3. CASE ReviewFails \/ ReviewEnds
  BY <1>3 DEF ReviewFails, ReviewEnds, NoReview
<1>4. CASE StartRun \/ RouteNone \/ ClearSkill \/ EndRun
  BY <1>4 DEF StartRun, RouteNone, ClearSkill, EndRun
<1>5. CASE BeginEvict \/ EndEvict \/ EvictFails \/ Finish \/ TakeMemory \/ MemoryEnds
  BY <1>5 DEF BeginEvict, EndEvict, EvictFails, Finish, TakeMemory, MemoryEnds
<1>6. ASSUME NEW s \in Skills, Route(s) \/ UseSkill(s) \/ Evict(s) \/ WriteSkill(s) \/ Others(s)
      PROVE  OneReview'
  BY <1>6 DEF Route, UseSkill, Evict, WriteSkill, Others
<1>7. CASE Restart
  BY <1>7 DEF Restart, Fresh, NoReview
<1>8. CASE UNCHANGED vars
  BY <1>8 DEF vars
<1>9. QED
  BY <1>1, <1>2, <1>3, <1>4, <1>5, <1>6, <1>7, <1>8 DEF Next

LEMMA NextNoTurn == TypeInv /\ NoTurnIsDropped /\ [Next]_vars => NoTurnIsDropped'
<1> SUFFICES ASSUME TypeInv, NoTurnIsDropped, [Next]_vars PROVE NoTurnIsDropped'
  OBVIOUS
<1> USE DEF NoTurnIsDropped, Go, disk
<1>a. memory \in Memory
  BY DEF TypeInv, TypeOK, Memory
<1>1. CASE Finish \/ TakeMemory \/ MemoryEnds
  BY <1>1, <1>a DEF Finish, TakeMemory, MemoryEnds, Memory
<1>2. CASE StartRun \/ RouteNone \/ ClearSkill \/ Work \/ EndRun
  BY <1>2 DEF StartRun, RouteNone, ClearSkill, Work, EndRun
<1>3. CASE BeginEvict \/ EndEvict \/ EvictFails \/ TakeReview \/ ReviewFails \/ ReviewEnds
  BY <1>3 DEF BeginEvict, EndEvict, EvictFails, TakeReview, ReviewFails, ReviewEnds
<1>4. ASSUME NEW s \in Skills, Route(s) \/ UseSkill(s) \/ Evict(s) \/ WriteSkill(s) \/ Others(s)
      PROVE  NoTurnIsDropped'
  BY <1>4 DEF Route, UseSkill, Evict, WriteSkill, Others
<1>5. CASE Restart
  BY <1>5 DEF Restart, Fresh, NoMemory
<1>6. CASE UNCHANGED vars
  BY <1>6 DEF vars
<1>7. QED
  BY <1>1, <1>2, <1>3, <1>4, <1>5, <1>6 DEF Next
-----------------------------------------------------------------------------
\* The parts of IInv hold of every state the agent can be in.
THEOREM Invariance == Spec => []IInv
<1>1. IInv /\ [Next]_vars => IInv'
  BY NextType, NextChoice, NextKnown, NextOneReview, NextNoTurn DEF IInv
<1>2. QED
  BY InitIInv, <1>1, PTL DEF Spec

LEMMA StepKeepsChoice ==
    ChoiceInv /\ [Next]_vars =>
        [active.name # None /\ ~active.auto /\ run # "idle"
            => active' = active \/ active.name \notin file' \/ Restart]_vars
<1> SUFFICES ASSUME ChoiceInv, Next, active.name # None, ~active.auto, run # "idle", ~Restart
             PROVE  active' = active \/ active.name \notin file'
  OBVIOUS
<1> USE DEF Go, disk
<1>1. run # "route"
  BY DEF ChoiceInv
<1>2. ~StartRun /\ ~RouteNone /\ ~ClearSkill
  BY <1>1 DEF StartRun, RouteNone, ClearSkill
<1>3. CASE Work \/ EndRun \/ BeginEvict \/ EvictFails \/ Finish
  BY <1>3 DEF Work, EndRun, BeginEvict, EvictFails, Finish
<1>4. CASE EndEvict \/ ReviewEnds
  BY <1>4 DEF EndEvict, ReviewEnds, Refreshed
<1>5. ASSUME NEW s \in Skills, Route(s) \/ UseSkill(s) PROVE FALSE
  BY <1>1, <1>5 DEF Route, UseSkill
<1>6. ASSUME NEW s \in Skills, Evict(s) \/ WriteSkill(s) \/ Others(s) PROVE active' = active
  BY <1>6 DEF Evict, WriteSkill, Others
<1>7. CASE TakeReview \/ ReviewFails \/ TakeMemory \/ MemoryEnds
  BY <1>7 DEF TakeReview, ReviewFails, TakeMemory, MemoryEnds
<1>8. QED
  BY <1>2, <1>3, <1>4, <1>5, <1>6, <1>7 DEF Next

\* A skill the user has chosen stays active during a run, against the router,
\* the reviews and the evictions, unless it is gone.
THEOREM TheUserDecides == Spec => ManualChoiceStays
<1>1. IInv /\ [Next]_vars =>
        [active.name # None /\ ~active.auto /\ run # "idle"
            => active' = active \/ active.name \notin file' \/ Restart]_vars
  BY StepKeepsChoice DEF IInv
<1>2. QED
  BY Invariance, <1>1, PTL DEF Spec, ManualChoiceStays

\* Between runs no skill the agent has evicted is offered or applied, but after an
\* eviction that failed half-way.
THEOREM KnownAreThere == Spec => []EvictedAreForgotten
<1>1. IInv => EvictedAreForgotten
  BY DEF IInv, KnownInv, EvictedAreForgotten
<1>2. QED
  BY Invariance, <1>1, PTL

\* skillEvolutionRunning is set exactly while a review is queued or under way.
THEOREM ReviewsAreSerial == Spec => []OneReview
<1>1. IInv => OneReview
  BY DEF IInv
<1>2. QED
  BY Invariance, <1>1, PTL

\* A turn that was scheduled for extraction and not read yet has its job in the
\* channel.
THEOREM TurnsAreQueued == Spec => []NoTurnIsDropped
<1>1. IInv => NoTurnIsDropped
  BY DEF IInv
<1>2. QED
  BY Invariance, <1>1, PTL
-----------------------------------------------------------------------------
(* Uses are lost only to an overlap.                                       *)

Job == [step : {"rest", "use"} \union Loaded, uses : SUBSET Skills,
        copy : Usages, todo : SUBSET Skills, behind : SUBSET Skills]

Noted(u, s) == u.entries[s].last = "recent"

\* A use within the period is in the usage file unless the file has lost it, and in
\* every copy that is going to be saved unless the copy has missed it; no eviction
\* has judged unused a skill whose use is in its copy.
UseInv ==
    \A s \in used :
        /\ written = "whole" /\ s \notin lost => Noted(usage, s)
        /\ \A a \in Agents :
              /\ job[a].step \in Loaded /\ s \notin job[a].behind => Noted(job[a].copy, s)
              /\ job[a].step = "evict" /\ s \in job[a].todo => s \in job[a].behind

\* A use that is going to be saved is in the copy; an eviction records none.
CopyInv ==
    \A a \in Agents :
        /\ \A s, t \in job[a].uses : s = t
        /\ job[a].step \in {"list", "evict"} => job[a].uses = {}
        /\ job[a].step \in {"save", "write"} => \A s \in job[a].uses : Noted(job[a].copy, s)

LEMMA NoUsageType == NoUsage \in Usages /\ Idle \in Job
<1>1. 0 \in 0 .. MinUses
  BY UsageAssumption
<1>2. NoUsage \in Usages
  BY <1>1 DEF NoUsage, NoUse, Usages, Uses
<1>3. QED
  BY <1>2 DEF Idle, Job

LEMMA UsedType ==
    ASSUME NEW u \in Usages, NEW s \in Skills
    PROVE  Used(u, s) \in Usages
<1>1. u.entries \in [Skills -> Uses] /\ u.entries[s].uses \in 0 .. MinUses
  BY DEF Usages, Uses
<1> DEFINE n == IF u.entries[s].uses < MinUses THEN u.entries[s].uses + 1 ELSE MinUses
<1>2. n \in 0 .. MinUses
  BY <1>1, UsageAssumption
<1>3. [uses |-> n, last |-> "recent"] \in Uses
  BY <1>2 DEF Uses
<1>4. QED
  BY <1>3 DEF Used, Usages

LEMMA EntryType ==
    ASSUME NEW u \in Usages, NEW s \in Skills
    PROVE  Entry(u, s) \in Uses
BY DEF Entry, Usages, Uses

\* UsageTypeOK in the words used here.
LEMMA UsageTyped ==
    UsageTypeOK <=>
        /\ file \subseteq Skills /\ generated \subseteq Skills /\ young \subseteq Skills
        /\ used \subseteq Skills /\ lost \subseteq Skills
        /\ usage \in Usages /\ written \in {"whole", "empty", "broken"}
        /\ job \in [Agents -> Job] /\ periods \in 0 .. MaxPeriods
BY DEF UsageTypeOK, Job

LEMMA UsageTypedNext ==
    UsageTypeOK' <=>
        /\ file' \subseteq Skills /\ generated' \subseteq Skills /\ young' \subseteq Skills
        /\ used' \subseteq Skills /\ lost' \subseteq Skills
        /\ usage' \in Usages /\ written' \in {"whole", "empty", "broken"}
        /\ job' \in [Agents -> Job] /\ periods' \in 0 .. MaxPeriods
BY DEF UsageTypeOK, Job

LEMMA UsageInitInv == UsageInit => UsageTypeOK /\ UseInv /\ CopyInv
<1> SUFFICES ASSUME UsageInit PROVE UsageTypeOK /\ UseInv /\ CopyInv
  OBVIOUS
<1>1. usage \in Usages
  <2>1. NoUse \in Uses /\ [uses |-> 1, last |-> "old"] \in Uses
    BY UsageAssumption DEF NoUse, Uses
  <2>2. QED
    BY <2>1, NoUsageType DEF UsageInit, Usages
<1>2. job \in [Agents -> Job]
  BY NoUsageType DEF UsageInit
<1>3. 0 \in 0 .. MaxPeriods
  BY UsageAssumption
<1>4. UsageTypeOK
  BY <1>1, <1>2, <1>3, UsageTyped, UsageAssumption DEF UsageInit
<1>5. UseInv /\ CopyInv
  BY DEF UsageInit, UseInv, CopyInv, Idle
<1>6. QED
  BY <1>4, <1>5

LEMMA UsageNextType == UsageTypeOK /\ [UsageNext]_usageVars => UsageTypeOK'
<1> SUFFICES ASSUME UsageTypeOK, [UsageNext]_usageVars PROVE UsageTypeOK'
  OBVIOUS
<1> USE UsageTyped, UsageTypedNext
<1>1. ASSUME NEW a \in Agents, NEW s \in Skills, Choose(a, s) PROVE UsageTypeOK'
  <2>1. [Idle EXCEPT !.step = "use", !.uses = {s}] \in Job
    BY NoUsageType DEF Job
  <2>2. QED
    BY <1>1, <2>1 DEF Choose
<1>2. ASSUME NEW a \in Agents, NEW s \in Skills, CountUse(a, s) PROVE UsageTypeOK'
  <2>1. Used(usage, s) \in Usages /\ BehindNow \in SUBSET Skills
    BY UsedType DEF BehindNow
  <2>2. job' \in [Agents -> Job]
    <3>1. [job[a] EXCEPT !.step = "save", !.behind = BehindNow, !.copy = Used(usage, s)] \in Job
      BY <2>1 DEF Job, Loaded
    <3>2. QED
      BY <1>2, <3>1 DEF CountUse
  <2>3. QED
    BY <1>2, <2>2 DEF CountUse
<1>3. ASSUME NEW a \in Agents, LoadForEvict(a) PROVE UsageTypeOK'
  <2>1. [usage EXCEPT !.checked = TRUE] \in Usages /\ BehindNow \in SUBSET Skills
    BY DEF Usages, BehindNow
  <2>2. job' \in [Agents -> Job]
    BY <1>3, <2>1, NoUsageType DEF LoadForEvict, Job, Loaded
  <2>3. QED
    BY <1>3, <2>2 DEF LoadForEvict
<1>4. ASSUME NEW a \in Agents, List(a) PROVE UsageTypeOK'
  <2> DEFINE copy == [job[a].copy EXCEPT !.entries =
                        [s \in Skills |-> IF s \in generated THEN Entry(job[a].copy, s) ELSE @[s]]]
  <2>1. job[a] \in Job /\ job[a].copy \in Usages
    BY DEF Job
  <2>2. copy \in Usages
    BY <2>1, EntryType DEF Usages
  <2>3. {s \in generated : Unused(copy, s)} \subseteq Skills
    OBVIOUS
  <2> HIDE DEF copy
  <2>4. job' \in [Agents -> Job]
    <3>1. [job[a] EXCEPT !.step = "evict", !.copy = copy,
                         !.todo = {s \in generated : Unused(copy, s)}] \in Job
      BY <2>1, <2>2, <2>3 DEF Job, Loaded
    <3>2. job' = IF file = {} THEN [job EXCEPT ![a] = Idle]
                 ELSE [job EXCEPT ![a].step = "evict", ![a].copy = copy,
                                  ![a].todo = {s \in generated : Unused(copy, s)}]
      BY <1>4 DEF List, copy
    <3>3. QED
      BY <3>1, <3>2, NoUsageType
  <2>5. QED
    BY <1>4, <2>4 DEF List
<1>5. ASSUME NEW a \in Agents, NEW s \in Skills, EvictSkill(a, s) PROVE UsageTypeOK'
  <2>1. job[a] \in Job /\ job[a].copy \in Usages /\ NoUse \in Uses
    BY UsageAssumption DEF Job, NoUse, Uses
  <2>2. [job[a].copy EXCEPT !.entries[s] = NoUse] \in Usages
    BY <2>1 DEF Usages
  <2>3. [job[a] EXCEPT !.todo = @ \ {s}, !.copy = [job[a].copy EXCEPT !.entries[s] = NoUse]] \in Job
    BY <2>1, <2>2 DEF Job
  <2>4. job' \in [Agents -> Job]
    BY <1>5, <2>3 DEF EvictSkill
  <2>5. QED
    BY <1>5, <2>4 DEF EvictSkill, RemoveFile
<1>6. ASSUME NEW a \in Agents, Truncate(a) PROVE UsageTypeOK'
  <2>1. job' \in [Agents -> Job]
    BY <1>6 DEF Truncate, Job, Loaded
  <2>2. QED
    BY <1>6, <2>1, NoUsageType DEF Truncate
<1>7. ASSUME NEW a \in Agents, Write(a) PROVE UsageTypeOK'
  <2>1. job[a] \in Job
    OBVIOUS
  <2>2. ASSUME NEW b \in Agents PROVE [job[b] EXCEPT !.behind = @ \union job[a].uses] \in Job
    BY <2>1 DEF Job
  <2>3. job' \in [Agents -> Job]
    BY <1>7, <2>2, NoUsageType DEF Write
  <2>4. usage' \in Usages /\ used' \subseteq Skills /\ lost' \subseteq Skills
    BY <1>7, <2>1 DEF Write, Job
  <2>5. QED
    BY <1>7, <2>3, <2>4 DEF Write
<1>8. ASSUME NEW a \in Agents, GiveUp(a) PROVE UsageTypeOK'
  BY <1>8, NoUsageType DEF GiveUp
<1>9. ASSUME NEW s \in Skills, ReviewWrites(s) PROVE UsageTypeOK'
  BY <1>9 DEF ReviewWrites, PutFile
<1>10. CASE PeriodPasses
  <2>1. ASSUME NEW s \in Skills
        PROVE  [usage.entries[s] EXCEPT !.last = IF @ = "recent" THEN "old" ELSE @] \in Uses
    BY DEF Usages, Uses
  <2>2. usage' \in Usages
    BY <1>10, <2>1 DEF PeriodPasses, Usages
  <2>3. periods' \in 0 .. MaxPeriods
    BY <1>10, UsageAssumption DEF PeriodPasses
  <2>4. QED
    BY <1>10, <2>2, <2>3 DEF PeriodPasses
<1>11. CASE UNCHANGED usageVars
  BY <1>11 DEF usageVars
<1>12. QED
  BY <1>1, <1>2, <1>3, <1>4, <1>5, <1>6, <1>7, <1>8, <1>9, <1>10, <1>11 DEF UsageNext

\* A use that is being counted is in the copy.
LEMMA UsedNotes ==
    ASSUME NEW u \in Usages, NEW s \in Skills, NEW t \in Skills
    PROVE  /\ Noted(Used(u, s), s)
           /\ Noted(u, t) => Noted(Used(u, s), t)
BY DEF Used, Usages, Noted

\* A copy for which the two invariants hold.
CopyOK(j) ==
    /\ \A s, t \in j.uses : s = t
    /\ j.step \in {"list", "evict"} => j.uses = {}
    /\ j.step \in {"save", "write"} => \A s \in j.uses : Noted(j.copy, s)

UsesOK(j, recorded) ==
    \A s \in recorded :
        /\ j.step \in Loaded /\ s \notin j.behind => Noted(j.copy, s)
        /\ j.step = "evict" /\ s \in j.todo => s \in j.behind

LEMMA Split ==
    /\ CopyInv <=> \A a \in Agents : CopyOK(job[a])
    /\ UseInv <=> /\ written = "whole" => \A s \in used \ lost : Noted(usage, s)
                  /\ \A a \in Agents : UsesOK(job[a], used)
BY DEF CopyInv, CopyOK, UseInv, UsesOK

LEMMA SplitNext ==
    /\ CopyInv' <=> \A a \in Agents : CopyOK(job'[a])
    /\ UseInv' <=> /\ written' = "whole" => \A s \in used' \ lost' : Noted(usage', s)
                   /\ \A a \in Agents : UsesOK(job'[a], used')
BY DEF CopyInv, CopyOK, UseInv, UsesOK, Noted

LEMMA IdleOK == CopyOK(Idle) /\ \A recorded : UsesOK(Idle, recorded)
BY DEF CopyOK, UsesOK, Idle, Loaded

LEMMA NextUse ==
    UsageTypeOK /\ CopyInv /\ UseInv /\ [UsageNext]_usageVars => CopyInv' /\ UseInv'
<1> SUFFICES ASSUME UsageTypeOK, CopyInv, UseInv, [UsageNext]_usageVars PROVE CopyInv' /\ UseInv'
  OBVIOUS
<1>a. /\ job \in [Agents -> Job] /\ usage \in Usages
      /\ used \subseteq Skills /\ lost \subseteq Skills
  BY UsageTyped
<1>b. /\ \A a \in Agents : CopyOK(job[a]) /\ UsesOK(job[a], used)
      /\ written = "whole" => \A s \in used \ lost : Noted(usage, s)
  BY Split
<1>c. ASSUME UNCHANGED <<usage, written, used, lost>>, NEW a \in Agents, NEW j,
             job' = [job EXCEPT ![a] = j], CopyOK(j), UsesOK(j, used)
      PROVE  CopyInv' /\ UseInv'
  <2>1. \A b \in Agents : job'[b] = IF b = a THEN j ELSE job[b]
    BY <1>a, <1>c
  <2>2. QED
    BY <1>b, <1>c, <2>1, SplitNext
<1>1. ASSUME NEW a \in Agents, NEW s \in Skills, Choose(a, s) PROVE CopyInv' /\ UseInv'
  <2> DEFINE j == [Idle EXCEPT !.step = "use", !.uses = {s}]
  <2>1. CopyOK(j) /\ UsesOK(j, used)
    BY DEF Idle, CopyOK, UsesOK, Loaded
  <2>2. QED
    BY <1>1, <1>c, <2>1 DEF Choose
<1>2. ASSUME NEW a \in Agents, NEW s \in Skills, CountUse(a, s) PROVE CopyInv' /\ UseInv'
  <2> DEFINE j == [job[a] EXCEPT !.step = "save", !.behind = BehindNow, !.copy = Used(usage, s)]
  <2>1. /\ j.step = "save" /\ j.behind = BehindNow /\ j.copy = Used(usage, s)
        /\ j.uses = job[a].uses
    BY <1>a DEF Job
  <2>2. \A t \in j.uses : t = s
    BY <1>b, <1>2, <2>1 DEF CopyOK, CountUse
  <2>3. CopyOK(j)
    BY <1>a, <2>1, <2>2, UsedNotes DEF CopyOK
  <2>4. \A t \in used \ BehindNow : Noted(Used(usage, s), t)
    BY <1>a, <1>b, UsedNotes DEF BehindNow
  <2>5. UsesOK(j, used)
    BY <2>1, <2>4 DEF UsesOK
  <2>6. job' = [job EXCEPT ![a] = j]
    BY <1>2, <1>a DEF CountUse
  <2>7. QED
    BY <1>2, <1>c, <2>3, <2>5, <2>6 DEF CountUse
<1>3. ASSUME NEW a \in Agents, LoadForEvict(a) PROVE CopyInv' /\ UseInv'
  <2> DEFINE j == [Idle EXCEPT !.step = "list", !.behind = BehindNow,
                               !.copy = [usage EXCEPT !.checked = TRUE]]
  <2>1. /\ j.step = "list" /\ j.behind = BehindNow /\ j.uses = {} /\ j.todo = {}
        /\ j.copy.entries = usage.entries
    BY <1>a DEF Idle, Usages
  <2>2. CopyOK(j)
    BY <2>1 DEF CopyOK
  <2>3. \A t \in used \ BehindNow : Noted(j.copy, t)
    BY <1>b, <2>1 DEF BehindNow, Noted
  <2>4. UsesOK(j, used)
    BY <2>1, <2>3 DEF UsesOK
  <2>5. job' = [job EXCEPT ![a] = j]
    BY <1>3 DEF LoadForEvict
  <2>6. QED
    BY <1>3, <1>c, <2>2, <2>4, <2>5 DEF LoadForEvict
<1>4. ASSUME NEW a \in Agents, List(a) PROVE CopyInv' /\ UseInv'
  <2> DEFINE copy == [job[a].copy EXCEPT !.entries =
                        [s \in Skills |-> IF s \in generated THEN Entry(job[a].copy, s) ELSE @[s]]]
             todo == {s \in generated : Unused(copy, s)}
             j == [job[a] EXCEPT !.step = "evict", !.copy = copy, !.todo = todo]
  <2>1. job[a] \in Job /\ job[a].copy \in Usages /\ job[a].step = "list"
    BY <1>4, <1>a DEF Job, List
  <2>2. \A t \in Skills : Noted(job[a].copy, t) => Noted(copy, t)
    BY <2>1 DEF Usages, Noted, Entry
  <2>3. \A t \in todo : ~Noted(copy, t)
    BY DEF Unused, Noted
  <2>4. /\ j.step = "evict" /\ j.copy = copy /\ j.todo = todo
        /\ j.uses = job[a].uses /\ j.behind = job[a].behind
    BY <2>1 DEF Job
  <2>5. job' = IF file = {} THEN [job EXCEPT ![a] = Idle] ELSE [job EXCEPT ![a] = j]
    BY <1>4, <1>a DEF List
  <2> HIDE DEF copy, todo, j
  <2>6. CopyOK(j)
    BY <1>b, <2>1, <2>4 DEF CopyOK
  <2>7. \A t \in used : t \notin j.behind => Noted(copy, t)
    BY <1>a, <1>b, <2>1, <2>2, <2>4 DEF UsesOK, Loaded
  <2>8. UsesOK(j, used)
    BY <2>3, <2>4, <2>7 DEF UsesOK
  <2>9. QED
    BY <1>4, <1>c, <2>5, <2>6, <2>8, IdleOK DEF List
<1>5. ASSUME NEW a \in Agents, NEW s \in Skills, EvictSkill(a, s) PROVE CopyInv' /\ UseInv'
  <2> DEFINE j == [job[a] EXCEPT !.todo = @ \ {s}, !.copy = [job[a].copy EXCEPT !.entries[s] = NoUse]]
  <2>1. job[a] \in Job /\ job[a].copy \in Usages /\ job[a].step = "evict"
    BY <1>5, <1>a DEF Job, EvictSkill
  <2>2. /\ j.step = "evict" /\ j.todo = job[a].todo \ {s}
        /\ j.uses = job[a].uses /\ j.behind = job[a].behind
    BY <2>1 DEF Job
  <2>3. \A t \in Skills \ {s} : Noted(job[a].copy, t) => Noted(j.copy, t)
    BY <2>1 DEF Job, Usages, Noted
  <2>4. job' = [job EXCEPT ![a] = j]
    BY <1>5, <1>a DEF EvictSkill
  <2> HIDE DEF j
  <2>5. CopyOK(j)
    BY <1>b, <2>1, <2>2 DEF CopyOK
  <2>6. used' = used \ {s} /\ lost' = lost \ {s} /\ UNCHANGED <<usage, written>>
    BY <1>5 DEF EvictSkill
  <2>7. UsesOK(j, used')
    BY <1>a, <1>b, <2>1, <2>2, <2>3, <2>6 DEF UsesOK, Loaded
  <2>8. \A b \in Agents : UsesOK(job[b], used')
    BY <1>b, <2>6 DEF UsesOK
  <2>9. \A b \in Agents : job'[b] = IF b = a THEN j ELSE job[b]
    BY <1>a, <2>4
  <2>10. QED
    BY <1>b, <2>5, <2>6, <2>7, <2>8, <2>9, SplitNext
<1>6. ASSUME NEW a \in Agents, Truncate(a) PROVE CopyInv' /\ UseInv'
  <2> DEFINE j == [job[a] EXCEPT !.step = "write"]
  <2>1. /\ job[a].step \in {"save", "evict"} /\ j.step = "write"
        /\ j.uses = job[a].uses /\ j.behind = job[a].behind /\ j.copy = job[a].copy
    BY <1>6, <1>a DEF Truncate, Job
  <2>2. \A b \in Agents : job'[b] = IF b = a THEN j ELSE job[b]
    BY <1>6, <1>a DEF Truncate
  <2> HIDE DEF j
  <2>3. CopyOK(j) /\ UsesOK(j, used)
    BY <1>b, <2>1 DEF CopyOK, UsesOK, Loaded
  <2>4. written' = "empty" /\ used' = used
    BY <1>6 DEF Truncate
  <2>5. QED
    BY <1>b, <2>2, <2>3, <2>4, SplitNext
<1>7. ASSUME NEW a \in Agents, Write(a) PROVE CopyInv' /\ UseInv'
  <2>1. job[a].step = "write" /\ usage' = job[a].copy /\ used' = used \union job[a].uses
        /\ lost' = (job[a].behind \intersect used) \ job[a].uses
    BY <1>7 DEF Write
  <2>2. \A t \in used' \ lost' : Noted(usage', t)
    BY <1>b, <2>1 DEF CopyOK, UsesOK, Loaded
  <2>3. ASSUME NEW b \in Agents PROVE CopyOK(job'[b]) /\ UsesOK(job'[b], used')
    <3>1. CASE b = a
      BY <1>7, <3>1, IdleOK DEF Write
    <3>2. CASE b # a /\ job[b].step \in Loaded
      <4>1. job'[b] = [job[b] EXCEPT !.behind = @ \union job[a].uses]
        BY <1>7, <3>2 DEF Write
      <4>2. /\ job'[b].step = job[b].step /\ job'[b].uses = job[b].uses
            /\ job'[b].copy = job[b].copy /\ job'[b].todo = job[b].todo
            /\ job'[b].behind = job[b].behind \union job[a].uses
        BY <1>a, <4>1 DEF Job
      <4>3. QED
        BY <1>b, <2>1, <4>2 DEF CopyOK, UsesOK
    <3>3. CASE b # a /\ job[b].step \notin Loaded
      <4>1. job'[b] = job[b]
        BY <1>7, <3>3 DEF Write
      <4>2. QED
        BY <1>b, <3>3, <4>1 DEF CopyOK, UsesOK, Loaded
    <3>4. QED
      BY <3>1, <3>2, <3>3
  <2>4. QED
    BY <2>2, <2>3, SplitNext
<1>8. ASSUME NEW a \in Agents, GiveUp(a) PROVE CopyInv' /\ UseInv'
  <2>1. \A b \in Agents : job'[b] = IF b = a THEN Idle ELSE job[b]
    BY <1>8, <1>a DEF GiveUp
  <2>2. written' \in {written, "broken"} /\ UNCHANGED <<usage, used, lost>>
    BY <1>8 DEF GiveUp
  <2>3. QED
    BY <1>b, <2>1, <2>2, IdleOK, SplitNext
<1>9. ASSUME NEW s \in Skills, ReviewWrites(s) PROVE CopyInv' /\ UseInv'
  BY <1>9, <1>b, SplitNext DEF ReviewWrites
<1>10. CASE PeriodPasses
  <2>1. used' = {} /\ job' = job
    BY <1>10 DEF PeriodPasses
  <2>2. \A b \in Agents : UsesOK(job[b], {})
    BY DEF UsesOK
  <2>3. QED
    BY <1>b, <2>1, <2>2, SplitNext
<1>11. CASE UNCHANGED usageVars
  BY <1>11, <1>b, SplitNext DEF usageVars
<1>12. QED
  BY <1>1, <1>2, <1>3, <1>4, <1>5, <1>6, <1>7, <1>8, <1>9, <1>10, <1>11 DEF UsageNext

THEOREM UsageInvariance == UsageSpec => [](UsageTypeOK /\ CopyInv /\ UseInv)
<1>1. UsageTypeOK /\ CopyInv /\ UseInv /\ [UsageNext]_usageVars => (UsageTypeOK /\ CopyInv /\ UseInv)'
  BY UsageNextType, NextUse
<1>2. QED
  BY UsageInitInv, <1>1, PTL DEF UsageSpec

\* One step from a state of the invariant removes a used skill only behind its use.
LEMMA StepKeepsUsed ==
    UseInv /\ [UsageNext]_usageVars =>
        [\A s \in (used \intersect file) \ file' :
            \E a \in Agents : job[a].step = "evict" /\ s \in job[a].todo \intersect job[a].behind]_usageVars
<1> SUFFICES ASSUME UseInv, UsageNext, NEW s \in (used \intersect file) \ file'
             PROVE  \E a \in Agents : job[a].step = "evict" /\ s \in job[a].todo \intersect job[a].behind
  OBVIOUS
<1>1. PICK a \in Agents, t \in Skills : EvictSkill(a, t)
  <2>1. ASSUME NEW b \in Agents, LoadForEvict(b) \/ List(b) \/ Truncate(b) \/ Write(b) \/ GiveUp(b)
        PROVE  FALSE
    BY <2>1 DEF LoadForEvict, List, Truncate, Write, GiveUp
  <2>2. ASSUME NEW b \in Agents, NEW u \in Skills, Choose(b, u) \/ CountUse(b, u) PROVE FALSE
    BY <2>2 DEF Choose, CountUse
  <2>3. ASSUME NEW u \in Skills, ReviewWrites(u) PROVE FALSE
    BY <2>3 DEF ReviewWrites, PutFile
  <2>4. ~PeriodPasses
    BY DEF PeriodPasses
  <2>5. QED
    BY <2>1, <2>2, <2>3, <2>4 DEF UsageNext
<1>2. s = t /\ job[a].step = "evict" /\ t \in job[a].todo
  BY <1>1 DEF EvictSkill, RemoveFile
<1>3. QED
  BY <1>2 DEF UseInv

\* An eviction takes a used skill only when its copy of the usage file has missed
\* the use, whoever reads and writes that file at the same time.
THEOREM UsesAreKept == UsageSpec => UsedSkillsStay
<1>1. UseInv /\ [UsageNext]_usageVars =>
        [\A s \in (used \intersect file) \ file' :
            \E a \in Agents : job[a].step = "evict" /\ s \in job[a].todo \intersect job[a].behind]_usageVars
  BY StepKeepsUsed
<1>2. QED
  BY UsageInvariance, <1>1, PTL DEF UsageSpec, UsedSkillsStay
=============================================================================
