------------------------------ MODULE ToolBatch ------------------------------
(***************************************************************************)
(* One call of ExecuteTools (agent.go): the calls are prepared one by one, *)
(* cut into batches and executed, each by executePreparedToolIntoResult    *)
(* with its hooks (hooks.go), its file tool (tool/edit.go, tool/write.go), *)
(* its attribution and its diff.  The scheduler of a streaming turn is     *)
(* ToolScheduler; it executes a call in the same way.                      *)
(*                                                                         *)
(* Every call is an edit or a write, the calls that share state; the text  *)
(* of a file and what a tool does to it are those of Edits.  Preparation   *)
(* decides how a call is scheduled: Permissions.                           *)
(***************************************************************************)
EXTENDS Edits, FiniteSets

CONSTANTS
    N,            \* number of calls
    MaxParallel,  \* maxParallel, as given or by default
    Inputs,       \* what the model may ask for: inputs of edit and of write
    Hooks,        \* the PreToolUse hooks of edit in the order of the settings
    Files,        \* initial content of each file that is named, Absent when there is none
    NoInput,      \* a hook's answer that updates nothing
    NoPath,       \* what is found in an input without a path under the keys looked up
    MaxFaults     \* bound of the model: files that the disk refuses or cuts short

ASSUME BatchAssumption ==
    /\ N \in Nat /\ MaxFaults \in Nat /\ MaxParallel \in Nat \ {0}
    /\ NoInput \notin Inputs /\ NoPath \notin DOMAIN Files
    /\ \A h \in DOMAIN Hooks : Hooks[h].parallel \in BOOLEAN
    /\ \A in \in Inputs \union {Hooks[h].update : h \in DOMAIN Hooks} :
          \A k \in DOMAIN in.names : in.names[k] \in DOMAIN Files

Calls == 1 .. N
Paths == DOMAIN Files
Steps == {"idle", "hooks", "call", "truncate", "fill", "called", "done", "cancelled"}
Ended == {"done", "cancelled"}

VARIABLES
    pc,         \* ExecuteTools: "prepare", "batches" or "returned"
    n,          \* calls prepared
    kind,       \* how each call is scheduled: "none", "safe", "serial", "bad"
    input,      \* prepared.input
    step,       \* where executePreparedToolIntoResult is
    hooksLeft,  \* batches of hooks that have not finished
    updated,    \* result.UpdatedInput, merged so far
    before,     \* the snapshot the diff starts from
    text,       \* what the tool is going to write
    isError,    \* results[i].IsError
    shown,      \* the diff shown, an empty one when none is
    file,       \* the files
    attribution,\* paths recorded in agent.attribution
    torn,       \* history: files a write that failed left cut short
    unopened,   \* history: calls whose file could not be read or opened
    cancelled   \* the context of the run is done

prepared == <<n, kind>>
hooks == <<hooksLeft, updated>>
outcome == <<isError, shown, attribution>>
disk == <<file, torn, unopened>>
vars == <<pc, prepared, input, step, hooks, before, text, outcome, disk, cancelled>>

Init ==
    /\ pc = "prepare" /\ n = 0 /\ cancelled = FALSE /\ torn = {} /\ unopened = {}
    /\ kind = [i \in Calls |-> "none"]
    /\ input \in [Calls -> Inputs]
    /\ step = [i \in Calls |-> "idle"]
    /\ hooksLeft = [i \in Calls |-> <<>>]
    /\ updated = [i \in Calls |-> NoInput]
    /\ before = [i \in Calls |-> Absent]
    /\ text = [i \in Calls |-> <<>>]
    /\ isError = [i \in Calls |-> FALSE]
    /\ shown = [i \in Calls |-> <<>>]
    /\ file = Files
    /\ attribution = {}

IsEdit(i) == "mode" \in DOMAIN input[i]

\* The file that the tool works on: edit looks up two keys, write one ...
ToolPath(in) ==
    IF "filePath" \in DOMAIN in.names THEN in.names["filePath"]
    ELSE IF "mode" \in DOMAIN in /\ "file_path" \in DOMAIN in.names
         THEN in.names["file_path"]
    ELSE NoPath

\* ... and the file that is recorded and of which a diff is made.
ShownPath(in) ==
    IF "path" \in DOMAIN in.names THEN in.names["path"]
    ELSE IF "file_path" \in DOMAIN in.names THEN in.names["file_path"]
    ELSE IF "filePath" \in DOMAIN in.names THEN in.names["filePath"]
    ELSE NoPath

Misnamed(in) == ToolPath(in) # ShownPath(in)
-----------------------------------------------------------------------------
(* Preparation and batches.                                                *)

\* prepareToolExecution of the next call: refused, or prepared.
Prepare(k) ==
    /\ pc = "prepare" /\ n < N
    /\ n' = n + 1
    /\ kind' = [kind EXCEPT ![n'] = k]
    /\ isError' = [isError EXCEPT ![n'] = (k = "bad")]
    /\ UNCHANGED <<pc, input, step, hooks, before, text, shown, attribution, disk, cancelled>>

BuildBatches ==
    /\ pc = "prepare" /\ n = N
    /\ pc' = "batches"
    /\ UNCHANGED <<prepared, input, step, hooks, before, text, outcome, disk, cancelled>>

\* Mutant: two calls between which there is a refused one share a batch.
BatchOver(i) ==
    IF kind[i] # "safe" THEN {i}
    ELSE {j \in Calls : \A k \in (i .. j) \union (j .. i) : kind[k] # "serial"}

\* buildToolExecutionBatches: the calls that are executed with i.
Batch(i) ==
    IF kind[i] # "safe" THEN {i}
    ELSE {j \in Calls : \A k \in (i .. j) \union (j .. i) : kind[k] = "safe"}

Running == {i \in Calls : step[i] \notin Ended \union {"idle"}}

\* Mutant: a batch does not wait for the one before it.
MayBeginEarly(i) == TRUE

\* The batch of i is being executed: those before it have ended.
MayBegin(i) == \A j \in Calls : j < Min(Batch(i)) => step[j] \in Ended

\* executePreparedToolBatch: how many goroutines get a slot; one alone, or with
\* maxParallel 1, is executed without any.
Slots(i) == Min({MaxParallel, Cardinality(Batch(i))})

\* captureFileSnapshot, which takes a file it cannot read for an empty one.
Snapshot(in) == IF ShownPath(in) = NoPath THEN Absent ELSE file[ShownPath(in)]

\* HookManager.Run's batches: runs of parallel hooks, and sequential ones alone.
HookBatches ==
    FoldLeftDomain(
        LAMBDA batches, h :
            IF Hooks[h].parallel /\ h > 1 /\ Hooks[h - 1].parallel
            THEN Front(batches) \o <<Last(batches) \union {h}>>
            ELSE Append(batches, {h}),
        <<>>, Hooks)

\* runHooks: the hooks that match the tool's name; here those of edit.
HooksOf(i) == IF IsEdit(i) THEN HookBatches ELSE <<>>

\* A call that was refused is passed over.
PassOver(i) ==
    /\ pc = "batches" /\ step[i] = "idle" /\ kind[i] = "bad"
    /\ MayBegin(i)
    /\ step' = [step EXCEPT ![i] = "done"]
    /\ UNCHANGED <<pc, prepared, input, hooks, before, text, outcome, disk, cancelled>>

\* executePreparedToolIntoResult begins, in a goroutine with a slot or in line.
Begin(i) ==
    /\ pc = "batches" /\ step[i] = "idle" /\ kind[i] \in {"safe", "serial"}
    /\ MayBegin(i)
    /\ Cardinality(Running) < Slots(i)
    /\ Slots(i) = 1 => \A j \in Batch(i) : j < i => step[j] \in Ended
    /\ step' = [step EXCEPT ![i] = "hooks"]
    /\ hooksLeft' = [hooksLeft EXCEPT ![i] = HooksOf(i)]
    /\ before' = [before EXCEPT ![i] = Snapshot(input[i])]
    /\ UNCHANGED <<pc, prepared, input, updated, text, outcome, disk, cancelled>>

\* A goroutine without a slot sees that the context is done.
SeeCancel(i) ==
    /\ pc = "batches" /\ step[i] = "idle" /\ kind[i] = "safe"
    /\ MayBegin(i) /\ Slots(i) > 1
    /\ cancelled
    /\ step' = [step EXCEPT ![i] = "cancelled"]
    /\ isError' = [isError EXCEPT ![i] = TRUE]
    /\ UNCHANGED <<pc, prepared, input, hooks, before, text, shown, attribution, disk, cancelled>>

Return ==
    /\ pc = "batches"
    /\ \A i \in Calls : step[i] \in Ended
    /\ pc' = "returned"
    /\ UNCHANGED <<prepared, input, step, hooks, before, text, outcome, disk, cancelled>>
-----------------------------------------------------------------------------
(* One call (executePreparedToolIntoResult).                               *)

\* runHook: an HTTP, shell or function hook updates the input or does not; one
\* that fails or times out may have answered before.
Answers(h) == {NoInput, Hooks[h].update}

\* merge: the last update wins.
Merge(result, other) == IF other = NoInput THEN result ELSE other

\* A hook of the first batch left ends; the results are merged in this order.
HookEnds(i, h) ==
    /\ step[i] = "hooks" /\ hooksLeft[i] # <<>>
    /\ h \in Head(hooksLeft[i])
    /\ hooksLeft' = [hooksLeft EXCEPT ![i] =
                        IF Head(@) = {h} THEN Tail(@) ELSE <<Head(@) \ {h}>> \o Tail(@)]
    /\ \E u \in Answers(h) : updated' = [updated EXCEPT ![i] = Merge(@, u)]
    /\ UNCHANGED <<pc, prepared, input, step, before, text, outcome, disk, cancelled>>

\* Mutant: the snapshot of the input that was asked for is kept.
UseInputKeepingSnapshot(i) ==
    /\ step[i] = "hooks" /\ hooksLeft[i] = <<>>
    /\ step' = [step EXCEPT ![i] = "call"]
    /\ IF updated[i] = NoInput THEN UNCHANGED input
       ELSE input' = [input EXCEPT ![i] = updated[i]]
    /\ updated' = [updated EXCEPT ![i] = NoInput]
    /\ UNCHANGED <<pc, prepared, hooksLeft, before, text, outcome, disk, cancelled>>

\* The hooks are done: an updated input replaces the one that was checked.
UseInput(i) ==
    /\ step[i] = "hooks" /\ hooksLeft[i] = <<>>
    /\ step' = [step EXCEPT ![i] = "call"]
    /\ IF updated[i] = NoInput THEN UNCHANGED <<input, before>>
       ELSE /\ input' = [input EXCEPT ![i] = updated[i]]
            /\ before' = [before EXCEPT ![i] = Snapshot(updated[i])]
    /\ updated' = [updated EXCEPT ![i] = NoInput]
    /\ UNCHANGED <<pc, prepared, hooksLeft, text, outcome, disk, cancelled>>

\* The tool refuses the input, or the disk refuses the file.
ToolFails(i) ==
    /\ step' = [step EXCEPT ![i] = "called"]
    /\ isError' = [isError EXCEPT ![i] = TRUE]
    /\ UNCHANGED <<text, file>>
DiskFails(i) ==
    /\ Cardinality(torn) + Cardinality(unopened) < MaxFaults
    /\ unopened' = unopened \union {i}
    /\ ToolFails(i)

\* callPreparedTool: neither tool takes the context, so a cancelled run does not
\* stop it.  An edit reads the file; what it will write is settled here.
EditReads(i) ==
    /\ step[i] = "call" /\ IsEdit(i)
    /\ LET p == ToolPath(input[i])
           refused == p = NoPath \/ EditRefused(file[p], input[i])
       IN \/ refused /\ ToolFails(i) /\ UNCHANGED unopened
          \/ ~refused /\ DiskFails(i)
          \/ /\ ~refused
             /\ step' = [step EXCEPT ![i] = "truncate"]
             /\ text' = [text EXCEPT ![i] = Edited(file[p].text, input[i])]
             /\ UNCHANGED <<isError, file, unopened>>
    /\ UNCHANGED <<pc, prepared, input, hooks, before, shown, attribution, torn, cancelled>>

WriteBegins(i) ==
    /\ step[i] = "call" /\ ~IsEdit(i)
    /\ \/ ToolPath(input[i]) = NoPath /\ ToolFails(i)
       \/ /\ ToolPath(input[i]) # NoPath
          /\ step' = [step EXCEPT ![i] = "truncate"]
          /\ text' = [text EXCEPT ![i] = input[i].new]
          /\ UNCHANGED <<isError, file>>
    /\ UNCHANGED <<pc, prepared, input, hooks, before, shown, attribution, torn, unopened, cancelled>>

\* The file is opened and emptied; with O_EXCL it must not be there.  A directory
\* that cannot be made and a file that cannot be opened are one error.
Truncate(i) ==
    /\ step[i] = "truncate"
    /\ LET p == ToolPath(input[i])
           refused == ~IsEdit(i) /\ WriteRefused(file[p], input[i])
       IN \/ refused /\ ToolFails(i) /\ UNCHANGED unopened
          \/ DiskFails(i)
          \/ /\ ~refused
             /\ step' = [step EXCEPT ![i] = "fill"]
             /\ file' = [file EXCEPT ![p] = FileOf(<<>>)]
             /\ UNCHANGED <<text, isError, unopened>>
    /\ UNCHANGED <<pc, prepared, input, hooks, before, shown, attribution, torn, cancelled>>

\* A write that fails leaves the file empty, or whatever part of it was written.
Fill(i) ==
    /\ step[i] = "fill"
    /\ step' = [step EXCEPT ![i] = "called"]
    /\ text' = [text EXCEPT ![i] = <<>>]
    /\ \/ /\ file' = [file EXCEPT ![ToolPath(input[i])] = FileOf(text[i])]
          /\ UNCHANGED <<isError, torn>>
       \/ /\ Cardinality(torn) + Cardinality(unopened) < MaxFaults
          /\ isError' = [isError EXCEPT ![i] = TRUE]
          /\ torn' = torn \union {ToolPath(input[i])}
          /\ UNCHANGED file
    /\ UNCHANGED <<pc, prepared, input, hooks, before, shown, attribution, unopened, cancelled>>

\* recordToolFileActivity, of a call that failed too.
Recorded(i) == attribution \union ({ShownPath(input[i])} \ {NoPath})

\* emitFileDiff reads the file again and compares.
DiffOf(i) ==
    LET after == Snapshot(input[i]).text
    IN IF before[i].text = after THEN <<>> ELSE DiffLines(before[i].text, after)

\* Mutant: only a call that succeeded is recorded.
FinishUnrecorded(i) ==
    /\ step[i] = "called"
    /\ step' = [step EXCEPT ![i] = "done"]
    /\ attribution' = IF isError[i] THEN attribution ELSE Recorded(i)
    /\ shown' = [shown EXCEPT ![i] = IF isError[i] THEN <<>> ELSE DiffOf(i)]
    /\ UNCHANGED <<pc, prepared, input, hooks, before, text, isError, disk, cancelled>>

\* The PostToolUse hooks run last, and what they answer is not used.
Finish(i) ==
    /\ step[i] = "called"
    /\ step' = [step EXCEPT ![i] = "done"]
    /\ attribution' = Recorded(i)
    /\ shown' = [shown EXCEPT ![i] = IF isError[i] THEN <<>> ELSE DiffOf(i)]
    /\ UNCHANGED <<pc, prepared, input, hooks, before, text, isError, disk, cancelled>>

\* The user interrupts the run.
Cancel ==
    /\ ~cancelled /\ pc = "batches"
    /\ cancelled' = TRUE
    /\ UNCHANGED <<pc, prepared, input, step, hooks, before, text, outcome, disk>>
-----------------------------------------------------------------------------
Execute(i) == \/ PassOver(i) \/ Begin(i) \/ SeeCancel(i)
              \/ UseInput(i) \/ EditReads(i) \/ WriteBegins(i)
              \/ Truncate(i) \/ Fill(i) \/ Finish(i)
              \/ \E h \in DOMAIN Hooks : HookEnds(i, h)

\* ExecuteTools returns once, and nothing is left to do.  Whatever else has no
\* step to take is a deadlock.
Rest == pc = "returned" /\ UNCHANGED vars

Next == \/ \E k \in {"safe", "serial", "bad"} : Prepare(k)
        \/ BuildBatches \/ Return \/ Cancel \/ Rest
        \/ \E i \in Calls : Execute(i)

Spec == Init /\ [][Next]_vars
-----------------------------------------------------------------------------
TypeOK ==
    /\ pc \in {"prepare", "batches", "returned"} /\ n \in 0 .. N
    /\ kind \in [Calls -> {"none", "safe", "serial", "bad"}]
    /\ DOMAIN input = Calls
    /\ step \in [Calls -> Steps]
    /\ \A i \in Calls : hooksLeft[i] \in Seq(SUBSET (DOMAIN Hooks) \ {{}})
    /\ DOMAIN updated = Calls
    /\ \A i \in Calls : before[i].exists \in BOOLEAN
    /\ isError \in [Calls -> BOOLEAN]
    /\ DOMAIN file = Paths
    /\ attribution \subseteq Paths /\ torn \subseteq Paths /\ unopened \subseteq Calls
    /\ cancelled \in BOOLEAN

\* Calls of one batch with the same file have no order between them.
Executed(i) == step[i] = "done" /\ kind[i] # "bad"
Unordered(p) ==
    \E i, j \in Calls :
        /\ i # j /\ kind[i] = "safe" /\ j \in Batch(i)
        /\ {step[i], step[j]} \intersect {"idle", "cancelled"} = {}
        /\ ToolPath(input[i]) = p /\ ToolPath(input[j]) = p

\* What a call does to a file when it has it for itself.
Refused(f, in) == IF "mode" \in DOMAIN in THEN EditRefused(f, in) ELSE WriteRefused(f, in)
Applied(f, in) ==
    IF Refused(f, in) THEN f
    ELSE FileOf(IF "mode" \in DOMAIN in THEN Edited(f.text, in) ELSE in.new)

\* The executed calls one after another, with the inputs their hooks settled;
\* those that the disk refused do nothing.
OneByOne ==
    FoldLeftDomain(
        LAMBDA s, i :
            LET p == ToolPath(input[i])
            IN IF ~Executed(i) THEN s
               ELSE IF p = NoPath \/ i \in unopened \/ Refused(s.file[p], input[i])
                    THEN [s EXCEPT !.failed = @ \union {i}]
                    ELSE [s EXCEPT !.file[p] = Applied(@, input[i])],
        [file |-> Files, failed |-> {}], kind)

\* However the calls were scheduled, redirected, refused or cancelled, a file no
\* two unordered calls had, nor a write cut short, is what the executed calls make
\* of it in the order of the model, and the model is told of exactly the ones that
\* failed.
AsIfInOrder ==
    pc = "returned" =>
        \A p \in Paths \ torn : ~Unordered(p) =>
            /\ file[p] = OneByOne.file[p]
            /\ \A i \in Calls : ToolPath(input[i]) = p =>
                  (isError[i] <=> ~Executed(i) \/ i \in OneByOne.failed)

\* The diff a person sees of a call is the change that call made to the file it
\* was given at last, whole, whatever the hooks and other calls did before it,
\* provided that the tool and the diff find the same file in the input.
DiffShowsTheCall ==
    \A i \in Calls :
        Executed(i) /\ ~isError[i] /\ ~Misnamed(input[i]) /\ ~Unordered(ToolPath(input[i])) =>
            LET old == before[i].text
                new == Applied(before[i], input[i]).text
            IN IF old = new THEN shown[i] = <<>>
               ELSE /\ Shown(shown[i], {"equal", "delete"}) = old
                    /\ Shown(shown[i], {"equal", "insert"}) = new

\* A file that is not what it was is attributed to the agent when the calls
\* have ended: also one a hook chose, and one a failed call left behind, but not
\* one that the tool found under another key than the record.
ChangesAreAttributed ==
    pc = "returned" =>
        \A p \in Paths : file[p] # Files[p] =>
            p \in attribution \/ \E i \in Calls : Misnamed(input[i]) /\ ToolPath(input[i]) = p

\* What the documentation says of every call that changed a file: a diff of it is
\* shown.  A hook's input with two keys makes the tool change one file and the
\* diff look at the other.
ChangesAreShown ==
    pc = "returned" =>
        \A p \in Paths \ torn : file[p] # Files[p] /\ ~Unordered(p) =>
            \E i \in Calls : ShownPath(input[i]) = p /\ shown[i] # <<>>

\* The contract the streaming scheduler implements too.
CallState(i) == CASE step[i] = "idle" -> "idle"
                  [] step[i] \in {"done", "cancelled"} -> "done"
                  [] OTHER -> "running"

Contract == INSTANCE OrderedCalls WITH st <- [i \in Calls |-> CallState(i)]

ImplementsOrderedCalls == Contract!Spec
=============================================================================
