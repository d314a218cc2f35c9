------------------------------ MODULE ToolLoop ------------------------------
(***************************************************************************)
(* RunToolLoop (agent.go) and the conversation it builds: the limits of a  *)
(* run, the compaction of old rounds (compact.go), the assistant message   *)
(* and the tool results appended under two separate locks, and the forked  *)
(* worker that copies the conversation from a goroutine of its own         *)
(* (runWorkerAgent, a2a.go).  What happens inside one model turn is        *)
(* ToolScheduler's; here a turn returns some number of tool uses, or an    *)
(* error.                                                                  *)
(*                                                                         *)
(* A message keeps what the properties tell apart: its type, the prompts   *)
(* (numbered as they are asked) it tells of and its number of tool blocks. *)
(***************************************************************************)
EXTENDS Naturals, Sequences, FiniteSets, FiniteSetsExt, SequencesExt

CONSTANTS MaxTurn,       \* agent.maxTurn
          MaxToolCalls,  \* agent.maxToolCalls
          MaxToolErrors, \* agent.maxConsecutiveToolErrors
          MaxApiErrors,  \* agent.maxConsecutiveAPIErrors
          KeepRecent,    \* agent.autoCompactKeepRecent
          MaxPrompts     \* bound of the model: prompts a user asks

ASSUME LoopAssumption ==
    /\ {MaxTurn, MaxToolCalls, MaxToolErrors, MaxApiErrors, KeepRecent} \subseteq Nat \ {0}
    /\ MaxPrompts \in Nat

Prompts == 0 .. MaxPrompts
Types == {"prompt", "text", "calls", "results", "summary"}
Results == {"ok", "error"}
PCs == {"idle", "limits", "compact", "turn", "results"}
Stops == {"none", "completed", "maxturns", "maxtoolcalls", "toolerrors",
          "apierrors", "error"}

Messages == [type : Types, about : SUBSET Prompts, uses : 0 .. MaxToolCalls]

Message(t, about, k) == [type |-> t, about |-> about, uses |-> k]

VARIABLES
    messages,    \* agent.messages
    pc,          \* where the run is
    prompt,      \* prompts asked so far, the number of the last one
    turn,        \* llmTurn
    toolCalls,   \* tool calls the run has made
    toolErrors,  \* consecutiveToolErrors
    apiErrors,   \* consecutiveAPIErrors
    uses,        \* tool uses of the response being appended
    stop,        \* StopReason of the run
    fork,        \* a forked worker: "none", "asked" or "started"
    forkMessages \* its conversation when it started

counters == <<turn, toolCalls, toolErrors, apiErrors>>
forks == <<fork, forkMessages>>
loopVars == <<messages, pc, prompt, counters, uses, stop, forks>>

LoopInit ==
    /\ messages = <<>> /\ pc = "idle" /\ prompt = 0
    /\ turn = 0 /\ toolCalls = 0 /\ toolErrors = 0 /\ apiErrors = 0
    /\ uses = 0 /\ stop = "none"
    /\ fork = "none" /\ forkMessages = <<>>
-----------------------------------------------------------------------------
(* Compaction (CompactMessagesWithOptions).                                *)

\* isUserTurnStart: results travel in user messages too, but start no round.
IsTurnStart(m) == m.type \in {"prompt", "summary"}

\* The messages of s at the positions in keep, in their order.
Nth(keep, k) == CHOOSE i \in keep : Cardinality({j \in keep : j <= i}) = k
MessagesAt(s, keep) == [k \in 1 .. Cardinality(keep) |-> s[Nth(keep, k)]]

\* stripExistingSummaries
WithoutSummaries(s) == MessagesAt(s, {i \in DOMAIN s : s[i].type # "summary"})

\* Mutant: the split is by messages and not by rounds.
RecentStartByMessage(s) == IF Len(s) < KeepRecent THEN 1 ELSE Len(s) - KeepRecent + 1

\* splitRecentRounds: where the last KeepRecent rounds begin.
RecentStart(s) ==
    LET starts == {i \in DOMAIN s : IsTurnStart(s[i])}
    IN IF Cardinality(starts) < KeepRecent THEN 1
       ELSE CHOOSE i \in starts : Cardinality({j \in starts : j >= i}) = KeepRecent

About(s) == UNION {s[i].about : i \in DOMAIN s}

\* What the conversation may be compacted to; the summary call succeeds or not.
Compacted(s) ==
    LET other == WithoutSummaries(s)
        start == RecentStart(other)
        recent == SubSeq(other, start, Len(other))
        summary == Message("summary", About(SubSeq(other, 1, start - 1)), 0)
    IN IF start = 1 THEN {recent} ELSE {other, <<summary>> \o recent}
-----------------------------------------------------------------------------
(* The run.                                                                *)

\* The TUI starts a run for each prompt; appendUserMessage comes first.
StartRun ==
    /\ pc = "idle"
    /\ prompt < MaxPrompts
    /\ prompt' = prompt + 1
    /\ messages' = Append(messages, Message("prompt", {prompt'}, 0))
    /\ turn' = 0 /\ toolCalls' = 0 /\ toolErrors' = 0 /\ apiErrors' = 0
    /\ stop' = "none"
    /\ pc' = "limits"
    /\ UNCHANGED <<uses, forks>>

Return(reason) == pc' = "idle" /\ stop' = reason

CheckLimits ==
    /\ pc = "limits"
    /\ IF turn >= MaxTurn THEN Return("maxturns")
       ELSE IF toolCalls >= MaxToolCalls THEN Return("maxtoolcalls")
       ELSE pc' = "compact" /\ UNCHANGED stop
    /\ UNCHANGED <<messages, prompt, counters, uses, forks>>

\* autoCompactMessagesIfNeeded: the size is under the threshold, or the
\* compacted conversation replaces the old one when it is shorter.
AutoCompact ==
    /\ pc = "compact"
    /\ pc' = "turn"
    /\ \/ UNCHANGED messages
       \/ \E compacted \in Compacted(messages) :
             messages' = IF Len(compacted) < Len(messages) THEN compacted ELSE messages
    /\ UNCHANGED <<prompt, counters, uses, stop, forks>>

\* Mutant: a failed turn is asked for again, and nothing counts it.
TurnFailsUncounted ==
    /\ pc = "turn"
    /\ pc' = "limits"
    /\ UNCHANGED <<messages, prompt, counters, uses, stop, forks>>

\* Any error of the turn ends the run, whatever the count of them.
TurnFails ==
    /\ pc = "turn"
    /\ apiErrors' = apiErrors + 1
    /\ Return(IF apiErrors' >= MaxApiErrors THEN "apierrors" ELSE "error")
    /\ UNCHANGED <<messages, prompt, turn, toolCalls, toolErrors, uses, forks>>

\* A response without tool uses ends the run; an empty one appends nothing.
Answer ==
    /\ pc = "turn"
    /\ messages' \in {messages, Append(messages, Message("text", {prompt}, 0))}
    /\ apiErrors' = 0
    /\ Return("completed")
    /\ UNCHANGED <<prompt, turn, toolCalls, toolErrors, uses, forks>>

\* appendAssistantResponse with k tool uses, k at most what the run may still
\* make: the scheduler drops the calls above.  Their tools have already run.
CallTools(k) ==
    /\ pc = "turn"
    /\ k \in 1 .. MaxToolCalls - toolCalls
    /\ messages' = Append(messages, Message("calls", {prompt}, k))
    /\ uses' = k
    /\ apiErrors' = 0
    /\ pc' = "results"
    /\ UNCHANGED <<prompt, turn, toolCalls, toolErrors, stop, forks>>

\* Errors in a row after the i-th of the results r.
Streak(r, i) ==
    LET ok == {j \in 1 .. i : r[j] = "ok"}
    IN IF ok = {} THEN toolErrors + i ELSE i - Max(ok)

\* Mutant: a run stopped by its tools' errors returns before their results
\* are appended.
AppendResultsUnlessStopped(r) ==
    /\ pc = "results"
    /\ toolCalls' = toolCalls + uses
    /\ toolErrors' = Streak(r, uses)
    /\ IF \E i \in 1 .. uses : Streak(r, i) >= MaxToolErrors
       THEN Return("toolerrors") /\ UNCHANGED <<messages, turn>>
       ELSE /\ messages' = Append(messages, Message("results", {prompt}, uses))
            /\ pc' = "limits" /\ turn' = turn + 1 /\ UNCHANGED stop
    /\ uses' = 0
    /\ UNCHANGED <<prompt, apiErrors, forks>>

\* appendToolResultMessages, and the judgement of the results r in order.
AppendResults(r) ==
    /\ pc = "results"
    /\ toolCalls' = toolCalls + uses
    /\ messages' = Append(messages, Message("results", {prompt}, uses))
    /\ toolErrors' = Streak(r, uses)
    /\ IF \E i \in 1 .. uses : Streak(r, i) >= MaxToolErrors
       THEN Return("toolerrors") /\ UNCHANGED turn
       ELSE pc' = "limits" /\ turn' = turn + 1 /\ UNCHANGED stop
    /\ uses' = 0
    /\ UNCHANGED <<prompt, apiErrors, forks>>

\* /clear, between runs.
ClearMessages ==
    /\ pc = "idle" /\ messages # <<>>
    /\ messages' = <<>>
    /\ UNCHANGED <<pc, prompt, counters, uses, stop, forks>>
-----------------------------------------------------------------------------
(* A worker in fork mode, started asynchronously: the subagent call returns *)
(* as soon as the goroutine exists.                                        *)

AskFork ==
    /\ pc = "turn" /\ fork # "asked"
    /\ toolCalls < MaxToolCalls
    /\ fork' = "asked" /\ forkMessages' = <<>>
    /\ UNCHANGED <<messages, pc, prompt, counters, uses, stop>>

\* runWorkerAgent copies the parent's conversation under its lock, and the
\* child's RunToolLoop appends the task.
StartFork ==
    /\ fork = "asked"
    /\ fork' = "started"
    /\ forkMessages' = Append(messages, Message("prompt", {0}, 0))
    /\ UNCHANGED <<messages, pc, prompt, counters, uses, stop>>
-----------------------------------------------------------------------------
RunToolLoop ==
    \/ CheckLimits \/ AutoCompact \/ TurnFails \/ Answer
    \/ \E k \in 1 .. MaxToolCalls : CallTools(k)
    \/ \E r \in [1 .. uses -> Results] : AppendResults(r)

LoopNext == StartRun \/ RunToolLoop \/ ClearMessages \/ AskFork \/ StartFork

LoopSpec == LoopInit /\ [][LoopNext]_loopVars

\* A model turn returns: an answer, tool uses with their results or an error
\* (ToolScheduler says when); the summary call of a compaction does too.
LoopFairness == WF_loopVars(RunToolLoop) /\ WF_loopVars(StartFork)

LoopFairSpec == LoopSpec /\ LoopFairness
-----------------------------------------------------------------------------
LoopTypeOK ==
    /\ messages \in Seq(Messages) /\ forkMessages \in Seq(Messages)
    /\ pc \in PCs /\ prompt \in Prompts /\ stop \in Stops
    /\ turn \in 0 .. MaxTurn /\ toolCalls \in 0 .. MaxToolCalls
    /\ toolErrors \in Nat /\ apiErrors \in {0, 1}
    /\ uses \in 0 .. MaxToolCalls
    /\ fork \in {"none", "asked", "started"}

\* Both providers refuse a history in which tool uses are not answered by the
\* very next message, or results answer nothing; no order of limits, errors,
\* compactions and later prompts may leave one.  Only between the two appends
\* of a turn is the last message unanswered, and only there can a fork copy it.
Answered(s, i) == i < Len(s) /\ s[i + 1].type = "results" /\ s[i + 1].uses = s[i].uses

CallsAreAnswered ==
    /\ \A i \in DOMAIN messages :
          /\ messages[i].type = "calls" =>
                Answered(messages, i) \/ (i = Len(messages) /\ pc = "results")
          /\ messages[i].type = "results" => i > 1 /\ messages[i - 1].type = "calls"
    /\ messages # <<>> => IsTurnStart(messages[1])
    /\ \A i \in DOMAIN forkMessages :
          forkMessages[i].type = "calls" =>
                Answered(forkMessages, i) \/ i + 1 = Len(forkMessages)

\* The messages of one prompt, summaries left out.
OfPrompt(p, s) ==
    MessagesAt(s, {i \in DOMAIN s : s[i].type # "summary" /\ s[i].about = {p}})

\* Compaction may only touch rounds older than the KeepRecent last ones: the
\* messages of a recent prompt are never dropped or rewritten, except by /clear.
RecentRoundsKept ==
    [][ messages' # <<>> =>
          \A p \in 1 .. prompt : p + KeepRecent > prompt =>
              IsPrefix(OfPrompt(p, messages), OfPrompt(p, messages')) ]_messages

\* A run ends, even with a model that never stops calling tools.
RunEnds == pc # "idle" ~> pc = "idle"
=============================================================================
