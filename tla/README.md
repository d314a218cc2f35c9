# CodingMan in TLA+

CodingMan is a terminal coding agent in Go: a person types prompts, a model
streams answers and tool calls, tools run on the host or in a sandbox VM, and
subagents, memory and skills work beside the conversation. This directory holds
TLA+ models of the parts of it where the order of events matters, the TLC runs
that check them on small instances, and proofs that TLAPS checks for instances
of any size. Line numbers are those of the sources under `src/`.

- [Inventory](#inventory): the system's parts, their state and what can go wrong
- [Modules](#modules): which module models what, and how
- [Runs](#runs): what is checked, with which bounds
- [Fairness](#fairness)
- [Proofs](#proofs)
- [Disagreements found](#disagreements-found)
- [What is not modelled](#what-is-not-modelled)
- [Plan](#plan)

Check a model with `tlc -config X.cfg MCModule.tla`, the proofs with
`tlapm M.tla` for the eight modules whose names end in `Proofs`. `PROJECT.json` maps every definition to the
lines it stands for, and lists the hazards with the properties that guard them.

## Inventory

One Go process holds one `Agent` (`agent/agent.go`) and one terminal loop
(`main.go`). The goroutines are: the terminal loop; inside it the goroutine of a
run (`runAgent`), which is the one that executes `RunToolLoop`; one goroutine per
parallel safe tool call; one per worker (subagent) with an `Agent` of its own;
one per background job (session memory, skill review, cross-session memory);
heartbeats of MCP clients and the keepalive of the sandbox. They meet in the
agent's mutex, the coordinator's, the A2A bus's and the permission manager's, in
channels, and in files.

| Part | State | Operations | Talks to | Hard behaviour | Correct when |
|---|---|---|---|---|---|
| Streaming turn (`agent.go` 1535-1900) | results by position, safe batch, semaphore, one channel per call | `add`, `flushSafeBatch`, `startSafeTool`, `finish`, retries | provider stream, permission manager, tools | tools start while the stream goes on; stream errors; Esc anywhere | a turn returns a result for each call, serial calls are barriers, nothing runs twice, Esc ends it |
| Tool loop (`agent.go` 600-760) | `messages`, run counters | `RunToolLoop`, appends, `/clear` | turn, compaction, memory | limits and errors at every turn, appends under two locks | the conversation stays one the providers accept, limits hold, runs end |
| Compaction (`compact.go`) | none, rewrites `messages` | `CompactMessagesWithOptions` | provider | summaries of summaries, round boundaries | recent rounds are untouched, older ones are summarised |
| Workers (`coordinate.go`, `a2a.go`) | `tasks` with status, result, `done`; bus histories; agents | start, await, stop, status, list, bounded batch | parent run's context, bus | completion against kill, reads outside the lock, Esc | a task ends once, answers are whole, all ends after a cancellation |
| Permissions (`permission.go`) | mode, allow, deny, rules, ask function | `CheckWithResult`, `applyDecision`, `/allow`... | terminal, tools | several askers, one terminal; hooks after the check | nothing runs on the host without an approval of this very call |
| Terminal (`main.go`) | pending request, `selectionReq`, plan mode | `runAgent`, `readSelection`, `runPlan`, commands | everything | prompts raced by keys and Esc, two prompts on one screen | a digit answers the prompt it was typed for, Esc returns to the prompt |
| Tool execution (`agent.go` 1498-1531, 1829-2200) | prepared calls, file snapshots, attribution | prepare, batch, hooks, host or sandbox, diff | permissions, hooks, sandbox | route and snapshot taken early, used late; one path under several keys | files are what the calls one after another would make of them, diffs tell who changed what |
| Session store (`session.go`) | one JSON-lines file per session | append, compact, load, list | terminal | process death in a rewrite, several processes, a reader with a limit the writer does not know | what can be read is the newest that was saved |
| Hooks (`hooks.go`) | matchers | batches of parallel hooks | shell commands | merge order of updated inputs | what runs, what is shown and what is attributed agree |
| MCP client (`mcp.go`) | transport, heartbeat, tools | connect, request, reconnect, close | servers | reconnect against close, silent server | one server at a time, replies reach their callers, calls end |
| Sandbox manager (`sandbox.go`, `cmd/sandbox-mcp-server`) | VM process, proxy, `tcpAddr`; commands in the VM | start, wait, call, close, mode switch | VM, host tools, prompt | a VM that dies with a call in it, lifetime of contexts, a race in the server | a call is executed once, its outcome is true, no VM is forgotten |
| Skills (`skill*.go`) | usage file, marked files, active skill, review flag | route, use, record, review, evict, reload | files, model | a usage file that workers and terminals load and save without a lock, background writes beside a run, eviction half-way | used skills stay, evicted ones are forgotten, the user's choice stays |
| Memory (`agent.go` 1113-1233, `cross_memory.go`) | entries, counters, one-place job queue | extract, merge | model, files | jobs racing runs and `/clear` | no turn is left without a job |
| Tools (`tool/`) | registry; files | read, edit, write, bash... | file system | parallel edits, writes cut short | as tool execution |
| Providers (`openai.go`, `anthropic.go`) | tool states of a stream | encode, stream | network, turn | interleaved parts, missing ids, streams cut off, an unbuffered channel | calls are put together whole, the conversation can be sent again |

Interactions worth naming: a run's context is the parent of everything the run
starts, workers included, and is cancelled by Esc and by the end of the run
(`main.go:1004`); a worker asks for permissions through the parent's manager and
terminal; a forked worker copies the parent's conversation from its own
goroutine; the session store saves what the loop left in `messages`.

## Modules

| Module | Models | Uses |
|---|---|---|
| `OrderedCalls` | what the agent promises about the calls of one turn | - |
| `ToolScheduler` | `runStreamingToolTurn` and its scheduler | refines `OrderedCalls` |
| `ToolSchedulerProofs` | theorems about `ToolScheduler` | extends it |
| `Edits` | `edit` and `write` as functions on texts, the diff | - |
| `ToolBatch` | `ExecuteTools`, hooks, the steps of the file tools | `Edits`, refines `OrderedCalls` |
| `Requests` | how a conversation is written for each endpoint | - |
| `Streams` | one streamed answer: server, provider, turn, conversation | `Requests` |
| `StreamsProofs` | theorems about `Streams` | extends it |
| `ToolLoop` | `RunToolLoop`, the conversation, compaction, fork | - |
| `Coordinator` | workers, await, stop, batch, bus | - |
| `CoordinatorProofs` | theorems about `Coordinator` | extends it |
| `Permissions` | route of a call, hook, permission manager, terminal and screen | - |
| `PermissionsProofs` | theorems about `Permissions` | extends it |
| `Sandbox` | the VM, routed calls, fallback, the server in the VM | - |
| `SandboxProofs` | theorems about `Sandbox` | extends it |
| `SkillFiles` | the directory of the skills: who is there, who is marked | - |
| `SkillUsage` | the usage file and the eviction, by all agents at it | extends `SkillFiles` |
| `Learning` | one agent's skills: router, review, eviction; the memory queue | extends `SkillFiles` |
| `LearningProofs` | theorems about `Learning` and `SkillUsage` | extends both |
| `SessionLog` | session store and its controller | - |
| `ConversationProofs` | theorems about the conversation and its file: `ToolLoop`, `SessionLog` | extends both |
| `McpClient` | one MCP client and its server process | - |
| `ExecutionProofs` | theorems about the execution of tools: `ToolBatch`, `McpClient` | extends both |

Each that has runs has an `MC...` module, which says why its bounds were chosen.
`ConversationProofs`, `ExecutionProofs` and `LearningProofs` extend two models each,
which share nothing but their place in the system (the last two: the files of the
skills); to tell them apart, the names that every specification has are prefixed in
one of the two (`LoopInit`, `LoopSpec`..., `McpInit`, `McpSpec`..., `UsageInit`...).

**ToolScheduler.** A call is its position in the turn. `pc` and `cont` are where
the turn's goroutine is (reading the stream, preparing a call, in
`flushSafeBatch` on the way to something, running a serial tool, in the retry
delay). `slot` is `scheduler.results`, `batch` is `safeBatch` and, during a
flush, what is left of it; `done` is the one-place channel of each goroutine and
`sem` the semaphore. One action is one step between two synchronisation points.
The outcome of `prepareToolExecution` (refused, serial, parallel safe), of every
tool and of the stream is the environment's choice. Text, usage numbers and
fragments of tool inputs change no control here; `Streams` is about them.

**OrderedCalls.** The abstract contract: calls are submitted in order; a call
that is not parallel safe starts when all earlier ones are done and all later
ones wait for it; parallel safe calls between two such barriers overlap up to
`MaxParallel`; each runs at most once. `ToolScheduler!Contract` maps a call's
goroutine, slot and kind to `idle`, `running` or `done`; `ToolBatch!Contract`
does the same for the batch executor, which has other code for the same promise.

**ToolBatch and Edits.** `ExecuteTools` prepares all calls (`Prepare`, whose
outcome is a choice), cuts them into batches (`Batch`, `MayBegin`, `Slots`) and
executes each as `executePreparedToolIntoResult` does: snapshot, hooks
(`HookEnds` merges in the order in which they end), the input the hooks settle
(`UseInput`, with a new snapshot), the tool, attribution and diff (`Finish`). The
streaming scheduler calls the same function; `ExecuteTools` itself is called by
tests and users of the package. Every call is an edit or a write, since those
share files; `edit` reads, empties and fills its file in three steps, and neither
tool heeds the context. `Edits` has what they do to a text, a sequence of lines,
and `diffLines`. An input names its file under one or more keys (`names`): `edit`
looks up `filePath`, `file_path`, `write` only `filePath` (`ToolPath`), the
attribution and the diff `path`, `file_path`, `filePath` (`ShownPath`), so that an
input a hook has given two keys is `Misnamed`: the tool changes one file and the
other one is recorded. A directory that cannot be made and a file that cannot be
read or opened is `DiskFails`; a write may also be cut short. Hooks that time out
may have answered; workers have no hooks.

**Requests and Streams.** What the server sends is read by the provider's
goroutine at once (`ItemAdded`, `ChatPart`, `BlockStop`...), which leaves the
events it gives in `todo`; the turn takes them one by one (`Take`), as from the
unbuffered channel. `tools` is `itemCallIDs`, `toolStates` or `activeToolUses`, by
endpoint. A call's input is the sequence of its parts, so that every mixture,
loss or repetition shows; the id is the server's or one made from the index. The
server may stop in every way the code tells apart: in good order, too early, with
an error. Then `AssistantResponse` and `ToolResults` extend the conversation and
`Requests` writes it for the endpoint: which messages it becomes and what is
refused. A chat server is taken to give an id with the first part of a call or
never.

**ToolLoop.** A message is its type, the prompts it tells of and the number of
its tool blocks, which is what the providers' rule about answered tool calls,
the round boundaries and the loss of context depend on. `AutoCompact` is the
whole of `CompactMessagesWithOptions`, with a summary call that may fail;
`CallTools` and `AppendResults` are the two locked appends of a turn;
`TurnFails`, limits and error counters follow the loop's early returns.
The fork of a worker takes its copy in a step of its own.

**Coordinator.** A worker is started by a call (`async`) or as a member of a
batch (`sync`). Its steps follow its goroutine: register at the bus, send the
request, run, reply, store the result under the lock, close `done`. `task` is
the record the coordinator keeps; a caller first does what it does under the
lock, then reads the fields one by one without it (`Notify`), where every mix of
old and new fields is possible. Contexts are the set `cancelled`, which `Cancel`
and `EndRun` fill with all workers there are.

**Permissions.** An asker is a goroutine with one tool call: prepared, checked,
at its hooks or in the sandbox, printing its prompt, asking, waiting, running. The
terminal is the main goroutine: at the command line, in `runAgent`, or at plan
mode's choice; it holds at most one pending request. What the person sees is
another state, `shown`, the prompt printed last: an asker prints its prompt
(`ShowPrompt`) before the loop takes its request (`ReceiveRequest`), so the two need not
agree, and a digit that is typed (`TypeDigit`) for one may be read (`ReadDigit`)
for the other. `meant` remembers for whose prompt each answer was typed, `crossed`
which prompts were open beside another one or printed while a digit was on its way.
A hook may replace the input of a call after the check and before the sandbox
(`Hook`), in the parent's turn only, as workers have none. Requests are one command
per rule, so a pattern of the policy is a set of them. A cancelled call's context is
`dead`.

**Sandbox.** `tcpAddr` and `cmd` are what the manager believes, `vm` and `ctxOf`
what is so: a machine may be off, booting or up, and dies when it likes or with
the context it was started under. Calls come one after another, as routed calls
are not parallel safe; `wait` is `WaitUntilReady`, `sent` the request through the
proxy, `ask` the fallback prompt. In the machine, `guest` is the handler,
`process` the command and `state` the record the two share without a lock
(`NoteExit` writes it in two steps, `Timeout` and `AnswerTimeout` read in two). A
connection that the agent has closed is `left`; that only makes one more branch of
the handler's select ready (`SeeClosed`, which kills the command), and it may take
any: one that goes by its timer is `expired` and leaves the command alone. The agent
is told what the text tells: a command that is done without an error that was read
looks like one that succeeded. The model has what the code does about a machine that
dies with its run: nothing clears `tcpAddr`, so later calls wait for the start
timeout and fall back.

**SkillUsage.** Every agent at the home directory, the terminal's, its workers
(each an `Agent` that runs `RunToolLoop` in a goroutine) and those of other terminals,
records uses and evicts: `Choose` and `CountUse` load the usage file and change a
copy, `LoadForEvict`, `List` and `EvictSkill` load one, judge the marked skills by it
and remove files; both then save the copy, `Truncate` and `Write` being the two steps
of `os.WriteFile`. Nothing locks the file, so all of these interleave; a copy may be
made of a file that has just been emptied (which `loadSkillUsage` takes for no usage),
two writes may mix, and each step may fail or be the last (`GiveUp`). A review may write
any skill's file at any time. Time is a period of `UnusedDays` that passes, so an entry
is `recent`, `old` or `never`. `used` is the skills with a use saved within the
period; `lost` those whose use has been overwritten and `behind`, for each copy, those
whose use is not in it: history, from which `UsedSkillsStay` says who is to blame.

**Learning.** What one agent holds in memory of the same files. `run` is the thread
of the terminal: a prompt (`StartRun`, `Route`), tool calls, the eviction in steps
(`BeginEvict` lists, `Evict` removes one skill, `EndEvict` reloads), the schedule of
the extraction. Which skills are unused is for `SkillUsage` to say: here an eviction
may remove any marked one. Two workers run beside it, the review and the memory
extraction, and `Others` is everybody else who writes or removes skills. `evicted`,
`stale` and `owed` are history. The program may be killed and restarted at every step.

**SessionLog.** A snapshot is its time and a number for the conversation it
holds. A save is the five steps of `AppendSnapshot` and
`compactSessionLogIfNeeded`: append, count, load, truncate, write. A terminal can
die between any two, or in the middle of a write, which leaves a torn line; a
write can fail. A run may leave a record of more than 10 MiB (`TooLong`, images make it
so): it is appended like any other and no reader gets past it. Several terminals share
the directory. A line that lacks only its newline counts as written, and as torn for the next append it is not told apart
from a line that is cut off.

**McpClient.** `mu` is the holder of `client.mu`; a goroutine that writes a
request keeps it until it has read the reply, which is why a request and its
reply are one state of the server's pipe. `loop` is the one goroutine that is in
`heartbeatLoop` or `reconnectLoop`, or inside `Connect` with its three requests.
A server is a process; ids of processes are reused, so that any number of
restarts fits a finite model. It may be silent, answer with an error (a choice of
the reader), or die at any point.

How they fit together: `ToolLoop` sees of a turn only how many tool calls it
returned with results, which is what `ReturnedTurnIsSettled` guarantees;
`Streams` gives the turn whole calls and `NextRequestFits` is for one turn what
`CallsAreAnswered` is for the loop; `ToolScheduler` sees of the preparation and
execution of a call only that it ends, which is what `Permissions`, `Sandbox` and
`McpClient` are about; `Coordinator` is about calls
that start further loops.

## Runs

The passing runs are exhaustive for their bounds.

| Run | Bounds | Distinct states | Shows |
|---|---|---|---|
| `tool_scheduler` | 4 calls, 2 slots, 1 retry | 176,536 | turns settle, retries repeat nothing, the contract holds, flushes and cancelled turns end |
| `tool_loop` | 3 prompts, 2 turns, 3 calls, 2 rounds kept | 197,743 | tool calls are answered, recent rounds are kept, runs end |
| `coordinator` | 2 workers, 1 caller, 1 place | 61,781 | ends of tasks are final, answers whole, cancellation ends everything |
| `permissions` | 2 askers, 2 commands, 1 key typed ahead | 1,241,790 | host runs are approved by a digit for this very call, digits are given to the prompt they were typed for unless prompts cross, Esc ends a run |
| `sessions` | 2 terminals, 3 sessions, 5 saves, checkpoint 1 | 688,022 | what is read is never stale, saves that were neither cut short nor too long are kept |
| `mcp_client` | 2 callers, 3 processes | 1,281 | one server, no stray reply, dead servers are replaced, calls and Close end |
| `tool_batch` | 3 calls, 2 slots, 2 files, 4 inputs, 2 hooks, 1 fault of the disk | 1,451,668 | files are as if the calls had come one by one, diffs and attributions are right, the contract holds |
| `sandbox` | 2 calls, 2 machines | 142,180 | no machine is forgotten, calls are executed once, reports are true up to one race, calls and cancelled commands end |
| `skill_usage` | 2 agents, 2 skills, 2 uses, 1 period | 3,735,008 | only an eviction whose copy has missed a use takes a used skill |
| `learning` | 2 skills, 1 call to a review | 111,792 | evicted skills are forgotten, the user's choice stays, no review or turn is lost |
| `streams` | 3 calls of 2 parts, 4 endpoints, every limit | 184,140 | calls are whole, a completed answer is complete, the goroutine ends, the next request fits |
| `streamed_input` | 2 calls of 2 parts | - | a violation, see [below](#disagreements-found) |

Why the bounds are enough. Four calls hold a safe pair, a barrier and one more
call after it; two slots make a third safe call wait; one retry makes the last
attempt differ from the others, and a turn after a turn is included. Three
prompts are the least after which a summary is summarised; the limits are small
enough that each of them ends some run. Two workers let one be stopped while the
other is waiting for the only place of a batch. Two askers are what it takes to
overwrite a prompt; `ls` is read-only and `rm` is not, both are for the sandbox, and each
may become the other in a hook; one digit typed and not yet read is what it takes for
a prompt to be printed under the finger. A log
that is rewritten at its second record passes through every step of a save twice
within five saves, and two terminals let one read between the other's steps.
Three processes let a client that forgot to close one be seen with two alive.
In `tool_batch` the inputs do not commute, a batch of two has a call before or
after it, and the keys of an input agree, differ or are unknown to the tool; in `sandbox` the second call finds what the first left, in the same run
or the next. Two agents at the usage file are enough for every overlap of two loads
and saves; two skills let one be evicted while the other is in use; two uses are the
least that differ from one; one period makes what was used before it old. The symmetry
of `skill_usage` is sound because no property tells its agents or its skills apart
while `Own` is empty; with a skill of the user's (`LostUse.cfg`,
`EvictedOwnSkill.cfg`) there is none. Three calls let the limit cut
off one or two, and parts be interleaved.
`MaxPrompts`, `MaxSaves`, `MaxCalls` (of `Sandbox`), `MaxPeriods`, `MaxFaults`,
`Agents`, `Calls`, `Parts` and the one key typed ahead (`KeysAhead` in the comment at
`NoKey` of `Permissions`) are bounds of the models or of their environment; every other
constant is a parameter of the program. `MaxToolCalls` of `ToolScheduler` is what the run
may still call in this turn.

Properties by the hazard they are for (the full list is in `PROJECT.json`):

- *Order and loss*: `ImplementsOrderedCalls` (of two executors),
  `ReturnedTurnIsSettled`, `AsIfInOrder`, `CallsAreAnswered`, `RecentRoundsKept`,
  `CallsAreWhole`, `NextRequestFits`, `NoTurnIsDropped`.
- *Failure and retry*: `RetryRepeatsNothing`, `RunsOnce`, `CompleteIsComplete`,
  `NeverStale`, `SavesAreKept`, `OneServer`, `RepliesAreTaken`, `VmIsManaged`,
  `EvictedAreForgotten`.
- *Races for an end*: `TerminalIsFinal`, `AnswersAreFinal`, `EndIsReported`,
  `OneReview`, `UsedSkillsStay`.
- *What a person is told or has decided*: `HostRunsAreApproved`, `GrantsAreMeant`,
  `DiffShowsTheCall`, `ChangesAreAttributed`, `ManualChoiceStays`.
- *Bounds*: `BatchIsBounded`, which is proved and which no run checks.
- *Ending*: `FlushEnds`, `CancelEndsTurn`, `RunEnds`, `CancelledWorkersEnd`,
  `CallsReturnAfterCancel`, `EscEndsRun`, `DeadIsReplaced`, `CallsEnd`,
  `CloseEndsLoop`, `SandboxCallsEnd`, `CancelledCommandsEnd`, `ProviderEnds`.

Every module also states its type invariant (`TypeOK`, `LoopTypeOK`, `McpTypeOK`);
those of the modules with proofs hold of every instance, that of `Sandbox`,
`Learning` and `SkillUsage` (`UsageTypeOK`) as a part of the invariant proved there, that of `ToolBatch` as far as
`BatchTypes` goes.

Each property of a passing run has a mutant, a definition of the module changed as a plausible bug
would change it (marked "Mutant:"), under which its run fails.

## Fairness

Fairness is assumed only of steps the code takes by itself, and it is weak: a goroutine that
is not blocked runs, a tool that was started returns, a timer fires. Neither the
model provider nor the user owes a step, and in `Permissions` no worker either: what
Esc promises needs only the goroutine of the parent's turn. The two exceptions follow the code: when the context is done, the HTTP
request and a permission prompt give up, since both select on it, so the end of
the stream, of a call's preparation and of a worker's run is fair once the
context is cancelled. Strong fairness is used in `McpClient` alone: for taking the mutex, since
`sync.Mutex` hands itself over to a goroutine that has waited long enough; for the
`closed` branch of a `select` that chooses at random; and for the start of a
server, without which no client could promise to replace a dead one. There a
server answers or ends: the code has no timeout of its own, so a silent server
blocks the client, and with it the turn that `ToolScheduler` assumes to end.
In `Sandbox` the steps of the manager and of the server in the machine are fair,
because its timers fire and the server is scheduled while the machine lives; no
machine owes a boot, no command an end and no person an answer. In `Streams` the
two goroutines are fair and the server owes nothing. `SessionLog`, `ToolBatch`,
`SkillUsage` and `Learning` have no fairness, their properties are about safety; `ToolBatch` says
with `Rest` where it may stop, so that anything else that blocks is a deadlock.
`CHECK_DEADLOCK FALSE` is set where the bound on prompts or saves stops the
model, in `Permissions`, where a choice in plan mode really blocks, and in
`Streams`, where an answer comes to its end.

## Proofs

`ToolSchedulerProofs` proves, for every number of calls, slots and retries
(`SchedulerAssumption`: at least one slot, which `newStreamingToolScheduler`
guarantees, and natural numbers otherwise):

| Theorem | Says |
|---|---|
| `Invariance` | `Spec => []IInv` |
| `TypeCorrect` | `Spec => []TypeOK` |
| `TurnsSettle` | `Spec => []ReturnedTurnIsSettled` |
| `RetriesAreSafe` | `Spec => RetryRepeatsNothing` |
| `SchedulerKeepsContract` | `Spec => ImplementsOrderedCalls`, the refinement |

None of the properties is inductive: that a turn has returned says nothing of
what its goroutines did before. `IInv` adds what relates them: calls are prepared
in order (`KindInv`); a serial call lives entirely inside `add` (`SerialInv`); a
safe call is in the batch exactly until its result is taken, and its channel is
full exactly when its goroutine has sent and it is still in the batch (`SafeInv`);
every call that is not parallel safe is a barrier, no earlier call is in the
batch once `add` is done with it (`BarrierInv`); the semaphore is the set of
goroutines that run or have not released their slot (`SemInv`); only attempts
without calls fail (`TurnInv`). From these, at a return the batch is empty, so
every slot is filled and every channel empty; and a retry implies `n = 0`.
For the refinement, `BarrierInv` gives the guard of the contract's `Start`
(`EarlierDone`, `BeforeQueued`), and `SemInv` its bound, since a running safe
call holds a slot; every other step leaves the mapped states alone (`Stutter`).

`ExecutionProofs` proves about `ToolBatch`, for any number of calls, any limit, any
inputs, hooks and files (`BatchAssumption`: at least one slot, which line 1852 of
`agent.go` sees to, and every path that the model or a hook may name, under any
key, is a path of `Files`, which says of each whether the file is there):

| Theorem | Says |
|---|---|
| `EveryChangeIsAttributed` | `Spec => []ChangesAreAttributed` |
| `BatchKeepsContract` | `Spec => ImplementsOrderedCalls`, the refinement |

`ChangesAreAttributed` speaks of the time when `ExecuteTools` has returned.
`FilesInv` says what leads there: a file that is not what it was is attributed, or
some call whose tool works on it has not been recorded yet, or was recorded under
another key (`Misnamed`, the exception the property makes). It is kept
because a call does not change its input once its hooks have ended, and because
every way out of a tool, an edit that fails after the file was emptied
included, passes through `Finish`. It needs of `Edits` only that a file that a
tool leaves alone stays as it is, nothing of what the folds compute.
For the refinement, `BatchIs` says that the calls of a batch follow one another and
are parallel safe or one alone, so that a call before it of another kind is before
all of it; `BatchMayStart` draws from this the guard of the contract's `Start` and
`Skip`, and `Slots`, which is at most the limit, gives its bound. `MinIsLeast`
gives the least element of a batch by well-founded induction on numbers. The other
steps, all that a call does between its start and its end, leave the mapped states
alone.

About `McpClient` it proves, for any sets of callers and processes (`McpAssumption`:
the names are distinct):

| Theorem | Says |
|---|---|
| `McpTypeCorrect` | `McpSpec => []McpTypeOK`, which includes who holds the mutex when |
| `AtMostOneServer` | `McpSpec => []OneServer` |
| `PipeIsEmpty` | `McpSpec => []RepliesAreTaken` |

`McpIInv` is the type invariant, that only the transport's server can be alive, that
there is no transport while a new server is being started, and `RepliesAreTaken`.
`OneServer` itself is not inductive: without the third part a server could be
started beside one that the client still has.

`SandboxProofs` proves for any machines and any number of calls
(`SandboxAssumption`: a natural number, and `None` is no machine):

| Theorem | Says |
|---|---|
| `NoVmIsForgotten` | `Spec => []VmIsManaged` |
| `NoCallRunsTwice` | `Spec => []RunsOnce` |
| `ReportsAreTrue` | `Spec => []EndIsReported` |

Its `IInv` has, beside `TypeOK`, a part for each. `ManagedInv` adds that a manager
without an address has no command, without which a second machine could be
started beside the first. `OnceInv` says that a call leaves no trace in the
machine before it is `sent` and that only what left none went to the host: the
property alone does not exclude a request that is answered after the fallback.
`ReportedInv` relates the record the handler reads without the lock to the process
it tells of: `done` is closed after the error is noted, and that after the process
has ended; only a handler that has gone by its timer can read the error before it is
noted and `done` after. That is the one way in which a failure is told as a success,
and `EndIsReported` allows no other.

`LearningProofs` proves about `SkillUsage`, for any agents, any skills and any
`MinUses` and number of periods (`UsageAssumption`: the first at least one, `Own` some
of the skills), and about `Learning`, for any skills and any `Threshold`
(`LearningAssumption`: at least one, and `None` is no skill):

| Theorem | Says |
|---|---|
| `UsesAreKept` | `UsageSpec => UsedSkillsStay` |
| `TheUserDecides` | `Spec => ManualChoiceStays` |
| `KnownAreThere` | `Spec => []EvictedAreForgotten` |
| `ReviewsAreSerial` | `Spec => []OneReview` |
| `TurnsAreQueued` | `Spec => []NoTurnIsDropped` |

The two action properties hold of a step only from states the invariant admits.
`UsedSkillsStay` does not say that uses are safe, which `LostUse.cfg` shows they are not;
it says that nothing but an overlap takes a used skill: neither the order of the
steps in one agent, nor a failure half-way, nor a review, nor the age of an entry that
was never used. For `UsesAreKept`, `UseInv` says that a use within the period is noted
in the usage file unless the file has lost it, and in every copy that is going to be
saved unless that copy has missed it, and that an eviction judges unused no skill whose
use is in its copy; `CopyInv` says that whoever records a use has it in the copy it
saves. Each save has to be followed through all other agents' copies.
For `TheUserDecides`, `ChoiceInv` says that the router waits for an answer
only when the user had chosen nothing, and that this cannot change meanwhile.
`KnownInv` extends `EvictedAreForgotten` to the whole run: what the agent has evicted
is not there, the router is not offered it, and the agent does not know it, except
between a removal and the end of its eviction. `OneReview` and `NoTurnIsDropped` are
inductive once the types are known.

`CoordinatorProofs` proves for any workers, callers and limit of a batch
(`CoordinatorAssumption`: the limit is at least one, as `a2a.go:370` makes it
when none is configured; the workers are finitely many and there is one, since a
call is about a worker and the batch counts them):

| Theorem | Says |
|---|---|
| `TypeCorrect` | `Spec => []TypeOK` |
| `EndsAreFinal` | `Spec => TerminalIsFinal` |
| `AnswersAreWhole` | `Spec => []AnswersAreFinal` |
| `BatchKeepsItsLimit` | `Spec => []BatchIsBounded` |

`AnswersAreFinal` speaks of calls that are answered and is not inductive: it does
not say what a caller that has left the lock and has still to read the fields will
read. `CallInv` does: once the worker's end is settled, what the caller saw under
the lock is what the task is, and `EndedTasksStay`, the lemma `EndsAreFinal` is drawn
from, keeps it so; every mix of old and new fields is then the task itself. That an
ended task is never stored over needs `TaskInv`: how a worker was started and how
far it has come say which ends its task may have, so that `StoreResult` meets either
a running task or a killed one, which it leaves. `BusInv` counts a worker's
messages by its place. `BatchIsBounded` is inductive beside these; the proof adds
one member to a finite set of fewer than `MaxConcurrent`.

`PermissionsProofs` proves for any askers, requests and policies
(`PermissionsAssumption`: `Main` is an asker, `Nobody` and `NoKey` are none, the two
kinds of requests are requests, and there is one):

| Theorem | Says |
|---|---|
| `TypeCorrect` | `Spec => []TypeOK` |
| `NothingRunsUnapproved` | `Spec => []HostRunsAreApproved` |
| `GrantsFitPrompts` | `Spec => []GrantsAreMeant` |

The first property speaks only of calls that run. `RouteInv` follows a call before it
does: one that is being checked has not been routed to the sandbox, and one that waits at
a prompt was routed exactly if the prompt is the one for the fallback. Without the
second part the digit that grants an ordinary request could be taken for the consent
to leave the sandbox. `ApprovalInv` says that an approval is there exactly while the
call runs or is at its hooks, that the answer it was drawn from is the one its channel
still holds, and that a routed call still has the input its prompt showed, since its
hooks are over when the prompt is printed. For the second property, `ScreenInv`: an open
prompt that nothing has crossed is the one on the screen and the only one a digit can
be on its way for (`OpenIsShown`), an answer it has got was typed for it
(`AnswerIsMeant`), and a pending request has no answer yet (`PendingIsOpen`), so that no
second digit takes the place of the first.

`ConversationProofs` proves about `ToolLoop`, for any limits of turns, calls and
errors, any number of rounds kept and of prompts (`LoopAssumption`: the limits are
at least one, as `NewAgent` makes those that are not, `agent.go:263` to `273`):

| Theorem | Says |
|---|---|
| `LoopTypeCorrect` | `LoopSpec => []LoopTypeOK`: among others, no limit is passed |
| `EveryCallIsAnswered` | `LoopSpec => []CallsAreAnswered` |
| `RecentRoundsStay` | `LoopSpec => RecentRoundsKept` |

What a compaction makes of a conversation decides both. `LoopIInv` has, beside the
types and the counters (`LimitsInv`), four parts about `messages`. `Shape`: a
summary can only be first, and a prompt follows it. `Whole`: calls are answered by
the next message, except the last ones between the two appends. `Numbered` and
`Ordered`: every message but a summary is of one prompt, and those of a prompt come
before those of a later one. `ForkInv` is `Whole` for the copy. `CompactedIsCut`
shows that every outcome of `CompactMessagesWithOptions` is a cut (`CutAt`): the
conversation from some prompt on, perhaps behind a summary. `CutKeeps` shows that
a cut at a prompt keeps all four parts: it never parts calls from their results,
because results start no round. This is what `isUserTurnStart` is for, and
`Shape` is why stripping the old summary leaves a prompt in front.
For `RecentRoundsStay`, `CutIsOld`: either nothing but a summary goes, or
`KeepRecent` prompts are left. By `Ordered` these have different numbers, all later
than those of any message cut off; a recent prompt `p` has fewer than `KeepRecent`
prompts after it, so no message of it was cut off (an injection of the prompts left
into `p + 1 .. prompt`). What is left has moved by the same distance, which keeps its
order (`CutLeavesRecent`).
The selections `MessagesAt` makes are taken apart by counting: `Nth` is the
position with so many of the kept ones up to it, which exists by well-founded
induction on numbers (`NthExists`), and is found again after a shift
(`ShiftedPositions`), in a set with one more position (`LastPosition`) and in a whole
interval (`AllPositions`).

About `SessionLog` it proves, for any terminals, sessions, number of saves and limit
of the log (`SessionAssumption`):

| Theorem | Says |
|---|---|
| `TypeCorrect` | `Spec => []TypeOK` |
| `ResumeLosesNothing` | `Spec => []NeverStale` |
| `SavesReadBack` | `Spec => []SavesAreKept` |

Neither property is inductive: both look at a file when nobody is writing it, or
only at what can be read, and say nothing of a rewrite half-way. `LogInv` follows it:
what a terminal has loaded for a rewrite is not older than what was saved, the file
is empty between truncation and write, and as long as nothing was cut short and no
record was too long for the readers the last line, or the record the rewrite holds, is the newest. It holds of the sessions no
two terminals had open at once (`AloneInv`), and `OwnerInv` is why no other
terminal's step touches those: an id belongs to one terminal, or is in `shared`, or
was never given out. The proof of each step therefore distinguishes the session it
is about from the others (`Untouched`, `UntouchedOrCut`). The lemmas on files say
what an append after a torn line, a write cut short and a load do to the last line.

`StreamsProofs` proves for any number of calls and of parts of an input
(`CallsAssumption`, `PartsAssumption`: at least one), with all four endpoints:

| Theorem | Says |
|---|---|
| `TypeCorrect` | `Spec => []TypeOK` |
| `CallsTakenWhole` | `Spec => []CallsAreWhole` |
| `CompletedIsComplete` | `Spec => []CompleteIsComplete` |

The properties relate the server's history to the turn's calls, two places that
never meet; `IInv` follows a call through everything in between. `WireInv`: the
server's calls are numbered without a gap, the parts of each come in order, each
ends once. `ToolsInv`: what the provider keeps of an open call (`Kept`, by endpoint)
is its id, name and all that was sent. `TodoInv`: what waits on the channel comes
from one thing the provider has read, and the ends that wait are those of the calls
ended last (`EndsInv`; with a compatible endpoint all calls end at once). `ActiveInv`:
what the turn has put together of a call, followed by the part on its way
(`OnTheWay`), is what the server has sent; with an endpoint that gives no ids
nothing is announced and the turn keeps nothing, so that the input comes with
the end. `CallsInv`: the calls taken are the ends `Heard`, up to the limit.
`EndInv`: the channel is closed only when `todo` is empty, which makes `Heard` all
of `closed`, and an error is on its way or has ended the turn. The steps fall into a
lemma per kind of thing read (`OpensKeeps`, `SendsKeeps`, `ClosesKeeps`,
`FinishKeeps`, `NoCallsKeep`), which the endpoints' own lemmas cite, and one per
kind of event taken (`CallKeeps`, `EndKeeps`, `OtherKeeps`). Inputs that start with
`{}` are outside of `CallsAreWhole`, since they are not taken whole: see
`streamed_input` below.

Only model-checked:

- Liveness, the properties listed under *Ending*: it needs `ENABLED`, which is out of
  the prover's reach.
- `AsIfInOrder` and `DiffShowsTheCall` of `ToolBatch`: what `edit`, `write` and
  `diffLines` make of a text is computed by folds, and what a fold computes for every
  text takes an induction over data.
- `NextRequestFits` of `Streams`: a request is a flattened sequence of messages, with
  the same difficulty.
- The type invariant of `ToolBatch` where it speaks of the hooks a call has still to
  run, whose batches are a fold; `BatchTypes` has the part that the proofs need.
- What `About` says of the prompts a summary tells of: the proofs use only that they
  are prompts, as no property speaks of them.

## Disagreements found

For each of these seven a module states what the documentation or a test says, and
TLC refutes it, with a trace of the code's steps. The first is a run of
`PROJECT.json`; for the others the configuration is kept beside those of the runs
(`tlc -config LongRecords.cfg MCSessionLog.tla`), and but for the second the run of
the same module checks what does hold: `CallsAreWhole` for 1, `UsedSkillsStay` for 3,
`GrantsAreMeant` for 4, `SavesAreKept` for 5, `DiffShowsTheCall` and
`ChangesAreAttributed` for 6, `CancelledCommandsEnd` for 7.

1. `InputIsAsSent` (run `streamed_input`): with an Anthropic-compatible endpoint, or the SDK, a tool block
   that starts with `"input":{}` gives its call the input `{}` followed by the
   streamed object (`agent.go:1653`, `anthropic.go:427`), although the test of the
   provider expects the object alone (`agent_framework_test.go:537`). The tool
   fails to decode it, and the recorded call keeps every later request from being
   written, as `json.RawMessage` refuses it (`WholeInputs` in `Streams`).
2. `OwnSkillsStay` (`MCSkillUsage`, `EvictedOwnSkill.cfg`): the README says that a user's own skills are never evicted
   (line 239); a review may rewrite one and then marks it as generated
   (`skill_evolution.go:348`), and the eviction goes by the mark.
3. `SavedUsesCount` (`MCSkillUsage`, `LostUse.cfg`): the README says that only skills left unused are evicted (line 239);
   uses are recorded, and evictions judge, by copies of a file that nothing locks
   (`skill_usage.go:113-129`, `140-181`), also in workers (`agent.go:305`, `596-602`,
   `a2a.go:530-536`), so a skill may be removed right after a use of it was saved.
4. `FallbacksAreMeant` (`MCPermissions`, `CrossedPrompts.cfg`): the fallback prompt asks to allow "this operation" once
   (`main.go:1076`), but a second request replaces the pending one (`main.go:1041`)
   whichever prompt was printed last, and the digit goes to the request taken last:
   the person sees one call's prompt and lets the other one out of the sandbox. The
   request that was replaced cannot be answered by any key; only Esc releases it.
5. `SavedSessionsResume` (`MCSessionLog`, `LongRecords.cfg`): the README says that `/resume` restores a saved session (lines
   137, 164); a record of more than 10 MiB, as images in the conversation make it, is
   appended without a look at its length, and the readers give up at it
   (`session.go:225`, `286`): the session can never be resumed again. The save
   prints the error of the count, but has written the line.
6. `ChangesAreShown` (`MCToolBatch`, `MisnamedFiles.cfg`): the README says that a diff is shown of every change by `edit`
   and `write` (lines 66, 243); the diff and the attribution look for the path under
   other keys than the tools do (`file_diff.go:17`, `agent.go:2083`; `edit.go:63`,
   `write.go:42`), so a call that a hook has given two keys changes one file and shows
   the other.
7. `TimedOutCommandsEnd` (`MCSandbox`, `TimedOutCommands.cfg`): the bash tool promises a timeout (`tool/bash.go:24`, `34`);
   in the machine the handler answers at the timer and leaves the command alone
   (`sandbox-mcp-server/main.go:228-229`), also when the agent has closed the
   connection. The server's `bash_kill` is not one of the agent's tools
   (`sandbox.go:476-497`), so the command may run until the machine ends.

Found while modelling, and in the models, without a run:

- A compaction strips the summary of the one before (`compact.go:73`), so earlier
  prompts vanish, against the instruction in `compact.go:12`.
- A forked worker may copy the conversation between tool calls and their results
  (`a2a.go:483`), which the providers refuse.
- For calls that are not routed to the sandbox a hook may replace the input after the
  policy or the person has granted it (`agent.go:1998`); what runs is the new one.
- On a terminal plan mode's choice is sent to a channel nobody receives from
  (`main.go:989`, `1132`).
- A call routed to the sandbox is never checked against the deny list
  (`agent.go:1947`).
- `/resume` without an id restores the session that is open, since it is saved
  before the first prompt (`main.go:289`).
- A VM started by a call runs under that run's context (`sandbox.go:172`); when it
  has died with the run, `tcpAddr` is still set and nobody starts another, so later
  calls wait ten minutes each before they fall back. `Close` replaces the channel
  `keepaliveLoop` reads (`sandbox.go:370`), so a busy loop may miss it.
- The sandbox's answer at a timeout can say "exited" without the error of a command
  that failed (`sandbox-mcp-server/main.go:375`): the exception in `EndIsReported`. The
  agent ignores `isError` (`mcp.go:572`), and of a cancelled command only the shell is
  killed, not what it has started (`sandbox-mcp-server/main.go:216`).
- Two edits of one file in one parallel batch can lose one (`edit.go:100`).
- A call cut short by `max_tokens` is recorded with an input that is no JSON; a
  stream closed in good order, `response.failed` and a `finish_reason` other than
  `tool_calls` count as completed, and the calls they leave open are dropped
  (`openai.go:192`, `462`, `486`).
- An error of `stream.Close` after an error event blocks the provider's goroutine
  for ever, as the turn reads no more (`anthropic.go:113`, `openai.go:120`).
- A review that ends zeroes the counter with the calls made meanwhile
  (`skill_evolution.go:78`). A queued extraction is lost at exit, and one that runs
  after `/clear` reads the emptied conversation.

Sessions two terminals have open at once can lose
snapshots (`Alone` in `SessionLog` leaves them out of its properties), and a
process that dies in a rewrite leaves its session unreadable (`session.go:275`);
`NeverStale` shows that at least it is never read back older than it was. A
reconnect that waits for the mutex while `Close` has it starts a server after
`Close` (`mcp.go:439`), and an MCP server that sends a notification shifts all
later answers by one, since replies are matched to requests by order only
(`mcp.go:827`).

## What is not modelled

- Providers: `Chat` without streaming and `retryChat` (the same loop as a turn's,
  without tools), tool schemas, token counts, cache keys: translation without state.
- Contents of files, summaries and memories beyond what `Edits` does to a text:
  data that no control depends on. The cross-session store's deduplication
  and limits are text, and two terminals that write it are left out.
- Printing, logging, installation and configuration.
- The shared directory and the worktrees of subagents: file system operations
  without shared state.
- `Chat` and `Stream` of `Agent`, library entry points the program does not call.
- HTTP and websocket transports of MCP: one request per connection, or the same
  protocol over another pipe.
- A silent MCP server: the code has no timeout for it, so a run about it could
  only show that everything waits.
- The tool registry: one map under one lock.
- Reads and searches, on the host and in the sandbox: I/O that changes no state.
- `keepaliveLoop`: it only logs.

## Plan

In order of what the system depends on most:

1. *(done)* the turn and its contract, with proofs; the tool loop with
   compaction; workers; permissions and the terminal; the session store; the MCP
   client, with proofs.
2. *(done)* `ToolBatch` with hooks and file tools, the second implementation of
   `OrderedCalls`; `Sandbox`; `Learning` and `SkillUsage`; `Streams` and `Requests`.
3. *(done)* proofs of the safety properties of `Sandbox` and of those of `Learning` and
   `SkillUsage`.
4. *(done)* proofs of the safety properties of `Coordinator`, `Permissions` and
   `SessionLog`, and of those of `Streams` that need no induction over data.
5. *(done)* proofs of the safety properties of `ToolLoop`, of `ChangesAreAttributed`,
   and that `ToolBatch` implements `OrderedCalls`.
