----------------------------- MODULE Coordinator -----------------------------
(***************************************************************************)
(* The workers of an agent.  Coordinator (coordinate.go) starts them       *)
(* asynchronously and keeps a WorkerTask for each, which the subagent tool *)
(* awaits, stops or looks at from other tool calls and from later runs;    *)
(* RunSubAgents (a2a.go) runs a batch of them and waits.  Both run a       *)
(* worker with runWorkerAgent, which talks over the A2ABus.                *)
(*                                                                         *)
(* Sections under coordinator.mu are one step.  Task.notification reads    *)
(* the fields of a task without that lock, so each field it returns is     *)
(* either the one its caller last synchronised with or the current one.    *)
(***************************************************************************)
EXTENDS Naturals, Sequences, FiniteSets

CONSTANTS Workers,       \* workers, as many as are ever started
          Callers,       \* subagent tool calls that may be in flight together
          MaxConcurrent  \* agent.maxConcurrentSubAgents

ASSUME CoordinatorAssumption ==
    MaxConcurrent \in Nat \ {0} /\ IsFiniteSet(Workers) /\ Workers # {}

Kinds == {"async", "sync"}
Steps == {"none", "waiting", "created", "registered", "looping", "replied", "stored", "ended"}
\* How the worker's RunToolLoop ends: with an answer, stopped by a limit
\* (which is no error and has no content), or with an error.
Outcomes == {"none", "answer", "stopped", "error"}
Statuses == {"none", "running", "completed", "failed", "killed"}
Tasks == [status : Statuses, content : BOOLEAN, error : {"none", "worker", "killed"}]
Ops == {"none", "await", "status", "stop"}
Phases == {"asked", "synced", "answered"}

NoTask == [status |-> "none", content |-> FALSE, error |-> "none"]
NewTask == [NoTask EXCEPT !.status = "running"]
KilledTask == [NoTask EXCEPT !.status = "killed", !.error = "killed"]
Call(op, w, phase, seen, final) ==
    [op |-> op, of |-> w, phase |-> phase, seen |-> seen, final |-> final]

VARIABLES
    kind,        \* how each worker was started
    worker,      \* where its goroutine is
    outcome,     \* how its RunToolLoop ended
    cancelled,   \* workers whose context is done
    task,        \* coordinator.tasks: the shared fields of each WorkerTask
    done,        \* tasks whose done channel is closed
    registered,  \* bus.parents: children the bus knows
    bus,         \* bus.messages, by the child they are from or to
    call,        \* the subagent tool calls on tasks
    batch,       \* workers of the RunSubAgents call that is running
    run          \* the parent's run: "over", "live" or "cancelled"

workers == <<kind, worker, outcome, cancelled>>
tasks == <<task, done>>
a2a == <<registered, bus>>
vars == <<workers, tasks, a2a, call, batch, run>>

Init ==
    /\ kind = [w \in Workers |-> "none"]
    /\ worker = [w \in Workers |-> "none"]
    /\ outcome = [w \in Workers |-> "none"]
    /\ cancelled = {}
    /\ task = [w \in Workers |-> NoTask]
    /\ done = {}
    /\ registered = {}
    /\ bus = [w \in Workers |-> <<>>]
    /\ call = [c \in Callers |->
                Call("none", CHOOSE w \in Workers : TRUE, "answered", NoTask, FALSE)]
    /\ batch = {}
    /\ run = "live"

Goto(w, step) == worker' = [worker EXCEPT ![w] = step]
-----------------------------------------------------------------------------
(* Starting workers, from tool calls of a live run.                        *)

\* StartWorker: the task is in the map before its goroutine exists.  A worker
\* that is never started stands for one whose directories could not be made.
StartWorker(w) ==
    /\ run # "over"
    /\ worker[w] = "none"
    /\ kind' = [kind EXCEPT ![w] = "async"]
    /\ task' = [task EXCEPT ![w] = NewTask]
    /\ cancelled' = IF run = "cancelled" THEN cancelled \union {w} ELSE cancelled
    /\ Goto(w, "created")
    /\ UNCHANGED <<outcome, done, a2a, call, batch, run>>

\* RunSubAgents: one goroutine for each request, all of them at once.
StartBatch(b) ==
    /\ run # "over" /\ batch = {} /\ b # {}
    /\ \A w \in b : worker[w] = "none"
    /\ batch' = b
    /\ kind' = [w \in Workers |-> IF w \in b THEN "sync" ELSE kind[w]]
    /\ worker' = [w \in Workers |-> IF w \in b THEN "waiting" ELSE worker[w]]
    /\ cancelled' = IF run = "cancelled" THEN cancelled \union b ELSE cancelled
    /\ UNCHANGED <<outcome, tasks, a2a, call, run>>

\* Places of the semaphore that are taken.
Running == {w \in batch : worker[w] \in {"created", "registered", "looping", "replied"}}

TakeSlot(w) ==
    /\ worker[w] = "waiting"
    /\ Cardinality(Running) < MaxConcurrent
    /\ Goto(w, "created")
    /\ UNCHANGED <<kind, outcome, cancelled, tasks, a2a, call, batch, run>>

\* context_cancelled
GiveUpSlot(w) ==
    /\ worker[w] = "waiting" /\ w \in cancelled
    /\ outcome' = [outcome EXCEPT ![w] = "error"]
    /\ Goto(w, "ended")
    /\ UNCHANGED <<kind, cancelled, tasks, a2a, call, batch, run>>

\* wg.Wait returns.
BatchReturns ==
    /\ batch # {} /\ \A w \in batch : worker[w] = "ended"
    /\ batch' = {}
    /\ UNCHANGED <<workers, tasks, a2a, call, run>>
-----------------------------------------------------------------------------
(* runWorkerAgent.                                                         *)

RegisterAgent(w) ==
    /\ worker[w] = "created"
    /\ registered' = registered \union {w}
    /\ Goto(w, "registered")
    /\ UNCHANGED <<kind, outcome, cancelled, tasks, bus, call, batch, run>>

\* bus.Send takes a message between a parent and its direct child only.
Delivered(w, type) == bus' = IF w \in registered
                             THEN [bus EXCEPT ![w] = Append(@, type)] ELSE bus

SendRequest(w) ==
    /\ worker[w] = "registered"
    /\ Delivered(w, "task_request")
    /\ IF w \in registered THEN Goto(w, "looping") /\ UNCHANGED outcome
       ELSE Goto(w, "replied") /\ outcome' = [outcome EXCEPT ![w] = "error"]
    /\ UNCHANGED <<kind, cancelled, tasks, registered, call, batch, run>>

\* The child's RunToolLoop returns, and its parent is told.  A cancelled
\* worker may have been done already.
Reply(w, o) ==
    /\ worker[w] = "looping"
    /\ Delivered(w, IF o = "error" THEN "error" ELSE "task_result")
    /\ outcome' = [outcome EXCEPT ![w] = IF w \in registered THEN o ELSE "error"]
    /\ Goto(w, "replied")
    /\ UNCHANGED <<kind, cancelled, tasks, registered, call, batch, run>>

\* RunSubAgents stores the result and gives its slot back.
EndSync(w) ==
    /\ kind[w] = "sync" /\ worker[w] = "replied"
    /\ Goto(w, "ended")
    /\ UNCHANGED <<kind, outcome, cancelled, tasks, a2a, call, batch, run>>
-----------------------------------------------------------------------------
(* runWorker, after runWorkerAgent: the result under mu, then done.        *)

Finished(w) == [status |-> IF outcome[w] = "error" THEN "failed" ELSE "completed",
                content |-> outcome[w] = "answer",
                error |-> IF outcome[w] = "error" THEN "worker" ELSE "none"]

\* Mutant: the result is stored whatever happened to the task meanwhile.
StoreOverKill(w) ==
    /\ kind[w] = "async" /\ worker[w] = "replied"
    /\ task' = [task EXCEPT ![w] = Finished(w)]
    /\ Goto(w, "stored")
    /\ UNCHANGED <<kind, outcome, cancelled, done, a2a, call, batch, run>>

StoreResult(w) ==
    /\ kind[w] = "async" /\ worker[w] = "replied"
    /\ task' = [task EXCEPT ![w] = IF @.status = "killed" THEN @ ELSE Finished(w)]
    /\ Goto(w, "stored")
    /\ UNCHANGED <<kind, outcome, cancelled, done, a2a, call, batch, run>>

CloseDone(w) ==
    /\ worker[w] = "stored"
    /\ done' = done \union {w}
    /\ Goto(w, "ended")
    /\ UNCHANGED <<kind, outcome, cancelled, task, a2a, call, batch, run>>
-----------------------------------------------------------------------------
(* The subagent tool's await, taskstop and status.                         *)

\* The tool finds the task under mu, which orders it after what is stored.
Ask(c, op, w) ==
    /\ run # "over"
    /\ call[c].phase = "answered"
    /\ task[w].status # "none"
    /\ call' = [call EXCEPT ![c] = Call(op, w, "asked", task[w], FALSE)]
    /\ UNCHANGED <<workers, tasks, a2a, batch, run>>

Pending(c, op) == call[c].op = op /\ call[c].phase = "asked"

\* From here on the call sees at least t.
Synced(c, t, final) ==
    call' = [call EXCEPT ![c] = Call(@.op, @.of, "synced", t, final)]

\* AwaitTask: the task is done, or the run's context, whichever select takes.
AwaitDone(c) ==
    /\ Pending(c, "await")
    /\ call[c].of \in done
    /\ Synced(c, task[call[c].of], TRUE)
    /\ UNCHANGED <<workers, tasks, a2a, batch, run>>

AwaitGivesUp(c) ==
    /\ Pending(c, "await")
    /\ run = "cancelled"
    /\ Synced(c, call[c].seen, FALSE)
    /\ UNCHANGED <<workers, tasks, a2a, batch, run>>

\* Mutant: a task is killed without cancelling its worker.
StopTaskOnly(c) ==
    /\ Pending(c, "stop")
    /\ LET w == call[c].of
           t == IF task[w].status = "running" THEN KilledTask ELSE task[w]
       IN /\ task' = [task EXCEPT ![w] = t]
          /\ Synced(c, t, TRUE)
    /\ UNCHANGED <<kind, worker, outcome, cancelled, done, a2a, batch, run>>

StopTask(c) ==
    /\ Pending(c, "stop")
    /\ LET w == call[c].of
           running == task[w].status = "running"
           t == IF running THEN KilledTask ELSE task[w]
       IN /\ task' = [task EXCEPT ![w] = t]
          /\ cancelled' = IF running THEN cancelled \union {w} ELSE cancelled
          /\ Synced(c, t, TRUE)
    /\ UNCHANGED <<kind, worker, outcome, done, a2a, batch, run>>

\* notification, field by field and without mu; TaskStatus does nothing else.
Notify(c) ==
    /\ call[c].phase = "synced" \/ Pending(c, "status")
    /\ LET old == call[c].seen
           new == task[call[c].of]
       IN \E t \in [status : {old.status, new.status},
                    content : {old.content, new.content},
                    error : {old.error, new.error}] :
             call' = [call EXCEPT ![c] = Call(@.op, @.of, "answered", t, @.final)]
    /\ UNCHANGED <<workers, tasks, a2a, batch, run>>
-----------------------------------------------------------------------------
(* The parent's run.                                                       *)

Started == {w \in Workers : worker[w] # "none"}

\* Mutant: workers are given a context of their own.
CancelParentOnly ==
    /\ run = "live"
    /\ run' = "cancelled"
    /\ UNCHANGED <<workers, tasks, a2a, call, batch>>

\* Esc cancels the run's context, and the contexts made from it.
Cancel ==
    /\ run = "live"
    /\ run' = "cancelled" /\ cancelled' = Started
    /\ UNCHANGED <<kind, worker, outcome, tasks, a2a, call, batch>>

\* RunToolLoop returns when its tool calls have; runAgent's deferred cancel
\* then ends the context of the workers that are left.
EndRun ==
    /\ run # "over"
    /\ batch = {} /\ \A c \in Callers : call[c].phase = "answered"
    /\ run' = "over" /\ cancelled' = Started
    /\ UNCHANGED <<kind, worker, outcome, tasks, a2a, call, batch>>

StartRun ==
    /\ run = "over"
    /\ run' = "live"
    /\ UNCHANGED <<workers, tasks, a2a, call, batch>>
-----------------------------------------------------------------------------
Worker(w) == \/ TakeSlot(w) \/ GiveUpSlot(w) \/ RegisterAgent(w) \/ SendRequest(w)
             \/ EndSync(w) \/ StoreResult(w) \/ CloseDone(w)

Replies(w) == \E o \in Outcomes \ {"none"} : Reply(w, o)

Caller(c) == AwaitDone(c) \/ AwaitGivesUp(c) \/ StopTask(c) \/ Notify(c)

Next == \/ \E w \in Workers : StartWorker(w) \/ Worker(w) \/ Replies(w)
        \/ \E b \in SUBSET Workers : StartBatch(b)
        \/ \E c \in Callers : Caller(c)
        \/ \E c \in Callers, op \in Ops \ {"none"}, w \in Workers : Ask(c, op, w)
        \/ BatchReturns \/ Cancel \/ EndRun \/ StartRun

Spec == Init /\ [][Next]_vars

\* Goroutines that can run do.  A worker's own run is only sure to end when
\* its context is done; the parent and its model owe nothing.
Fairness ==
    /\ \A w \in Workers : WF_vars(Worker(w)) /\ WF_vars(w \in cancelled /\ Replies(w))
    /\ \A c \in Callers : WF_vars(Caller(c))
    /\ WF_vars(BatchReturns)

FairSpec == Spec /\ Fairness
-----------------------------------------------------------------------------
TypeOK ==
    /\ kind \in [Workers -> Kinds \union {"none"}]
    /\ worker \in [Workers -> Steps]
    /\ outcome \in [Workers -> Outcomes]
    /\ task \in [Workers -> Tasks]
    /\ cancelled \subseteq Workers /\ done \subseteq Workers
    /\ registered \subseteq Workers /\ batch \subseteq Workers
    /\ \A w \in Workers : Len(bus[w]) <= 2
    /\ call \in [Callers -> [op : Ops, of : Workers, phase : Phases,
                             seen : Tasks, final : BOOLEAN]]
    /\ run \in {"over", "live", "cancelled"}

Terminal(t) == t.status \in {"completed", "failed", "killed"}

\* Kill, completion and failure race for a task: the first one to take mu
\* decides its status, content and error for good.
TerminalIsFinal ==
    [][ \A w \in Workers : Terminal(task[w]) => task'[w] = task[w] ]_tasks

\* notification reads without the lock, but what taskstop and a completed
\* await return is the whole final state of the task, never a torn one.
AnswersAreFinal ==
    \A c \in Callers :
        call[c].phase = "answered" /\ call[c].final =>
            Terminal(call[c].seen) /\ call[c].seen = task[call[c].of]

\* RunSubAgents never has more children at work than its limit, and when it
\* has returned none of them is still at work.
BatchIsBounded ==
    /\ Cardinality(Running) <= MaxConcurrent
    /\ \A w \in Workers : kind[w] = "sync" /\ w \notin batch => worker[w] = "ended"

\* A killed task, and every task of a run that is over, stops working; its
\* done channel is closed, so no later await hangs on it.
CancelledWorkersEnd ==
    \A w \in Workers :
        w \in cancelled \/ task[w].status = "killed"
            ~> worker[w] = "ended" /\ (kind[w] = "async" => w \in done)

\* After Esc every subagent call returns, a batch as well as an await.
CallsReturnAfterCancel ==
    /\ run = "cancelled" ~> batch = {}
    /\ \A c \in Callers : run = "cancelled" ~> call[c].phase = "answered"
=============================================================================
