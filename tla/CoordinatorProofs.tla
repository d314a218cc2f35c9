--------------------------- MODULE CoordinatorProofs ---------------------------
(***************************************************************************)
(* Proofs about Coordinator for any workers, callers and batch limit.      *)
(***************************************************************************)
EXTENDS Coordinator, FiniteSetTheorems, SequenceTheorems, TLAPS

Calls == [op : Ops, of : Workers, phase : Phases, seen : Tasks, final : BOOLEAN]
Messages == {"task_request", "task_result", "error"}

TypeInv ==
    /\ kind \in [Workers -> Kinds \union {"none"}]
    /\ worker \in [Workers -> Steps]
    /\ outcome \in [Workers -> Outcomes]
    /\ task \in [Workers -> Tasks]
    /\ cancelled \subseteq Workers /\ done \subseteq Workers
    /\ registered \subseteq Workers /\ batch \subseteq Workers
    /\ bus \in [Workers -> Seq(Messages)]
    /\ call \in [Callers -> Calls]
    /\ run \in {"over", "live", "cancelled"}

\* A worker sends one request and one reply at most.
BusInv ==
    \A w \in Workers :
        /\ worker[w] \in {"none", "waiting", "created", "registered"} => Len(bus[w]) = 0
        /\ worker[w] = "looping" => Len(bus[w]) <= 1
        /\ Len(bus[w]) <= 2

\* How a worker was started and how far it has come say what its task is: only a
\* worker started by StartWorker has one, which is open until the result is stored.
TaskInv ==
    \A w \in Workers :
        /\ kind[w] = "none" <=> worker[w] = "none"
        /\ task[w].status = "none" <=> kind[w] # "async"
        /\ kind[w] = "async" =>
              /\ worker[w] # "waiting"
              /\ worker[w] \in {"created", "registered", "looping", "replied"} =>
                    task[w].status \in {"running", "killed"}
              /\ worker[w] \in {"stored", "ended"} => Terminal(task[w])
        /\ kind[w] = "sync" => worker[w] # "stored"
        /\ w \in done => kind[w] = "async" /\ worker[w] = "ended"
        /\ w \in batch => kind[w] = "sync"

\* A call is on a task there is, and what it has read of a task that had ended is
\* what the task still is.
CallInv ==
    \A c \in Callers :
        /\ call[c].phase # "answered" => kind[call[c].of] = "async"
        /\ call[c].phase = "asked" => ~call[c].final
        /\ call[c].final => Terminal(call[c].seen) /\ call[c].seen = task[call[c].of]

IInv == TypeInv /\ BusInv /\ TaskInv /\ CallInv /\ BatchIsBounded

LEMMA NoTaskType == NoTask \in Tasks /\ NewTask \in Tasks /\ KilledTask \in Tasks
BY DEF NoTask, NewTask, KilledTask, Tasks, Statuses

LEMMA FinishedType ==
    ASSUME NEW w \in Workers
    PROVE  Finished(w) \in Tasks /\ Terminal(Finished(w))
<1>1. Finished(w) \in Tasks
  BY DEF Finished, Tasks, Statuses
<1>2. Finished(w).status \in {"failed", "completed"}
  BY DEF Finished
<1>3. QED
  BY <1>1, <1>2 DEF Terminal

LEMMA CallType ==
    ASSUME NEW op \in Ops, NEW w \in Workers, NEW p \in Phases, NEW t \in Tasks, NEW f \in BOOLEAN
    PROVE  /\ Call(op, w, p, t, f) \in Calls
           /\ Call(op, w, p, t, f).of = w /\ Call(op, w, p, t, f).phase = p
           /\ Call(op, w, p, t, f).seen = t /\ Call(op, w, p, t, f).final = f
BY DEF Call, Calls

LEMMA InitIInv == Init => IInv
<1> SUFFICES ASSUME Init PROVE IInv
  OBVIOUS
<1> USE DEF Init
<1>1. (CHOOSE w \in Workers : TRUE) \in Workers
  BY CoordinatorAssumption
<1>2. call \in [Callers -> Calls]
  BY <1>1, NoTaskType, CallType DEF Ops, Phases
<1>3. TypeInv
  <2>1. bus \in [Workers -> Seq(Messages)]
    OBVIOUS
  <2>2. QED
    BY <1>2, <2>1, NoTaskType DEF TypeInv, Kinds, Steps, Outcomes
<1>4. BusInv /\ TaskInv
  BY DEF BusInv, TaskInv, NoTask
<1>5. CallInv
  BY DEF CallInv, Call
<1>6. Running = {}
  BY DEF Running
<1>7. BatchIsBounded
  BY <1>6, FS_EmptySet, CoordinatorAssumption DEF BatchIsBounded
<1>8. QED
  BY <1>3, <1>4, <1>5, <1>7 DEF IInv
-----------------------------------------------------------------------------
(* Every variable keeps its type.                                          *)

LEMMA NextType == TypeInv /\ [Next]_vars => TypeInv'
<1> SUFFICES ASSUME TypeInv, [Next]_vars PROVE TypeInv'
  OBVIOUS
<1> USE DEF TypeInv, Goto, workers, tasks, a2a
<1>1. ASSUME NEW w \in Workers, StartWorker(w) PROVE TypeInv'
  BY <1>1, NoTaskType DEF StartWorker, Kinds, Steps
<1>2. ASSUME NEW b \in SUBSET Workers, StartBatch(b) PROVE TypeInv'
  BY <1>2 DEF StartBatch, Kinds, Steps
<1>3. ASSUME NEW w \in Workers, TakeSlot(w) \/ GiveUpSlot(w) \/ RegisterAgent(w) \/ EndSync(w)
      PROVE TypeInv'
  BY <1>3 DEF TakeSlot, GiveUpSlot, RegisterAgent, EndSync, Steps, Outcomes
<1>a. ASSUME NEW w \in Workers, NEW m \in Messages, Delivered(w, m)
      PROVE  bus' \in [Workers -> Seq(Messages)]
  <2>1. Append(bus[w], m) \in Seq(Messages)
    BY AppendProperties
  <2>2. QED
    BY <1>a, <2>1 DEF Delivered
<1>4. ASSUME NEW w \in Workers, SendRequest(w) PROVE TypeInv'
  <2>1. bus' \in [Workers -> Seq(Messages)]
    BY <1>4, <1>a DEF SendRequest, Messages
  <2>2. worker' \in [Workers -> Steps] /\ outcome' \in [Workers -> Outcomes]
    BY <1>4 DEF SendRequest, Steps, Outcomes
  <2>3. QED
    BY <1>4, <2>1, <2>2 DEF SendRequest
<1>5. ASSUME NEW w \in Workers, NEW o \in Outcomes \ {"none"}, Reply(w, o) PROVE TypeInv'
  <2>1. bus' \in [Workers -> Seq(Messages)]
    BY <1>5, <1>a DEF Reply, Messages
  <2>2. worker' \in [Workers -> Steps] /\ outcome' \in [Workers -> Outcomes]
    BY <1>5 DEF Reply, Steps, Outcomes
  <2>3. QED
    BY <1>5, <2>1, <2>2 DEF Reply
<1>6. ASSUME NEW w \in Workers, StoreResult(w) PROVE TypeInv'
  BY <1>6, FinishedType DEF StoreResult, Steps
<1>7. ASSUME NEW w \in Workers, CloseDone(w) PROVE TypeInv'
  BY <1>7 DEF CloseDone, Steps
<1>8. ASSUME NEW c \in Callers, NEW op \in Ops \ {"none"}, NEW w \in Workers, Ask(c, op, w)
      PROVE TypeInv'
  <2>1. task[w] \in Tasks /\ "asked" \in Phases /\ op \in Ops
    BY DEF Phases
  <2>2. Call(op, w, "asked", task[w], FALSE) \in Calls
    BY <2>1, CallType
  <2>3. QED
    BY <1>8, <2>2 DEF Ask
<1>9. ASSUME NEW c \in Callers, NEW t \in Tasks, NEW f \in BOOLEAN, Synced(c, t, f)
      PROVE  call' \in [Callers -> Calls]
  <2>1. Call(call[c].op, call[c].of, "synced", t, f) \in Calls
    BY CallType DEF Phases, Calls
  <2>2. QED
    BY <1>9, <2>1 DEF Synced
<1>10. ASSUME NEW c \in Callers, AwaitDone(c) \/ AwaitGivesUp(c) PROVE TypeInv'
  <2>1. call[c].of \in Workers /\ call[c].seen \in Tasks
    BY DEF Calls
  <2>2. call' \in [Callers -> Calls]
    BY <1>9, <1>10, <2>1 DEF AwaitDone, AwaitGivesUp
  <2>3. QED
    BY <1>10, <2>2 DEF AwaitDone, AwaitGivesUp
<1>11. ASSUME NEW c \in Callers, StopTask(c) PROVE TypeInv'
  <2>1. call[c].of \in Workers
    BY DEF Calls
  <2>2. PICK t \in Tasks : task' = [task EXCEPT ![call[c].of] = t] /\ Synced(c, t, TRUE)
    BY <1>11, <2>1, NoTaskType DEF StopTask
  <2>3. call' \in [Callers -> Calls]
    BY <1>9, <2>2
  <2>4. cancelled' \subseteq Workers
    BY <1>11, <2>1 DEF StopTask
  <2>5. QED
    BY <1>11, <2>1, <2>2, <2>3, <2>4 DEF StopTask
<1>12. ASSUME NEW c \in Callers, Notify(c) PROVE TypeInv'
  <2>1. call[c] \in Calls /\ call[c].of \in Workers /\ call[c].seen \in Tasks /\ task[call[c].of] \in Tasks
    BY DEF Calls
  <2>2. PICK t \in [status : {call[c].seen.status, task[call[c].of].status},
                    content : {call[c].seen.content, task[call[c].of].content},
                    error : {call[c].seen.error, task[call[c].of].error}] :
           call' = [call EXCEPT ![c] = Call(@.op, @.of, "answered", t, @.final)]
    BY <1>12 DEF Notify
  <2>3. t \in Tasks
    BY <2>1 DEF Tasks
  <2>4. Call(call[c].op, call[c].of, "answered", t, call[c].final) \in Calls
    BY <2>1, <2>3, CallType DEF Phases, Calls
  <2>5. QED
    BY <1>12, <2>2, <2>4 DEF Notify
<1>13. CASE BatchReturns \/ Cancel \/ EndRun \/ StartRun
  BY <1>13 DEF BatchReturns, Cancel, EndRun, StartRun, Started
<1>14. CASE UNCHANGED vars
  BY <1>14 DEF vars
<1>15. QED
  BY <1>1, <1>2, <1>3, <1>4, <1>5, <1>6, <1>7, <1>8, <1>10, <1>11, <1>12, <1>13, <1>14
  DEF Next, Worker, Replies, Caller
-----------------------------------------------------------------------------
(* The bus.                                                                *)

LEMMA NextBus == TypeInv /\ BusInv /\ [Next]_vars => BusInv'
<1> SUFFICES ASSUME TypeInv, BusInv, [Next]_vars PROVE BusInv'
  OBVIOUS
<1> USE DEF BusInv, Goto, workers, tasks, a2a
<1>a. /\ worker \in [Workers -> Steps] /\ bus \in [Workers -> Seq(Messages)]
      /\ \A w \in Workers : Len(bus[w]) \in Nat
  BY DEF TypeInv
<1>b. ASSUME NEW w \in Workers, NEW m \in Messages, Delivered(w, m)
      PROVE  /\ bus'[w] = bus[w] \/ Len(bus'[w]) = Len(bus[w]) + 1
             /\ \A v \in Workers \ {w} : bus'[v] = bus[v]
  BY <1>a, <1>b DEF Delivered
<1>1. ASSUME NEW w \in Workers, SendRequest(w) PROVE BusInv'
  <2>1. Delivered(w, "task_request") /\ "task_request" \in Messages
    BY <1>1 DEF SendRequest, Messages
  <2>2. /\ bus'[w] = bus[w] \/ Len(bus'[w]) = Len(bus[w]) + 1
        /\ \A v \in Workers \ {w} : bus'[v] = bus[v]
    BY <1>b, <2>1
  <2>3. Len(bus[w]) = 0
    BY <1>1 DEF SendRequest
  <2>4. worker'[w] \in {"looping", "replied"} /\ \A v \in Workers \ {w} : worker'[v] = worker[v]
    BY <1>1, <1>a DEF SendRequest
  <2>5. Len(bus'[w]) <= 1
    <3>1. CASE bus'[w] = bus[w]
      BY <2>3, <3>1
    <3>2. CASE Len(bus'[w]) = Len(bus[w]) + 1
      BY <2>3, <3>2
    <3>3. QED
      BY <2>2, <3>1, <3>2
  <2>6. QED
    BY <1>a, <2>2, <2>4, <2>5
<1>2. ASSUME NEW w \in Workers, NEW o \in Outcomes \ {"none"}, Reply(w, o) PROVE BusInv'
  <2>1. PICK m \in Messages : Delivered(w, m)
    BY <1>2 DEF Reply, Messages
  <2>2. /\ bus'[w] = bus[w] \/ Len(bus'[w]) = Len(bus[w]) + 1
        /\ \A v \in Workers \ {w} : bus'[v] = bus[v]
    BY <1>b, <2>1
  <2>3. Len(bus[w]) <= 1
    BY <1>2 DEF Reply
  <2>4. worker'[w] = "replied" /\ \A v \in Workers \ {w} : worker'[v] = worker[v]
    BY <1>2, <1>a DEF Reply
  <2>5. QED
    BY <1>a, <2>2, <2>3, <2>4
<1>3. ASSUME NEW w \in Workers,
             TakeSlot(w) \/ GiveUpSlot(w) \/ RegisterAgent(w) \/ EndSync(w)
             \/ StoreResult(w) \/ CloseDone(w) \/ StartWorker(w)
      PROVE  BusInv'
  BY <1>3, <1>a DEF TakeSlot, GiveUpSlot, RegisterAgent, EndSync, StoreResult, CloseDone, StartWorker
<1>4. ASSUME NEW b \in SUBSET Workers, StartBatch(b) PROVE BusInv'
  BY <1>4, <1>a DEF StartBatch
<1>5. ASSUME NEW c \in Callers, Caller(c) PROVE BusInv'
  BY <1>5 DEF Caller, AwaitDone, AwaitGivesUp, StopTask, Notify
<1>6. ASSUME NEW c \in Callers, NEW op \in Ops, NEW w \in Workers, Ask(c, op, w) PROVE BusInv'
  BY <1>6 DEF Ask
<1>7. CASE BatchReturns \/ Cancel \/ EndRun \/ StartRun
  BY <1>7 DEF BatchReturns, Cancel, EndRun, StartRun
<1>8. CASE UNCHANGED vars
  BY <1>8 DEF vars
<1>9. QED
  BY <1>1, <1>2, <1>3, <1>4, <1>5, <1>6, <1>7, <1>8 DEF Next, Worker, Replies
-----------------------------------------------------------------------------
(* Tasks.                                                                  *)

LEMMA NextTask == TypeInv /\ TaskInv /\ [Next]_vars => TaskInv'
<1> SUFFICES ASSUME TypeInv, TaskInv, [Next]_vars PROVE TaskInv'
  OBVIOUS
<1> USE DEF TaskInv, Goto, workers, tasks, a2a
<1>a. /\ kind \in [Workers -> Kinds \union {"none"}] /\ worker \in [Workers -> Steps]
      /\ task \in [Workers -> Tasks] /\ call \in [Callers -> Calls]
  BY DEF TypeInv
<1>1. ASSUME NEW w \in Workers, StartWorker(w) PROVE TaskInv'
  BY <1>1, <1>a DEF StartWorker, NewTask, NoTask
<1>2. ASSUME NEW b \in SUBSET Workers, StartBatch(b) PROVE TaskInv'
  BY <1>2, <1>a DEF StartBatch
<1>3. ASSUME NEW w \in Workers, TakeSlot(w) \/ GiveUpSlot(w) \/ EndSync(w) PROVE TaskInv'
  BY <1>3, <1>a DEF TakeSlot, GiveUpSlot, EndSync
<1>4. ASSUME NEW w \in Workers, NEW o \in Outcomes,
             RegisterAgent(w) \/ SendRequest(w) \/ Reply(w, o)
      PROVE  TaskInv'
  BY <1>4, <1>a DEF RegisterAgent, SendRequest, Reply
<1>5. ASSUME NEW w \in Workers, StoreResult(w) PROVE TaskInv'
  <2>1. Terminal(task'[w]) /\ \A v \in Workers \ {w} : task'[v] = task[v]
    BY <1>5, <1>a, FinishedType DEF StoreResult, Terminal
  <2>2. QED
    BY <1>5, <1>a, <2>1 DEF StoreResult, Terminal
<1>6. ASSUME NEW w \in Workers, CloseDone(w) PROVE TaskInv'
  BY <1>6, <1>a DEF CloseDone, Kinds
<1>7. ASSUME NEW c \in Callers, StopTask(c) PROVE TaskInv'
  <2> DEFINE w == call[c].of
  <2>1. w \in Workers
    BY <1>a DEF Calls
  <2>2. \/ task[w].status = "running" /\ task'[w].status = "killed"
        \/ task'[w] = task[w]
    BY <1>7, <1>a, <2>1 DEF StopTask, KilledTask, NoTask
  <2>3. \A v \in Workers \ {w} : task'[v] = task[v]
    BY <1>7, <1>a, <2>1 DEF StopTask
  <2>4. UNCHANGED <<kind, worker, done, batch>>
    BY <1>7 DEF StopTask
  <2>5. QED
    BY <2>1, <2>2, <2>3, <2>4 DEF Terminal
<1>8. ASSUME NEW c \in Callers, AwaitDone(c) \/ AwaitGivesUp(c) \/ Notify(c) PROVE TaskInv'
  <2>1. UNCHANGED <<kind, worker, task, done, batch>>
    BY <1>8 DEF AwaitDone, AwaitGivesUp, Notify
  <2>2. QED
    BY <2>1
<1>9. ASSUME NEW c \in Callers, NEW op \in Ops, NEW w \in Workers, Ask(c, op, w) PROVE TaskInv'
  BY <1>9 DEF Ask
<1>10. CASE BatchReturns \/ Cancel \/ EndRun \/ StartRun
  <2>1. UNCHANGED <<kind, worker, task, done>> /\ batch' \subseteq batch
    BY <1>10 DEF BatchReturns, Cancel, EndRun, StartRun
  <2>2. QED
    BY <2>1
<1>11. CASE UNCHANGED vars
  BY <1>11 DEF vars
<1>12. QED
  BY <1>1, <1>2, <1>3, <1>4, <1>5, <1>6, <1>7, <1>8, <1>9, <1>10, <1>11, "none" \in Outcomes
  DEF Next, Worker, Replies, Caller, Outcomes

\* No step changes a task that has ended.
LEMMA EndedTasksStay ==
    TypeInv /\ TaskInv /\ [Next]_vars =>
        \A w \in Workers : Terminal(task[w]) => task'[w] = task[w]
<1> SUFFICES ASSUME TypeInv, TaskInv, [Next]_vars, NEW w \in Workers, Terminal(task[w])
             PROVE  task'[w] = task[w]
  OBVIOUS
<1> USE DEF TaskInv, Goto, workers, tasks, a2a, Terminal
<1>a. task \in [Workers -> Tasks] /\ call \in [Callers -> Calls]
  BY DEF TypeInv
<1>1. ASSUME NEW v \in Workers, StartWorker(v) PROVE task'[w] = task[w]
  <2>1. task[v].status = "none"
    BY <1>1 DEF StartWorker
  <2>2. QED
    BY <1>1, <1>a, <2>1 DEF StartWorker
<1>2. ASSUME NEW v \in Workers, StoreResult(v) PROVE task'[w] = task[w]
  <2>1. task[v].status \in {"running", "killed"}
    BY <1>2 DEF StoreResult
  <2>2. QED
    BY <1>2, <1>a, <2>1 DEF StoreResult
<1>3. ASSUME NEW c \in Callers, StopTask(c) PROVE task'[w] = task[w]
  BY <1>3, <1>a DEF StopTask, Calls
<1>4. ASSUME NEW v \in Workers, NEW o \in Outcomes,
             TakeSlot(v) \/ GiveUpSlot(v) \/ RegisterAgent(v) \/ SendRequest(v) \/ EndSync(v)
             \/ CloseDone(v) \/ Reply(v, o)
      PROVE  task' = task
  BY <1>4 DEF TakeSlot, GiveUpSlot, RegisterAgent, SendRequest, EndSync, CloseDone, Reply
<1>5. ASSUME NEW b \in SUBSET Workers, StartBatch(b) PROVE task' = task
  BY <1>5 DEF StartBatch
<1>6. ASSUME NEW c \in Callers, AwaitDone(c) \/ AwaitGivesUp(c) \/ Notify(c) PROVE task' = task
  BY <1>6 DEF AwaitDone, AwaitGivesUp, Notify
<1>7. ASSUME NEW c \in Callers, NEW op \in Ops, NEW v \in Workers, Ask(c, op, v) PROVE task' = task
  BY <1>7 DEF Ask
<1>8. CASE BatchReturns \/ Cancel \/ EndRun \/ StartRun \/ UNCHANGED vars
  BY <1>8 DEF BatchReturns, Cancel, EndRun, StartRun, vars
<1>9. QED
  BY <1>1, <1>2, <1>3, <1>4, <1>5, <1>6, <1>7, <1>8, "none" \in Outcomes
  DEF Next, Worker, Replies, Caller, Outcomes

\* A worker is started once.
LEMMA StartsStay ==
    TypeInv /\ TaskInv /\ [Next]_vars =>
        \A w \in Workers : kind[w] = "async" => kind'[w] = "async"
<1> SUFFICES ASSUME TypeInv, TaskInv, [Next]_vars, NEW w \in Workers, kind[w] = "async"
             PROVE  kind'[w] = "async"
  OBVIOUS
<1> USE DEF Goto, workers, tasks, a2a
<1>a. kind \in [Workers -> Kinds \union {"none"}] /\ worker[w] # "none"
  BY DEF TypeInv, TaskInv
<1>1. ASSUME NEW v \in Workers, StartWorker(v) PROVE kind'[w] = "async"
  BY <1>1, <1>a DEF StartWorker
<1>2. ASSUME NEW b \in SUBSET Workers, StartBatch(b) PROVE kind'[w] = "async"
  BY <1>2, <1>a DEF StartBatch
<1>3. ASSUME NEW v \in Workers, Worker(v) \/ Replies(v) PROVE kind' = kind
  BY <1>3 DEF Worker, Replies, TakeSlot, GiveUpSlot, RegisterAgent, SendRequest, EndSync,
              StoreResult, CloseDone, Reply
<1>4. ASSUME NEW c \in Callers, Caller(c) PROVE kind' = kind
  BY <1>4 DEF Caller, AwaitDone, AwaitGivesUp, StopTask, Notify
<1>5. ASSUME NEW c \in Callers, NEW op \in Ops, NEW v \in Workers, Ask(c, op, v) PROVE kind' = kind
  BY <1>5 DEF Ask
<1>6. CASE BatchReturns \/ Cancel \/ EndRun \/ StartRun \/ UNCHANGED vars
  BY <1>6 DEF BatchReturns, Cancel, EndRun, StartRun, vars
<1>7. QED
  BY <1>1, <1>2, <1>3, <1>4, <1>5, <1>6 DEF Next
-----------------------------------------------------------------------------
(* What callers read.                                                      *)

LEMMA NextCall == TypeInv /\ TaskInv /\ CallInv /\ [Next]_vars => CallInv'
<1> SUFFICES ASSUME TypeInv, TaskInv, CallInv, [Next]_vars PROVE CallInv'
  OBVIOUS
<1> USE DEF CallInv, Goto, workers, tasks, a2a
<1>a. /\ kind \in [Workers -> Kinds \union {"none"}] /\ worker \in [Workers -> Steps]
      /\ task \in [Workers -> Tasks] /\ call \in [Callers -> Calls]
      /\ \A c \in Callers : /\ call[c].op \in Ops /\ call[c].of \in Workers
                            /\ call[c].seen \in Tasks /\ call[c].final \in BOOLEAN
  BY DEF TypeInv, Calls
<1>b. \A w \in Workers : /\ Terminal(task[w]) => task'[w] = task[w]
                         /\ kind[w] = "async" => kind'[w] = "async"
  BY EndedTasksStay, StartsStay
<1>c. CASE UNCHANGED call
  BY <1>a, <1>b, <1>c
<1>d. ASSUME NEW c \in Callers, NEW t \in Tasks, NEW f \in BOOLEAN, NEW p \in {"synced", "answered"},
             call' = [call EXCEPT ![c] = Call(@.op, @.of, p, t, f)],
             kind[call[c].of] = "async", f => Terminal(t) /\ t = task'[call[c].of]
      PROVE  CallInv'
  <2>1. call'[c].phase = p /\ call'[c].final = f /\ call'[c].seen = t /\ call'[c].of = call[c].of
    BY <1>a, <1>d, CallType DEF Phases
  <2>2. \A d \in Callers \ {c} : call'[d] = call[d]
    BY <1>a, <1>d
  <2>3. QED
    BY <1>a, <1>b, <1>d, <2>1, <2>2
<1>1. ASSUME NEW c \in Callers, NEW op \in Ops, NEW w \in Workers, Ask(c, op, w) PROVE CallInv'
  <2>1. call'[c].phase = "asked" /\ ~call'[c].final /\ call'[c].of = w
    <3>1. call'[c] = Call(op, w, "asked", task[w], FALSE)
      BY <1>1, <1>a DEF Ask
    <3>2. QED
      BY <3>1 DEF Call
  <2>3. kind[w] = "async"
    BY <1>1 DEF Ask, TaskInv
  <2>2. \A d \in Callers \ {c} : call'[d] = call[d]
    BY <1>1, <1>a DEF Ask
  <2>4. QED
    BY <1>a, <1>b, <2>1, <2>2, <2>3
<1>2. ASSUME NEW c \in Callers, AwaitDone(c) PROVE CallInv'
  <2>1. Terminal(task[call[c].of]) /\ task' = task /\ kind[call[c].of] = "async"
    BY <1>2, <1>a DEF AwaitDone, TaskInv
  <2>2. Synced(c, task[call[c].of], TRUE)
    BY <1>2 DEF AwaitDone
  <2>3. QED
    BY <1>a, <1>d, <2>1, <2>2 DEF Synced
<1>3. ASSUME NEW c \in Callers, AwaitGivesUp(c) PROVE CallInv'
  <2>1. kind[call[c].of] = "async" /\ Synced(c, call[c].seen, FALSE)
    BY <1>3 DEF AwaitGivesUp, Pending
  <2>2. QED
    BY <1>a, <1>d, <2>1 DEF Synced
<1>4. ASSUME NEW c \in Callers, StopTask(c) PROVE CallInv'
  <2> DEFINE w == call[c].of
             t == IF task[w].status = "running" THEN KilledTask ELSE task[w]
  <2>1. w \in Workers /\ t \in Tasks
    BY <1>a, NoTaskType
  <2>2. task'[w] = t /\ Synced(c, t, TRUE)
    BY <1>4, <1>a, <2>1 DEF StopTask
  <2>3. kind[w] = "async"
    BY <1>4 DEF StopTask, Pending
  <2>4. Terminal(t)
    <3>1. task[w].status # "none"
      BY <2>1, <2>3 DEF TaskInv
    <3>2. QED
      BY <1>a, <2>1, <3>1 DEF Terminal, KilledTask, NoTask, Tasks, Statuses
  <2>5. QED
    BY <1>a, <1>d, <2>1, <2>2, <2>3, <2>4 DEF Synced
<1>5. ASSUME NEW c \in Callers, Notify(c) PROVE CallInv'
  <2> DEFINE old == call[c].seen
             new == task[call[c].of]
  <2>1. PICK t \in [status : {old.status, new.status}, content : {old.content, new.content},
                    error : {old.error, new.error}] :
           call' = [call EXCEPT ![c] = Call(@.op, @.of, "answered", t, @.final)]
    BY <1>5 DEF Notify
  <2>2. old \in Tasks /\ new \in Tasks
    BY <1>a
  <2>3. t \in Tasks
    BY <2>2 DEF Tasks
  <2>4. call[c].final => t = old
    <3>1. call[c].final => old = new
      OBVIOUS
    <3>2. QED
      BY <2>2, <3>1 DEF Tasks
  <2>5. task' = task
    BY <1>5 DEF Notify
  <2>6. call[c].final => Terminal(t) /\ t = task'[call[c].of]
    BY <2>4, <2>5
  <2>7. call' = [call EXCEPT ![c] = Call(@.op, @.of, "answered", t, call[c].final)]
    BY <2>1
  <2>8. kind[call[c].of] = "async"
    BY <1>5 DEF Notify, Pending
  <2>9. QED
    BY <1>a, <1>d, <2>3, <2>6, <2>7, <2>8
<1>6. ASSUME NEW w \in Workers, StartWorker(w) \/ Worker(w) \/ Replies(w) PROVE UNCHANGED call
  BY <1>6 DEF StartWorker, Worker, Replies, TakeSlot, GiveUpSlot, RegisterAgent, SendRequest,
              EndSync, StoreResult, CloseDone, Reply
<1>7. ASSUME NEW b \in SUBSET Workers, StartBatch(b) PROVE UNCHANGED call
  BY <1>7 DEF StartBatch
<1>8. CASE BatchReturns \/ Cancel \/ EndRun \/ StartRun \/ UNCHANGED vars
  BY <1>8, <1>c DEF BatchReturns, Cancel, EndRun, StartRun, vars
<1>9. QED
  BY <1>c, <1>1, <1>2, <1>3, <1>4, <1>5, <1>6, <1>7, <1>8 DEF Next, Caller
-----------------------------------------------------------------------------
(* The batch.                                                              *)

LEMMA RunningIsFinite == TypeInv => IsFiniteSet(Running) /\ Cardinality(Running) \in Nat
<1> SUFFICES ASSUME TypeInv PROVE IsFiniteSet(Running) /\ Cardinality(Running) \in Nat
  OBVIOUS
<1>1. Running \subseteq Workers
  BY DEF TypeInv, Running
<1>2. IsFiniteSet(Running)
  BY <1>1, FS_Subset, CoordinatorAssumption
<1>3. QED
  BY <1>2, FS_CardinalityType

LEMMA NextBatch == TypeInv /\ TaskInv /\ BatchIsBounded /\ [Next]_vars => BatchIsBounded'
<1> SUFFICES ASSUME TypeInv, TaskInv, BatchIsBounded, [Next]_vars PROVE BatchIsBounded'
  OBVIOUS
<1> USE DEF Goto, workers, tasks, a2a
<1>a. /\ kind \in [Workers -> Kinds \union {"none"}] /\ worker \in [Workers -> Steps]
      /\ batch \subseteq Workers
  BY DEF TypeInv
<1>b. IsFiniteSet(Running) /\ Cardinality(Running) \in Nat /\ MaxConcurrent \in Nat
  BY RunningIsFinite, CoordinatorAssumption
<1>c. /\ Cardinality(Running) <= MaxConcurrent
      /\ \A w \in Workers : kind[w] = "sync" /\ w \notin batch => worker[w] = "ended"
  BY DEF BatchIsBounded
<1>d. ASSUME Running' \subseteq Running,
             \A w \in Workers : kind'[w] = "sync" /\ w \notin batch' => worker'[w] = "ended"
      PROVE  BatchIsBounded'
  <2>1. Cardinality(Running') \in Nat /\ Cardinality(Running') <= Cardinality(Running)
    BY <1>b, <1>d, FS_Subset, FS_CardinalityType
  <2>2. QED
    BY <1>b, <1>c, <1>d, <2>1 DEF BatchIsBounded
<1>1. ASSUME NEW w \in Workers, TakeSlot(w) PROVE BatchIsBounded'
  <2>1. Running' \subseteq Running \union {w}
    BY <1>1, <1>a DEF TakeSlot, Running
  <2>2. IsFiniteSet(Running \union {w}) /\ Cardinality(Running \union {w}) <= Cardinality(Running) + 1
    BY <1>b, FS_AddElement
  <2>3. Cardinality(Running \union {w}) \in Nat
    BY <2>2, FS_CardinalityType
  <2>4. Cardinality(Running') \in Nat /\ Cardinality(Running') <= Cardinality(Running) + 1
    BY <1>b, <2>1, <2>2, <2>3, FS_Subset, FS_CardinalityType
  <2>5. Cardinality(Running) < MaxConcurrent
    BY <1>1 DEF TakeSlot
  <2>6. \A v \in Workers : kind'[v] = "sync" /\ v \notin batch' => worker'[v] = "ended"
    BY <1>1, <1>a, <1>c DEF TakeSlot
  <2>7. QED
    BY <1>b, <2>4, <2>5, <2>6 DEF BatchIsBounded
<1>2. ASSUME NEW w \in Workers, StartWorker(w) PROVE BatchIsBounded'
  <2>1. kind[w] = "none"
    BY <1>2 DEF StartWorker, TaskInv
  <2>2. w \notin batch
    BY <2>1 DEF TaskInv
  <2>3. QED
    BY <1>2, <1>a, <1>c, <1>d, <2>1, <2>2 DEF StartWorker, Running
<1>3. ASSUME NEW b \in SUBSET Workers, StartBatch(b) PROVE BatchIsBounded'
  <2>1. Running' = {}
    BY <1>3, <1>a DEF StartBatch, Running
  <2>2. QED
    BY <1>3, <1>a, <1>c, <1>d, <2>1 DEF StartBatch
<1>4. ASSUME NEW w \in Workers, NEW o \in Outcomes,
             GiveUpSlot(w) \/ RegisterAgent(w) \/ SendRequest(w) \/ EndSync(w) \/ StoreResult(w)
             \/ CloseDone(w) \/ Reply(w, o)
      PROVE  BatchIsBounded'
  <2>1. Running' \subseteq Running
    BY <1>4, <1>a DEF GiveUpSlot, RegisterAgent, SendRequest, EndSync, StoreResult, CloseDone, Reply,
                      Running
  <2>2. \A v \in Workers : kind'[v] = "sync" /\ v \notin batch' => worker'[v] = "ended"
    BY <1>4, <1>a, <1>c DEF GiveUpSlot, RegisterAgent, SendRequest, EndSync, StoreResult, CloseDone,
                            Reply
  <2>3. QED
    BY <1>d, <2>1, <2>2
<1>5. CASE BatchReturns
  <2>1. Running' = {}
    BY <1>5 DEF BatchReturns, Running
  <2>2. \A w \in Workers : kind'[w] = "sync" /\ w \notin batch' => worker'[w] = "ended"
    BY <1>5, <1>c DEF BatchReturns
  <2>3. QED
    BY <1>d, <2>1, <2>2
<1>6. CASE UNCHANGED <<kind, worker, batch>>
  BY <1>6, <1>c, <1>d DEF Running
<1>7. ASSUME NEW c \in Callers, Caller(c) PROVE UNCHANGED <<kind, worker, batch>>
  BY <1>7 DEF Caller, AwaitDone, AwaitGivesUp, StopTask, Notify
<1>8. ASSUME NEW c \in Callers, NEW op \in Ops, NEW w \in Workers, Ask(c, op, w)
      PROVE  UNCHANGED <<kind, worker, batch>>
  BY <1>8 DEF Ask
<1>9. CASE Cancel \/ EndRun \/ StartRun \/ UNCHANGED vars
  BY <1>6, <1>9 DEF Cancel, EndRun, StartRun, vars
<1>10. QED
  BY <1>1, <1>2, <1>3, <1>4, <1>5, <1>6, <1>7, <1>8, <1>9, "none" \in Outcomes
  DEF Next, Worker, Replies, Outcomes
-----------------------------------------------------------------------------
\* Tasks, calls, the bus and the batch agree, whoever stops, awaits, interrupts or
\* ends what.
THEOREM Invariance == Spec => []IInv
<1>1. IInv /\ [Next]_vars => IInv'
  BY NextType, NextBus, NextTask, NextCall, NextBatch DEF IInv
<1>2. QED
  BY InitIInv, <1>1, PTL DEF Spec

\* Every variable keeps its type, and no worker sends more than a request and a
\* reply.
THEOREM TypeCorrect == Spec => []TypeOK
<1>1. IInv => TypeOK
  BY DEF IInv, TypeInv, BusInv, TypeOK, Calls
<1>2. QED
  BY Invariance, <1>1, PTL

\* A task that has ended, killed, completed or failed, is never changed again.
THEOREM EndsAreFinal == Spec => TerminalIsFinal
<1>1. IInv /\ [Next]_vars => [\A w \in Workers : Terminal(task[w]) => task'[w] = task[w]]_tasks
  BY EndedTasksStay DEF IInv
<1>2. QED
  BY Invariance, <1>1, PTL DEF Spec, TerminalIsFinal

\* What taskstop and a completed await return is the whole end of the task, though
\* its fields are read without the lock.
THEOREM AnswersAreWhole == Spec => []AnswersAreFinal
<1>1. IInv => AnswersAreFinal
  BY DEF IInv, CallInv, AnswersAreFinal
<1>2. QED
  BY Invariance, <1>1, PTL

\* RunSubAgents keeps its limit, and leaves no child at work.
THEOREM BatchKeepsItsLimit == Spec => []BatchIsBounded
<1>1. IInv => BatchIsBounded
  BY DEF IInv
<1>2. QED
  BY Invariance, <1>1, PTL
=============================================================================
