------------------------- MODULE ToolSchedulerProofs -------------------------
(***************************************************************************)
(* Proofs about ToolScheduler for every number of calls, slots and         *)
(* retries.                                                                *)
(***************************************************************************)
EXTENDS ToolScheduler, FiniteSetTheorems, TLAPS

(***************************************************************************)
(* The inductive invariant.                                                *)
(***************************************************************************)
\* The call that scheduler.add has not finished with, when there is one.
AtAdd(i) == /\ i = n
            /\ \/ pc = "serial"
               \/ pc = "flush" /\ cont \in {"bad", "serial"}

\* Calls are prepared in the order of the stream.
KindInv ==
    /\ \A i \in Calls : kind[i] # "none" <=> (i < n \/ (i = n /\ pc # "prepare"))
    /\ pc = "prepare" => n \in Calls /\ slot[n] = "pending"
    /\ pc = "flush" /\ cont \in {"bad", "serial"} => n \in Calls /\ kind[n] = cont
    /\ pc = "serial" => n \in Calls /\ kind[n] = "serial" /\ batch = {}

\* A refused call never executes, a serial one executes inside add.
SerialInv ==
    \A i \in Calls :
        /\ kind[i] \in {"none", "bad"} => task[i] = "none"
        /\ kind[i] = "bad" => (slot[i] = "error" <=> ~AtAdd(i))
        /\ kind[i] = "serial" =>
              /\ task[i] = "none" <=> AtAdd(i) /\ pc = "flush"
              /\ task[i] = "running" <=> AtAdd(i) /\ pc = "serial"
              /\ task[i] \in {"none", "running", "ended"}
              /\ ~AtAdd(i) => slot[i] \in Results

\* A parallel safe call is in the batch until its result is taken over.
SafeInv ==
    \A i \in Calls :
        /\ i \in batch => kind[i] = "safe"
        /\ kind[i] = "safe" =>
              /\ task[i] # "none"
              /\ i \notin batch => slot[i] \in Results /\ task[i] \notin {"queued", "running"}
        /\ done[i] # "none" <=> i \in batch /\ task[i] \in {"sent", "ended", "cancelled"}

\* Every call that is not parallel safe is a barrier for the batch.
BarrierInv ==
    \A i, j \in Calls : i \in batch /\ i < j /\ kind[j] \in {"bad", "serial"} => AtAdd(j)

\* The semaphore holds the goroutines that have a slot, and no more than fit.
Holders == \A i \in Calls : i \in sem <=> kind[i] = "safe" /\ task[i] \in {"running", "sent"}
SemInv == Holders /\ Cardinality(sem) <= MaxParallel

\* Only an attempt without calls fails; only a finished turn has an outcome.
TurnInv ==
    /\ pc = "flush" /\ cont = "failed" => n = 0
    /\ pc = "sleep" => n = 0 /\ attempt < MaxRetries
    /\ outcome = "none" <=> pc # "returned"
    /\ pc = "returned" => batch = {}

IInv == TypeOK /\ KindInv /\ SerialInv /\ SafeInv /\ BarrierInv /\ SemInv /\ TurnInv
-----------------------------------------------------------------------------
LEMMA FiniteSem == ASSUME TypeOK PROVE IsFiniteSet(sem)
<1>1. IsFiniteSet(Calls)
  BY FS_Interval, SchedulerAssumption DEF Calls
<1>2. QED
  BY <1>1, FS_Subset DEF TypeOK

LEMMA InitIInv == Init => IInv
<1> SUFFICES ASSUME Init PROVE IInv
  OBVIOUS
<1> USE SchedulerAssumption
<1>1. TypeOK
  BY DEF Init, TypeOK, PCs, Conts, Outcomes, Tasks, Kinds, Results, Calls
<1>2. Cardinality(sem) = 0
  BY FS_EmptySet DEF Init
<1>3. SemInv
  BY <1>2 DEF Init, SemInv, Holders
<1>4. KindInv /\ SerialInv /\ SafeInv /\ BarrierInv /\ TurnInv
  BY DEF Init, KindInv, SerialInv, SafeInv, BarrierInv, TurnInv, AtAdd, Calls
<1>5. QED
  BY <1>1, <1>3, <1>4 DEF IInv

\* The semaphore only grows in TakeSlot, which has checked that there is room.
LEMMA NextSem == ASSUME IInv, [Next]_vars PROVE Cardinality(sem') <= MaxParallel
<1> USE SchedulerAssumption
<1>1. IsFiniteSet(sem) /\ Cardinality(sem) \in Nat /\ Cardinality(sem) <= MaxParallel
  BY FiniteSem, FS_CardinalityType DEF IInv, SemInv
<1>2. ASSUME NEW i \in Calls, TakeSlot(i) PROVE Cardinality(sem') <= MaxParallel
  <2>1. Cardinality(sem \union {i}) \in {Cardinality(sem), Cardinality(sem) + 1}
    BY <1>1, FS_AddElement
  <2>2. sem' = sem \union {i} /\ Cardinality(sem) < MaxParallel
    BY <1>2 DEF TakeSlot
  <2>3. QED
    BY <1>1, <2>1, <2>2
<1>3. ASSUME NEW i \in Calls, Release(i) PROVE Cardinality(sem') <= MaxParallel
  <2>1. Cardinality(sem \ {i}) \in {Cardinality(sem), Cardinality(sem) - 1}
    BY <1>1, FS_RemoveElement
  <2>2. sem' = sem \ {i}
    BY <1>3 DEF Release
  <2>3. QED
    BY <1>1, <2>1, <2>2
<1>4. ASSUME sem' = {} PROVE Cardinality(sem') <= MaxParallel
  BY <1>4, FS_EmptySet
<1>5. ASSUME sem' = sem PROVE Cardinality(sem') <= MaxParallel
  BY <1>1, <1>5
<1>6. QED
  BY <1>2, <1>3, <1>4, <1>5
  DEF Next, Turn, Goroutine, vars, goroutines, FreshScheduler, ToolUseEnd, Prepare,
      FlushItem, RejectCall, StartSerial, FinishSerial, StreamEnds, ReturnResults,
      AttemptFails, NewAttempt, SleepCancelled, NewTurn, SeeCancel, FinishSafe, Cancel

LEMMA NextType == TypeOK /\ KindInv /\ TurnInv /\ [Next]_vars => TypeOK'
<1> SUFFICES ASSUME TypeOK, KindInv, TurnInv, [Next]_vars PROVE TypeOK'
  OBVIOUS
<1> USE SchedulerAssumption
    DEF TypeOK, PCs, Conts, Outcomes, Tasks, Kinds, Results, Calls, goroutines
<1>1. ASSUME ToolUseEnd PROVE TypeOK'
  BY <1>1 DEF ToolUseEnd
<1>2. ASSUME NEW k \in Kinds, Prepare(k) PROVE TypeOK'
  BY <1>2 DEF Prepare, BeginFlush, KindInv
<1>3. ASSUME FlushItem PROVE TypeOK'
  BY <1>3 DEF FlushItem
<1>4. ASSUME RejectCall PROVE TypeOK'
  BY <1>4 DEF RejectCall
<1>5. ASSUME StartSerial PROVE TypeOK'
  BY <1>5 DEF StartSerial
<1>6. ASSUME NEW r \in Results, FinishSerial(r) PROVE TypeOK'
  BY <1>6 DEF FinishSerial
<1>7. ASSUME StreamEnds PROVE TypeOK'
  BY <1>7 DEF StreamEnds, BeginFlush
<1>8. ASSUME ReturnResults PROVE TypeOK'
  BY <1>8 DEF ReturnResults
<1>9. ASSUME AttemptFails PROVE TypeOK'
  BY <1>9 DEF AttemptFails
<1>10. ASSUME NewAttempt PROVE TypeOK'
  BY <1>10 DEF NewAttempt, FreshScheduler, TurnInv
<1>11. ASSUME SleepCancelled PROVE TypeOK'
  BY <1>11 DEF SleepCancelled
<1>12. ASSUME NewTurn PROVE TypeOK'
  <2>1. ctxDone' \in BOOLEAN
    BY <1>12 DEF NewTurn
  <2>2. QED
    BY <1>12, <2>1 DEF NewTurn, FreshScheduler
<1>13. ASSUME NEW i \in Calls, TakeSlot(i) PROVE TypeOK'
  BY <1>13 DEF TakeSlot
<1>14. ASSUME NEW i \in Calls, SeeCancel(i) PROVE TypeOK'
  BY <1>14 DEF SeeCancel
<1>15. ASSUME NEW i \in Calls, NEW r \in Results, FinishSafe(i, r) PROVE TypeOK'
  BY <1>15 DEF FinishSafe
<1>16. ASSUME NEW i \in Calls, Release(i) PROVE TypeOK'
  BY <1>16 DEF Release
<1>17. ASSUME Cancel PROVE TypeOK'
  BY <1>17 DEF Cancel
<1>18. CASE UNCHANGED vars
  BY <1>18 DEF vars
<1>19. QED
  BY <1>1, <1>2, <1>3, <1>4, <1>5, <1>6, <1>7, <1>8, <1>9, <1>10, <1>11, <1>12, <1>13, <1>14, <1>15, <1>16, <1>17, <1>18 DEF Next, Turn, Goroutine

\* The clauses of the invariant about what each call has done, one step per
\* action.
Progress == KindInv /\ SerialInv /\ SafeInv /\ BarrierInv /\ Holders /\ TurnInv

LEMMA NextProgress == IInv /\ [Next]_vars => Progress'
<1> SUFFICES ASSUME IInv, [Next]_vars PROVE Progress'
  OBVIOUS
<1> USE SchedulerAssumption
<1>0. TypeOK /\ KindInv /\ SerialInv /\ SafeInv /\ BarrierInv /\ Holders /\ TurnInv
  BY DEF IInv, SemInv
<1> USE <1>0 DEF TypeOK, Progress, KindInv, SerialInv, SafeInv, BarrierInv, Holders, TurnInv, AtAdd,
                 Kinds, Results, Calls, goroutines
<1>1. ASSUME ToolUseEnd PROVE Progress'
  BY <1>1 DEF ToolUseEnd
<1>2. ASSUME NEW k \in Kinds, Prepare(k) PROVE Progress'
  <2>1. KindInv'
    BY <1>2 DEF Prepare, BeginFlush
  <2>2. SerialInv'
    BY <1>2 DEF Prepare, BeginFlush
  <2>3. SafeInv'
    BY <1>2 DEF Prepare, BeginFlush
  <2>4. BarrierInv'
    BY <1>2 DEF Prepare, BeginFlush
  <2>5. Holders'
    BY <1>2 DEF Prepare, BeginFlush
  <2>6. TurnInv'
    BY <1>2 DEF Prepare, BeginFlush
  <2>7. QED
    BY <2>1, <2>2, <2>3, <2>4, <2>5, <2>6
<1>3. ASSUME FlushItem PROVE Progress'
  <2>1. KindInv'
    BY <1>3 DEF FlushItem
  <2>2. SerialInv'
    BY <1>3 DEF FlushItem
  <2>3. SafeInv'
    BY <1>3 DEF FlushItem
  <2>4. BarrierInv'
    BY <1>3 DEF FlushItem
  <2>5. Holders'
    BY <1>3 DEF FlushItem
  <2>6. TurnInv'
    BY <1>3 DEF FlushItem
  <2>7. QED
    BY <2>1, <2>2, <2>3, <2>4, <2>5, <2>6
<1>4. ASSUME RejectCall PROVE Progress'
  BY <1>4 DEF RejectCall
<1>5. ASSUME StartSerial PROVE Progress'
  BY <1>5 DEF StartSerial
<1>6. ASSUME NEW r \in Results, FinishSerial(r) PROVE Progress'
  BY <1>6 DEF FinishSerial
<1>7. ASSUME StreamEnds PROVE Progress'
  BY <1>7 DEF StreamEnds, BeginFlush
<1>8. ASSUME ReturnResults PROVE Progress'
  BY <1>8 DEF ReturnResults
<1>9. ASSUME AttemptFails PROVE Progress'
  BY <1>9 DEF AttemptFails
<1>10. ASSUME NewAttempt PROVE Progress'
  BY <1>10 DEF NewAttempt, FreshScheduler
<1>11. ASSUME SleepCancelled PROVE Progress'
  BY <1>11 DEF SleepCancelled
<1>12. ASSUME NewTurn PROVE Progress'
  BY <1>12 DEF NewTurn, FreshScheduler
<1>13. ASSUME NEW g \in Calls, TakeSlot(g) PROVE Progress'
  BY <1>13 DEF TakeSlot
<1>14. ASSUME NEW g \in Calls, SeeCancel(g) PROVE Progress'
  BY <1>14 DEF SeeCancel
<1>15. ASSUME NEW g \in Calls, NEW r \in Results, FinishSafe(g, r) PROVE Progress'
  BY <1>15 DEF FinishSafe
<1>16. ASSUME NEW g \in Calls, Release(g) PROVE Progress'
  BY <1>16 DEF Release
<1>17. ASSUME Cancel PROVE Progress'
  BY <1>17 DEF Cancel
<1>18. CASE UNCHANGED vars
  BY <1>18 DEF vars
<1>19. QED
  BY <1>1, <1>2, <1>3, <1>4, <1>5, <1>6, <1>7, <1>8, <1>9, <1>10, <1>11, <1>12, <1>13, <1>14, <1>15, <1>16, <1>17, <1>18 DEF Next, Turn, Goroutine

LEMMA NextIInv == IInv /\ [Next]_vars => IInv'
<1> SUFFICES ASSUME IInv, [Next]_vars PROVE IInv'
  OBVIOUS
<1>1. TypeOK'
  BY NextType DEF IInv
<1>2. Progress'
  BY NextProgress
<1>3. Cardinality(sem') <= MaxParallel
  BY NextSem
<1>4. QED
  BY <1>1, <1>2, <1>3 DEF IInv, Progress, SemInv

THEOREM Invariance == Spec => []IInv
BY InitIInv, NextIInv, PTL DEF Spec

\* Every variable keeps its type, for any number of calls, slots and retries.
THEOREM TypeCorrect == Spec => []TypeOK
<1>1. IInv => TypeOK
  BY DEF IInv
<1>2. QED
  BY <1>1, Invariance, PTL

\* A turn that returns has a result for each of its calls and leaves no
\* goroutine that could still run a tool.
THEOREM TurnsSettle == Spec => []ReturnedTurnIsSettled
<1>1. IInv => ReturnedTurnIsSettled
  <2> SUFFICES ASSUME IInv, pc = "returned"
               PROVE  /\ outcome # "none"
                      /\ \A i \in Calls : /\ i <= n => slot[i] \in Results
                                          /\ task[i] \notin {"queued", "running"}
                                          /\ done[i] = "none"
    BY DEF ReturnedTurnIsSettled
  <2>1. outcome # "none" /\ batch = {}
    BY DEF IInv, TurnInv
  <2>2. ASSUME NEW i \in Calls
        PROVE  /\ i <= n => slot[i] \in Results
               /\ task[i] \notin {"queued", "running"}
               /\ done[i] = "none"
    <3>1. kind[i] \in {"safe", "serial", "bad", "none"} /\ n \in Nat /\ i \in Nat
      BY SchedulerAssumption DEF IInv, TypeOK, Kinds, Calls
    <3>2. ~AtAdd(i)
      BY DEF AtAdd
    <3>3. i <= n => kind[i] # "none"
      BY <3>1 DEF IInv, KindInv
    <3>4. QED
      BY <2>1, <3>1, <3>2, <3>3 DEF IInv, SerialInv, SafeInv, Results
  <2>3. QED
    BY <2>1, <2>2
<1>2. QED
  BY <1>1, Invariance, PTL

\* A turn is only repeated, and only fails, when it has run no tool.
THEOREM RetriesAreSafe == Spec => RetryRepeatsNothing
<1> DEFINE Safe == (attempt' > attempt \/ outcome' = "error") => NothingRan
<1>1. IInv /\ [Next]_vars => [Safe]_<<attempt, outcome>>
  <2> SUFFICES ASSUME IInv, [Next]_vars, attempt' > attempt \/ outcome' = "error",
                      <<attempt, outcome>>' # <<attempt, outcome>>
               PROVE  NothingRan
    OBVIOUS
  <2>1. n = 0 => NothingRan
    BY SchedulerAssumption DEF NothingRan, IInv, TypeOK, KindInv, SerialInv, Calls
  <2>2. attempt \in Nat
    BY SchedulerAssumption DEF IInv, TypeOK
  <2>3. CASE AttemptFails \/ NewAttempt \/ SleepCancelled
    BY <2>1, <2>3 DEF AttemptFails, NewAttempt, SleepCancelled, IInv, TurnInv
  <2>4. CASE ReturnResults
    BY <2>2, <2>4 DEF ReturnResults
  <2>5. CASE NewTurn
    BY <2>2, <2>5 DEF NewTurn
  <2>6. QED
    BY <2>3, <2>4, <2>5
    DEF Next, Turn, Goroutine, vars, goroutines, ToolUseEnd, Prepare, FlushItem, RejectCall,
        StartSerial, FinishSerial, StreamEnds, TakeSlot, SeeCancel, FinishSafe, Release, Cancel
<1>2. QED
  BY <1>1, Invariance, PTL DEF Spec, RetryRepeatsNothing
-----------------------------------------------------------------------------
(***************************************************************************)
(* ToolScheduler implements OrderedCalls.                                  *)
(***************************************************************************)
States == [i \in Calls |-> CallState(i)]

\* When the batch has been flushed, every call before the one in add is done.
LEMMA EarlierDone ==
  ASSUME IInv, batch = {}, pc = "flush", cont \in {"bad", "serial"},
         NEW j \in Calls, j < n
  PROVE  CallState(j) = "done"
<1>1. kind[j] \in {"safe", "serial", "bad"} /\ ~AtAdd(j)
  BY SchedulerAssumption DEF IInv, TypeOK, KindInv, Kinds, Calls, AtAdd
<1>2. task[j] \in Tasks
  BY DEF IInv, TypeOK
<1>3. QED
  BY <1>1, <1>2 DEF IInv, SerialInv, SafeInv, CallState, Tasks

\* While a parallel safe call waits, the barriers before it are done and only
\* goroutines holding a slot run.
LEMMA BeforeQueued ==
  ASSUME IInv, NEW i \in Calls, task[i] = "queued"
  PROVE  /\ kind[i] = "safe"
         /\ \A j \in Calls : j < i /\ kind[j] # "safe" => CallState(j) = "done"
         /\ \A j \in Calls : CallState(j) = "running" => j \in sem
<1>1. kind[i] = "safe" /\ i \in batch
  BY DEF IInv, TypeOK, SerialInv, SafeInv, Kinds
<1>2. i <= n
  BY <1>1, SchedulerAssumption DEF IInv, TypeOK, KindInv, Calls
<1>3. ASSUME NEW j \in Calls, j < i, kind[j] # "safe" PROVE CallState(j) = "done"
  <2>1. kind[j] \in {"serial", "bad"} /\ ~AtAdd(j)
    BY <1>1, <1>2, <1>3, SchedulerAssumption
    DEF IInv, TypeOK, KindInv, BarrierInv, Kinds, Calls, AtAdd
  <2>2. QED
    BY <2>1 DEF IInv, SerialInv, CallState
<1>4. ASSUME NEW j \in Calls, CallState(j) = "running" PROVE j \in sem
  <2>1. task[j] = "running"
    BY <1>4 DEF CallState
  <2>2. kind[j] # "serial"
    BY <1>1, <2>1 DEF IInv, KindInv, SerialInv
  <2>3. kind[j] = "safe"
    BY <2>1, <2>2 DEF IInv, TypeOK, SerialInv, Kinds
  <2>4. QED
    BY <2>1, <2>3 DEF IInv, SemInv, Holders
<1>5. QED
  BY <1>1, <1>3, <1>4

\* A step that keeps the kinds and the states of all calls is a stutter.
LEMMA Stutter ==
  ASSUME kind' = kind, \A i \in Calls : CallState(i)' = CallState(i)
  PROVE  UNCHANGED Contract!vars
BY DEF Contract!vars

LEMMA InitContract == Init => Contract!Init
BY DEF Init, Contract!Init, CallState

LEMMA NextContract == IInv /\ IInv' /\ [Next]_vars => [Contract!Next]_(Contract!vars)
<1> SUFFICES ASSUME IInv, IInv', [Next]_vars PROVE [Contract!Next]_(Contract!vars)
  OBVIOUS
<1> USE SchedulerAssumption
<1> DEFINE AbstractStep == [Contract!Next]_(Contract!vars)
<1>1. ASSUME kind' = kind, \A i \in Calls : CallState(i)' = CallState(i) PROVE AbstractStep
  BY <1>1, Stutter
<1>2. CASE ToolUseEnd
  <2>1. kind' = kind /\ \A i \in Calls : CallState(i)' = CallState(i)
    BY <1>2 DEF ToolUseEnd, goroutines, CallState, IInv, TypeOK, KindInv, Calls
  <2>2. QED
    BY <1>1, <2>1
<1>3. ASSUME NEW k \in Kinds, Prepare(k) PROVE AbstractStep
  <2>1. n \in Calls /\ kind[n] = "none" /\ task[n] = "none" /\ slot[n] = "pending"
    BY <1>3 DEF Prepare, IInv, TypeOK, KindInv, SerialInv, Calls
  <2>2. \A j \in Calls : j < n => kind[j] # "none"
    BY DEF IInv, KindInv
  <2>3. \A i \in Calls : CallState(i)' = CallState(i)
    BY <1>3, <2>1 DEF Prepare, BeginFlush, CallState, IInv, TypeOK, Kinds
  <2>4. Contract!Submit(n, k)
    BY <1>3, <2>1, <2>2, <2>3 DEF Contract!Submit, Prepare, IInv, TypeOK
  <2>5. QED
    BY <2>1, <2>4 DEF Contract!Next, Contract!Kinds, Kinds
<1>4. CASE FlushItem
  <2>1. kind' = kind /\ \A i \in Calls : CallState(i)' = CallState(i)
    BY <1>4 DEF FlushItem, CallState, IInv, TypeOK, SafeInv
  <2>2. QED
    BY <1>1, <2>1
<1>5. CASE RejectCall
  <2>1. n \in Calls /\ kind[n] = "bad" /\ CallState(n) = "idle"
    BY <1>5 DEF RejectCall, IInv, KindInv, SerialInv, AtAdd, CallState
  <2>2. n' = n /\ n' = n /\ CallState(n)' = "done" /\ \A i \in Calls \ {n} : CallState(i)' = CallState(i)
    BY <1>5, <2>1 DEF RejectCall, goroutines, CallState, IInv, TypeOK
  <2>3. Contract!MayStart(n)
    BY <1>5, EarlierDone DEF Contract!MayStart, RejectCall
  <2>4. States' = [States EXCEPT ![n] = "done"]
    BY <2>1, <2>2 DEF States
  <2>5. Contract!Skip(n)
    BY <1>5, <2>1, <2>3, <2>4 DEF Contract!Skip, States, RejectCall
  <2>6. QED
    BY <2>1, <2>5 DEF Contract!Next
<1>6. CASE StartSerial
  <2>1. n \in Calls /\ kind[n] = "serial" /\ CallState(n) = "idle"
    BY <1>6 DEF StartSerial, IInv, KindInv, SerialInv, AtAdd, CallState
  <2>2. n' = n /\ CallState(n)' = "running" /\ \A i \in Calls \ {n} : CallState(i)' = CallState(i)
    BY <1>6, <2>1 DEF StartSerial, CallState, IInv, TypeOK
  <2>3. Contract!MayStart(n)
    BY <1>6, EarlierDone DEF Contract!MayStart, StartSerial
  <2>4. States' = [States EXCEPT ![n] = "running"]
    BY <2>1, <2>2 DEF States
  <2>5. Contract!Start(n)
    BY <1>6, <2>1, <2>3, <2>4 DEF Contract!Start, States, StartSerial
  <2>6. QED
    BY <2>1, <2>5 DEF Contract!Next
<1>7. ASSUME NEW r \in Results, FinishSerial(r) PROVE AbstractStep
  <2>1. n \in Calls /\ kind[n] = "serial" /\ CallState(n) = "running"
    BY <1>7 DEF FinishSerial, IInv, KindInv, SerialInv, AtAdd, CallState
  <2>2. n' = n /\ n' = n /\ CallState(n)' = "done" /\ \A i \in Calls \ {n} : CallState(i)' = CallState(i)
    BY <1>7, <2>1 DEF FinishSerial, CallState, IInv, TypeOK
  <2>3. States' = [States EXCEPT ![n] = "done"]
    BY <2>1, <2>2 DEF States
  <2>4. Contract!Finish(n)
    BY <1>7, <2>1, <2>3 DEF Contract!Finish, States, FinishSerial
  <2>5. QED
    BY <2>1, <2>4 DEF Contract!Next
<1>8. CASE StreamEnds \/ ReturnResults \/ AttemptFails \/ SleepCancelled \/ Cancel
  <2>1. kind' = kind /\ slot' = slot /\ task' = task
    BY <1>8 DEF StreamEnds, ReturnResults, AttemptFails, SleepCancelled, Cancel, goroutines
  <2>2. QED
    BY <1>1, <2>1 DEF CallState
<1>9. CASE NewAttempt
  <2>1. \A i \in Calls : kind[i] = "none" /\ task[i] = "none"
    BY <1>9 DEF NewAttempt, IInv, TypeOK, KindInv, SerialInv, TurnInv, Calls
  <2>2. kind' = kind
    BY <1>9, <2>1 DEF NewAttempt, FreshScheduler, IInv, TypeOK
  <2>3. \A i \in Calls : CallState(i)' = CallState(i)
    BY <1>9, <2>1 DEF NewAttempt, FreshScheduler, CallState
  <2>4. QED
    BY <1>1, <2>2, <2>3
<1>10. CASE NewTurn
  <2>1. ASSUME NEW i \in Calls, kind[i] # "none" PROVE CallState(i) = "done"
    <3>1. kind[i] \in Kinds /\ task[i] \in Tasks /\ ~AtAdd(i) /\ i \notin batch
      BY <1>10, <2>1 DEF NewTurn, IInv, TypeOK, TurnInv, AtAdd
    <3>2. QED
      BY <3>1 DEF IInv, SerialInv, SafeInv, CallState, Kinds, Tasks
  <2>2. kind' = [i \in Calls |-> "none"]
    BY <1>10 DEF NewTurn, FreshScheduler
  <2>3. States' = [i \in Calls |-> "idle"]
    BY <1>10 DEF NewTurn, FreshScheduler, States, CallState
  <2>4. Contract!NewTurn
    BY <2>1, <2>2, <2>3 DEF Contract!NewTurn, States
  <2>5. QED
    BY <2>4 DEF Contract!Next
<1>11. ASSUME NEW i \in Calls, TakeSlot(i) PROVE AbstractStep
  <2>1. task[i] = "queued" /\ kind[i] = "safe" /\ CallState(i) = "idle"
    BY <1>11, BeforeQueued DEF TakeSlot, CallState
  <2>2. CallState(i)' = "running" /\ \A j \in Calls \ {i} : CallState(j)' = CallState(j)
    BY <1>11, <2>1 DEF TakeSlot, CallState, IInv, TypeOK
  <2>3. Contract!MayStart(i)
    BY <2>1, BeforeQueued DEF Contract!MayStart, Contract!Ordered
  <2>4. Cardinality(Contract!Running) < MaxParallel
    <3>1. Contract!Running \subseteq sem
      BY <2>1, BeforeQueued DEF Contract!Running
    <3>2. IsFiniteSet(sem) /\ Cardinality(sem) < MaxParallel
      BY <1>11, FiniteSem DEF IInv, TakeSlot
    <3>3. Cardinality(Contract!Running) <= Cardinality(sem)
      BY <3>1, <3>2, FS_Subset
    <3>4. Cardinality(sem) \in Nat /\ Cardinality(Contract!Running) \in Nat
      BY <3>1, <3>2, FS_Subset, FS_CardinalityType
    <3>5. QED
      BY <3>2, <3>3, <3>4
  <2>5. States' = [States EXCEPT ![i] = "running"]
    BY <2>1, <2>2 DEF States
  <2>6. Contract!Start(i)
    <3>1. kind' = kind
      BY <1>11 DEF TakeSlot
    <3>2. States[i] = "idle"
      BY <2>1 DEF States
    <3>3. Contract!Cardinality(Contract!Running) < MaxParallel
      BY <2>4 DEF Cardinality, Contract!Cardinality
    <3>4. QED
      BY <2>1, <2>3, <2>5, <3>1, <3>2, <3>3 DEF Contract!Start, States
  <2>7. QED
    BY <2>6 DEF Contract!Next
<1>12. ASSUME NEW i \in Calls, SeeCancel(i) PROVE AbstractStep
  <2>1. task[i] = "queued" /\ kind[i] = "safe" /\ CallState(i) = "idle"
    BY <1>12, BeforeQueued DEF SeeCancel, CallState
  <2>2. CallState(i)' = "done" /\ \A j \in Calls \ {i} : CallState(j)' = CallState(j)
    BY <1>12, <2>1 DEF SeeCancel, CallState, IInv, TypeOK
  <2>3. Contract!MayStart(i)
    BY <2>1, BeforeQueued DEF Contract!MayStart, Contract!Ordered
  <2>4. States' = [States EXCEPT ![i] = "done"]
    BY <2>1, <2>2 DEF States
  <2>5. Contract!Skip(i)
    BY <1>12, <2>1, <2>3, <2>4 DEF Contract!Skip, States, SeeCancel
  <2>6. QED
    BY <2>5 DEF Contract!Next
<1>13. ASSUME NEW i \in Calls, NEW r \in Results, FinishSafe(i, r) PROVE AbstractStep
  <2>1. kind[i] = "safe" /\ CallState(i) = "running"
    BY <1>13 DEF FinishSafe, CallState
  <2>2. CallState(i)' = "done" /\ \A j \in Calls \ {i} : CallState(j)' = CallState(j)
    BY <1>13, <2>1 DEF FinishSafe, CallState, IInv, TypeOK
  <2>3. States' = [States EXCEPT ![i] = "done"]
    BY <2>1, <2>2 DEF States
  <2>4. Contract!Finish(i)
    BY <1>13, <2>1, <2>3 DEF Contract!Finish, States, FinishSafe
  <2>5. QED
    BY <2>4 DEF Contract!Next
<1>14. ASSUME NEW i \in Calls, Release(i) PROVE AbstractStep
  <2>1. kind' = kind /\ \A j \in Calls : CallState(j)' = CallState(j)
    BY <1>14 DEF Release, CallState, IInv, TypeOK
  <2>2. QED
    BY <1>1, <2>1
<1>15. CASE UNCHANGED vars
  BY <1>1, <1>15 DEF vars, CallState
<1>16. QED
  BY <1>2, <1>3, <1>4, <1>5, <1>6, <1>7, <1>8, <1>9, <1>10, <1>11, <1>12, <1>13, <1>14, <1>15
  DEF Next, Turn, Goroutine

\* The streaming scheduler keeps the contract of OrderedCalls for every number
\* of calls, slots and retries, in every interleaving.
THEOREM SchedulerKeepsContract == Spec => ImplementsOrderedCalls
<1>1. Spec => Contract!Init /\ [][Contract!Next]_(Contract!vars)
  BY InitContract, NextContract, Invariance, PTL DEF Spec
<1>2. QED
  BY <1>1 DEF ImplementsOrderedCalls, Contract!Spec
=============================================================================
