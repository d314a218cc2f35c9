---------------------------- MODULE ToolScheduler ----------------------------
(***************************************************************************)
(* One streaming model turn: runStreamingToolTurn, its attempts, and the   *)
(* streamingToolScheduler that starts a tool as soon as the stream has     *)
(* completed its call (agent.go).  The turn's own goroutine reads the      *)
(* stream, prepares each call (decoding, skill allowlist, permission) and  *)
(* runs serial calls; every parallel safe call has a goroutine that waits  *)
(* for a slot of the semaphore or for the context.                         *)
(*                                                                         *)
(* A call is its position in the turn.  What a tool does and what the      *)
(* model streams are choices of the environment; text, usage and tool      *)
(* input fragments are left out, they change no control.                   *)
(***************************************************************************)
EXTENDS Naturals, FiniteSets

CONSTANTS MaxParallel,   \* scheduler.maxParallel, capacity of the semaphore
          MaxToolCalls,  \* calls the turn may still make (maxToolCalls - toolCalls)
          MaxRetries     \* recovery.MaxRetries, 0 when recovery is off

ASSUME SchedulerAssumption == /\ MaxParallel \in Nat \ {0}
                              /\ MaxToolCalls \in Nat
                              /\ MaxRetries \in Nat

Calls == 1 .. MaxToolCalls
Kinds == {"safe", "serial", "bad"}
Results == {"ok", "error"}
Outcomes == {"none", "completed", "recovered", "error"}
PCs == {"read", "prepare", "flush", "serial", "sleep", "returned"}
Conts == {"bad", "serial", "completed", "recovered", "failed"}
Tasks == {"none", "queued", "running", "sent", "ended", "cancelled"}

VARIABLES
    pc,        \* where the turn's goroutine is
    cont,      \* what it does when the flush ends
    attempt,   \* attempts of the turn that have failed
    outcome,   \* what the turn returned
    n,         \* len(toolUses) = len(scheduler.results)
    kind,      \* the outcome of prepareToolExecution for each call
    slot,      \* scheduler.results[i]: "none", "pending" or its result
    batch,     \* scheduler.safeBatch, and during a flush the rest of it
    task,      \* each call's execution; for a safe call, its goroutine
    done,      \* item.done, the one-place channel of each goroutine
    sem,       \* goroutines holding a place in scheduler.sem
    ctxDone    \* the context is cancelled

vars == <<pc, cont, attempt, outcome, n, kind, slot, batch, task, done, sem, ctxDone>>
goroutines == <<task, done, sem>>
-----------------------------------------------------------------------------
FreshScheduler ==
    /\ n' = 0
    /\ kind' = [i \in Calls |-> "none"]
    /\ slot' = [i \in Calls |-> "none"]
    /\ batch' = {}
    /\ task' = [i \in Calls |-> "none"]
    /\ done' = [i \in Calls |-> "none"]
    /\ sem' = {}

Init ==
    /\ pc = "read" /\ cont = "completed" /\ attempt = 0 /\ outcome = "none"
    /\ n = 0
    /\ kind = [i \in Calls |-> "none"]
    /\ slot = [i \in Calls |-> "none"]
    /\ batch = {}
    /\ task = [i \in Calls |-> "none"]
    /\ done = [i \in Calls |-> "none"]
    /\ sem = {}
    /\ ctxDone \in BOOLEAN
-----------------------------------------------------------------------------
(* The turn's goroutine.                                                   *)

\* flushSafeBatch, after which the goroutine goes on with c.
BeginFlush(c) == pc' = "flush" /\ cont' = c

\* tool_use_end below the cap (above it the event is dropped): the call is
\* recorded and scheduler.add appends its placeholder.
ToolUseEnd ==
    /\ pc = "read"
    /\ n < MaxToolCalls
    /\ n' = n + 1
    /\ slot' = [slot EXCEPT ![n + 1] = "pending"]
    /\ pc' = "prepare"
    /\ UNCHANGED <<cont, attempt, outcome, kind, batch, goroutines, ctxDone>>

\* prepareToolExecution returned: an error, a serial call or a parallel safe
\* one.  Only the last goes on reading without waiting for earlier calls.
Prepare(k) ==
    /\ pc = "prepare"
    /\ kind' = [kind EXCEPT ![n] = k]
    /\ \/ /\ k = "safe"
          /\ task' = [task EXCEPT ![n] = "queued"]
          /\ batch' = batch \union {n}
          /\ pc' = "read"
          /\ UNCHANGED cont
       \/ /\ k # "safe"
          /\ BeginFlush(k)
          /\ UNCHANGED <<task, batch>>
    /\ UNCHANGED <<attempt, outcome, n, slot, done, sem, ctxDone>>

\* One iteration of flushSafeBatch: items are awaited in order.
FlushItem ==
    /\ pc = "flush"
    /\ \E i \in batch :
          /\ \A j \in batch : i <= j
          /\ done[i] # "none"
          /\ slot' = [slot EXCEPT ![i] = done[i]]
          /\ done' = [done EXCEPT ![i] = "none"]
          /\ batch' = batch \ {i}
    /\ UNCHANGED <<pc, cont, attempt, outcome, n, kind, task, sem, ctxDone>>

\* add writes the preparation error of the call it flushed for.
RejectCall ==
    /\ pc = "flush" /\ batch = {} /\ cont = "bad"
    /\ slot' = [slot EXCEPT ![n] = "error"]
    /\ pc' = "read"
    /\ UNCHANGED <<cont, attempt, outcome, n, kind, batch, goroutines, ctxDone>>

\* Mutant: the serial call does not wait for the parallel batch.
StartSerialEarly ==
    /\ pc = "flush" /\ cont = "serial"
    /\ task' = [task EXCEPT ![n] = "running"]
    /\ pc' = "serial"
    /\ UNCHANGED <<cont, attempt, outcome, n, kind, slot, batch, done, sem, ctxDone>>

StartSerial ==
    /\ pc = "flush" /\ batch = {} /\ cont = "serial"
    /\ task' = [task EXCEPT ![n] = "running"]
    /\ pc' = "serial"
    /\ UNCHANGED <<cont, attempt, outcome, n, kind, slot, batch, done, sem, ctxDone>>

FinishSerial(r) ==
    /\ pc = "serial"
    /\ task' = [task EXCEPT ![n] = "ended"]
    /\ slot' = [slot EXCEPT ![n] = r]
    /\ pc' = "read"
    /\ UNCHANGED <<cont, attempt, outcome, n, kind, batch, done, sem, ctxDone>>

\* Mutant: a stream error fails the attempt whatever has been started.
StreamEndsForgetful ==
    /\ pc = "read"
    /\ \E c \in {"completed", "failed"} : BeginFlush(c)
    /\ UNCHANGED <<attempt, outcome, n, kind, slot, batch, goroutines, ctxDone>>

\* The stream closes, or reports an error: with calls already made the turn
\* keeps them and returns, without any it fails; scheduler.close flushes too.
StreamEnds ==
    /\ pc = "read"
    /\ \E c \in {"completed", IF n > 0 THEN "recovered" ELSE "failed"} : BeginFlush(c)
    /\ UNCHANGED <<attempt, outcome, n, kind, slot, batch, goroutines, ctxDone>>

\* Mutant: finish hands over the results without the flush.
ReturnUnflushed ==
    /\ pc = "flush" /\ cont \in {"completed", "recovered"}
    /\ outcome' = IF attempt > 0 THEN "recovered" ELSE cont
    /\ pc' = "returned"
    /\ UNCHANGED <<cont, attempt, n, kind, slot, batch, goroutines, ctxDone>>

ReturnResults ==
    /\ pc = "flush" /\ batch = {} /\ cont \in {"completed", "recovered"}
    /\ outcome' = IF attempt > 0 THEN "recovered" ELSE cont
    /\ pc' = "returned"
    /\ UNCHANGED <<cont, attempt, n, kind, slot, batch, goroutines, ctxDone>>

\* A failed attempt is repeated after a delay, or its error returned: the
\* retries are used up, or Retry.Retryable refuses the error.
AttemptFails ==
    /\ pc = "flush" /\ batch = {} /\ cont = "failed"
    /\ \/ attempt < MaxRetries /\ pc' = "sleep" /\ UNCHANGED outcome
       \/ pc' = "returned" /\ outcome' = "error"
    /\ UNCHANGED <<cont, attempt, n, kind, slot, batch, goroutines, ctxDone>>

\* Mutant: the retry loop does not count its attempts.
NewAttemptUncounted ==
    /\ pc = "sleep"
    /\ pc' = "read"
    /\ FreshScheduler
    /\ UNCHANGED <<cont, attempt, outcome, ctxDone>>

\* sleepWithContext: the timer fires and a new attempt has a new scheduler ...
NewAttempt ==
    /\ pc = "sleep"
    /\ attempt' = attempt + 1
    /\ pc' = "read"
    /\ FreshScheduler
    /\ UNCHANGED <<cont, outcome, ctxDone>>

\* ... or the context ends first.
SleepCancelled ==
    /\ pc = "sleep"
    /\ ctxDone
    /\ outcome' = "error"
    /\ pc' = "returned"
    /\ UNCHANGED <<cont, attempt, n, kind, slot, batch, goroutines, ctxDone>>

\* RunToolLoop asks for the next turn, of the same run (under the same
\* context) or of a later one.
NewTurn ==
    /\ pc = "returned"
    /\ pc' = "read" /\ attempt' = 0 /\ outcome' = "none"
    /\ FreshScheduler
    /\ ctxDone' \in {ctxDone, FALSE}
    /\ UNCHANGED cont
-----------------------------------------------------------------------------
(* The goroutine of a parallel safe call (startSafeTool).  When a slot is  *)
(* free and the context is done, select takes either branch.               *)

TakeSlot(i) ==
    /\ task[i] = "queued"
    /\ Cardinality(sem) < MaxParallel
    /\ sem' = sem \union {i}
    /\ task' = [task EXCEPT ![i] = "running"]
    /\ UNCHANGED <<pc, cont, attempt, outcome, n, kind, slot, batch, done, ctxDone>>

SeeCancel(i) ==
    /\ task[i] = "queued"
    /\ ctxDone
    /\ done' = [done EXCEPT ![i] = "error"]
    /\ task' = [task EXCEPT ![i] = "cancelled"]
    /\ UNCHANGED <<pc, cont, attempt, outcome, n, kind, slot, batch, sem, ctxDone>>

FinishSafe(i, r) ==
    /\ task[i] = "running" /\ kind[i] = "safe"
    /\ done' = [done EXCEPT ![i] = r]
    /\ task' = [task EXCEPT ![i] = "sent"]
    /\ UNCHANGED <<pc, cont, attempt, outcome, n, kind, slot, batch, sem, ctxDone>>

\* Mutant: the slot is never given back.
ReleaseNothing(i) ==
    /\ task[i] = "sent"
    /\ task' = [task EXCEPT ![i] = "ended"]
    /\ UNCHANGED <<pc, cont, attempt, outcome, n, kind, slot, batch, done, sem, ctxDone>>

\* The deferred release comes after the result is sent.
Release(i) ==
    /\ task[i] = "sent"
    /\ sem' = sem \ {i}
    /\ task' = [task EXCEPT ![i] = "ended"]
    /\ UNCHANGED <<pc, cont, attempt, outcome, n, kind, slot, batch, done, ctxDone>>

Goroutine(i) == \/ TakeSlot(i) \/ SeeCancel(i) \/ Release(i)
                \/ \E r \in Results : FinishSafe(i, r)

\* The user interrupts the run.
Cancel ==
    /\ ~ctxDone
    /\ ctxDone' = TRUE
    /\ UNCHANGED <<pc, cont, attempt, outcome, n, kind, slot, batch, goroutines>>
-----------------------------------------------------------------------------
\* The turn's steps that wait for nothing but its own tools.
Turn == \/ FlushItem \/ RejectCall \/ StartSerial \/ ReturnResults
        \/ AttemptFails \/ NewAttempt \/ SleepCancelled
        \/ \E r \in Results : FinishSerial(r)

Next == \/ Turn
        \/ ToolUseEnd \/ StreamEnds \/ NewTurn \/ Cancel
        \/ \E k \in Kinds : Prepare(k)
        \/ \E i \in Calls : Goroutine(i)

Spec == Init /\ [][Next]_vars

\* Go runs every goroutine that can run and a tool returns.  The model
\* provider and the person at a permission prompt owe nothing, except that
\* both give up when the context is done: the HTTP request and the prompt
\* select on it.
Fairness ==
    /\ WF_vars(Turn)
    /\ \A i \in Calls : WF_vars(Goroutine(i))
    /\ WF_vars(ctxDone /\ StreamEnds)
    /\ WF_vars(ctxDone /\ \E k \in Kinds : Prepare(k))

FairSpec == Spec /\ Fairness
-----------------------------------------------------------------------------
TypeOK ==
    /\ pc \in PCs /\ cont \in Conts /\ outcome \in Outcomes
    /\ attempt \in 0 .. MaxRetries
    /\ n \in 0 .. MaxToolCalls
    /\ kind \in [Calls -> Kinds \union {"none"}]
    /\ slot \in [Calls -> Results \union {"none", "pending"}]
    /\ batch \subseteq Calls
    /\ task \in [Calls -> Tasks]
    /\ done \in [Calls -> Results \union {"none"}]
    /\ sem \subseteq Calls
    /\ ctxDone \in BOOLEAN

\* RunToolLoop pairs results with tool uses by position and appends one
\* message of them: when a turn returns results, every call of it has one, no
\* goroutine of it can still run a tool and none is left holding a result.
ReturnedTurnIsSettled ==
    pc = "returned" =>
        /\ outcome # "none"
        /\ \A i \in Calls :
              /\ i <= n => slot[i] \in Results
              /\ task[i] \notin {"queued", "running"}
              /\ done[i] = "none"

\* Tools have side effects, so the stream recovery of runStreamingToolTurn may
\* only repeat a request, and only return an error, when the attempt that
\* failed had started no tool and lost no finished one.
NothingRan == n = 0 /\ \A i \in Calls : task[i] = "none"
RetryRepeatsNothing ==
    [][ (attempt' > attempt \/ outcome' = "error") => NothingRan ]_<<attempt, outcome>>

\* The contract of OrderedCalls: a call that is not parallel safe neither
\* overlaps nor overtakes another, parallel ones overlap up to the cap, and no
\* call runs twice.
CallState(i) ==
    CASE kind[i] = "bad" -> IF slot[i] = "error" THEN "done" ELSE "idle"
      [] task[i] \in {"sent", "ended", "cancelled"} -> "done"
      [] task[i] = "running" -> "running"
      [] OTHER -> "idle"

Contract == INSTANCE OrderedCalls WITH st <- [i \in Calls |-> CallState(i)]

ImplementsOrderedCalls == Contract!Spec

\* flushSafeBatch cannot wait forever: every goroutine gets a slot or the
\* cancellation, and sends exactly the one result its channel has room for.
FlushEnds == pc = "flush" ~> pc # "flush"

\* An interrupted turn returns: no retry, delay, prompt or queued tool keeps
\* it going once the context is done.
CancelEndsTurn == (ctxDone /\ pc # "returned") ~> pc = "returned"
=============================================================================
