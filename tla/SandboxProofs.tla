---------------------------- MODULE SandboxProofs ----------------------------
(***************************************************************************)
(* Proofs about Sandbox for any machines and any number of calls.          *)
(***************************************************************************)
EXTENDS Sandbox, TLAPS

\* A manager that believes in no machine has none: Close forgets and kills.
ManagedInv ==
    /\ VmIsManaged
    /\ ~tcpAddr => cmd = None

\* Nothing of a call is in the machine before it was sent there, and nothing of
\* one that ran on the host; calls are numbered in the order they are made.
Untouched(i) == guest[i] = "none" /\ process[i] = "none"
OnceInv ==
    \A i \in Calls :
        /\ call[i] \in {"none", "wait", "post", "ask", "host"} => Untouched(i)
        /\ i \in onHost => call[i] = "ended" /\ Untouched(i)
        /\ i > cur => call[i] = "none"

\* What EndIsReported says of a call.
Told(i) ==
    /\ outcome[i] = "failed" => process[i] = "failed"
    /\ outcome[i] = "ok" => process[i] = "ok" \/ (process[i] = "failed" /\ i \in expired)
    /\ outcome[i] = "running" => i \in expired

\* While the handler waits the command has been started and not been killed; the
\* error is noted when the command has ended, and done is closed after that; only
\* the timer makes a handler take a snapshot with the command still at work.
ReportedInv ==
    \A i \in Calls :
        /\ guest[i] \in {"select", "snapshot"} => process[i] \in {"running", "ok", "failed"}
        /\ state[i].err => process[i] \notin {"none", "running"}
        /\ state[i].done => state[i].err
        /\ state[i].seen => state[i].err /\ process[i] = "failed"
        /\ guest[i] = "snapshot" => i \in expired
        /\ guest[i] = "asked" => process[i] = "none"
        /\ i \notin onHost => Told(i)

IInv == TypeOK /\ ManagedInv /\ OnceInv /\ ReportedInv

LEMMA InitIInv == Init => IInv
<1> SUFFICES ASSUME Init PROVE IInv
  OBVIOUS
<1> USE SandboxAssumption DEF Init
<1>1. TypeOK
  BY DEF TypeOK, CallSteps, Outcomes, GuestSteps, Open, Calls
<1>2. ManagedInv
  BY DEF ManagedInv, VmIsManaged
<1>3. OnceInv /\ ReportedInv
  BY DEF OnceInv, ReportedInv, Told, Untouched, Open
<1>4. QED
  BY <1>1, <1>2, <1>3 DEF IInv
-----------------------------------------------------------------------------
(* Every variable keeps its type.                                          *)

LEMMA KillType ==
    ASSUME TypeOK, NEW v \in VMs, Kill(v)
    PROVE  /\ vm' \in [VMs -> {"off", "boot", "up"}]
           /\ ctxOf' \in [VMs -> {"background", "run", "done"}]
           /\ guest' \in [Calls -> GuestSteps]
           /\ process' \in [Calls -> {"none", "running", "ok", "failed", "killed"}]
           /\ state' \in [Calls -> [err : BOOLEAN, done : BOOLEAN, seen : BOOLEAN]]
           /\ left' = left /\ expired' = expired
<1>1. vm' \in [VMs -> {"off", "boot", "up"}] /\ ctxOf' \in [VMs -> {"background", "run", "done"}]
  BY DEF TypeOK, Kill
<1>2. guest' \in [Calls -> GuestSteps]
  BY DEF TypeOK, Kill, GuestSteps
<1>3. process' \in [Calls -> {"none", "running", "ok", "failed", "killed"}]
  BY DEF TypeOK, Kill
<1>4. QED
  BY <1>1, <1>2, <1>3 DEF TypeOK, Kill

\* The end of a call, an answer of the server.
LEMMA ReplyType ==
    ASSUME TypeOK, NEW i \in Calls, NEW o \in Outcomes, Reply(i, o)
    PROVE  /\ guest' \in [Calls -> GuestSteps]
           /\ call' \in [Calls -> CallSteps]
           /\ outcome' \in [Calls -> Outcomes]
           /\ onHost' \subseteq Calls
<1>1. guest' \in [Calls -> GuestSteps]
  BY DEF TypeOK, Reply, GuestSteps
<1>2. "ended" \in CallSteps
  BY DEF CallSteps
<1>3. QED
  BY <1>1, <1>2 DEF TypeOK, Reply, End

LEMMA NextType == TypeOK /\ [Next]_vars => TypeOK'
<1> SUFFICES ASSUME TypeOK, [Next]_vars PROVE TypeOK'
  OBVIOUS
<1> DEFINE Processes == {"none", "running", "ok", "failed", "killed"}
<1> DEFINE States == [err : BOOLEAN, done : BOOLEAN, seen : BOOLEAN]
<1> USE SandboxAssumption DEF manager, machine, host, server
<1>1. CASE ToFullAuto
  <2>1. /\ vm' \in [VMs -> {"off", "boot", "up"}]
        /\ ctxOf' \in [VMs -> {"background", "run", "done"}]
        /\ guest' \in [Calls -> GuestSteps] /\ process' \in [Calls -> Processes]
        /\ state' \in [Calls -> States] /\ left' = left /\ expired' = expired
    <3>1. CASE cmd = None
      BY <1>1, <3>1 DEF ToFullAuto, Close, TypeOK
    <3>2. CASE cmd # None
      <4>1. cmd \in VMs /\ Kill(cmd)
        BY <1>1, <3>2 DEF ToFullAuto, Close, TypeOK
      <4>2. QED
        BY <4>1, KillType
    <3>3. QED
      BY <3>1, <3>2
  <2>2. QED
    BY <1>1, <2>1 DEF ToFullAuto, Close, TypeOK
<1>2. CASE ToAsk
  <2>1. ASSUME NEW v \in VMs, Started(v, "background"), mode' = "ask", enabled' = TRUE,
               UNCHANGED server, UNCHANGED <<run, host>>
        PROVE  TypeOK'
    BY <2>1 DEF Started, TypeOK
  <2>2. ASSUME Close, enabled' \in {enabled, TRUE}, UNCHANGED mode, UNCHANGED <<run, host>>
        PROVE  TypeOK'
    <3>1. CASE cmd = None
      BY <2>2, <3>1 DEF Close, TypeOK
    <3>2. CASE cmd # None
      <4>1. cmd \in VMs /\ Kill(cmd)
        BY <2>2, <3>2 DEF Close, TypeOK
      <4>2. QED
        BY <2>2, <4>1, KillType DEF Close, TypeOK
    <3>3. QED
      BY <3>1, <3>2
  <2>3. QED
    BY <1>2, <2>1, <2>2 DEF ToAsk
<1>3. CASE StartRun
  BY <1>3 DEF StartRun, TypeOK
<1>4. CASE PressEsc
  BY <1>4 DEF PressEsc, ContextsDone, TypeOK
<1>5. CASE EndRun
  BY <1>5 DEF EndRun, ContextsDone, TypeOK
<1>6. ASSUME NEW v \in VMs, Boot(v) PROVE TypeOK'
  BY <1>6 DEF Boot, TypeOK
<1>7. ASSUME NEW v \in VMs, Die(v) PROVE TypeOK'
  BY <1>7, KillType DEF Die, TypeOK
<1>8. ASSUME NEW i \in Calls, BeginCall(i) PROVE TypeOK'
  <2>1. cur' \in 0 .. MaxCalls /\ call' \in [Calls -> CallSteps]
    <3>1. cur' \in 0 .. MaxCalls
      BY <1>8 DEF BeginCall, Calls
    <3>2. PICK s \in {"host", "wait", "ask"} : call' = [call EXCEPT ![i] = s]
      BY <1>8 DEF BeginCall, Step
    <3>3. s \in CallSteps
      BY DEF CallSteps
    <3>4. QED
      BY <3>1, <3>2, <3>3 DEF TypeOK
  <2>2. QED
    BY <1>8, <2>1 DEF BeginCall, Step, Started, TypeOK
<1>9. ASSUME NEW i \in Calls, Call(i) PROVE TypeOK'
  <2>1. call' \in [Calls -> CallSteps] /\ outcome' \in [Calls -> Outcomes]
    BY <1>9 DEF Call, Ready, NotReady, Post, Break, Abandon, Step, End, TypeOK, CallSteps, Outcomes
  <2>2. guest' \in [Calls -> GuestSteps]
    BY <1>9 DEF Call, Ready, NotReady, Post, Break, Abandon, TypeOK, GuestSteps
  <2>3. QED
    BY <1>9, <2>1, <2>2
    DEF Call, Ready, NotReady, Post, Break, Abandon, Step, End, TypeOK
<1>10. ASSUME NEW i \in Calls, Guest(i) PROVE TypeOK'
  <2>1. CASE Execute(i)
    <3>1. guest' \in [Calls -> GuestSteps] /\ process' \in [Calls -> Processes]
      BY <2>1 DEF Execute, TypeOK, GuestSteps
    <3>2. QED
      BY <2>1, <3>1 DEF Execute, TypeOK
  <2>2. CASE Write(i)
    <3>1. PICK p \in {"ok", "failed"} : process' = [process EXCEPT ![i] = p] /\ Reply(i, p)
      BY <2>2 DEF Write
    <3>2. p \in Outcomes /\ process' \in [Calls -> Processes]
      BY <3>1 DEF Outcomes, TypeOK
    <3>3. QED
      BY <2>2, <3>1, <3>2, ReplyType DEF Write, TypeOK
  <2>3. CASE NoteExit(i)
    <3>1. state' \in [Calls -> States]
      BY <2>3 DEF NoteExit, TypeOK
    <3>2. QED
      BY <2>3, <3>1 DEF NoteExit, TypeOK
  <2>4. CASE AnswerDone(i)
    <3>1. PICK o \in Outcomes : Reply(i, o)
      BY <2>4 DEF AnswerDone, Outcomes
    <3>2. QED
      BY <2>4, <3>1, ReplyType DEF AnswerDone, TypeOK
  <2>5. CASE AnswerTimeout(i)
    <3>1. PICK o \in Outcomes : Reply(i, o)
      BY <2>5 DEF AnswerTimeout, Outcomes
    <3>2. QED
      BY <2>5, <3>1, ReplyType DEF AnswerTimeout, TypeOK
  <2>6. CASE Timeout(i)
    <3>1. ErrorOf(i) \in BOOLEAN
      BY DEF ErrorOf
    <3>2. guest' \in [Calls -> GuestSteps]
      BY <2>6 DEF Timeout, TypeOK, GuestSteps
    <3>3. state' \in [Calls -> States]
      BY <2>6, <3>1 DEF Timeout, TypeOK
    <3>4. QED
      BY <2>6, <3>2, <3>3 DEF Timeout, TypeOK
  <2>7. CASE SeeClosed(i)
    <3>1. guest' \in [Calls -> GuestSteps] /\ process' \in [Calls -> Processes]
      BY <2>7 DEF SeeClosed, TypeOK, GuestSteps
    <3>2. QED
      BY <2>7, <3>1 DEF SeeClosed, TypeOK
  <2>8. QED
    BY <1>10, <2>1, <2>2, <2>3, <2>4, <2>5, <2>6, <2>7 DEF Guest
<1>11. ASSUME NEW i \in Calls, Answer(i) PROVE TypeOK'
  <2>1. call' \in [Calls -> CallSteps] /\ outcome' \in [Calls -> Outcomes]
    BY <1>11 DEF Answer, Step, End, TypeOK, CallSteps, Outcomes
  <2>2. QED
    BY <1>11, <2>1 DEF Answer, Step, End, TypeOK
<1>12. ASSUME NEW i \in Calls, RunOnHost(i) PROVE TypeOK'
  <2>1. call' \in [Calls -> CallSteps] /\ outcome' \in [Calls -> Outcomes]
    BY <1>12 DEF RunOnHost, TypeOK, CallSteps, Outcomes
  <2>2. QED
    BY <1>12, <2>1 DEF RunOnHost, TypeOK
<1>13. ASSUME NEW i \in Calls, Exit(i) PROVE TypeOK'
  <2>1. process' \in [Calls -> Processes]
    BY <1>13 DEF Exit, TypeOK
  <2>2. QED
    BY <1>13, <2>1 DEF Exit, TypeOK
<1>14. CASE UNCHANGED vars
  BY <1>14 DEF vars, TypeOK
<1>15. QED
  BY <1>1, <1>2, <1>3, <1>4, <1>5, <1>6, <1>7, <1>8, <1>9, <1>10, <1>11, <1>12, <1>13, <1>14
  DEF Next
-----------------------------------------------------------------------------
(* Machines are managed: only the steps that start, kill or forget one     *)
(* matter.                                                                 *)

LEMMA NextManaged == TypeOK /\ ManagedInv /\ [Next]_vars => ManagedInv'
<1> SUFFICES ASSUME TypeOK, ManagedInv, [Next]_vars PROVE ManagedInv'
  OBVIOUS
<1> USE SandboxAssumption DEF TypeOK, ManagedInv, VmIsManaged, manager, machine
<1>a. Close => (\A v \in VMs : vm'[v] = "off") /\ cmd' = None
  BY DEF Close, Kill
<1>1. CASE ToFullAuto
  BY <1>1, <1>a DEF ToFullAuto
<1>2. CASE ToAsk
  <2>1. ASSUME NEW v \in VMs, Started(v, "background"), mode' = "ask" PROVE ManagedInv'
    BY <1>2, <2>1 DEF ToAsk, Started
  <2>2. QED
    BY <1>2, <1>a, <2>1 DEF ToAsk
<1>3. CASE StartRun \/ PressEsc \/ EndRun
  BY <1>3 DEF StartRun, PressEsc, EndRun
<1>4. ASSUME NEW v \in VMs, Boot(v) \/ Die(v) PROVE ManagedInv'
  BY <1>4 DEF Boot, Die, Kill
<1>5. ASSUME NEW i \in Calls, BeginCall(i) PROVE ManagedInv'
  BY <1>5 DEF BeginCall, Started, ShouldRoute
<1>6. ASSUME NEW i \in Calls, Call(i) PROVE ManagedInv'
  BY <1>6 DEF Call, Ready, NotReady, Post, Break, Abandon
<1>7. ASSUME NEW i \in Calls, Guest(i) PROVE ManagedInv'
  BY <1>7 DEF Guest, Execute, Write, NoteExit, AnswerDone, Timeout, AnswerTimeout, SeeClosed
<1>8. ASSUME NEW i \in Calls, Answer(i) \/ RunOnHost(i) \/ Exit(i) PROVE ManagedInv'
  BY <1>8 DEF Answer, RunOnHost, Exit
<1>9. CASE UNCHANGED vars
  BY <1>9 DEF vars
<1>10. QED
  BY <1>1, <1>2, <1>3, <1>4, <1>5, <1>6, <1>7, <1>8, <1>9 DEF Next
-----------------------------------------------------------------------------
(* Where a call is executed, and what is said of it.                       *)

\* The end of a machine takes handlers away and kills commands, and nothing more.
LEMMA KillKeeps ==
    ASSUME TypeOK, OnceInv, ReportedInv, NEW v \in VMs, Kill(v),
           UNCHANGED host
    PROVE  OnceInv' /\ ReportedInv'
  BY DEF TypeOK, OnceInv, ReportedInv, Told, Untouched, Kill, host, Calls

LEMMA NextOnce == IInv /\ [Next]_vars => OnceInv' /\ ReportedInv'
<1> SUFFICES ASSUME IInv, [Next]_vars PROVE OnceInv' /\ ReportedInv'
  OBVIOUS
<1> USE SandboxAssumption DEF IInv, TypeOK, manager, machine, host, server
<1>a. UNCHANGED <<host, server>> => OnceInv' /\ ReportedInv'
  BY DEF OnceInv, ReportedInv, Told, Untouched
<1>1. CASE ToFullAuto
  BY <1>1, <1>a, KillKeeps DEF ToFullAuto, Close
<1>2. CASE ToAsk
  BY <1>2, <1>a, KillKeeps DEF ToAsk, Close
<1>3. CASE StartRun \/ PressEsc \/ EndRun
  BY <1>3, <1>a DEF StartRun, PressEsc, EndRun
<1>4. ASSUME NEW v \in VMs, Boot(v) PROVE OnceInv' /\ ReportedInv'
  BY <1>4, <1>a DEF Boot
<1>5. ASSUME NEW v \in VMs, Die(v) PROVE OnceInv' /\ ReportedInv'
  BY <1>5, KillKeeps DEF Die
<1>6. ASSUME NEW i \in Calls, BeginCall(i) PROVE OnceInv' /\ ReportedInv'
  BY <1>6 DEF BeginCall, Step, OnceInv, ReportedInv, Told, Untouched, Calls
<1>7. ASSUME NEW i \in Calls, Call(i) PROVE OnceInv' /\ ReportedInv'
  <2>1. CASE Ready(i) \/ NotReady(i)
    BY <2>1 DEF Ready, NotReady, Step, OnceInv, ReportedInv, Told, Untouched
  <2>2. CASE Post(i)
    BY <2>2 DEF Post, Step, End, OnceInv, ReportedInv, Told, Untouched
  <2>3. CASE Break(i) \/ Abandon(i)
    BY <2>3 DEF Break, Abandon, End, OnceInv, ReportedInv, Told, Untouched
  <2>4. QED
    BY <1>7, <2>1, <2>2, <2>3 DEF Call
<1>8. ASSUME NEW i \in Calls, Guest(i) PROVE OnceInv' /\ ReportedInv'
  <2>1. CASE Execute(i)
    BY <2>1 DEF Execute, OnceInv, ReportedInv, Told, Untouched
  <2>2. CASE Write(i)
    BY <2>2 DEF Write, Reply, End, OnceInv, ReportedInv, Told, Untouched
  <2>3. CASE NoteExit(i)
    BY <2>3 DEF NoteExit, OnceInv, ReportedInv, Told, Untouched
  <2>4. CASE AnswerDone(i)
    BY <2>4 DEF AnswerDone, ErrorOf, Reply, End, OnceInv, ReportedInv, Told, Untouched
  <2>5. CASE Timeout(i)
    BY <2>5 DEF Timeout, ErrorOf, OnceInv, ReportedInv, Told, Untouched
  <2>6. CASE AnswerTimeout(i)
    BY <2>6 DEF AnswerTimeout, Reply, End, OnceInv, ReportedInv, Told, Untouched
  <2>7. CASE SeeClosed(i)
    BY <2>7 DEF SeeClosed, OnceInv, ReportedInv, Told, Untouched
  <2>8. QED
    BY <1>8, <2>1, <2>2, <2>3, <2>4, <2>5, <2>6, <2>7 DEF Guest
<1>9. ASSUME NEW i \in Calls, Answer(i) PROVE OnceInv' /\ ReportedInv'
  BY <1>9 DEF Answer, Step, End, OnceInv, ReportedInv, Told, Untouched
<1>10. ASSUME NEW i \in Calls, RunOnHost(i) PROVE OnceInv' /\ ReportedInv'
  BY <1>10 DEF RunOnHost, OnceInv, ReportedInv, Told, Untouched
<1>11. ASSUME NEW i \in Calls, Exit(i) PROVE OnceInv' /\ ReportedInv'
  BY <1>11 DEF Exit, OnceInv, ReportedInv, Told, Untouched
<1>12. CASE UNCHANGED vars
  BY <1>12, <1>a DEF vars
<1>13. QED
  BY <1>1, <1>2, <1>3, <1>4, <1>5, <1>6, <1>7, <1>8, <1>9, <1>10, <1>11, <1>12 DEF Next
-----------------------------------------------------------------------------
\* The inductive invariant of the sandbox, for any machines and calls.
THEOREM Invariance == Spec => []IInv
<1>1. IInv /\ [Next]_vars => IInv'
  BY NextType, NextManaged, NextOnce DEF IInv
<1>2. QED
  BY <1>1, InitIInv, PTL DEF Spec

\* The manager knows every machine there is, and there is none in full-auto
\* mode: nothing is left running when a start fails, a machine dies, or the mode
\* is switched.
THEOREM NoVmIsForgotten == Spec => []VmIsManaged
<1>1. IInv => VmIsManaged
  BY DEF IInv, ManagedInv
<1>2. QED
  BY <1>1, Invariance, PTL

\* No call is executed in the machine and on the host, however often machines
\* die and runs are cancelled.
THEOREM NoCallRunsTwice == Spec => []RunsOnce
<1>1. IInv => RunsOnce
  BY DEF IInv, OnceInv, Untouched, RunsOnce
<1>2. QED
  BY <1>1, Invariance, PTL

\* A failure reported is a command that failed.  A success is one that succeeded,
\* but for the one way in which a failure is reported as a success: the timer runs
\* out while the goroutine is between the command's end and closing done.
THEOREM ReportsAreTrue == Spec => []EndIsReported
<1>1. IInv => EndIsReported
  BY DEF IInv, ReportedInv, Told, EndIsReported
<1>2. QED
  BY <1>1, Invariance, PTL
=============================================================================
