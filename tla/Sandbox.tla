------------------------------- MODULE Sandbox -------------------------------
(***************************************************************************)
(* The sandbox of ask mode: SandboxManager (agent/sandbox.go) with the     *)
(* virtual machine it starts, a call that is routed to it, the fallback to *)
(* the host (agent.go), the switch of the permission mode (main.go), and   *)
(* the server in the machine that runs commands                            *)
(* (cmd/sandbox-mcp-server/main.go).                                       *)
(*                                                                         *)
(* A routed call is not parallel safe, so calls come one after another;    *)
(* commands are typed between runs.  The reasons a start may fail are one  *)
(* outcome; the health check answers when the server in the machine does.  *)
(***************************************************************************)
EXTENDS Naturals, FiniteSets

CONSTANTS VMs,       \* virtual machines, processes that may be started again
          None,      \* no machine
          MaxCalls   \* bound of the model: calls that may be made

ASSUME SandboxAssumption == MaxCalls \in Nat /\ None \notin VMs

Calls == 1 .. MaxCalls
CallSteps == {"none", "wait", "post", "sent", "ask", "host", "ended"}
Outcomes == {"none", "ok", "failed", "running", "error"}
GuestSteps == {"none", "asked", "select", "snapshot", "gone"}

VARIABLES
    mode,     \* permission.Mode()
    enabled,  \* config.Enabled is not "false"
    tcpAddr,  \* sandbox.tcpAddr is set
    cmd,      \* sandbox.cmd
    vm,       \* each machine: "off", "boot" or "up"
    ctxOf,    \* the context a machine was started under: "background", "run" or "done"
    run,      \* the run of the agent: "idle", "running" or "cancelled"
    cur,      \* calls made so far, the number of the last one
    call,     \* where each call is
    outcome,  \* what the text says that the agent was told of it
    onHost,   \* calls executed on the host
    guest,    \* where the server's handler of each call is
    process,  \* its shell, or file: "none", "running", "ok", "failed" or "killed"
    state,    \* its commandState: is err set, is done closed, the err a snapshot read
    left,     \* calls whose connection the agent has closed
    expired   \* history: calls whose handler went by its timer

manager == <<enabled, tcpAddr, cmd>>
machine == <<vm, ctxOf>>
host == <<cur, call, outcome, onHost>>
server == <<guest, process, state, left, expired>>
vars == <<mode, manager, machine, run, host, server>>

Open == [err |-> FALSE, done |-> FALSE, seen |-> FALSE]

Serving == tcpAddr /\ cmd # None /\ vm[cmd] = "up"

\* The machine ends, and everything in it.
Kill(v) ==
    /\ vm' = [vm EXCEPT ![v] = "off"]
    /\ ctxOf' = [ctxOf EXCEPT ![v] = "done"]
    /\ guest' = [i \in Calls |-> IF guest[i] = "none" THEN "none" ELSE "gone"]
    /\ process' = [i \in Calls |-> IF process[i] = "running" THEN "killed" ELSE process[i]]
    /\ UNCHANGED <<state, left, expired>>
-----------------------------------------------------------------------------
(* Start, Close and the permission mode.                                   *)

\* A start that gets as far as vfkit; keepaliveLoop only logs.
Started(v, ctx) ==
    /\ vm[v] = "off"
    /\ tcpAddr' = TRUE /\ cmd' = v
    /\ vm' = [vm EXCEPT ![v] = "boot"]
    /\ ctxOf' = [ctxOf EXCEPT ![v] = ctx]

\* NewAgent starts the sandbox in ask mode, if it can.
Init ==
    /\ mode \in {"ask", "full-auto"} /\ enabled \in BOOLEAN
    /\ cmd \in {None} \union (IF mode = "ask" /\ enabled THEN VMs ELSE {})
    /\ tcpAddr = (cmd # None)
    /\ vm = [v \in VMs |-> IF v = cmd THEN "boot" ELSE "off"]
    /\ ctxOf = [v \in VMs |-> IF v = cmd THEN "background" ELSE "done"]
    /\ run = "idle" /\ cur = 0
    /\ call = [i \in Calls |-> "none"]
    /\ outcome = [i \in Calls |-> "none"]
    /\ onHost = {}
    /\ guest = [i \in Calls |-> "none"]
    /\ process = [i \in Calls |-> "none"]
    /\ state = [i \in Calls |-> Open]
    /\ left = {} /\ expired = {}

\* Mutant: the machine is forgotten, not killed.
CloseKeepingVm ==
    /\ tcpAddr' = FALSE /\ cmd' = None
    /\ UNCHANGED <<machine, server>>

\* Close.
Close ==
    /\ tcpAddr' = FALSE /\ cmd' = None
    /\ IF cmd = None THEN UNCHANGED <<machine, server>> ELSE Kill(cmd)

\* /permission full-auto, confirmed: StopSandbox.
ToFullAuto ==
    /\ run = "idle"
    /\ mode' = "full-auto"
    /\ Close
    /\ UNCHANGED <<enabled, run, host>>

\* /permission ask in full-auto mode: StartSandbox closes, configures and starts.
\* When it fails the mode stays.
ToAsk ==
    /\ run = "idle" /\ mode = "full-auto"
    /\ \/ \E v \in VMs : Started(v, "background") /\ mode' = "ask"
                        /\ enabled' = TRUE /\ UNCHANGED server
       \/ Close /\ enabled' \in {enabled, TRUE} /\ UNCHANGED mode
    /\ UNCHANGED <<run, host>>

\* The machine's server answers the health check.
Boot(v) ==
    /\ vm[v] = "boot"
    /\ vm' = [vm EXCEPT ![v] = "up"]
    /\ UNCHANGED <<mode, manager, ctxOf, run, host, server>>

\* vfkit dies, or exec.CommandContext kills it when its context is done.
Die(v) ==
    /\ vm[v] # "off"
    /\ Kill(v)
    /\ UNCHANGED <<mode, manager, run, host>>
-----------------------------------------------------------------------------
(* Runs and calls on the host's side.                                      *)

\* The contexts of a run that ends or is cancelled.
ContextsDone == [v \in VMs |-> IF ctxOf[v] = "run" THEN "done" ELSE ctxOf[v]]

StartRun ==
    /\ run = "idle"
    /\ run' = "running"
    /\ UNCHANGED <<mode, manager, machine, host, server>>

PressEsc ==
    /\ run = "running"
    /\ run' = "cancelled" /\ ctxOf' = ContextsDone
    /\ UNCHANGED <<mode, manager, vm, host, server>>

EndRun ==
    /\ run # "idle" /\ \A i \in Calls : call[i] \in {"none", "ended"}
    /\ run' = "idle" /\ ctxOf' = ContextsDone
    /\ UNCHANGED <<mode, manager, vm, host, server>>

Step(i, s) == call' = [call EXCEPT ![i] = s] /\ UNCHANGED <<outcome, onHost>>
End(i, o) ==
    /\ call' = [call EXCEPT ![i] = "ended"]
    /\ outcome' = [outcome EXCEPT ![i] = o]
    /\ UNCHANGED onHost

ShouldRoute == enabled /\ mode = "ask"

\* ShouldRoute, then CallTool's Start under the context of the run; a call
\* that is not routed has passed the permission check.
BeginCall(i) ==
    /\ run = "running" /\ i = cur + 1 /\ i \in Calls
    /\ \A j \in Calls : call[j] \in {"none", "ended"}
    /\ cur' = i
    /\ \/ ~ShouldRoute /\ Step(i, "host") /\ UNCHANGED <<tcpAddr, cmd, machine>>
       \/ ShouldRoute /\ tcpAddr /\ Step(i, "wait") /\ UNCHANGED <<tcpAddr, cmd, machine>>
       \/ ShouldRoute /\ ~tcpAddr /\ Step(i, "wait") /\ \E v \in VMs : Started(v, "run")
       \/ ShouldRoute /\ ~tcpAddr /\ Step(i, "ask") /\ UNCHANGED <<tcpAddr, cmd, machine>>
    /\ UNCHANGED <<mode, enabled, run, server>>

\* Mutant: the start timeout is missing.
NotReadyWaiting(i) ==
    /\ call[i] = "wait" /\ run = "cancelled"
    /\ Step(i, "ask")
    /\ UNCHANGED <<mode, manager, machine, run, cur, server>>

\* WaitUntilReady: healthy, or not within the start timeout or the run.
Ready(i) ==
    /\ call[i] = "wait" /\ Serving
    /\ Step(i, "post")
    /\ UNCHANGED <<mode, manager, machine, run, cur, server>>

NotReady(i) ==
    /\ call[i] = "wait"
    /\ ~Serving \/ run = "cancelled"
    /\ Step(i, "ask")
    /\ UNCHANGED <<mode, manager, machine, run, cur, server>>

\* callMCPTool: the request reaches the server, or the machine is gone.
Post(i) ==
    /\ call[i] = "post"
    /\ \/ /\ Serving /\ run = "running"
          /\ Step(i, "sent")
          /\ guest' = [guest EXCEPT ![i] = "asked"]
       \/ /\ ~Serving \/ run = "cancelled"
          /\ End(i, "error") /\ UNCHANGED guest
    /\ UNCHANGED <<mode, manager, machine, run, cur, process, state, left, expired>>

\* Mutant: any error of the transport makes the sandbox unavailable.
BreakAsUnavailable(i) ==
    /\ call[i] = "sent" /\ guest[i] = "gone"
    /\ Step(i, "ask")
    /\ UNCHANGED <<mode, manager, machine, run, cur, server>>

\* The machine died with the request, or its handler: an error, which is not
\* SandboxUnavailable.
Break(i) ==
    /\ call[i] = "sent" /\ guest[i] = "gone"
    /\ End(i, "error")
    /\ UNCHANGED <<mode, manager, machine, run, cur, server>>

\* The request is cancelled with the run; proxyConn closes both connections.
Abandon(i) ==
    /\ call[i] = "sent" /\ run = "cancelled"
    /\ End(i, "error")
    /\ left' = left \union {i}
    /\ UNCHANGED <<mode, manager, machine, run, cur, guest, process, state, expired>>

\* AskLocalSandboxFallback: allowed once, denied, or cancelled.
Answer(i) ==
    /\ call[i] = "ask"
    /\ Step(i, "host") \/ End(i, "error")
    /\ UNCHANGED <<mode, manager, machine, run, cur, server>>

\* The tool runs on the host.
RunOnHost(i) ==
    /\ call[i] = "host"
    /\ call' = [call EXCEPT ![i] = "ended"]
    /\ outcome' \in {[outcome EXCEPT ![i] = o] : o \in {"ok", "failed"}}
    /\ onHost' = onHost \union {i}
    /\ UNCHANGED <<mode, manager, machine, run, cur, server>>
-----------------------------------------------------------------------------
(* The server in the machine.                                              *)

Reply(i, o) ==
    /\ guest' = [guest EXCEPT ![i] = "none"]
    /\ IF call[i] = "sent" THEN End(i, o) ELSE UNCHANGED <<call, outcome, onHost>>

\* fileWrite, and calls that are refused, whoever has left.
Write(i) ==
    /\ guest[i] = "asked"
    /\ \E p \in {"ok", "failed"} :
          process' = [process EXCEPT ![i] = p] /\ Reply(i, p)
    /\ UNCHANGED <<mode, manager, machine, run, cur, state, left, expired>>

\* bashExecute starts the command; a handler whose client has left does too.
Execute(i) ==
    /\ guest[i] = "asked"
    /\ process' = [process EXCEPT ![i] = "running"]
    /\ guest' = [guest EXCEPT ![i] = "select"]
    /\ UNCHANGED <<mode, manager, machine, run, host, state, left, expired>>

Exit(i) ==
    /\ process[i] = "running"
    /\ process' \in {[process EXCEPT ![i] = p] : p \in {"ok", "failed"}}
    /\ UNCHANGED <<mode, manager, machine, run, host, guest, state, left, expired>>

\* Mutant: done is closed before the error is there.
NoteExitSwapped(i) ==
    /\ guest[i] \in {"select", "snapshot"} /\ process[i] # "running" /\ ~state[i].err
    /\ state' = [state EXCEPT ![i] = IF @.done THEN [@ EXCEPT !.err = TRUE]
                                     ELSE [@ EXCEPT !.done = TRUE]]
    /\ UNCHANGED <<mode, manager, machine, run, host, guest, process, left, expired>>

\* The goroutine of the command: state.err, which it writes without the lock,
\* then done; nobody reads them when the handler has answered.
NoteExit(i) ==
    /\ guest[i] \in {"select", "snapshot"} /\ process[i] # "running" /\ ~state[i].done
    /\ state' = [state EXCEPT ![i] = IF @.err THEN [@ EXCEPT !.done = TRUE]
                                     ELSE [@ EXCEPT !.err = TRUE]]
    /\ UNCHANGED <<mode, manager, machine, run, host, guest, process, left, expired>>

\* The error a reader of state.err finds.
ErrorOf(i) == state[i].err /\ process[i] = "failed"

\* The handler's select takes any branch that is ready, also when the client has
\* left.  The command is done: its snapshot.
AnswerDone(i) ==
    /\ guest[i] = "select" /\ state[i].done
    /\ Reply(i, IF ErrorOf(i) THEN "failed" ELSE "ok")
    /\ UNCHANGED <<mode, manager, machine, run, cur, process, state, left, expired>>

\* The timer, which leaves the command alone: its snapshot reads the error, then
\* whether the command is done.  An error that is half written when it is read
\* makes the handler panic, and the connection is closed.
Timeout(i) ==
    /\ guest[i] = "select"
    /\ expired' = expired \union {i}
    /\ \/ guest' = [guest EXCEPT ![i] = "snapshot"]
          /\ state' = [state EXCEPT ![i].seen = ErrorOf(i)]
       \/ process[i] = "failed" /\ ~state[i].err
          /\ guest' = [guest EXCEPT ![i] = "gone"] /\ UNCHANGED state
    /\ UNCHANGED <<mode, manager, machine, run, host, process, left>>

\* A command that is done without an error looks like one that ended well.
AnswerTimeout(i) ==
    /\ guest[i] = "snapshot"
    /\ Reply(i, IF state[i].seen THEN "failed"
                ELSE IF state[i].done THEN "ok" ELSE "running")
    /\ UNCHANGED <<mode, manager, machine, run, cur, process, state, left, expired>>

\* Mutant: the handler leaves and the command goes on.
SeeClosedLeaving(i) ==
    /\ guest[i] = "select" /\ i \in left
    /\ guest' = [guest EXCEPT ![i] = "none"]
    /\ UNCHANGED <<mode, manager, machine, run, host, process, state, left, expired>>

\* The request's context is done: cancel, which kills the shell.
SeeClosed(i) ==
    /\ guest[i] = "select" /\ i \in left
    /\ guest' = [guest EXCEPT ![i] = "none"]
    /\ process' = [process EXCEPT ![i] = IF @ = "running" THEN "killed" ELSE @]
    /\ UNCHANGED <<mode, manager, machine, run, host, state, left, expired>>
-----------------------------------------------------------------------------
Call(i) == Ready(i) \/ NotReady(i) \/ Post(i) \/ Break(i) \/ Abandon(i)
Guest(i) == \/ Execute(i) \/ Write(i) \/ NoteExit(i)
            \/ AnswerDone(i) \/ Timeout(i) \/ AnswerTimeout(i) \/ SeeClosed(i)

Next == \/ ToFullAuto \/ ToAsk \/ StartRun \/ PressEsc \/ EndRun
        \/ \E v \in VMs : Boot(v) \/ Die(v)
        \/ \E i \in Calls : \/ BeginCall(i) \/ Call(i) \/ Guest(i)
                            \/ Answer(i) \/ RunOnHost(i) \/ Exit(i)

Spec == Init /\ [][Next]_vars

\* The manager's timers fire, the server is scheduled as long as the machine
\* lives.  Nobody owes an answer at the prompt, no machine has to boot and no
\* command has to end by itself.
Fairness == \A i \in Calls : WF_vars(Call(i)) /\ WF_vars(Guest(i))

FairSpec == Spec /\ Fairness
-----------------------------------------------------------------------------
TypeOK ==
    /\ mode \in {"ask", "full-auto"} /\ enabled \in BOOLEAN /\ tcpAddr \in BOOLEAN
    /\ cmd \in VMs \union {None}
    /\ vm \in [VMs -> {"off", "boot", "up"}]
    /\ ctxOf \in [VMs -> {"background", "run", "done"}]
    /\ run \in {"idle", "running", "cancelled"} /\ cur \in 0 .. MaxCalls
    /\ call \in [Calls -> CallSteps] /\ outcome \in [Calls -> Outcomes]
    /\ onHost \subseteq Calls
    /\ guest \in [Calls -> GuestSteps]
    /\ process \in [Calls -> {"none", "running", "ok", "failed", "killed"}]
    /\ state \in [Calls -> [err : BOOLEAN, done : BOOLEAN, seen : BOOLEAN]]
    /\ left \subseteq Calls /\ expired \subseteq Calls

\* There is never a machine the manager does not know, which Close would leave
\* running on the user's computer, and none at all in full-auto mode.
VmIsManaged == \A v \in VMs : vm[v] # "off" => cmd = v /\ mode = "ask"

\* A call has effects, so it is executed in the machine or on the host and
\* never in both: once the request may have been taken there is no fallback,
\* whatever dies or is cancelled.
RunsOnce == \A i \in Calls : i \in onHost => process[i] = "none"

\* What the agent is told of a command's end: a failure is one that failed; a
\* success is one that succeeded, unless the timer ran out while the command's
\* goroutine was between its end and closing done, when a failure is told as a
\* success; and only a timer tells that a command runs on.
EndIsReported ==
    \A i \in Calls \ onHost :
        /\ outcome[i] = "failed" => process[i] = "failed"
        /\ outcome[i] = "ok" => process[i] = "ok" \/ (process[i] = "failed" /\ i \in expired)
        /\ outcome[i] = "running" => i \in expired

\* A routed call gets out of the sandbox in the end, also when the machine
\* never boots, dies, or the command hangs, and without the user.
SandboxCallsEnd ==
    \A i \in Calls : call[i] \in {"wait", "post", "sent"} ~> call[i] \in {"ask", "ended"}

\* A shell whose call was interrupted, also before it was started, ends, unless
\* the handler goes by its timer, which may come first even when both are ready.
CancelledCommandsEnd ==
    \A i \in Calls : (i \in left /\ guest[i] # "none") ~> (process[i] # "running" \/ i \in expired)

\* What the bash tool says of its timeout: a command does not outlive its call by
\* more than the timeout.  In the machine the timeout ends the wait only.
TimedOutCommandsEnd ==
    \A i \in Calls : (call[i] = "ended" /\ process[i] = "running") ~> process[i] # "running"
=============================================================================
