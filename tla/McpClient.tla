------------------------------ MODULE McpClient ------------------------------
(***************************************************************************)
(* One MCP client (mcp.go) over stdio: tool calls, the loop that checks    *)
(* the server and reconnects, and Close, which share the connection under  *)
(* client.mu.  The mutex is held from the writing of a request until its   *)
(* reply is read.  heartbeatLoop and reconnectLoop take turns in one       *)
(* goroutine or its successor: here one loop.                              *)
(*                                                                         *)
(* A server is a process that may die at any time, its pipes included.  It *)
(* sends nothing but replies; it may be silent.                            *)
(***************************************************************************)
EXTENDS Naturals, FiniteSets

CONSTANTS Callers,   \* goroutines that execute MCP tools
          Servers,   \* server processes; one that has ended may stand for a new one
          Loop,      \* the goroutine of heartbeatLoop and reconnectLoop
          Closer,    \* the goroutine that closes the agent
          None       \* nobody, no server

ASSUME McpAssumption ==
    /\ None \notin Servers \union Callers
    /\ Loop \notin Callers /\ Closer \notin Callers /\ Loop # None

Handshake == {"initialize", "tools", "resources"}
LoopSteps == {"off", "beat", "check", "checking", "retry", "connect", "start"} \union Handshake

VARIABLES
    mu,          \* who holds client.mu
    transport,   \* client.transport
    server,      \* each process: "off", "up", "asked" or "replied"
    call,        \* each caller: "idle", "lock" or "reply"
    loop,        \* where the loop is
    started,     \* MCPManager.Start has returned
    closer,      \* Close: "no", "lock" or "done"
    closed       \* client.closed

client == <<mu, transport>>
mcpVars == <<client, server, call, loop, started, closer, closed>>

\* NewAgent starts the manager, which connects before anything else happens.
McpInit ==
    /\ mu = None /\ transport = None
    /\ server = [s \in Servers |-> "off"]
    /\ call = [c \in Callers |-> "idle"]
    /\ loop = "connect" /\ started = FALSE
    /\ closer = "no" /\ closed = FALSE

Connected == transport # None /\ server[transport] # "off"

\* callLocked writes its request; a server that has ended cannot take it.
Ask == Connected /\ server' = [server EXCEPT ![transport] = "asked"]

\* The reply is there, or the pipe is at its end.
Answered == transport # None /\ server[transport] \in {"replied", "off"}
TakeReply == server' = [server EXCEPT ![transport] = IF @ = "replied" THEN "up" ELSE @]
-----------------------------------------------------------------------------
(* Tool calls and list_mcp_resources.                                      *)

Call(c) ==
    /\ started /\ call[c] = "idle"
    /\ call' = [call EXCEPT ![c] = "lock"]
    /\ UNCHANGED <<client, server, loop, started, closer, closed>>

BeginCall(c) ==
    /\ call[c] = "lock" /\ mu = None
    /\ \/ /\ Ask
          /\ mu' = c
          /\ call' = [call EXCEPT ![c] = "reply"]
       \/ /\ ~Connected
          /\ call' = [call EXCEPT ![c] = "idle"]
          /\ UNCHANGED <<mu, server>>
    /\ UNCHANGED <<transport, loop, started, closer, closed>>

\* Mutant: a call that is cancelled leaves without its reply.
EndCallEarly(c) ==
    /\ call[c] = "reply"
    /\ mu' = None
    /\ call' = [call EXCEPT ![c] = "idle"]
    /\ UNCHANGED <<server, transport, loop, started, closer, closed>>

EndCall(c) ==
    /\ call[c] = "reply" /\ Answered
    /\ TakeReply
    /\ mu' = None
    /\ call' = [call EXCEPT ![c] = "idle"]
    /\ UNCHANGED <<transport, loop, started, closer, closed>>
-----------------------------------------------------------------------------
(* The loop.                                                               *)

\* A ticker of heartbeatLoop or reconnectLoop.
Tick ==
    /\ \/ loop = "beat" /\ loop' = "check"
       \/ loop = "retry" /\ loop' = "connect"
    /\ UNCHANGED <<client, server, call, started, closer, closed>>

\* Mutant: reconnectLoop does not look at client.closed.
SeeClosedInBeat ==
    /\ loop = "beat" /\ closed
    /\ loop' = "off"
    /\ UNCHANGED <<client, server, call, started, closer, closed>>

SeeClosed ==
    /\ loop \in {"beat", "retry"} /\ closed
    /\ loop' = "off"
    /\ UNCHANGED <<client, server, call, started, closer, closed>>

\* Mutant: a failed heartbeat is only logged.
BeginCheckLogged ==
    /\ loop = "check" /\ mu = None
    /\ \/ Ask /\ mu' = Loop /\ loop' = "checking"
       \/ ~Connected /\ loop' = "beat" /\ UNCHANGED <<mu, server>>
    /\ UNCHANGED <<transport, call, started, closer, closed>>

BeginCheck ==
    /\ loop = "check" /\ mu = None
    /\ \/ Ask /\ mu' = Loop /\ loop' = "checking"
       \/ ~Connected /\ loop' = "retry" /\ UNCHANGED <<mu, server>>
    /\ UNCHANGED <<transport, call, started, closer, closed>>

\* The reply is a result, or it is an error and the loop reconnects.
EndCheck ==
    /\ loop = "checking" /\ Answered
    /\ TakeReply
    /\ mu' = None
    /\ loop' \in {"retry", IF server[transport] = "replied" THEN "beat" ELSE "retry"}
    /\ UNCHANGED <<transport, call, started, closer, closed>>

\* Mutant: Connect forgets the connection that is there.
BeginConnectKeeping ==
    /\ loop = "connect" /\ mu = None
    /\ mu' = Loop /\ transport' = None
    /\ loop' = "start"
    /\ UNCHANGED <<server, call, started, closer, closed>>

\* Connect takes the mutex until it ends; it first closes the old transport.
BeginConnect ==
    /\ loop = "connect" /\ mu = None
    /\ mu' = Loop /\ transport' = None
    /\ server' = IF transport = None THEN server ELSE [server EXCEPT ![transport] = "off"]
    /\ loop' = "start"
    /\ UNCHANGED <<call, started, closer, closed>>

\* transport.Start, and the request of the handshake's first step.
StartServer ==
    /\ loop = "start"
    /\ \E s \in Servers :
          /\ server[s] = "off"
          /\ server' = [server EXCEPT ![s] = "asked"]
          /\ transport' = s
    /\ loop' = "initialize"
    /\ UNCHANGED <<mu, call, started, closer, closed>>

NextStep(step) == IF step = "initialize" THEN "tools" ELSE "resources"

\* A step of the handshake succeeds and the next one is asked.
Shake ==
    /\ loop \in {"initialize", "tools"}
    /\ Answered /\ server[transport] = "replied"
    /\ Ask
    /\ loop' = NextStep(loop)
    /\ UNCHANGED <<client, call, started, closer, closed>>

\* Mutant: the mutex is kept when Connect fails.
ConnectFailsLocked ==
    /\ \/ loop = "start" /\ UNCHANGED server
       \/ loop \in {"initialize", "tools"} /\ Answered /\ TakeReply
    /\ loop' = "retry" /\ started' = TRUE
    /\ UNCHANGED <<client, call, closer, closed>>

\* Start fails, or one of the first two steps does; a transport that was
\* started stays until the next attempt.
ConnectFails ==
    /\ \/ loop = "start" /\ UNCHANGED server
       \/ loop \in {"initialize", "tools"} /\ Answered /\ TakeReply
    /\ mu' = None
    /\ loop' = "retry" /\ started' = TRUE
    /\ UNCHANGED <<transport, call, closer, closed>>

\* The list of resources may fail.  The tools are registered and a new
\* heartbeat begins.
ConnectEnds ==
    /\ loop = "resources" /\ Answered
    /\ TakeReply
    /\ mu' = None
    /\ loop' = "beat" /\ started' = TRUE
    /\ UNCHANGED <<transport, call, closer, closed>>
-----------------------------------------------------------------------------
(* Close, and the server.                                                  *)

AskClose ==
    /\ started /\ closer = "no"
    /\ closer' = "lock"
    /\ UNCHANGED <<client, server, call, loop, started, closed>>

\* The transport is closed, but stays the client's.
Close ==
    /\ closer = "lock" /\ mu = None
    /\ closer' = "done" /\ closed' = TRUE
    /\ server' = IF transport = None THEN server ELSE [server EXCEPT ![transport] = "off"]
    /\ UNCHANGED <<client, call, loop, started>>

Reply(s) ==
    /\ server[s] = "asked"
    /\ server' = [server EXCEPT ![s] = "replied"]
    /\ UNCHANGED <<client, call, loop, started, closer, closed>>

Die(s) ==
    /\ server[s] # "off"
    /\ server' = [server EXCEPT ![s] = "off"]
    /\ UNCHANGED <<client, call, loop, started, closer, closed>>
-----------------------------------------------------------------------------
Connect == StartServer \/ Shake \/ ConnectFails \/ ConnectEnds

McpNext ==
    \/ \E c \in Callers : Call(c) \/ BeginCall(c) \/ EndCall(c)
    \/ Tick \/ SeeClosed \/ BeginCheck \/ EndCheck \/ BeginConnect \/ Connect
    \/ AskClose \/ Close
    \/ \E s \in Servers : Reply(s) \/ Die(s)

McpSpec == McpInit /\ [][McpNext]_mcpVars

\* Goroutines that can run do, the mutex is not withheld from one for ever
\* (sync.Mutex hands it over to one that has waited), and a select whose
\* channel is closed takes that branch at some time.  A server answers or
\* ends, and one that can be started again is, sooner or later.
McpFairness ==
    /\ WF_mcpVars(Tick) /\ WF_mcpVars(Connect) /\ WF_mcpVars(EndCheck)
    /\ SF_mcpVars(BeginCheck) /\ SF_mcpVars(BeginConnect)
    /\ SF_mcpVars(Close) /\ SF_mcpVars(SeeClosed)
    /\ \A c \in Callers : SF_mcpVars(BeginCall(c)) /\ WF_mcpVars(EndCall(c))
    /\ \A s \in Servers : WF_mcpVars(server[s] = "asked" /\ (Reply(s) \/ Die(s)))
    /\ SF_mcpVars(StartServer)

McpFairSpec == McpSpec /\ McpFairness
-----------------------------------------------------------------------------
McpTypeOK ==
    /\ transport \in Servers \union {None}
    /\ server \in [Servers -> {"off", "up", "asked", "replied"}]
    /\ call \in [Callers -> {"idle", "lock", "reply"}]
    /\ loop \in LoopSteps
    /\ started \in BOOLEAN /\ closed \in BOOLEAN
    /\ closer \in {"no", "lock", "done"}
    /\ mu \in Callers \union {Loop, None}
    /\ \A c \in Callers : mu = c <=> call[c] = "reply"
    /\ mu = Loop <=> loop \in {"checking", "start"} \union Handshake

\* Whatever was interrupted, failed or closed, at most one server process is
\* alive, and it is the one the client can still close.
OneServer ==
    /\ Cardinality({s \in Servers : server[s] # "off"}) <= 1
    /\ \A s \in Servers : server[s] # "off" => transport = s

\* The reply is read without a look at its id, so it must be that of the
\* reader's request: nothing is left in the pipe when the mutex is released.
\* (A notification, which the client has no place for, would be taken for one.)
RepliesAreTaken ==
    mu = None => \A s \in Servers : server[s] \in {"off", "up"}

\* A client whose server has ended gets a new one, unless it is closed.
DeadIsReplaced == started /\ ~Connected ~> Connected \/ closed

\* No sequence of reconnects keeps a call, or Close, waiting.
CallsEnd == \A c \in Callers : call[c] # "idle" ~> call[c] = "idle"

\* After Close the loop stops, even from within a reconnect.
CloseEndsLoop == closer = "lock" ~> closed /\ loop = "off"
=============================================================================
