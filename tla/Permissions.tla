----------------------------- MODULE Permissions -----------------------------
(***************************************************************************)
(* From a tool call to a tool that runs: the route of a prepared call, the *)
(* hook that may replace its input (prepareToolExecution,                  *)
(* executePreparedToolIntoResult and callPreparedTool, agent.go), the      *)
(* shared PermissionManager (permission.go) and the terminal that answers  *)
(* its prompts (runAgent, permissionPrompt and readSelection, main.go).    *)
(*                                                                         *)
(* The parent's turn and its workers call tools at the same time and share *)
(* one manager and one terminal.  An asker prints its prompt and then      *)
(* sends its request; the terminal loop, which runs only while an agent    *)
(* runs, keeps the request it received last and gives it the next digit it *)
(* reads.  What a person types answers the prompt that is on the screen,   *)
(* which need not be that request's: meant and crossed say so.  A bash     *)
(* request is one of the commands in Bash; any other request stands for    *)
(* the tool it names.                                                      *)
(***************************************************************************)
EXTENDS Naturals, FiniteSets

CONSTANTS Askers,     \* goroutines that execute tool calls
          Main,       \* the one of them that is the parent's turn
          Requests,   \* what they may ask for
          Bash,       \* the requests that are bash commands
          ReadOnly,   \* those of them that match readonlyCommands
          Sandboxed   \* tools of IsSandboxRequiredToolCall

Nobody == "nobody"

\* At most one digit is typed and not yet read (KeysAhead = 1).
NoKey == "no key"

ASSUME PermissionsAssumption ==
    /\ Main \in Askers /\ {Nobody, NoKey} \cap Askers = {}
    /\ Requests # {} /\ Bash \subseteq Requests /\ ReadOnly \subseteq Bash

Any == "*"
ToolOf(r) == IF r \in Bash THEN "bash" ELSE r
Tools == {ToolOf(r) : r \in Requests} \union {Any}
Modes == {"ask", "allow-deny", "full-auto"}
Digits == 1 .. 4
PCs == {"idle", "check", "print", "send", "wait", "hook", "vm", "run"}
Approvals == {"none", "policy", "user"}

VARIABLES
    mode, allow, deny,   \* the PermissionManager
    rules,               \* manager.allowedCommands
    pc,                  \* where each asker's call is
    req,                 \* the tool and input of the call, as hooks have left it
    asked,               \* the request each call was last asked about, if it was
    fallback,            \* askers whose prompt is the sandbox fallback one
    routed,              \* askers whose call goes to the sandbox
    answer,              \* the digit in each request's response channel, 0 if none
    approved,            \* by what each call may run on this host
    sandbox,             \* there is a sandbox (macOS, not disabled)
    dead,                \* askers whose context is done
    terminal,            \* stdin is a terminal
    tui,                 \* main goroutine: "line", "run" or "choose"
    esc,                 \* the run was interrupted
    pending,             \* runAgent's pending request: its asker, or none
    shown,               \* the asker whose prompt was printed last, or none
    key,                 \* for which prompt the digit is that is typed and not yet read
    meant,               \* the asker for whose prompt each answer was typed, or none
    crossed              \* askers that met another's prompt or a typed digit

policy == <<mode, allow, deny, rules>>
ghosts == <<meant, crossed>>
calls == <<pc, req, asked, fallback, routed, answer, approved, dead>>
screen == <<terminal, tui, esc, pending>>
typing == <<shown, key>>
vars == <<policy, calls, sandbox, screen, typing, ghosts>>

NoRequest == CHOOSE r \in Requests : TRUE

Init ==
    /\ mode \in Modes /\ allow = {} /\ deny = {} /\ rules = {}
    /\ pc = [a \in Askers |-> "idle"]
    /\ req = [a \in Askers |-> NoRequest] /\ asked = req
    /\ fallback = {} /\ routed = {}
    /\ answer = [a \in Askers |-> 0]
    /\ approved = [a \in Askers |-> "none"]
    /\ sandbox \in BOOLEAN /\ dead = {}
    /\ terminal \in BOOLEAN /\ tui = "line" /\ esc = FALSE /\ pending = Nobody
    /\ shown = Nobody /\ key = NoKey /\ crossed = {}
    /\ meant = [a \in Askers |-> Nobody]

Goto(a, p) == pc' = [pc EXCEPT ![a] = p]
Approve(a, by) == approved' = [approved EXCEPT ![a] = by]

\* The call has its result; nothing of it is left, and what is typed for its
\* prompt is for nobody.
Ended(a) ==
    /\ Goto(a, "idle")
    /\ req' = [req EXCEPT ![a] = NoRequest] /\ asked' = [asked EXCEPT ![a] = NoRequest]
    /\ fallback' = fallback \ {a} /\ routed' = routed \ {a} /\ dead' = dead \ {a}
    /\ answer' = [answer EXCEPT ![a] = 0]
    /\ Approve(a, "none")
    /\ shown' = IF shown = a THEN Nobody ELSE shown
    /\ key' = IF key = a THEN Nobody ELSE key
    /\ meant' = [meant EXCEPT ![a] = Nobody] /\ crossed' = crossed \ {a}
-----------------------------------------------------------------------------
(* PermissionManager.                                                      *)

Listed(list, r) == ToolOf(r) \in list \/ Any \in list

\* CheckWithResult, up to the question: all it reads it reads under one lock.
Denied(r) == \/ mode # "full-auto" /\ Listed(deny, r)
             \/ mode = "allow-deny" /\ ~Listed(allow, r) /\ r \notin rules
Allowed(r) == \/ mode = "full-auto"
              \/ ~Denied(r) /\ (Listed(allow, r) \/ r \in rules)
              \/ ~Denied(r) /\ mode = "ask" /\ r \in ReadOnly

AllowTool(t) == allow' = allow \union {t} /\ deny' = deny \ {t}
DenyTool(t) == deny' = deny \union {t} /\ allow' = allow \ {t}

\* applyDecision with the decision of permissionPrompt for the digit d.
ApplyDecision(r, d) ==
    /\ CASE d = 3 /\ r \in Bash -> rules' = rules \union {r} /\ UNCHANGED <<allow, deny>>
         [] d = 3 /\ r \notin Bash -> AllowTool(ToolOf(r)) /\ UNCHANGED rules
         [] d = 4 -> DenyTool(ToolOf(r)) /\ UNCHANGED rules
         [] OTHER -> UNCHANGED <<allow, deny, rules>>
    /\ UNCHANGED mode

Grants(d, isFallback) == d = 1 \/ (d = 3 /\ ~isFallback)
-----------------------------------------------------------------------------
(* A tool call.                                                            *)

\* prepareToolExecution decides the route by the mode; a routed call is not
\* checked.  A cancelled stream delivers no further calls.
Prepare(a, r) ==
    /\ pc[a] = "idle" /\ tui = "run" /\ ~esc
    /\ req' = [req EXCEPT ![a] = r]
    /\ IF sandbox /\ mode = "ask" /\ ToolOf(r) \in Sandboxed
       THEN routed' = routed \union {a} /\ Goto(a, "hook")
       ELSE UNCHANGED routed /\ Goto(a, "check")
    /\ UNCHANGED <<policy, asked, fallback, answer, approved, dead, sandbox, screen, typing, ghosts>>

Check(a) ==
    /\ pc[a] = "check"
    /\ \/ /\ Denied(req[a])
          /\ Ended(a)
       \/ /\ Allowed(req[a])
          /\ Goto(a, "hook") /\ Approve(a, "policy")
          /\ UNCHANGED <<req, asked, fallback, routed, answer, dead, typing, ghosts>>
       \/ /\ ~Allowed(req[a]) /\ ~Denied(req[a])
          /\ Goto(a, "print")
          /\ UNCHANGED <<req, asked, fallback, routed, answer, approved, dead, typing, ghosts>>
    /\ UNCHANGED <<policy, sandbox, screen>>

\* A call that waits for a place in its batch is dropped when its run is
\* cancelled.
Drop(a) ==
    /\ pc[a] = "hook" /\ a \in dead
    /\ Ended(a)
    /\ UNCHANGED <<policy, sandbox, screen>>

\* A pre_tool_use hook may replace the input, not the tool, after the check and
\* before the sandbox.  Workers have no hooks.
Hook(a) ==
    /\ pc[a] = "hook"
    /\ \E r \in Requests :
          /\ r = req[a] \/ (a = Main /\ ToolOf(r) = ToolOf(req[a]))
          /\ req' = [req EXCEPT ![a] = r]
    /\ Goto(a, IF a \in routed THEN "vm" ELSE "run")
    /\ UNCHANGED <<policy, asked, fallback, routed, answer, approved, dead, sandbox, screen, typing, ghosts>>

\* Mutant: a call the sandbox cannot run is run on the host without a question.
SandboxFallsThrough(a) ==
    /\ pc[a] = "vm"
    /\ \/ Ended(a)
       \/ Goto(a, "run") /\ UNCHANGED <<req, asked, fallback, routed, answer, approved, dead, typing, ghosts>>
    /\ UNCHANGED <<policy, sandbox, screen>>

\* callSandboxTool runs the call in the VM, or finds the sandbox unavailable.
CallSandbox(a) ==
    /\ pc[a] = "vm"
    /\ \/ Ended(a)
       \/ /\ Goto(a, "print") /\ fallback' = fallback \union {a}
          /\ UNCHANGED <<req, asked, routed, answer, approved, dead, typing, ghosts>>
    /\ UNCHANGED <<policy, sandbox, screen>>

\* Askers whose prompt has been printed and not been answered.
Open == {a \in Askers : pc[a] \in {"send", "wait"} /\ answer[a] = 0}

\* permissionPrompt prints the whole prompt before it asks for a selection.  The
\* person now sees this one: another prompt that is open, or a digit that is
\* still on its way, may be mixed up with it.
ShowPrompt(a) ==
    /\ pc[a] = "print"
    /\ Goto(a, "send")
    /\ asked' = [asked EXCEPT ![a] = req[a]]
    /\ shown' = a
    /\ crossed' = crossed \union (IF Open # {} \/ key # NoKey THEN Open \union {a} ELSE {})
    /\ UNCHANGED <<policy, req, fallback, routed, answer, approved, dead, sandbox, screen, key, meant>>

\* The prompt's answer arrives: persisted and judged, or for a fallback used
\* once.
TakeAnswer(a) ==
    /\ pc[a] = "wait" /\ answer[a] # 0
    /\ IF a \in fallback THEN UNCHANGED policy ELSE ApplyDecision(req[a], answer[a])
    /\ IF Grants(answer[a], a \in fallback)
       THEN /\ Goto(a, IF a \in fallback THEN "run" ELSE "hook") /\ Approve(a, "user")
            /\ UNCHANGED <<req, asked, fallback, routed, answer, dead, typing, ghosts>>
       ELSE Ended(a)
    /\ UNCHANGED <<sandbox, screen>>

\* Mutant: a prompt that was sent no longer looks at the context.
GiveUpUnsentOnly(a) ==
    /\ terminal
    /\ pc[a] = "send" /\ a \in dead
    /\ Ended(a)
    /\ UNCHANGED <<policy, sandbox, screen>>

\* readSelection's two selects both look at the context.
GiveUp(a) ==
    /\ terminal
    /\ pc[a] \in {"send", "wait"} /\ a \in dead
    /\ Ended(a)
    /\ UNCHANGED <<policy, sandbox, screen>>

\* The tool returns.
Finish(a) ==
    /\ pc[a] = "run"
    /\ Ended(a)
    /\ UNCHANGED <<policy, sandbox, screen>>
-----------------------------------------------------------------------------
(* The terminal.                                                           *)

\* runAgent's loop takes a request off the unbuffered channel into pending,
\* whatever is there.
ReceiveRequest(a) ==
    /\ terminal /\ tui = "run" /\ pc[a] = "send"
    /\ pending' = a
    /\ Goto(a, "wait")
    /\ UNCHANGED <<policy, req, asked, fallback, routed, answer, approved, dead, sandbox,
                   terminal, tui, esc, typing, ghosts>>

\* The person answers the prompt on the screen, or types ahead of any.
TypeDigit ==
    /\ terminal /\ tui = "run" /\ key = NoKey
    /\ key' = shown
    /\ UNCHANGED <<policy, calls, sandbox, screen, shown, ghosts>>

\* Mutant: one response channel for all requests of an asker, so that the answer
\* to a prompt it gave up waits for the next one.
ReadDigitKept(d) ==
    /\ terminal /\ tui = "run" /\ key # NoKey
    /\ key' = NoKey
    /\ IF pending # Nobody
       THEN /\ answer' = [answer EXCEPT ![pending] = d]
            /\ meant' = [meant EXCEPT ![pending] = key]
       ELSE UNCHANGED <<answer, meant>>
    /\ pending' = Nobody
    /\ UNCHANGED <<policy, pc, req, asked, fallback, routed, approved, dead, sandbox,
                   terminal, tui, esc, shown, crossed>>

\* The loop hands a digit to the pending request, whichever prompt it was typed
\* for; its asker may have given up, and without a request the digit is dropped.
ReadDigit(d) ==
    /\ terminal /\ tui = "run" /\ key # NoKey
    /\ key' = NoKey
    /\ IF pending # Nobody /\ pc[pending] = "wait"
       THEN /\ answer' = [answer EXCEPT ![pending] = d]
            /\ meant' = [meant EXCEPT ![pending] = key]
       ELSE UNCHANGED <<answer, meant>>
    /\ pending' = Nobody
    /\ UNCHANGED <<policy, pc, req, asked, fallback, routed, approved, dead, sandbox,
                   terminal, tui, esc, shown, crossed>>

\* Without a terminal the asker itself reads a line.
ReadLine(a, d) ==
    /\ ~terminal /\ pc[a] = "send"
    /\ answer' = [answer EXCEPT ![a] = d]
    /\ Goto(a, "wait")
    /\ UNCHANGED <<policy, req, asked, fallback, routed, approved, dead, sandbox, screen, typing, ghosts>>

Active == {a \in Askers : pc[a] # "idle"}

\* Keys are read in the order in which they are typed.
PressEsc ==
    /\ terminal /\ tui = "run" /\ ~esc /\ key = NoKey
    /\ esc' = TRUE /\ dead' = Active
    /\ UNCHANGED <<policy, pc, req, asked, fallback, routed, answer, approved, sandbox,
                   terminal, tui, pending, typing, ghosts>>

\* RunToolLoop has returned; the deferred cancel reaches the workers it left.
\* What was typed and not read becomes part of the next line.
EndRun ==
    /\ tui = "run" /\ pc[Main] = "idle"
    /\ tui' = "line" /\ esc' = FALSE /\ pending' = Nobody /\ key' = NoKey
    /\ dead' = Active
    /\ UNCHANGED <<policy, pc, req, asked, fallback, routed, answer, approved, sandbox,
                   terminal, shown, ghosts>>

\* The user enters a prompt.  In plan mode, once the plan is there, the main
\* goroutine asks whether to execute it, with readSelection like the askers.
EnterPrompt ==
    /\ tui = "line"
    /\ tui' \in {"run", "choose"}
    /\ UNCHANGED <<policy, calls, sandbox, terminal, esc, pending, typing, ghosts>>

\* Only runAgent receives from selectionReq, so only a line can answer that.
ChooseByLine ==
    /\ ~terminal /\ tui = "choose"
    /\ tui' \in {"run", "line"}
    /\ UNCHANGED <<policy, calls, sandbox, terminal, esc, pending, typing, ghosts>>

\* /permission, /allow and /deny.
Command ==
    /\ tui = "line"
    /\ \/ mode' \in Modes /\ UNCHANGED <<allow, deny>>
       \/ \E t \in Tools : (AllowTool(t) \/ DenyTool(t)) /\ UNCHANGED mode
    /\ UNCHANGED <<rules, calls, sandbox, screen, typing, ghosts>>
-----------------------------------------------------------------------------
Asker(a) == \/ Check(a) \/ Drop(a) \/ Hook(a) \/ CallSandbox(a) \/ ShowPrompt(a)
            \/ TakeAnswer(a) \/ GiveUp(a) \/ Finish(a)

Next == \/ \E a \in Askers, r \in Requests : Prepare(a, r)
        \/ \E a \in Askers : Asker(a) \/ ReceiveRequest(a)
        \/ \E a \in Askers, d \in Digits : ReadLine(a, d)
        \/ \E d \in Digits : ReadDigit(d)
        \/ TypeDigit \/ PressEsc \/ EndRun \/ EnterPrompt \/ ChooseByLine \/ Command

Spec == Init /\ [][Next]_vars

\* The goroutine of the parent's turn runs when it can, tools return, and an
\* interrupted run ends when its call has.  The worker owes nothing, and the
\* user may walk away.
Fairness == WF_vars(Asker(Main)) /\ WF_vars(esc /\ EndRun)

FairSpec == Spec /\ Fairness

-----------------------------------------------------------------------------
TypeOK ==
    /\ mode \in Modes /\ allow \subseteq Tools /\ deny \subseteq Tools
    /\ rules \subseteq Bash
    /\ pc \in [Askers -> PCs] /\ req \in [Askers -> Requests] /\ asked \in [Askers -> Requests]
    /\ fallback \subseteq Askers /\ routed \subseteq Askers
    /\ answer \in [Askers -> Digits \union {0}]
    /\ approved \in [Askers -> Approvals]
    /\ sandbox \in BOOLEAN /\ dead \subseteq Askers
    /\ terminal \in BOOLEAN /\ esc \in BOOLEAN
    /\ tui \in {"line", "run", "choose"}
    /\ pending \in Askers \union {Nobody} /\ shown \in Askers \union {Nobody}
    /\ key \in Askers \union {Nobody, NoKey} /\ meant \in [Askers -> Askers \union {Nobody}]
    /\ crossed \subseteq Askers

\* A tool runs on this host because the policy allowed the call or the terminal
\* handed a granting digit to this very call's request: no late answer, no
\* interrupt and no digit handed to another request counts.  A call the sandbox
\* was to run needs the digit, and runs with the input its prompt showed,
\* whatever the hooks have made of it.  (For the other calls a hook comes after
\* the question and may replace what was granted; see Hook.)
HostRunsAreApproved ==
    \A a \in Askers : pc[a] = "run" =>
        /\ approved[a] # "none"
        /\ a \in routed => approved[a] = "user" /\ req[a] = asked[a]
        /\ approved[a] = "user" => Grants(answer[a], a \in fallback)

\* A digit that grants a call was typed for the prompt of this call, unless this
\* prompt was open together with another one or a digit was on its way when it
\* was printed: no answer to a prompt that was given up, answered or of an
\* earlier run reaches a later one.
GrantsAreMeant ==
    \A a \in Askers :
        terminal /\ approved[a] = "user" /\ a \notin crossed => meant[a] = a

\* What the fallback prompt says of itself ("Allow this operation to run locally
\* once?"): no digit that was typed for another call's prompt lets a call out of
\* the sandbox.  The loop gives it to the request it received last, which need
\* not be that of the prompt printed last.
FallbacksAreMeant ==
    \A a \in Askers :
        terminal /\ pc[a] = "run" /\ a \in fallback => meant[a] \in {a, Nobody}

\* An interrupted run ends although prompts are open, unsent or overwritten
\* and nobody answers: Esc gets the user back to the command line.
EscEndsRun == esc ~> tui = "line"
=============================================================================
