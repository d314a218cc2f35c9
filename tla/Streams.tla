------------------------------ MODULE Streams -------------------------------
(***************************************************************************)
(* One answer of a model, streamed: what the server sends, the goroutine   *)
(* of a provider that turns it into StreamEvents (openai.go, anthropic.go, *)
(* each with the vendor's API and with a compatible endpoint), and the     *)
(* turn that puts the tool calls together again                            *)
(* (runStreamingToolTurnAttempt) and records them in the conversation.     *)
(*                                                                         *)
(* Calls are numbered as the server numbers them.  Parts of different      *)
(* calls may be interleaved.  What the server sends is read at once; the   *)
(* events it gives are sent on an unbuffered channel one by one.  That a   *)
(* tool runs inside a step of the turn is ToolScheduler's; texts and token *)
(* counts are told only as far as the conversation needs them.             *)
(***************************************************************************)
EXTENDS Requests

CONSTANT Calls      \* how many calls the model makes

ASSUME CallsAssumption == Calls \in Nat \ {0}

Numbers == 1 .. Calls
Apis == {"responses", "chat", "sdk", "messages"}

VARIABLES
    api,     \* the provider and its endpoint
    ids,     \* the server gives the calls ids
    initial, \* the input in content_block_start: nothing, or {}
    limit,   \* maxToolCalls of this turn
    opened,  \* the calls the server has begun
    sent,    \* the input it has sent for each (history)
    closed,  \* the calls it has ended, in order (history)
    over,    \* whether and how it has stopped
    tools,   \* toolStates, activeToolUses, itemCallIDs of the provider
    prod,    \* where the provider's goroutine is
    todo,    \* the events it has to send now
    turn     \* the turn: activeToolUses and its maps, toolUses, content, outcome

server == <<api, ids, initial, limit>>
wire == <<opened, sent, closed, over>>
vars == <<server, wire, tools, prod, todo, turn>>

ItemId(i) == <<"item", i>>
CallId(i) == IF ids THEN <<"call", i>> ELSE <<"tool_call", i>>

Event(type, tool, call, name, input) ==
    [type |-> type, tool |-> tool, call |-> call, name |-> name, input |-> input]
Done == Event("done", None, None, 0, <<>>)
Err == Event("err", None, None, 0, <<>>)

NoTools == [i \in {} |-> {}]
Add(f, k, v) == [x \in DOMAIN f \union {k} |-> IF x = k THEN v ELSE f[x]]
Drop(f, k) == [x \in DOMAIN f \ {k} |-> f[x]]

Init ==
    /\ api \in Apis
    /\ ids \in (IF api = "chat" THEN BOOLEAN ELSE {TRUE})
    /\ initial \in (IF api \in {"sdk", "messages"} THEN {<<>>, <<Empty>>} ELSE {<<>>})
    /\ limit \in 1 .. Calls
    /\ opened = {} /\ sent = [i \in Numbers |-> <<>>] /\ closed = <<>> /\ over = "no"
    /\ tools = NoTools /\ prod = "read" /\ todo = <<>>
    /\ turn = [state |-> "reading", active |-> NoTools, calls |-> <<>>, text |-> FALSE]
-----------------------------------------------------------------------------
(* The server sends an item and the provider reads it.                     *)

Reading == prod = "read" /\ todo = <<>>

Opens(i) ==
    /\ Reading /\ i \notin opened /\ 1 .. i - 1 \subseteq opened
    /\ opened' = opened \union {i}
    /\ UNCHANGED <<server, closed, over, prod, turn>>

IsOpen(i) == i \in opened /\ \A k \in 1 .. Len(closed) : closed[k] # i

Sends(i) ==
    /\ Reading /\ IsOpen(i) /\ Len(sent[i]) < Parts
    /\ sent' = [sent EXCEPT ![i] = Append(@, <<i, Len(@) + 1>>)]
    /\ UNCHANGED <<server, opened, closed, over, prod, turn>>

Part(i) == <<<<i, Len(sent[i]) + 1>>>>

Closes(i) ==
    /\ Reading /\ IsOpen(i)
    /\ closed' = Append(closed, i)
    /\ UNCHANGED <<server, opened, sent, over, prod, turn>>

\* A text delta.
SendText ==
    /\ Reading /\ ~turn.text
    /\ todo' = <<Event("text", None, None, 0, <<>>)>>
    /\ UNCHANGED <<server, wire, tools, prod, turn>>

(* OpenAI's Responses API: items have ids of their own.                    *)

\* response.output_item.added
ItemAdded(i) ==
    /\ api = "responses" /\ Opens(i)
    /\ tools' = Add(tools, i, CallId(i))
    /\ todo' = <<Event("tool_use", ItemId(i), CallId(i), i, <<>>)>>
    /\ UNCHANGED sent

\* response.function_call_arguments.delta
ArgumentsDelta(i) ==
    /\ api = "responses" /\ Sends(i)
    /\ todo' = <<Event("tool_use_delta", ItemId(i), None, 0, Part(i))>>
    /\ UNCHANGED tools

\* response.function_call_arguments.done, which may leave out the name
ArgumentsDone(i) ==
    /\ api = "responses" /\ Closes(i) /\ Len(sent[i]) = Parts
    /\ \E name \in {0, i} :
          todo' = <<Event("tool_use_end", ItemId(i), tools[i], name, sent[i])>>
    /\ UNCHANGED tools

(* OpenAI-compatible endpoints.                                            *)

Fresh == [id |-> None, name |-> 0, args |-> <<>>, started |-> FALSE]

\* One entry of delta.tool_calls, with what it says of id, name and arguments.
ChatDelta(i, id, name, args) ==
    LET old == IF i \in DOMAIN tools THEN tools[i] ELSE Fresh
        known == IF id # None THEN id ELSE old.id
        new == [id |-> known, name |-> IF name # 0 THEN name ELSE old.name,
                args |-> old.args \o args, started |-> old.started \/ known # None]
        start == IF new.started /\ ~old.started
                 THEN <<Event("tool_use", new.id, new.id, new.name, <<>>)>> ELSE <<>>
        delta == IF new.started /\ args # <<>>
                 THEN <<Event("tool_use_delta", new.id, None, new.name, args)>> ELSE <<>>
    IN /\ tools' = Add(tools, i, new)
       /\ todo' = start \o delta

ChatStart(i) ==
    /\ api = "chat" /\ Opens(i)
    /\ ChatDelta(i, IF ids THEN CallId(i) ELSE None, i, <<>>)
    /\ UNCHANGED sent

\* Mutant: a part is kept only if the call has been announced.
ChatPartAnnounced(i) ==
    /\ api = "chat" /\ Sends(i)
    /\ IF tools[i].started THEN ChatDelta(i, None, 0, Part(i)) ELSE UNCHANGED tools /\ todo' = <<>>

ChatPart(i) ==
    /\ api = "chat" /\ Sends(i)
    /\ ChatDelta(i, None, 0, Part(i))

Ended(i) ==
    LET id == IF tools[i].id # None THEN tools[i].id ELSE CallId(i)
    IN Event("tool_use_end", id, id, tools[i].name, tools[i].args)

\* finish_reason "tool_calls": all calls end, in the order of their indexes.
ChatFinish ==
    /\ api = "chat" /\ Reading /\ opened # {} /\ closed = <<>>
    /\ \A i \in opened : Len(sent[i]) = Parts
    /\ closed' = [k \in 1 .. Cardinality(opened) |-> k]
    /\ todo' = [k \in DOMAIN closed' |-> Ended(k)]
    /\ tools' = NoTools
    /\ UNCHANGED <<server, opened, sent, over, prod, turn>>

(* Anthropic's Messages API, by its SDK and from compatible endpoints.     *)

\* content_block_start: the SDK's provider keeps an input {}, the other does not.
BlockStart(i) ==
    /\ api \in {"sdk", "messages"} /\ Opens(i)
    /\ tools' = Add(tools, i, [id |-> CallId(i), name |-> i,
                               args |-> IF api = "sdk" THEN initial ELSE <<>>])
    /\ todo' = <<Event("tool_use", CallId(i), CallId(i), i, initial)>>
    /\ UNCHANGED sent

\* content_block_delta with an input_json_delta
InputDelta(i) ==
    /\ api \in {"sdk", "messages"} /\ Sends(i)
    /\ tools' = [tools EXCEPT ![i].args = @ \o Part(i)]
    /\ todo' = <<Event("tool_use_delta", CallId(i), None, i, Part(i))>>

\* content_block_stop, also of a block that max_tokens has cut short
BlockStop(i) ==
    /\ api \in {"sdk", "messages"} /\ Closes(i)
    /\ tools' = Drop(tools, i)
    /\ todo' = <<Event("tool_use_end", tools[i].id, tools[i].id, tools[i].name, tools[i].args)>>

(* The end of the stream.                                                  *)

Stops(how, events) ==
    /\ Reading
    /\ over' = how /\ prod' = "last" /\ todo' = events
    /\ UNCHANGED <<server, opened, sent, closed, tools, turn>>

\* [DONE], response.completed or message_stop; chat's calls may have been
\* ended by another finish_reason, which the provider does not heed.
ServerDone == ~(\E i \in opened : api # "chat" /\ IsOpen(i)) /\ Stops("done", <<Done>>)

\* The connection is closed in good order before that, or the Responses API
\* sends response.failed or response.incomplete, which the provider ignores.
ServerCut == Stops("cut", <<Done>>)

\* Mutant: an error event does not end the provider's loop.
StreamFailsOn ==
    /\ Reading
    /\ over' = "error" /\ prod' = "last" /\ todo' = <<Err, Done>>
    /\ UNCHANGED <<server, opened, sent, closed, tools, turn>>

\* An error event, a payload that is no JSON, a read error, a cancelled context.
StreamFails == Stops("error", <<Err>>)

\* The deferred calls: close(ch), before it the SDK's stream.Close, whose error
\* is one more event.
Leave ==
    /\ prod \in {"last", "closing"} /\ todo = <<>>
    /\ prod' = "closed"
    /\ UNCHANGED <<server, wire, tools, todo, turn>>

CloseFails ==
    /\ prod = "last" /\ todo = <<>> /\ api \in {"responses", "sdk"}
    /\ prod' = "closing" /\ todo' = <<Err>>
    /\ UNCHANGED <<server, wire, tools, turn>>
-----------------------------------------------------------------------------
(* The turn: one event of the range over the channel.                      *)

OnUse(e) ==
    IF e.tool = None THEN turn
    ELSE [turn EXCEPT !.active = Add(@, e.tool, [input |-> e.input, name |-> e.name, call |-> e.call])]

OnDelta(e) ==
    IF e.tool \notin DOMAIN turn.active THEN turn
    ELSE [turn EXCEPT !.active[e.tool].input = @ \o e.input]

\* Its name and call id are the event's, else those of its start; its input is
\* what has been put together since the start, else the event's.
Taken(e) ==
    LET begun == e.tool \in DOMAIN turn.active
        start == turn.active[e.tool]
    IN [id |-> CASE e.call # None -> e.call
                 [] e.call = None /\ begun /\ start.call # None -> start.call
                 [] OTHER -> e.tool,
        name |-> IF e.name = 0 /\ begun THEN start.name ELSE e.name,
        input |-> IF begun /\ start.input # <<>> THEN start.input ELSE e.input]

\* Mutant: the limit is checked with > instead of >=.
OnEndOverLimit(e) ==
    IF Len(turn.calls) > limit THEN turn
    ELSE [turn EXCEPT !.calls = Append(@, Taken(e)), !.active = Drop(@, e.tool)]

OnEnd(e) ==
    IF Len(turn.calls) >= limit THEN turn
    ELSE [turn EXCEPT !.calls = Append(@, Taken(e)), !.active = Drop(@, e.tool)]

\* Calls that have run are kept; without any the attempt fails.
OnErr == [turn EXCEPT !.state = IF turn.calls # <<>> THEN "recovered" ELSE "failed"]

Take ==
    /\ turn.state = "reading" /\ todo # <<>>
    /\ LET e == Head(todo)
       IN turn' = CASE e.type = "err" -> OnErr
                    [] e.type = "text" -> [turn EXCEPT !.text = TRUE]
                    [] e.type = "tool_use" -> OnUse(e)
                    [] e.type = "tool_use_delta" -> OnDelta(e)
                    [] e.type = "tool_use_end" -> OnEnd(e)
                    [] OTHER -> turn
    /\ todo' = Tail(todo)
    /\ UNCHANGED <<server, wire, tools, prod>>

\* The channel is closed and the range ends.
Complete ==
    /\ turn.state = "reading" /\ prod = "closed"
    /\ turn' = [turn EXCEPT !.state = "completed"]
    /\ UNCHANGED <<server, wire, tools, prod, todo>>

Next ==
    \/ \E i \in Numbers :
          \/ ItemAdded(i) \/ ArgumentsDelta(i) \/ ArgumentsDone(i)
          \/ ChatStart(i) \/ ChatPart(i)
          \/ BlockStart(i) \/ InputDelta(i) \/ BlockStop(i)
    \/ SendText \/ ChatFinish
    \/ ServerDone \/ ServerCut \/ StreamFails
    \/ Leave \/ CloseFails
    \/ Take \/ Complete

Spec == Init /\ [][Next]_vars

\* The server owes nothing; the two goroutines go on when they can.
FairSpec == Spec /\ WF_vars(Leave) /\ WF_vars(Take) /\ WF_vars(Complete)
-----------------------------------------------------------------------------
(* The conversation after the turn.                                        *)

Message(role, content) == [role |-> role, content |-> content]

\* Mutant: an answer without text gets a blank one.
AssistantResponseWithText ==
    <<Message("assistant",
        <<IF turn.text THEN Text ELSE Blank>>
        \o [k \in DOMAIN turn.calls |-> Use(turn.calls[k])])>>

\* appendAssistantResponse
AssistantResponse ==
    LET content == (IF turn.text THEN <<Text>> ELSE <<>>)
                   \o [k \in DOMAIN turn.calls |-> Use(turn.calls[k])]
    IN IF content = <<>> THEN <<>> ELSE <<Message("assistant", content)>>

\* appendToolResultMessages
ToolResults ==
    IF turn.calls = <<>> THEN <<>>
    ELSE <<Message("user", [k \in DOMAIN turn.calls |-> Result(turn.calls[k])])>>

\* What appendUserMessage makes of a prompt and its images.
UserMessages == {<<Text>>, <<Image>>, <<Text, Image>>}

Conversation(prompt) == <<Message("user", prompt)>> \o AssistantResponse \o ToolResults
-----------------------------------------------------------------------------
TypeOK ==
    /\ api \in Apis /\ ids \in BOOLEAN /\ initial \in {<<>>, <<Empty>>} /\ limit \in Numbers
    /\ opened \subseteq Numbers
    /\ \A i \in Numbers : sent[i] = SubSeq(Whole(i), 1, Len(sent[i]))
    /\ over \in {"no", "done", "cut", "error"}
    /\ DOMAIN tools \subseteq Numbers
    /\ prod \in {"read", "last", "closing", "closed"}
    /\ turn.state \in {"reading", "completed", "recovered", "failed"} /\ turn.text \in BOOLEAN

\* The calls of a turn are those the server has ended, in its order and each
\* once, with the id the server will know, the name and the whole input, however
\* parts are interleaved and whatever is left out of the events.  (The input of a
\* block that starts with one is left to InputIsAsSent.)
CallsAreWhole ==
    \A k \in DOMAIN turn.calls :
        /\ k <= Len(closed)
        /\ turn.calls[k].id = CallId(closed[k]) /\ turn.calls[k].name = closed[k]
        /\ initial = <<>> => turn.calls[k].input = sent[closed[k]]

\* An answer counts as completed only when no error was met, and then no call
\* that the server has ended is missing, nor one taken above the limit.
CompleteIsComplete ==
    turn.state = "completed" =>
        /\ over # "error"
        /\ Len(turn.calls) = IF Len(closed) < limit THEN Len(closed) ELSE limit

\* When the stream is over the provider's goroutine ends: it never waits for a
\* turn that reads no more, except with an error of stream.Close.
ProviderEnds == over # "no" ~> prod \in {"closed", "closing"}

WholeInputs == \A k \in DOMAIN turn.calls : turn.calls[k].input = <<>> \/ IsJSON(turn.calls[k].input)

\* Who speaks a block of a message, in the words of the provider.
Speaker(m, b) ==
    CASE b.type = "tool_use" -> "assistant"
      [] b.type = "tool_result" /\ api \in {"responses", "chat"} -> "tool"
      [] OTHER -> m.role

\* After a turn the next request can be written for the same provider, and says
\* the conversation: every block once, in order, spoken by whom it was, provided
\* that the inputs are JSON.
NextRequestFits ==
    turn.state \in {"completed", "recovered"} /\ WholeInputs =>
        \A prompt \in UserMessages :
            LET messages == Conversation(prompt)
                said == Request(api, messages)
                Lines(m) == [n \in DOMAIN m.content |-> <<Speaker(m, m.content[n]), m.content[n]>>]
                SaidLines(item) == [n \in DOMAIN item.blocks |-> <<item.role, item.blocks[n]>>]
            IN /\ \A k \in DOMAIN messages : ~Refused(api, messages[k])
               /\ FlattenSeq([k \in DOMAIN said |-> SaidLines(said[k])])
                  = FlattenSeq([k \in DOMAIN messages |-> Lines(messages[k])])

\* The input of a call is the one the server has streamed, as the test of the
\* Anthropic stream expects of its tool_use_end (agent_framework_test.go:537).
InputIsAsSent ==
    \A k \in DOMAIN turn.calls :
        LET whole == sent[closed[k]] IN whole # <<>> => turn.calls[k].input = whole
=============================================================================
