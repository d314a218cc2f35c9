------------------------------ MODULE Requests ------------------------------
(***************************************************************************)
(* How a conversation is written into the next request to a provider:      *)
(* toOpenAIInputItems (the Responses API), toChatCompletionMessages        *)
(* (OpenAI-compatible endpoints), toAnthropicContentBlocks (the SDK) and   *)
(* toAnthropicCompatContent (Anthropic-compatible endpoints).              *)
(*                                                                         *)
(* A message is a role and a sequence of blocks.  Of a text it is told     *)
(* whether it is blank; an image has its data.  An id is a tuple, None if  *)
(* it is missing; a tool's name is a number, 0 if it is missing; an input  *)
(* is the sequence of the parts it was streamed in: <<i, k>> is the k-th   *)
(* part of the i-th call, Empty a whole object {}.                         *)
(***************************************************************************)
EXTENDS Naturals, Sequences, SequencesExt

CONSTANT Parts  \* how many parts make the JSON object of an input

ASSUME PartsAssumption == Parts \in Nat \ {0}

None == <<>>
Empty == <<0, 0>>

Block(type, id, name, input) == [type |-> type, id |-> id, name |-> name, input |-> input]
Text == Block("text", None, 0, <<>>)
Blank == Block("blank", None, 0, <<>>)
Image == Block("image", None, 0, <<>>)
Use(call) == Block("tool_use", call.id, call.name, call.input)
Result(call) == Block("tool_result", call.id, 0, <<>>)

Whole(i) == [k \in 1 .. Parts |-> <<i, k>>]

\* json.Valid of an input, which the encoder asks of a json.RawMessage.
IsJSON(input) ==
    \/ input = <<Empty>>
    \/ input # <<>> /\ input = Whole(input[1][1])
-----------------------------------------------------------------------------
Item(role, blocks) == [role |-> role, blocks |-> blocks]

\* flushMessage: the plain blocks that wait become an item of their own.
Flush(done, run, role) == IF run = <<>> THEN done ELSE Append(done, Item(role, run))

\* The switch over the blocks of a message, with run the plain ones that wait.
Convert(role, content) ==
    LET Step(acc, b) ==
            CASE b.type = "tool_use" ->
                    [done |-> Append(Flush(acc.done, acc.run, role), Item("assistant", <<b>>)), run |-> <<>>]
              [] b.type = "tool_result" ->
                    [done |-> Append(Flush(acc.done, acc.run, role), Item("tool", <<b>>)), run |-> <<>>]
              [] OTHER -> [acc EXCEPT !.run = Append(@, b)]
        end == FoldLeft(Step, [done |-> <<>>, run |-> <<>>], content)
    IN Flush(end.done, end.run, role)

InputItems(m) == Convert(m.role, m.content)

\* toChatCompletionContent leaves blank texts out, if there are other blocks.
ChatContent(blocks) ==
    IF Len(blocks) = 1 THEN blocks ELSE SelectSeq(blocks, LAMBDA b : b.type # "blank")

ChatMessages(m) ==
    LET items == Convert(m.role, m.content)
    IN [i \in 1 .. Len(items) |-> [items[i] EXCEPT !.blocks = ChatContent(@)]]

\* Both Anthropic encoders write a message as one, block by block.
AnthropicMessage(m) == <<Item(m.role, m.content)>>

Nameless(b) == b.type = "tool_use" /\ (b.id = None \/ b.name = 0)
Orphan(b) == b.type = "tool_result" /\ b.id = None

\* The encoder gives an error, and the request is never sent.
Refused(api, m) ==
    \/ \E k \in 1 .. Len(m.content) : Nameless(m.content[k]) \/ Orphan(m.content[k])
    \/ /\ api # "chat"
       /\ \E k \in 1 .. Len(m.content) : m.content[k].type = "blank"
    \/ /\ api \in {"sdk", "messages"}
       /\ \/ m.content = <<>>
          \/ \E k \in 1 .. Len(m.content) :
                LET b == m.content[k]
                IN b.type = "tool_use" /\ b.input # <<>> /\ ~IsJSON(b.input)

Request(api, messages) ==
    FlattenSeq([i \in 1 .. Len(messages) |->
        CASE api = "responses" -> InputItems(messages[i])
          [] api = "chat" -> ChatMessages(messages[i])
          [] OTHER -> AnthropicMessage(messages[i])])
=============================================================================
