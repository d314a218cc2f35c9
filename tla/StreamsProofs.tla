----------------------------- MODULE StreamsProofs -----------------------------
(***************************************************************************)
(* Proofs about Streams for any number of calls and of parts of an input.  *)
(***************************************************************************)
EXTENDS Streams, SequenceTheorems, FiniteSetTheorems, TLAPS

Inputs == Seq(Nat \X Nat)
Names == {"call", "tool_call"} \X Nat

Uses == [id : Names, name : Nat, input : Inputs]
Ends == [type : {"tool_use_end"}, tool : {"item", "call", "tool_call"} \X Nat,
         call : Names, name : Nat, input : Inputs]

\* What the provider calls i in the events it sends.
Key(i) == IF api = "responses" THEN ItemId(i) ELSE CallId(i)

\* A compatible endpoint that gives no ids never has a call announced.
Announces == api = "chat" => ids

\* How many ends are still to be taken, and how many the turn has taken.
Pending == IF todo # <<>> /\ Head(todo).type = "tool_use_end" THEN Len(todo) ELSE 0
Heard == Len(closed) - Pending

\* The turn has not been told of the end of i.
Waits(i) == i \in opened /\ \A k \in 1 .. Heard : closed[k] # i
-----------------------------------------------------------------------------
(* The events.                                                             *)

TextEvent == Event("text", None, None, 0, <<>>)

StartEvent(i) == Event("tool_use", Key(i), CallId(i), i, initial)

\* The last part of what was sent.
IsDelta(e, i) ==
    /\ e.type = "tool_use_delta" /\ e.tool = Key(i)
    /\ e.input = <<<<i, Len(sent[i])>>>>

\* Only the Responses API may leave out the name, which its start has.
IsEnd(e, i) ==
    /\ e \in Ends /\ e.tool = Key(i) /\ e.call = CallId(i)
    /\ e.name = i \/ (e.name = 0 /\ api = "responses")
    /\ initial = <<>> => e.input = sent[i]

EndsInv ==
    /\ todo \in Seq(Ends) /\ todo # <<>> /\ Len(todo) <= Len(closed)
    /\ \A k \in 1 .. Len(todo) : IsEnd(todo[k], closed[Len(closed) - Len(todo) + k])

\* What the provider has still to send comes from one thing it read.
TodoInv ==
    \/ todo = <<>>
    \/ /\ prod = "read"
       /\ \/ todo = <<TextEvent>>
          \/ EndsInv
          \/ \E i \in Numbers :
                /\ Announces /\ IsOpen(i)
                /\ \/ todo = <<StartEvent(i)>> /\ sent[i] = <<>>
                   \/ todo = <<Head(todo)>> /\ IsDelta(Head(todo), i)
    \/ /\ prod \in {"last", "closing"}
       /\ todo \in {<<Done>>, <<Err>>}
-----------------------------------------------------------------------------
(* What is known of a call on its way.                                     *)

\* The part of i that is on its way to the turn.
OnTheWay(i) ==
    IF todo # <<>> /\ Head(todo).type = "tool_use_delta" /\ Head(todo).tool = Key(i)
    THEN Head(todo).input ELSE <<>>

\* The server's calls are numbered one after another, and end once.
WireInv ==
    /\ \E m \in 0 .. Calls : opened = 1 .. m
    /\ sent \in [Numbers -> Inputs]
    /\ \A i \in Numbers : /\ Len(sent[i]) <= Parts
                          /\ \A k \in 1 .. Len(sent[i]) : sent[i][k] = <<i, k>>
                          /\ i \notin opened => sent[i] = <<>>
    /\ closed \in Seq(Numbers)
    /\ \A k \in 1 .. Len(closed) : closed[k] \in opened
    /\ \A k, l \in 1 .. Len(closed) : closed[k] = closed[l] => k = l

\* What the provider keeps of a call that has not ended.
Kept(i) ==
    CASE api = "responses" -> tools[i] = CallId(i)
      [] api = "chat" ->
            tools[i] = [id |-> IF ids THEN CallId(i) ELSE None, name |-> i,
                        args |-> sent[i], started |-> ids]
      [] OTHER -> /\ tools[i] = [id |-> CallId(i), name |-> i, args |-> tools[i].args]
                  /\ tools[i].args \in Inputs
                  /\ initial = <<>> => tools[i].args = sent[i]

ToolsInv ==
    /\ DOMAIN tools \subseteq opened
    /\ \A i \in Numbers : IsOpen(i) => i \in DOMAIN tools /\ Kept(i)

\* What the turn keeps of a call that was announced and has not ended: its name,
\* its id and the parts it has taken.
ActiveInv ==
    /\ \A x \in DOMAIN turn.active : turn.active[x].input \in Inputs
    /\ ~Announces => DOMAIN turn.active = {}
    /\ \A i \in Numbers :
          Announces /\ Waits(i) /\ todo # <<StartEvent(i)>> =>
              /\ Key(i) \in DOMAIN turn.active
              /\ turn.active[Key(i)] = [input |-> turn.active[Key(i)].input,
                                        name |-> i, call |-> CallId(i)]
              /\ initial = <<>> => turn.active[Key(i)].input \o OnTheWay(i) = sent[i]

\* The calls of the turn are the ends it has taken, up to the limit.
CallsInv ==
    /\ Len(turn.calls) = IF Heard < limit THEN Heard ELSE limit
    /\ \A k \in 1 .. Len(turn.calls) :
          /\ turn.calls[k].id = CallId(closed[k]) /\ turn.calls[k].name = closed[k]
          /\ initial = <<>> => turn.calls[k].input = sent[closed[k]]

\* How the provider and the turn come to an end.
EndInv ==
    /\ prod = "read" <=> over = "no"
    /\ prod = "read" => turn.state = "reading"
    /\ prod = "closed" => todo = <<>>
    /\ over = "error" => (todo = <<Err>> /\ prod = "last") \/ turn.state \in {"recovered", "failed"}
    /\ turn.state = "completed" => prod = "closed" /\ over # "error"

TypeInv ==
    /\ api \in Apis /\ ids \in BOOLEAN /\ limit \in Numbers /\ (api # "chat" => ids)
    /\ initial \in {<<>>, <<Empty>>} /\ (api \in {"responses", "chat"} => initial = <<>>)
    /\ over \in {"no", "done", "cut", "error"}
    /\ prod \in {"read", "last", "closing", "closed"}
    /\ turn = [state |-> turn.state, active |-> turn.active, calls |-> turn.calls, text |-> turn.text]
    /\ turn.state \in {"reading", "completed", "recovered", "failed"} /\ turn.text \in BOOLEAN
    /\ turn.calls \in Seq(Uses)

IInv == TypeInv /\ TodoInv /\ WireInv /\ ToolsInv /\ ActiveInv /\ CallsInv /\ EndInv

-----------------------------------------------------------------------------
(* Ids, events and sequences.                                              *)

LEMMA Single ==
    \A x : Head(<<x>>) = x /\ Tail(<<x>>) = <<>> /\ Len(<<x>>) = 1 /\ <<x>> # <<>> /\ <<x>>[1] = x
OBVIOUS

\* No two calls have the same id, and none the missing one.
LEMMA IdsDiffer ==
    /\ \A i \in Numbers : CallId(i) \in Names /\ CallId(i) # None /\ ItemId(i) # None /\ i # 0 /\ i \in Nat
    /\ \A i, j \in Numbers : CallId(i) = CallId(j) \/ Key(i) = Key(j) => i = j
BY DEF CallId, ItemId, Key, Names, None, Numbers

LEMMA EventTypes ==
    /\ Done.type = "done" /\ Err.type = "err" /\ TextEvent.type = "text"
    /\ \A i : /\ StartEvent(i).type = "tool_use" /\ StartEvent(i).tool = Key(i)
              /\ StartEvent(i).call = CallId(i) /\ StartEvent(i).name = i
              /\ StartEvent(i).input = initial
BY DEF Done, Err, TextEvent, StartEvent, Event

LEMMA EmptyInput ==
    /\ <<>> \in Inputs /\ <<Empty>> \in Inputs
    /\ \A s \in Inputs : s \o <<>> = s
BY EmptySeq, ConcatEmptySeq DEF Inputs, Empty

LEMMA OnePartMore ==
    ASSUME NEW s \in Inputs, NEW b \in Nat \X Nat
    PROVE  /\ Append(s, b) \in Inputs /\ Append(s, b) = s \o <<b>>
           /\ Len(s) \in Nat /\ Len(Append(s, b)) = Len(s) + 1
           /\ Append(s, b)[Len(s) + 1] = b /\ \A k \in 1 .. Len(s) : Append(s, b)[k] = s[k]
<1> DEFINE Bits == Nat \X Nat
<1>1. s \in Seq(Bits) /\ b \in Bits /\ Inputs = Seq(Bits)
  BY DEF Inputs
<1> HIDE DEF Bits
<1>2. Append(s, b) = s \o <<b>>
  BY <1>1, AppendIsConcat
<1>3. Len(s) \in Nat
  BY <1>1, LenProperties
<1>4. QED
  BY <1>1, <1>2, <1>3, AppendProperties

LEMMA AddIs ==
    \A f, k, v : /\ DOMAIN Add(f, k, v) = DOMAIN f \union {k} /\ Add(f, k, v)[k] = v
                 /\ \A x \in DOMAIN f : x # k => Add(f, k, v)[x] = f[x]
BY DEF Add

LEMMA DropIs ==
    \A f, k : /\ DOMAIN Drop(f, k) = DOMAIN f \ {k}
              /\ \A x \in DOMAIN f : x # k => Drop(f, k)[x] = f[x]
BY DEF Drop

\* The server's parameters, and what is made of them, stay as they are.
LEMMA SameServer ==
    ASSUME server' = server
    PROVE  /\ api' = api /\ ids' = ids /\ initial' = initial /\ limit' = limit
           /\ Announces' <=> Announces
           /\ \A i : Key(i)' = Key(i) /\ CallId(i)' = CallId(i) /\ StartEvent(i)' = StartEvent(i)
BY DEF server, Announces, Key, CallId, StartEvent

LEMMA InitIInv == Init => IInv
<1> SUFFICES ASSUME Init PROVE IInv
  OBVIOUS
<1>0. turn = [state |-> "reading", active |-> NoTools, calls |-> <<>>, text |-> FALSE]
  BY DEF Init
<1>1. TypeInv
  <2>1. turn.calls \in Seq(Uses)
    BY <1>0, EmptySeq
  <2>2. limit \in Numbers /\ api \in Apis
    BY DEF Init, Numbers
  <2>3. ids \in BOOLEAN /\ (api # "chat" => ids)
    BY DEF Init
  <2>4. QED
    BY <1>0, <2>1, <2>2, <2>3 DEF Init, TypeInv
<1>2. opened = 1 .. 0 /\ 0 \in 0 .. Calls
  BY CallsAssumption DEF Init
<1>3. WireInv
  BY <1>2, EmptyInput, PartsAssumption, EmptySeq DEF Init, WireInv
<1>4. DOMAIN NoTools = {}
  BY DEF NoTools
<1>5. ToolsInv /\ ActiveInv
  BY <1>4 DEF Init, ToolsInv, ActiveInv, IsOpen, Waits
<1>6. Heard = 0 /\ limit \in Numbers
  BY <1>1 DEF Init, Heard, Pending, TypeInv
<1>7. CallsInv
  BY <1>6 DEF Init, CallsInv, Numbers
<1>8. TodoInv /\ EndInv
  BY DEF Init, TodoInv, EndInv
<1>9. QED
  BY <1>1, <1>3, <1>5, <1>7, <1>8 DEF IInv
-----------------------------------------------------------------------------
(* What the provider reads from the server.                                *)

\* It reads when it has nothing to send, so the turn has taken every end.
LEMMA NothingPending ==
    ASSUME IInv, Reading
    PROVE  /\ Heard = Len(closed) /\ Len(closed) \in Nat
           /\ prod = "read" /\ todo = <<>> /\ over = "no" /\ turn.state = "reading"
           /\ \A i \in Numbers : /\ Waits(i) <=> IsOpen(i)
                                 /\ OnTheWay(i) = <<>> /\ todo # <<StartEvent(i)>>
<1>1. Pending = 0 /\ todo = <<>> /\ Len(closed) \in Nat
  BY LenProperties DEF Reading, Pending, IInv, WireInv
<1>2. Heard = Len(closed)
  BY <1>1 DEF Heard
<1>3. QED
  BY <1>1, <1>2, Single DEF Reading, Waits, IsOpen, OnTheWay, IInv, EndInv

\* The same of one event that is no end and no part of an input.
LEMMA NoEnds ==
    ASSUME Len(closed) \in Nat, NEW e, todo = <<e>>, e.type # "tool_use_end", e.type # "tool_use_delta"
    PROVE  Heard = Len(closed) /\ \A i \in Numbers : OnTheWay(i) = <<>>
BY Single DEF Heard, Pending, OnTheWay

LEMMA NoEndsPrimed ==
    ASSUME Len(closed)' \in Nat, NEW e, todo' = <<e>>, e.type # "tool_use_end", e.type # "tool_use_delta"
    PROVE  Heard' = Len(closed') /\ \A i \in Numbers : OnTheWay(i)' = <<>>
BY Single DEF Heard, Pending, OnTheWay

\* A call begins.
LEMMA OpensKeeps ==
    ASSUME IInv, NEW i \in Numbers, Opens(i), sent' = sent,
           NEW v, tools' = Add(tools, i, v), Kept(i)',
           todo' = IF Announces THEN <<StartEvent(i)>> ELSE <<>>
    PROVE  IInv'
<1> USE DEF Opens
<1>a. TypeInv /\ TodoInv /\ WireInv /\ ToolsInv /\ ActiveInv /\ CallsInv /\ EndInv
  BY DEF IInv
<1>b. /\ api' = api /\ ids' = ids /\ initial' = initial /\ limit' = limit
      /\ Announces' <=> Announces
      /\ \A j : Key(j)' = Key(j) /\ CallId(j)' = CallId(j) /\ StartEvent(j)' = StartEvent(j)
  BY SameServer
<1>c. /\ Heard = Len(closed) /\ Len(closed) \in Nat /\ over = "no" /\ turn.state = "reading"
      /\ \A j \in Numbers : (Waits(j) <=> IsOpen(j)) /\ OnTheWay(j) = <<>> /\ todo # <<StartEvent(j)>>
  BY NothingPending
<1>d. Heard' = Len(closed) /\ \A j \in Numbers : OnTheWay(j)' = <<>>
  <2>1. CASE Announces
    BY <1>c, <2>1, EventTypes, NoEndsPrimed
  <2>2. CASE ~Announces
    BY <1>c, <2>2 DEF Heard, Pending, OnTheWay
  <2>3. QED
    BY <2>1, <2>2
<1>e. i \notin opened /\ sent[i] = <<>> /\ \A k \in 1 .. Len(closed) : closed[k] # i
  BY <1>a DEF WireInv
<1>1. TypeInv'
  BY <1>a, <1>b DEF TypeInv
<1>2. WireInv'
  <2>1. PICK m \in 0 .. Calls : opened = 1 .. m
    BY <1>a DEF WireInv
  <2>2. i = m + 1 /\ m + 1 \in 0 .. Calls
    BY <2>1, CallsAssumption DEF Numbers
  <2>3. opened' = 1 .. m + 1
    BY <2>1, <2>2
  <2>4. QED
    BY <1>a, <2>2, <2>3 DEF WireInv
<1>3. TodoInv'
  <2>1. IsOpen(i)'
    BY <1>e DEF IsOpen
  <2>2. QED
    BY <1>b, <1>e, <2>1 DEF TodoInv, Reading
<1>4. ToolsInv'
  <2>1. DOMAIN tools' = DOMAIN tools \union {i} /\ \A j \in DOMAIN tools : j # i => tools'[j] = tools[j]
    BY DEF Add
  <2>2. ASSUME NEW j \in Numbers, IsOpen(j)', j # i PROVE j \in DOMAIN tools' /\ Kept(j)'
    <3>1. j \in DOMAIN tools /\ Kept(j)
      BY <1>a, <2>2 DEF ToolsInv, IsOpen
    <3>2. QED
      BY <1>b, <2>1, <2>2, <3>1 DEF Kept
  <2>3. QED
    BY <1>a, <2>1, <2>2 DEF ToolsInv
<1>5. ActiveInv'
  <2>1. ASSUME NEW j \in Numbers, Waits(j)', j # i PROVE Waits(j)
    BY <1>c, <1>d, <2>1 DEF Waits
  <2>2. QED
    BY <1>a, <1>b, <1>c, <1>d, <2>1 DEF ActiveInv
<1>6. CallsInv'
  BY <1>a, <1>b, <1>c, <1>d DEF CallsInv
<1>7. EndInv'
  BY <1>a, <1>c DEF EndInv, Reading
<1>8. QED
  BY <1>1, <1>2, <1>3, <1>4, <1>5, <1>6, <1>7 DEF IInv

\* One more part of i is sent, after those sent before.
LEMMA PartSent ==
    ASSUME WireInv, NEW i \in Numbers, Sends(i)
    PROVE  /\ sent[i] \in Inputs /\ Len(sent[i]) \in Nat /\ sent'[i] = sent[i] \o Part(i)
           /\ sent' \in [Numbers -> Inputs] /\ \A j \in Numbers \ {i} : sent'[j] = sent[j]
           /\ Len(sent'[i]) = Len(sent[i]) + 1 /\ sent'[i][Len(sent[i]) + 1] = <<i, Len(sent[i]) + 1>>
           /\ \A k \in 1 .. Len(sent[i]) : sent'[i][k] = sent[i][k]
<1> USE DEF Sends
<1>1. sent[i] \in Inputs /\ Len(sent[i]) \in Nat
  BY LenProperties DEF WireInv, Inputs
<1> DEFINE b == <<i, Len(sent[i]) + 1>>
<1>2. b \in Nat \X Nat /\ Part(i) = <<b>>
  BY <1>1, IdsDiffer DEF Part
<1>3. sent'[i] = Append(sent[i], b) /\ \A j \in Numbers \ {i} : sent'[j] = sent[j]
  BY DEF WireInv
<1> HIDE DEF b
<1>4. /\ Append(sent[i], b) \in Inputs /\ Append(sent[i], b) = sent[i] \o <<b>>
      /\ Len(Append(sent[i], b)) = Len(sent[i]) + 1
      /\ Append(sent[i], b)[Len(sent[i]) + 1] = b
      /\ \A k \in 1 .. Len(sent[i]) : Append(sent[i], b)[k] = sent[i][k]
  BY <1>1, <1>2, OnePartMore
<1>5. sent' \in [Numbers -> Inputs]
  BY <1>3, <1>4 DEF WireInv
<1>6. b = <<i, Len(sent[i]) + 1>>
  BY DEF b
<1>7. QED
  BY <1>1, <1>2, <1>3, <1>4, <1>5, <1>6

\* A part of an input is sent.
LEMMA SendsKeeps ==
    ASSUME IInv, NEW i \in Numbers, Sends(i), DOMAIN tools' = DOMAIN tools, Kept(i)',
           \A j \in Numbers \ {i} : j \in DOMAIN tools => tools'[j] = tools[j],
           IF Announces THEN \E e : todo' = <<e>> /\ e.type = "tool_use_delta" /\ e.tool = Key(i)
                                    /\ e.input = Part(i)
                        ELSE todo' = <<>>
    PROVE  IInv'
<1> USE DEF Sends
<1>a. TypeInv /\ TodoInv /\ WireInv /\ ToolsInv /\ ActiveInv /\ CallsInv /\ EndInv
  BY DEF IInv
<1>b. /\ api' = api /\ ids' = ids /\ initial' = initial /\ limit' = limit
      /\ Announces' <=> Announces
      /\ \A j : Key(j)' = Key(j) /\ CallId(j)' = CallId(j) /\ StartEvent(j)' = StartEvent(j)
  BY SameServer
<1>c. /\ Heard = Len(closed) /\ Len(closed) \in Nat /\ over = "no" /\ turn.state = "reading"
      /\ \A j \in Numbers : (Waits(j) <=> IsOpen(j)) /\ OnTheWay(j) = <<>> /\ todo # <<StartEvent(j)>>
  BY NothingPending
<1>d. /\ sent[i] \in Inputs /\ Len(sent[i]) \in Nat /\ sent'[i] = sent[i] \o Part(i)
      /\ sent' \in [Numbers -> Inputs] /\ \A j \in Numbers \ {i} : sent'[j] = sent[j]
      /\ Len(sent'[i]) = Len(sent[i]) + 1 /\ sent'[i][Len(sent[i]) + 1] = <<i, Len(sent[i]) + 1>>
      /\ \A k \in 1 .. Len(sent[i]) : sent'[i][k] = sent[i][k]
  BY <1>a, PartSent
<1>e. i \in opened /\ \A k \in 1 .. Len(closed) : closed[k] # i
  BY DEF IsOpen
<1>f. Heard' = Len(closed)
  BY <1>c, Single DEF Heard, Pending
<1>g. \A j \in Numbers : todo' # <<StartEvent(j)>>
  BY Single, EventTypes
<1>1. TypeInv'
  BY <1>a, <1>b DEF TypeInv
<1>2. WireInv'
  <2>1. \A j \in Numbers : Len(sent'[j]) <= Parts
    BY <1>a, <1>d, PartsAssumption DEF WireInv
  <2>2. \A j \in Numbers : \A k \in 1 .. Len(sent'[j]) : sent'[j][k] = <<j, k>>
    BY <1>a, <1>d DEF WireInv
  <2>3. QED
    BY <1>a, <1>d, <1>e, <2>1, <2>2 DEF WireInv
<1>3. TodoInv'
  <2>1. IsOpen(i)' /\ prod' = "read"
    BY <1>e DEF IsOpen, Reading
  <2>2. CASE Announces
    <3>1. Len(todo') = 1 /\ todo'[1].type = "tool_use_delta" /\ todo'[1].tool = Key(i)
             /\ todo'[1].input = Part(i)
      BY <2>2, Single
    <3>2. IsDelta(todo[1], i)'
      BY <1>b, <1>d, <3>1 DEF IsDelta, Part
    <3>3. QED
      BY <1>b, <2>1, <2>2, <3>1, <3>2 DEF TodoInv
  <2>3. QED
    BY <2>2 DEF TodoInv
<1>4. ToolsInv'
  <2>1. ASSUME NEW j \in Numbers, IsOpen(j)', j # i PROVE j \in DOMAIN tools' /\ Kept(j)'
    <3>1. j \in DOMAIN tools /\ Kept(j)
      BY <1>a, <2>1 DEF ToolsInv, IsOpen
    <3>2. QED
      BY <1>b, <1>d, <2>1, <3>1 DEF Kept
  <2>2. i \in DOMAIN tools'
    BY <1>a DEF ToolsInv
  <2>3. QED
    BY <1>a, <2>1, <2>2 DEF ToolsInv
<1>5. ActiveInv'
  <2>1. \A j \in Numbers : Waits(j)' => Waits(j)
    BY <1>c, <1>f DEF Waits
  <2>2. ASSUME NEW j \in Numbers, Announces, Waits(j), initial = <<>>
        PROVE  turn.active[Key(j)].input \o OnTheWay(j)' = sent'[j]
    <3>1. turn.active[Key(j)].input = sent[j]
      BY <1>a, <1>c, <2>2, EmptyInput DEF ActiveInv
    <3>2. OnTheWay(j)' = IF i = j THEN Part(i) ELSE <<>>
      BY <1>b, <2>2, Single, IdsDiffer DEF OnTheWay
    <3>3. sent[j] \in Inputs
      BY <1>a DEF WireInv
    <3>4. QED
      BY <1>d, <3>1, <3>2, <3>3, EmptyInput
  <2>3. QED
    BY <1>a, <1>b, <1>c, <2>1, <2>2 DEF ActiveInv
<1>6. CallsInv'
  <2>1. \A k \in 1 .. Len(turn.calls) : k \in 1 .. Len(closed)
    BY <1>a, <1>c DEF CallsInv, TypeInv, Numbers
  <2>2. \A k \in 1 .. Len(turn.calls) : closed[k] \in Numbers \ {i}
    BY <1>a, <1>e, <2>1, ElementOfSeq DEF WireInv
  <2>3. QED
    BY <1>a, <1>b, <1>c, <1>d, <1>f, <2>2 DEF CallsInv
<1>7. EndInv'
  BY <1>a, <1>c DEF EndInv, Reading
<1>8. QED
  BY <1>1, <1>2, <1>3, <1>4, <1>5, <1>6, <1>7 DEF IInv

\* A call ends.
LEMMA ClosesKeeps ==
    ASSUME IInv, NEW i \in Numbers, Closes(i), sent' = sent,
           \A j \in Numbers \ {i} : j \in DOMAIN tools => j \in DOMAIN tools' /\ tools'[j] = tools[j],
           DOMAIN tools' \subseteq DOMAIN tools,
           NEW e, todo' = <<e>>, IsEnd(e, i)
    PROVE  IInv'
<1> USE DEF Closes
<1>a. TypeInv /\ TodoInv /\ WireInv /\ ToolsInv /\ ActiveInv /\ CallsInv /\ EndInv
  BY DEF IInv
<1>b. /\ api' = api /\ ids' = ids /\ initial' = initial /\ limit' = limit
      /\ Announces' <=> Announces
      /\ \A j : Key(j)' = Key(j) /\ CallId(j)' = CallId(j) /\ StartEvent(j)' = StartEvent(j)
  BY SameServer
<1>c. /\ Heard = Len(closed) /\ Len(closed) \in Nat /\ over = "no" /\ turn.state = "reading"
      /\ \A j \in Numbers : (Waits(j) <=> IsOpen(j)) /\ OnTheWay(j) = <<>> /\ todo # <<StartEvent(j)>>
  BY NothingPending
<1>d. i \in opened /\ \A k \in 1 .. Len(closed) : closed[k] # i
  BY DEF IsOpen
<1>e. /\ closed' \in Seq(Numbers) /\ Len(closed') = Len(closed) + 1
      /\ closed'[Len(closed) + 1] = i /\ \A k \in 1 .. Len(closed) : closed'[k] = closed[k]
  BY <1>a, AppendProperties DEF WireInv
<1>f. /\ Len(todo') = 1 /\ todo'[1] = e /\ Head(todo') = e /\ todo' # <<>>
      /\ e.type = "tool_use_end" /\ todo' \in Seq(Ends)
  BY Single DEF IsEnd, Ends
<1>g. Heard' = Len(closed)
  BY <1>c, <1>e, <1>f DEF Heard, Pending
<1>1. TypeInv'
  BY <1>a, <1>b DEF TypeInv
<1>2. WireInv'
  <2>1. opened' = opened /\ sent' = sent
    OBVIOUS
  <2> HIDE DEF Closes
  <2>2. \A k \in 1 .. Len(closed) : closed[k] \in opened
    BY <1>a DEF WireInv
  <2>3. \A k, l \in 1 .. Len(closed) : closed[k] = closed[l] => k = l
    BY <1>a DEF WireInv
  <2>4. /\ \E m \in 0 .. Calls : opened' = 1 .. m
        /\ sent' \in [Numbers -> Inputs]
        /\ \A j \in Numbers : /\ Len(sent'[j]) <= Parts
                              /\ \A k \in 1 .. Len(sent'[j]) : sent'[j][k] = <<j, k>>
                              /\ j \notin opened' => sent'[j] = <<>>
    BY <1>a, <2>1 DEF WireInv
  <2>5. \A k \in 1 .. Len(closed') : closed'[k] \in opened'
    BY <1>c, <1>d, <1>e, <2>1, <2>2
  <2>6. \A k, l \in 1 .. Len(closed') : closed'[k] = closed'[l] => k = l
    BY <1>c, <1>d, <1>e, <2>3
  <2>7. QED
    BY <1>e, <2>4, <2>5, <2>6 DEF WireInv
<1>3. TodoInv'
  <2>1. IsEnd(e, i)'
    BY <1>b DEF IsEnd
  <2>2. ASSUME NEW k \in 1 .. Len(todo') PROVE k = 1 /\ closed'[Len(closed') - Len(todo') + k] = i
    BY <1>c, <1>e, <1>f
  <2>3. EndsInv'
    BY <1>c, <1>e, <1>f, <2>1, <2>2 DEF EndsInv
  <2>4. QED
    BY <2>3 DEF TodoInv, Reading
<1>4. ToolsInv'
  <2>1. ASSUME NEW j \in Numbers, IsOpen(j)' PROVE j \in DOMAIN tools' /\ Kept(j)'
    <3>1. IsOpen(j) /\ j # i
      BY <1>c, <1>e, <2>1 DEF IsOpen
    <3>2. j \in DOMAIN tools /\ Kept(j) /\ tools'[j] = tools[j]
      BY <1>a, <3>1 DEF ToolsInv
    <3>3. QED
      BY <1>b, <3>1, <3>2 DEF Kept
  <2>2. QED
    BY <1>a, <2>1 DEF ToolsInv
<1>5. ActiveInv'
  <2>1. \A j \in Numbers : Waits(j)' => Waits(j)
    BY <1>c, <1>e, <1>g DEF Waits
  <2>2. \A j \in Numbers : OnTheWay(j)' = <<>>
    BY <1>f DEF OnTheWay
  <2>3. QED
    BY <1>a, <1>b, <1>c, <2>1, <2>2 DEF ActiveInv
<1>6. CallsInv'
  <2>1. \A k \in 1 .. Len(turn.calls) : k \in 1 .. Len(closed)
    BY <1>a, <1>c DEF CallsInv, TypeInv, Numbers
  <2>2. QED
    BY <1>a, <1>b, <1>c, <1>e, <1>g, <2>1 DEF CallsInv
<1>7. EndInv'
  BY <1>a, <1>c DEF EndInv, Reading
<1>8. QED
  BY <1>1, <1>2, <1>3, <1>4, <1>5, <1>6, <1>7 DEF IInv
-----------------------------------------------------------------------------
(* The four providers.                                                     *)

LEMMA ResponsesKeeps ==
    ASSUME IInv, NEW i \in Numbers, ItemAdded(i) \/ ArgumentsDelta(i) \/ ArgumentsDone(i)
    PROVE  IInv'
<1>a. /\ TypeInv /\ WireInv /\ ToolsInv /\ api = "responses" /\ Announces
      /\ ids /\ initial = <<>> /\ Key(i) = ItemId(i)
  BY DEF IInv, TypeInv, ItemAdded, ArgumentsDelta, ArgumentsDone, Announces, Key
<1>b. server' = server
  BY DEF ItemAdded, ArgumentsDelta, ArgumentsDone, Opens, Sends, Closes
<1>c. api' = api /\ CallId(i)' = CallId(i)
  BY <1>b, SameServer
<1>1. CASE ItemAdded(i)
  <2>1. Kept(i)'
    BY <1>1, <1>a, <1>c DEF ItemAdded, Add, Kept
  <2>2. todo' = <<StartEvent(i)>>
    BY <1>1, <1>a DEF ItemAdded, StartEvent
  <2>3. QED
    BY <1>1, <1>a, <2>1, <2>2, OpensKeeps DEF ItemAdded
<1>2. CASE ArgumentsDelta(i)
  <2>1. i \in DOMAIN tools /\ tools[i] = CallId(i)
    BY <1>2, <1>a DEF ArgumentsDelta, Sends, ToolsInv, Kept
  <2>2. Kept(i)'
    BY <1>2, <1>a, <1>c, <2>1 DEF ArgumentsDelta, Kept
  <2>3. \E e : todo' = <<e>> /\ e.type = "tool_use_delta" /\ e.tool = Key(i) /\ e.input = Part(i)
    BY <1>2, <1>a DEF ArgumentsDelta, Event
  <2>4. QED
    BY <1>2, <1>a, <2>2, <2>3, SendsKeeps DEF ArgumentsDelta
<1>3. CASE ArgumentsDone(i)
  <2>1. i \in DOMAIN tools /\ tools[i] = CallId(i) /\ sent[i] \in Inputs
    BY <1>3, <1>a DEF ArgumentsDone, Closes, ToolsInv, Kept, WireInv
  <2>2. PICK name \in {0, i} : todo' = <<Event("tool_use_end", ItemId(i), CallId(i), name, sent[i])>>
    BY <1>3, <2>1 DEF ArgumentsDone
  <2> DEFINE e == Event("tool_use_end", ItemId(i), CallId(i), name, sent[i])
  <2>3. e \in Ends
    BY <2>1, IdsDiffer DEF Event, Ends, ItemId
  <2>4. IsEnd(e, i)
    BY <1>a, <2>3 DEF IsEnd, Event
  <2> HIDE DEF e
  <2>5. todo' = <<e>>
    BY <2>2 DEF e
  <2>6. QED
    BY <1>3, <2>4, <2>5, ClosesKeeps DEF ArgumentsDone, Closes
<1>4. QED
  BY <1>1, <1>2, <1>3

\* What the provider knows of a call before and after an entry of delta.tool_calls.
Known(i) == IF i \in DOMAIN tools THEN tools[i] ELSE Fresh
Merged(i, id, name, args) ==
    [id |-> IF id # None THEN id ELSE Known(i).id,
     name |-> IF name # 0 THEN name ELSE Known(i).name,
     args |-> Known(i).args \o args,
     started |-> Known(i).started \/ (IF id # None THEN id ELSE Known(i).id) # None]

LEMMA ChatDeltaIs ==
    ASSUME NEW i, NEW id, NEW name, NEW args, ChatDelta(i, id, name, args),
           NEW new, new = Merged(i, id, name, args)
    PROVE  /\ tools' = Add(tools, i, new)
           /\ todo' = (IF new.started /\ ~Known(i).started
                       THEN <<Event("tool_use", new.id, new.id, new.name, <<>>)>> ELSE <<>>)
                      \o (IF new.started /\ args # <<>>
                          THEN <<Event("tool_use_delta", new.id, None, new.name, args)>> ELSE <<>>)
BY DEF ChatDelta, Known, Merged

LEMMA ChatKeeps ==
    ASSUME IInv, NEW i \in Numbers, ChatStart(i) \/ ChatPart(i)
    PROVE  IInv'
<1>a. /\ TypeInv /\ WireInv /\ ToolsInv /\ api = "chat" /\ (Announces <=> ids)
      /\ ids \in BOOLEAN /\ initial = <<>> /\ Key(i) = CallId(i) /\ CallId(i) # None /\ i # 0
  BY IdsDiffer DEF IInv, TypeInv, ChatStart, ChatPart, Announces, Key
<1>b. server' = server
  BY DEF ChatStart, ChatPart, Opens, Sends
<1>c. api' = api /\ ids' = ids /\ CallId(i)' = CallId(i)
  BY <1>b, SameServer
<1> DEFINE new(args) == [id |-> IF ids THEN CallId(i) ELSE None, name |-> i,
                         args |-> args, started |-> ids]
<1>1. CASE ChatStart(i)
  <2>1. i \notin DOMAIN tools /\ sent[i] = <<>> /\ <<>> \o <<>> = <<>>
    BY <1>1, <1>a, EmptyInput DEF ChatStart, Opens, ToolsInv, WireInv
  <2>2. /\ tools' = Add(tools, i, new(<<>>))
        /\ todo' = (IF ids THEN <<Event("tool_use", CallId(i), CallId(i), i, <<>>)>> ELSE <<>>) \o <<>>
    <3>1. ChatDelta(i, IF ids THEN CallId(i) ELSE None, i, <<>>)
      BY <1>1 DEF ChatStart
    <3>2. /\ Known(i).id = None /\ Known(i).name = 0
          /\ Known(i).args = <<>> /\ Known(i).started = FALSE
      BY <2>1 DEF Known, Fresh
    <3>3. Merged(i, IF ids THEN CallId(i) ELSE None, i, <<>>) = new(<<>>)
      BY <1>a, <2>1, <3>2 DEF Merged
    <3>4. /\ new(<<>>).id = (IF ids THEN CallId(i) ELSE None)
          /\ new(<<>>).name = i /\ new(<<>>).started = ids
      OBVIOUS
    <3> HIDE DEF new
    <3>5. /\ tools' = Add(tools, i, new(<<>>))
          /\ todo' = (IF new(<<>>).started /\ ~Known(i).started
                      THEN <<Event("tool_use", new(<<>>).id, new(<<>>).id, new(<<>>).name, <<>>)>>
                      ELSE <<>>) \o <<>>
      BY <3>1, <3>3, ChatDeltaIs
    <3>6. QED
      BY <1>a, <3>2, <3>4, <3>5
  <2>3. todo' = IF Announces THEN <<StartEvent(i)>> ELSE <<>>
    BY <1>a, <2>2 DEF StartEvent
  <2>4. Kept(i)'
    BY <1>1, <1>a, <1>c, <2>1, <2>2 DEF ChatStart, Add, Kept
  <2> HIDE DEF new
  <2>5. QED
    BY <1>1, <2>2, <2>3, <2>4, OpensKeeps DEF ChatStart
<1>2. CASE ChatPart(i)
  <2>1. i \in DOMAIN tools /\ tools[i] = new(sent[i])
    BY <1>2, <1>a DEF ChatPart, Sends, ToolsInv, Kept
  <2>2. sent'[i] = sent[i] \o Part(i) /\ Part(i) # <<>>
    BY <1>2, <1>a, PartSent, Single DEF ChatPart, Part
  <2>3. /\ tools' = Add(tools, i, new(sent[i] \o Part(i)))
        /\ todo' = <<>> \o IF ids THEN <<Event("tool_use_delta", CallId(i), None, i, Part(i))>> ELSE <<>>
    <3>1. ChatDelta(i, None, 0, Part(i))
      BY <1>2 DEF ChatPart
    <3>2. /\ Known(i).id = (IF ids THEN CallId(i) ELSE None) /\ Known(i).name = i
          /\ Known(i).args = sent[i] /\ Known(i).started = ids
      BY <2>1 DEF Known
    <3> DEFINE next == new(sent[i] \o Part(i))
    <3>3. Merged(i, None, 0, Part(i)) = next
      BY <1>a, <3>2 DEF Merged
    <3>4. next.id = (IF ids THEN CallId(i) ELSE None) /\ next.name = i /\ next.started = ids
      OBVIOUS
    <3> HIDE DEF next
    <3>5. /\ tools' = Add(tools, i, next)
          /\ todo' = (IF next.started /\ ~Known(i).started
                      THEN <<Event("tool_use", next.id, next.id, next.name, <<>>)>> ELSE <<>>)
                     \o (IF next.started /\ Part(i) # <<>>
                         THEN <<Event("tool_use_delta", next.id, None, next.name, Part(i))>> ELSE <<>>)
      BY <3>1, <3>3, ChatDeltaIs
    <3>6. tools' = Add(tools, i, new(sent[i] \o Part(i)))
      BY <3>5 DEF next
    <3>7. todo' = <<>> \o IF ids THEN <<Event("tool_use_delta", CallId(i), None, i, Part(i))>> ELSE <<>>
      BY <1>a, <2>2, <3>2, <3>4, <3>5
    <3>8. QED
      BY <3>6, <3>7
  <2>4. IF Announces THEN \E e : todo' = <<e>> /\ e.type = "tool_use_delta" /\ e.tool = Key(i)
                                 /\ e.input = Part(i)
                     ELSE todo' = <<>>
    BY <1>a, <2>3 DEF Event
  <2>5. Kept(i)'
    BY <1>a, <1>c, <2>1, <2>2, <2>3 DEF Add, Kept
  <2>6. /\ DOMAIN tools' = DOMAIN tools
        /\ \A j \in Numbers \ {i} : j \in DOMAIN tools => tools'[j] = tools[j]
    BY <2>1, <2>3 DEF Add
  <2> HIDE DEF new
  <2>7. QED
    BY <1>2, <2>4, <2>5, <2>6, SendsKeeps DEF ChatPart
<1>3. QED
  BY <1>1, <1>2

LEMMA AnthropicKeeps ==
    ASSUME IInv, NEW i \in Numbers, BlockStart(i) \/ InputDelta(i) \/ BlockStop(i)
    PROVE  IInv'
<1>a. /\ TypeInv /\ WireInv /\ ToolsInv /\ api \in {"sdk", "messages"} /\ Announces
      /\ Key(i) = CallId(i) /\ initial \in Inputs
  BY EmptyInput DEF IInv, TypeInv, BlockStart, InputDelta, BlockStop, Announces, Key
<1>b. server' = server
  BY DEF BlockStart, InputDelta, BlockStop, Opens, Sends, Closes
<1>c. api' = api /\ initial' = initial /\ CallId(i)' = CallId(i)
  BY <1>b, SameServer
<1>1. CASE BlockStart(i)
  <2> DEFINE v == [id |-> CallId(i), name |-> i, args |-> IF api = "sdk" THEN initial ELSE <<>>]
  <2>1. sent[i] = <<>> /\ sent' = sent /\ tools' = Add(tools, i, v)
    BY <1>1, <1>a DEF BlockStart, Opens, WireInv
  <2>2. v.args \in Inputs /\ (initial = <<>> => v.args = <<>>)
    BY <1>a, EmptyInput
  <2>3. Kept(i)'
    BY <1>a, <1>c, <2>1, <2>2 DEF Add, Kept
  <2>4. todo' = <<StartEvent(i)>>
    BY <1>1, <1>a DEF BlockStart, StartEvent
  <2> HIDE DEF v
  <2>5. QED
    BY <1>1, <1>a, <2>1, <2>3, <2>4, OpensKeeps DEF BlockStart
<1>2. CASE InputDelta(i)
  <2>1. /\ i \in DOMAIN tools /\ tools[i] = [id |-> CallId(i), name |-> i, args |-> tools[i].args]
        /\ tools[i].args \in Inputs /\ (initial = <<>> => tools[i].args = sent[i])
    BY <1>2, <1>a DEF InputDelta, Sends, ToolsInv, Kept
  <2>2. sent'[i] = sent[i] \o Part(i) /\ sent[i] \in Inputs
    BY <1>2, <1>a, PartSent DEF InputDelta
  <2>3. Part(i) \in Inputs
    <3>1. <<i, Len(sent[i]) + 1>> \in Nat \X Nat
      BY <1>2, <1>a, PartSent, IdsDiffer DEF InputDelta
    <3>2. QED
      BY <3>1 DEF Part, Inputs
  <2>4. tools[i].args \o Part(i) \in Inputs
    BY <2>1, <2>3, ConcatProperties DEF Inputs
  <2>5. tools' = [tools EXCEPT ![i] = [tools[i] EXCEPT !.args = tools[i].args \o Part(i)]]
    BY <1>2 DEF InputDelta
  <2>6. tools'[i] = [id |-> CallId(i), name |-> i, args |-> tools[i].args \o Part(i)]
    <3>1. tools'[i] = [tools[i] EXCEPT !.args = tools[i].args \o Part(i)]
      BY <2>1, <2>5
    <3>2. ASSUME NEW r, NEW x, r = [id |-> CallId(i), name |-> i, args |-> r.args]
          PROVE  [r EXCEPT !.args = x] = [id |-> CallId(i), name |-> i, args |-> x]
      BY <3>2
    <3>3. QED
      BY <2>1, <3>1, <3>2
  <2>7. Kept(i)'
    BY <1>a, <1>c, <2>1, <2>2, <2>4, <2>6 DEF Kept
  <2>8. \E e : todo' = <<e>> /\ e.type = "tool_use_delta" /\ e.tool = Key(i) /\ e.input = Part(i)
    BY <1>2, <1>a DEF InputDelta, Event
  <2>9. /\ DOMAIN tools' = DOMAIN tools
        /\ \A j \in Numbers \ {i} : j \in DOMAIN tools => tools'[j] = tools[j]
    BY <2>5
  <2>10. QED
    BY <1>2, <1>a, <2>7, <2>8, <2>9, SendsKeeps DEF InputDelta
<1>3. CASE BlockStop(i)
  <2>1. /\ i \in DOMAIN tools /\ tools[i] = [id |-> CallId(i), name |-> i, args |-> tools[i].args]
        /\ tools[i].args \in Inputs /\ (initial = <<>> => tools[i].args = sent[i])
    BY <1>3, <1>a DEF BlockStop, Closes, ToolsInv, Kept
  <2> DEFINE e == Event("tool_use_end", CallId(i), CallId(i), i, tools[i].args)
  <2>2. todo' = <<e>>
    BY <1>3, <2>1 DEF BlockStop
  <2>3. e \in Ends
    BY <2>1, IdsDiffer DEF Event, Ends, Names
  <2>4. IsEnd(e, i)
    BY <1>a, <2>1, <2>3 DEF IsEnd, Event
  <2>5. /\ DOMAIN tools' \subseteq DOMAIN tools
        /\ \A j \in Numbers \ {i} : j \in DOMAIN tools => j \in DOMAIN tools' /\ tools'[j] = tools[j]
    BY <1>3 DEF BlockStop, Drop
  <2> HIDE DEF e
  <2>6. QED
    BY <1>3, <2>2, <2>4, <2>5, ClosesKeeps DEF BlockStop, Closes
<1>4. QED
  BY <1>1, <1>2, <1>3

\* All the calls end at once, in the order of their numbers.
LEMMA FinishKeeps ==
    ASSUME IInv, ChatFinish
    PROVE  IInv'
<1> USE DEF ChatFinish
<1>a. /\ TypeInv /\ TodoInv /\ WireInv /\ ToolsInv /\ ActiveInv /\ CallsInv /\ EndInv
      /\ api = "chat" /\ initial = <<>> /\ \A j : Key(j) = CallId(j)
  BY DEF IInv, TypeInv, Key
<1>b. /\ api' = api /\ ids' = ids /\ initial' = initial /\ limit' = limit
      /\ Announces' <=> Announces
      /\ \A j : Key(j)' = Key(j) /\ CallId(j)' = CallId(j) /\ StartEvent(j)' = StartEvent(j)
  BY SameServer
<1>c. /\ Heard = 0 /\ over = "no" /\ turn.state = "reading"
      /\ \A j \in Numbers : (Waits(j) <=> IsOpen(j)) /\ OnTheWay(j) = <<>> /\ todo # <<StartEvent(j)>>
  BY NothingPending
<1>1. PICK m \in 0 .. Calls : opened = 1 .. m
  BY <1>a DEF WireInv
<1>2. m \in Nat \ {0} /\ Cardinality(opened) = m
  <2>1. m # 0 /\ m \in Int /\ 1 \in Int /\ m \in Nat
    BY <1>1, CallsAssumption
  <2>2. Cardinality(1 .. m) = m - 1 + 1
    BY <2>1, FS_Interval
  <2>3. QED
    BY <1>1, <2>1, <2>2
<1>3. closed' = [k \in 1 .. m |-> k] /\ todo' = [k \in 1 .. m |-> Ended(k)]
  BY <1>2
<1>4. 1 .. m \subseteq Numbers
  BY <1>1, CallsAssumption DEF Numbers
<1>5. /\ closed' \in Seq(Numbers) /\ Len(closed') = m
      /\ \A k \in 1 .. m : closed'[k] = k
  <2>1. closed' \in Seq(Numbers)
    BY <1>2, <1>3, <1>4, IsASeq
  <2>2. QED
    BY <1>2, <1>3, <2>1, LenProperties
<1>6. ASSUME NEW k \in 1 .. m PROVE Ended(k) \in Ends /\ IsEnd(Ended(k), k)
  <2>1. k \in Numbers /\ IsOpen(k) /\ k # 0
    BY <1>1, <1>4 DEF IsOpen, Numbers
  <2>2. tools[k].id = (IF ids THEN CallId(k) ELSE None) /\ tools[k].name = k /\ tools[k].args = sent[k]
    <3>1. Kept(k) /\ api = "chat"
      BY <1>a, <2>1 DEF ToolsInv
    <3> HIDE DEF ChatFinish
    <3>2. tools[k] = [id |-> IF ids THEN CallId(k) ELSE None, name |-> k,
                      args |-> sent[k], started |-> ids]
      BY <3>1 DEF Kept
    <3>3. QED
      BY <3>2
  <2>3. Ended(k) = Event("tool_use_end", CallId(k), CallId(k), k, sent[k])
    BY <1>a, <2>1, <2>2, IdsDiffer DEF Ended, TypeInv
  <2>4. sent[k] \in Inputs /\ CallId(k) \in Names /\ k \in Nat
    BY <1>a, <2>1, IdsDiffer DEF WireInv
  <2>5. Event("tool_use_end", CallId(k), CallId(k), k, sent[k]) \in Ends
    BY <2>4 DEF Event, Ends, Names
  <2>6. IsEnd(Event("tool_use_end", CallId(k), CallId(k), k, sent[k]), k)
    BY <1>a, <2>5 DEF IsEnd, Event
  <2>7. QED
    BY <2>3, <2>5, <2>6
<1>7. \A e, k : IsEnd(e, k) => IsEnd(e, k)'
  BY <1>b DEF IsEnd
<1>8. /\ todo' \in Seq(Ends) /\ Len(todo') = m /\ todo' # <<>>
      /\ \A k \in 1 .. m : todo'[k] = Ended(k)
      /\ Head(todo').type = "tool_use_end"
  <2>1. todo' \in Seq(Ends)
    BY <1>2, <1>3, <1>6, IsASeq
  <2>2. Len(todo') = m /\ \A k \in 1 .. m : todo'[k] = Ended(k)
    BY <1>2, <1>3, <2>1, LenProperties
  <2>3. todo' # <<>> /\ Head(todo') = todo'[1]
    BY <1>2, <2>1, <2>2
  <2>4. Ended(1).type = "tool_use_end"
    BY <1>2, <1>6 DEF Ends
  <2>5. QED
    BY <1>2, <2>1, <2>2, <2>3, <2>4
<1>9. Heard' = 0 /\ \A j \in Numbers : OnTheWay(j)' = <<>>
  BY <1>2, <1>5, <1>8 DEF Heard, Pending, OnTheWay
<1>10. TypeInv'
  BY <1>a, <1>b DEF TypeInv
<1>11. WireInv'
  <2>1. \A k \in 1 .. Len(closed') : closed'[k] = k /\ closed'[k] \in opened'
    BY <1>1, <1>5
  <2>2. sent' = sent /\ opened' = opened
    OBVIOUS
  <2> HIDE DEF ChatFinish
  <2>3. QED
    BY <1>a, <1>5, <2>1, <2>2 DEF WireInv
<1>12. TodoInv'
  <2>1. ASSUME NEW k \in 1 .. Len(todo') PROVE IsEnd(todo[k], closed[Len(closed) - Len(todo) + k])'
    <3>1. k \in 1 .. m /\ Len(closed') - Len(todo') + k = k /\ closed'[k] = k /\ todo'[k] = Ended(k)
      BY <1>2, <1>5, <1>8
    <3>2. \A e : e = Ended(k) => IsEnd(e, k)'
      BY <1>6, <1>7, <3>1
    <3> HIDE DEF ChatFinish
    <3>3. QED
      BY <3>1, <3>2 DEF IsEnd
  <2>2. EndsInv'
    BY <1>2, <1>5, <1>8, <2>1 DEF EndsInv
  <2>3. QED
    BY <2>2 DEF TodoInv, Reading
<1>13. ToolsInv'
  <2>1. \A j \in Numbers : ~(IsOpen(j)')
    BY <1>1, <1>5 DEF IsOpen
  <2>2. DOMAIN tools' = {}
    BY DEF NoTools
  <2>3. QED
    BY <2>1, <2>2 DEF ToolsInv
<1>14. ActiveInv'
  <2>1. \A j \in Numbers : Waits(j)' => Waits(j)
    BY <1>c, <1>9 DEF Waits
  <2>2. QED
    BY <1>a, <1>b, <1>c, <1>9, <2>1 DEF ActiveInv
<1>15. CallsInv'
  <2>1. Len(turn.calls) = 0
    BY <1>a, <1>c DEF CallsInv, TypeInv, Numbers
  <2>2. QED
    BY <1>a, <1>b, <1>9, <2>1 DEF CallsInv, TypeInv, Numbers
<1>16. EndInv'
  BY <1>a, <1>c DEF EndInv, Reading
<1>17. QED
  BY <1>10, <1>11, <1>12, <1>13, <1>14, <1>15, <1>16 DEF IInv

\* What is sent besides calls changes nothing that is known of them.
LEMMA NoCallsKeep ==
    ASSUME IInv, todo = <<>>, UNCHANGED <<server, opened, sent, closed, tools, turn>>,
           todo' \in {<<>>, <<TextEvent>>, <<Done>>, <<Err>>}
    PROVE  WireInv' /\ ToolsInv' /\ ActiveInv' /\ CallsInv'
<1>a. WireInv /\ ToolsInv /\ ActiveInv /\ CallsInv
  BY DEF IInv
<1>b. /\ api' = api /\ ids' = ids /\ initial' = initial /\ limit' = limit
      /\ Announces' <=> Announces
      /\ \A j : Key(j)' = Key(j) /\ CallId(j)' = CallId(j) /\ StartEvent(j)' = StartEvent(j)
  BY SameServer
<1>c. Heard = Len(closed) /\ Len(closed) \in Nat /\ \A j \in Numbers : OnTheWay(j) = <<>>
  BY <1>a, LenProperties DEF Heard, Pending, OnTheWay, WireInv
<1>d. Heard' = Len(closed) /\ \A j \in Numbers : OnTheWay(j)' = <<>>
  <2>1. CASE todo' = <<>>
    BY <1>c, <2>1 DEF Heard, Pending, OnTheWay
  <2>2. CASE todo' = <<TextEvent>>
    BY <1>c, <2>2, EventTypes, NoEndsPrimed
  <2>3. CASE todo' = <<Done>>
    BY <1>c, <2>3, EventTypes, NoEndsPrimed
  <2>4. CASE todo' = <<Err>>
    BY <1>c, <2>4, EventTypes, NoEndsPrimed
  <2>5. QED
    BY <2>1, <2>2, <2>3, <2>4
<1>1. WireInv'
  BY <1>a DEF WireInv
<1>2. ToolsInv'
  <2>1. \A j \in Numbers : (IsOpen(j)' => IsOpen(j)) /\ (Kept(j) => Kept(j)')
    BY <1>b DEF IsOpen, Kept
  <2>2. QED
    BY <1>a, <2>1 DEF ToolsInv
<1>3. ActiveInv'
  <2>1. \A j \in Numbers : (Waits(j)' => Waits(j)) /\ todo # <<StartEvent(j)>>
    BY <1>c, <1>d DEF Waits
  <2>2. QED
    BY <1>a, <1>b, <1>c, <1>d, <2>1 DEF ActiveInv
<1>4. CallsInv'
  BY <1>a, <1>b, <1>c, <1>d DEF CallsInv
<1>5. QED
  BY <1>1, <1>2, <1>3, <1>4

LEMMA ReadsKeep ==
    ASSUME IInv, SendText \/ ServerDone \/ ServerCut \/ StreamFails
    PROVE  IInv'
<1>a. TypeInv /\ WireInv /\ EndInv
  BY DEF IInv
<1>b. /\ Reading /\ prod = "read" /\ todo = <<>> /\ over = "no" /\ turn.state = "reading"
      /\ UNCHANGED <<server, opened, sent, closed, tools, turn>>
      /\ \/ todo' = <<TextEvent>> /\ prod' = "read" /\ over' = "no"
         \/ todo' = <<Done>> /\ prod' = "last" /\ over' \in {"done", "cut"}
         \/ todo' = <<Err>> /\ prod' = "last" /\ over' = "error"
  BY <1>a DEF SendText, ServerDone, ServerCut, StreamFails, Stops, Reading, EndInv, wire, TextEvent
<1>1. WireInv' /\ ToolsInv' /\ ActiveInv' /\ CallsInv'
  BY <1>b, NoCallsKeep
<1>2. TypeInv'
  BY <1>a, <1>b DEF TypeInv, server
<1>3. TodoInv'
  BY <1>b DEF TodoInv, TextEvent, Done, Err
<1>4. EndInv'
  BY <1>a, <1>b DEF EndInv
<1>5. QED
  BY <1>1, <1>2, <1>3, <1>4 DEF IInv

LEMMA LeavesKeep ==
    ASSUME IInv, Leave \/ CloseFails
    PROVE  IInv'
<1>a. TypeInv /\ WireInv /\ EndInv
  BY DEF IInv
<1>b. /\ prod \in {"last", "closing"} /\ todo = <<>>
      /\ UNCHANGED <<server, opened, sent, closed, over, tools, turn>>
      /\ \/ todo' = <<>> /\ prod' = "closed"
         \/ todo' = <<Err>> /\ prod' = "closing"
  BY DEF Leave, CloseFails, wire
<1>1. WireInv' /\ ToolsInv' /\ ActiveInv' /\ CallsInv'
  BY <1>b, NoCallsKeep
<1>2. TypeInv'
  BY <1>a, <1>b DEF TypeInv, server
<1>3. TodoInv'
  BY <1>b DEF TodoInv, TextEvent, Done, Err
<1>4. EndInv'
  BY <1>a, <1>b DEF EndInv
<1>5. QED
  BY <1>1, <1>2, <1>3, <1>4 DEF IInv
-----------------------------------------------------------------------------
(* The turn takes an event.                                                *)

LEMMA TakeFacts ==
    ASSUME IInv, Take
    PROVE  /\ turn.state = "reading" /\ todo # <<>> /\ todo' = Tail(todo)
           /\ UNCHANGED <<server, opened, sent, closed, over, tools, prod>>
           /\ WireInv' /\ ToolsInv'
           /\ \A e, i : IsEnd(e, i) => IsEnd(e, i)'
<1>a. WireInv /\ ToolsInv
  BY DEF IInv
<1>b. /\ turn.state = "reading" /\ todo # <<>> /\ todo' = Tail(todo)
      /\ UNCHANGED <<server, opened, sent, closed, over, tools, prod>>
  BY DEF Take, wire
<1>c. /\ api' = api /\ ids' = ids /\ initial' = initial
      /\ \A j : Key(j)' = Key(j) /\ CallId(j)' = CallId(j)
  BY <1>b, SameServer
<1>1. WireInv'
  BY <1>a, <1>b DEF WireInv
<1>2. \A j \in Numbers : (IsOpen(j)' <=> IsOpen(j)) /\ (Kept(j) => Kept(j)')
  BY <1>b, <1>c DEF IsOpen, Kept
<1>3. ToolsInv'
  BY <1>a, <1>b, <1>2 DEF ToolsInv
<1>4. \A e, i : IsEnd(e, i) => IsEnd(e, i)'
  BY <1>b, <1>c DEF IsEnd
<1>5. QED
  BY <1>b, <1>1, <1>3, <1>4

\* An event that is neither of a call: what is known of the calls stays as it is.
LEMMA OtherTaken ==
    ASSUME IInv, Take, NEW e \in {TextEvent, Done, Err}, todo = <<e>>,
           turn'.active = turn.active, turn'.calls = turn.calls
    PROVE  ActiveInv' /\ CallsInv' /\ TodoInv'
<1>a. ActiveInv /\ CallsInv /\ WireInv
  BY DEF IInv
<1>b. /\ api' = api /\ ids' = ids /\ initial' = initial /\ limit' = limit
      /\ Announces' <=> Announces
      /\ \A j : Key(j)' = Key(j) /\ CallId(j)' = CallId(j) /\ StartEvent(j)' = StartEvent(j)
  BY TakeFacts, SameServer
<1>c. UNCHANGED <<opened, sent, closed>> /\ todo' = <<>> /\ Len(closed) \in Nat
  BY <1>a, TakeFacts, Single, LenProperties DEF WireInv
<1>1. e.type \in {"text", "done", "err"} /\ Head(todo).type # "tool_use"
  BY EventTypes, Single
<1>2. Heard = Len(closed) /\ \A j \in Numbers : OnTheWay(j) = <<>>
  BY <1>c, <1>1, NoEnds
<1>3. Heard' = Len(closed) /\ \A j \in Numbers : OnTheWay(j)' = <<>>
  BY <1>c DEF Heard, Pending, OnTheWay
<1>4. \A j \in Numbers : (Waits(j)' => Waits(j)) /\ todo # <<StartEvent(j)>>
  BY <1>c, <1>1, <1>2, <1>3, EventTypes, Single DEF Waits
<1>5. ActiveInv'
  BY <1>a, <1>b, <1>c, <1>2, <1>3, <1>4 DEF ActiveInv
<1>6. CallsInv'
  BY <1>a, <1>b, <1>c, <1>2, <1>3 DEF CallsInv
<1>7. QED
  BY <1>c, <1>5, <1>6 DEF TodoInv

\* A text, and the events that end an answer.
LEMMA OtherKeeps ==
    ASSUME IInv, Take, todo \in {<<TextEvent>>, <<Done>>, <<Err>>}
    PROVE  IInv'
<1>a. TypeInv /\ EndInv
  BY DEF IInv
<1>b. /\ turn.state = "reading" /\ todo' = Tail(todo) /\ WireInv' /\ ToolsInv'
      /\ UNCHANGED <<server, over, prod>>
  BY TakeFacts
<1>c. turn = [state |-> turn.state, active |-> turn.active, calls |-> turn.calls, text |-> turn.text]
  BY <1>a DEF TypeInv
<1>d. api' = api /\ ids' = ids /\ initial' = initial /\ limit' = limit
  BY <1>b, SameServer
<1>1. CASE todo = <<TextEvent>>
  <2>1. turn' = [turn EXCEPT !.text = TRUE]
    BY <1>1, EventTypes, Single DEF Take
  <2>2. /\ turn'.active = turn.active /\ turn'.calls = turn.calls /\ turn'.state = "reading"
        /\ turn'.text = TRUE
        /\ turn' = [state |-> turn'.state, active |-> turn'.active, calls |-> turn'.calls, text |-> turn'.text]
    BY <1>b, <1>c, <2>1
  <2>3. todo' = <<>> /\ prod = "read"
    BY <1>1, <1>b, Single, EventTypes DEF IInv, TodoInv
  <2>4. ActiveInv' /\ CallsInv' /\ TodoInv'
    BY <1>1, <2>2, OtherTaken
  <2>5. TypeInv'
    BY <1>a, <1>b, <1>d, <2>2 DEF TypeInv
  <2>6. EndInv'
    BY <1>a, <1>b, <2>2, <2>3 DEF EndInv
  <2>7. QED
    BY <1>b, <2>4, <2>5, <2>6 DEF IInv
<1>2. CASE todo = <<Done>>
  <2>1. turn' = turn
    BY <1>2, EventTypes, Single DEF Take
  <2>2. todo' = <<>> /\ todo # <<Err>>
    BY <1>2, <1>b, Single, EventTypes
  <2>3. prod \in {"last", "closing"}
    BY <1>2, EventTypes, Single DEF IInv, TodoInv, EndsInv, IsEnd, Ends, IsDelta
  <2>4. ActiveInv' /\ CallsInv' /\ TodoInv'
    BY <1>2, <2>1, OtherTaken
  <2>5. TypeInv'
    BY <1>a, <1>b, <1>d, <2>1 DEF TypeInv
  <2>6. EndInv'
    BY <1>a, <1>b, <2>1, <2>2, <2>3 DEF EndInv
  <2>7. QED
    BY <1>b, <2>4, <2>5, <2>6 DEF IInv
<1>3. CASE todo = <<Err>>
  <2>1. turn' = [turn EXCEPT !.state = IF turn.calls # <<>> THEN "recovered" ELSE "failed"]
    BY <1>3, EventTypes, Single DEF Take, OnErr
  <2>2. /\ turn'.active = turn.active /\ turn'.calls = turn.calls /\ turn'.text = turn.text
        /\ turn'.state \in {"recovered", "failed"}
        /\ turn' = [state |-> turn'.state, active |-> turn'.active, calls |-> turn'.calls, text |-> turn'.text]
    BY <1>c, <2>1
  <2>3. todo' = <<>>
    BY <1>3, <1>b, Single
  <2>4. prod \in {"last", "closing"}
    BY <1>3, EventTypes, Single DEF IInv, TodoInv, EndsInv, IsEnd, Ends, IsDelta
  <2>5. ActiveInv' /\ CallsInv' /\ TodoInv'
    BY <1>3, <2>2, OtherTaken
  <2>6. TypeInv'
    BY <1>a, <1>b, <1>d, <2>2 DEF TypeInv
  <2>7. EndInv'
    BY <1>a, <1>b, <2>2, <2>3, <2>4 DEF EndInv
  <2>8. QED
    BY <1>b, <2>5, <2>6, <2>7 DEF IInv
<1>4. QED
  BY <1>1, <1>2, <1>3

\* The start of a call, or a part of its input.
LEMMA CallKeeps ==
    ASSUME IInv, Take, NEW i \in Numbers, Announces, IsOpen(i), prod = "read",
           \/ todo = <<StartEvent(i)>> /\ sent[i] = <<>>
           \/ todo = <<Head(todo)>> /\ IsDelta(Head(todo), i)
    PROVE  IInv'
<1>a. TypeInv /\ EndInv /\ WireInv /\ ActiveInv /\ CallsInv /\ initial \in Inputs
  BY EmptyInput DEF IInv, TypeInv
<1>b. /\ turn.state = "reading" /\ todo # <<>> /\ todo' = Tail(todo) /\ WireInv' /\ ToolsInv'
      /\ UNCHANGED <<server, opened, sent, closed, over, prod>>
  BY TakeFacts
<1>c. turn = [state |-> turn.state, active |-> turn.active, calls |-> turn.calls, text |-> turn.text]
  BY <1>a DEF TypeInv
<1>d. /\ api' = api /\ ids' = ids /\ initial' = initial /\ limit' = limit
      /\ Announces' <=> Announces
      /\ \A j : Key(j)' = Key(j) /\ CallId(j)' = CallId(j) /\ StartEvent(j)' = StartEvent(j)
  BY <1>b, SameServer
<1>e. Len(closed) \in Nat /\ sent[i] \in Inputs /\ Len(sent[i]) \in Nat
  BY <1>a, LenProperties DEF WireInv, Inputs
<1>f. PICK e : todo = <<e>> /\ e.tool = Key(i) /\ ((e = StartEvent(i) /\ sent[i] = <<>>) \/ IsDelta(e, i))
  <2>1. CASE todo = <<StartEvent(i)>> /\ sent[i] = <<>>
    BY <2>1, EventTypes
  <2>2. CASE todo = <<Head(todo)>> /\ IsDelta(Head(todo), i)
    BY <2>2 DEF IsDelta
  <2>3. QED
    BY <2>1, <2>2
<1>g. todo' = <<>> /\ Head(todo) = e /\ e.type \in {"tool_use", "tool_use_delta"}
  BY <1>b, <1>f, Single, EventTypes DEF IsDelta
<1>h. Heard = Len(closed) /\ Heard' = Len(closed) /\ \A j \in Numbers : OnTheWay(j)' = <<>>
  BY <1>b, <1>e, <1>g DEF Heard, Pending, OnTheWay
<1>i. /\ \A j \in Numbers : Waits(j)' => Waits(j)
      /\ Waits(i) /\ \A j \in Numbers \ {i} : Key(j) # Key(i)
  BY <1>b, <1>e, <1>h, IdsDiffer DEF Waits, IsOpen
\* What the turn knows of i.
<1>1. /\ turn'.calls = turn.calls /\ turn'.state = turn.state /\ turn'.text = turn.text
      /\ turn' = [state |-> turn'.state, active |-> turn'.active, calls |-> turn'.calls, text |-> turn'.text]
      /\ \E input \in Inputs :
            /\ turn'.active = [x \in DOMAIN turn.active \union {Key(i)} |->
                                 IF x = Key(i) THEN [input |-> input, name |-> i, call |-> CallId(i)]
                                 ELSE turn.active[x]]
            /\ initial = <<>> => input = sent[i]
  <2>1. CASE e = StartEvent(i) /\ sent[i] = <<>>
    <3> DEFINE begun == [input |-> initial, name |-> i, call |-> CallId(i)]
               active == Add(turn.active, Key(i), begun)
    <3>1. turn' = [turn EXCEPT !.active = active]
      BY <1>g, <2>1, EventTypes, IdsDiffer DEF Take, OnUse, Key
    <3>2. active = [x \in DOMAIN turn.active \union {Key(i)} |->
                      IF x = Key(i) THEN begun ELSE turn.active[x]]
      BY DEF Add
    <3> HIDE DEF active
    <3>3. /\ turn'.calls = turn.calls /\ turn'.state = turn.state /\ turn'.text = turn.text
          /\ turn' = [state |-> turn'.state, active |-> turn'.active, calls |-> turn'.calls, text |-> turn'.text]
          /\ turn'.active = active
      BY <1>c, <3>1
    <3>4. QED
      BY <1>a, <2>1, <3>2, <3>3
  <2>2. CASE IsDelta(e, i)
    <3> DEFINE part == e.input
               input == turn.active[Key(i)].input \o part
               more == [turn.active[Key(i)] EXCEPT !.input = input]
               active == [turn.active EXCEPT ![Key(i)] = more]
    <3>1. todo # <<StartEvent(i)>> /\ OnTheWay(i) = e.input
      BY <1>f, <1>g, <2>2, EventTypes, Single DEF IsDelta, OnTheWay
    <3>2. /\ Key(i) \in DOMAIN turn.active
          /\ turn.active[Key(i)] = [input |-> turn.active[Key(i)].input, name |-> i, call |-> CallId(i)]
          /\ turn.active[Key(i)].input \in Inputs
          /\ initial = <<>> => turn.active[Key(i)].input \o e.input = sent[i]
      BY <1>a, <1>i, <3>1 DEF ActiveInv
    <3>3. part \in Inputs
      BY <1>e, <2>2, IdsDiffer DEF IsDelta, Inputs
    <3>4. input \in Inputs
      BY <3>2, <3>3, ConcatProperties DEF Inputs
    <3>5. turn' = [turn EXCEPT !.active = active]
      <4>1. e.tool = Key(i) /\ e.type = "tool_use_delta"
        BY <2>2 DEF IsDelta
      <4>2. turn' = [turn EXCEPT !.active[Key(i)].input = @ \o e.input]
        BY <1>g, <3>2, <4>1 DEF Take, OnDelta
      <4>3. QED
        BY <4>2
    <3>6. more = [input |-> input, name |-> i, call |-> CallId(i)]
      <4> DEFINE r == turn.active[Key(i)]
      <4> HIDE DEF r, input
      <4>1. r = [input |-> r.input, name |-> i, call |-> CallId(i)]
        BY <3>2 DEF r
      <4>2. [r EXCEPT !.input = input] = [input |-> input, name |-> i, call |-> CallId(i)]
        BY <4>1
      <4>3. QED
        BY <4>2 DEF r
    <3> HIDE DEF more, input
    <3>7. active = [x \in DOMAIN turn.active \union {Key(i)} |->
                      IF x = Key(i) THEN more ELSE turn.active[x]]
      BY <3>2
    <3> HIDE DEF active
    <3>8. /\ turn'.calls = turn.calls /\ turn'.state = turn.state /\ turn'.text = turn.text
          /\ turn' = [state |-> turn'.state, active |-> turn'.active, calls |-> turn'.calls, text |-> turn'.text]
          /\ turn'.active = active
      BY <1>c, <3>5
    <3>9. initial = <<>> => input = sent[i]
      BY <3>2 DEF input
    <3>10. QED
      BY <3>4, <3>6, <3>7, <3>8, <3>9
  <2>3. QED
    BY <1>f, <2>1, <2>2
<1>2. PICK input \in Inputs :
        /\ turn'.active = [x \in DOMAIN turn.active \union {Key(i)} |->
                             IF x = Key(i) THEN [input |-> input, name |-> i, call |-> CallId(i)]
                             ELSE turn.active[x]]
        /\ initial = <<>> => input = sent[i]
  BY <1>1
<1>3. TypeInv'
  BY <1>a, <1>b, <1>d, <1>1 DEF TypeInv
<1>4. ActiveInv'
  <2>1. \A x \in DOMAIN turn'.active : turn'.active[x].input \in Inputs
    BY <1>a, <1>2 DEF ActiveInv
  <2>2. /\ Key(i) \in DOMAIN turn'.active
        /\ turn'.active[Key(i)] = [input |-> input, name |-> i, call |-> CallId(i)]
        /\ turn'.active[Key(i)].input = input
    BY <1>2
  <2>3. initial = <<>> => turn'.active[Key(i)].input \o <<>> = sent[i]
    BY <1>2, <2>2, EmptyInput
  <2>4. ASSUME NEW j \in Numbers, Waits(j)', j # i
        PROVE  /\ Key(j) \in DOMAIN turn'.active
               /\ turn'.active[Key(j)] = [input |-> turn'.active[Key(j)].input, name |-> j, call |-> CallId(j)]
               /\ initial = <<>> => turn'.active[Key(j)].input \o <<>> = sent[j]
    <3>1. todo # <<StartEvent(j)>> /\ OnTheWay(j) = <<>> /\ Key(j) # Key(i) /\ Waits(j)
      BY <1>f, <1>g, <1>i, <2>4, EventTypes, Single DEF OnTheWay
    <3>2. /\ Key(j) \in DOMAIN turn.active
          /\ turn.active[Key(j)] = [input |-> turn.active[Key(j)].input, name |-> j, call |-> CallId(j)]
          /\ initial = <<>> => turn.active[Key(j)].input \o <<>> = sent[j]
      BY <1>a, <3>1 DEF ActiveInv
    <3>3. turn'.active[Key(j)] = turn.active[Key(j)] /\ Key(j) \in DOMAIN turn'.active
      BY <1>2, <3>1, <3>2
    <3>4. QED
      BY <3>2, <3>3
  <2>5. QED
    BY <1>b, <1>d, <1>h, <2>1, <2>2, <2>3, <2>4 DEF ActiveInv
<1>5. CallsInv'
  BY <1>a, <1>b, <1>d, <1>h, <1>1 DEF CallsInv
<1>6. EndInv' /\ TodoInv'
  BY <1>a, <1>b, <1>g, <1>1 DEF EndInv, TodoInv
<1>7. QED
  BY <1>b, <1>3, <1>4, <1>5, <1>6 DEF IInv

\* The ends that are still to be taken are those of the calls ended last.
LEMMA EndTaken ==
    ASSUME IInv, Take, EndsInv
    PROVE  /\ Heard \in Nat /\ Heard + 1 \in 1 .. Len(closed) /\ Heard' = Heard + 1
           /\ prod = "read"
           /\ IsEnd(Head(todo), closed[Heard + 1]) /\ TodoInv'
           /\ \A j \in Numbers : /\ OnTheWay(j) = <<>> /\ OnTheWay(j)' = <<>>
                                 /\ todo # <<StartEvent(j)>>
<1>a. WireInv /\ prod = "read"
  BY EventTypes, Single DEF IInv, TodoInv, EndsInv, IsEnd, Ends, IsOpen, Announces
<1>b. /\ todo # <<>> /\ todo' = Tail(todo) /\ UNCHANGED <<closed, prod>>
      /\ \A e, i : IsEnd(e, i) => IsEnd(e, i)'
  BY TakeFacts
<1>c. /\ todo \in Seq(Ends) /\ Len(todo) <= Len(closed) /\ Len(todo) \in Nat \ {0} /\ Len(closed) \in Nat
      /\ \A k \in 1 .. Len(todo) : IsEnd(todo[k], closed[Len(closed) - Len(todo) + k])
  BY <1>a, EmptySeq, LenProperties DEF EndsInv, WireInv
<1>d. /\ Head(todo) = todo[1] /\ Head(todo).type = "tool_use_end"
      /\ Tail(todo) \in Seq(Ends) /\ Len(Tail(todo)) = Len(todo) - 1
      /\ \A k \in 1 .. Len(todo) - 1 : Tail(todo)[k] = todo[k + 1]
  <2>1. /\ Head(todo) = todo[1] /\ Head(todo) \in Ends
        /\ Tail(todo) \in Seq(Ends) /\ Len(Tail(todo)) = Len(todo) - 1
    BY <1>b, <1>c, HeadTailProperties
  <2>2. \A k \in 1 .. Len(todo) - 1 : Tail(todo)[k] = todo[k + 1]
    BY <1>c
  <2>3. Head(todo).type = "tool_use_end"
    BY <2>1 DEF Ends
  <2>4. QED
    BY <2>1, <2>2, <2>3
<1>e. ASSUME Tail(todo) # <<>> PROVE Head(Tail(todo)).type = "tool_use_end" /\ Len(todo) > 1
  <2>1. Head(Tail(todo)) \in Ends
    BY <1>d, <1>e, HeadTailProperties
  <2>2. Len(Tail(todo)) # 0
    BY <1>d, <1>e, EmptySeq
  <2>3. QED
    BY <1>c, <1>d, <2>1, <2>2 DEF Ends
<1>1. Heard = Len(closed) - Len(todo)
  BY <1>b, <1>d DEF Heard, Pending
<1>2. Heard' = Len(closed) - (Len(todo) - 1)
  <2>1. CASE Tail(todo) = <<>>
    BY <1>b, <1>c, <1>d, <2>1 DEF Heard, Pending
  <2>2. CASE Tail(todo) # <<>>
    BY <1>b, <1>d, <1>e, <2>2 DEF Heard, Pending
  <2>3. QED
    BY <2>1, <2>2
<1>3. Heard \in Nat /\ Heard + 1 \in 1 .. Len(closed) /\ Heard' = Heard + 1
  BY <1>c, <1>1, <1>2
<1>4. IsEnd(Head(todo), closed[Heard + 1])
  BY <1>c, <1>d, <1>1
<1>5. \A j \in Numbers : /\ OnTheWay(j) = <<>> /\ OnTheWay(j)' = <<>> /\ todo # <<StartEvent(j)>>
  BY <1>b, <1>d, <1>e, EventTypes, Single DEF OnTheWay
<1>6. TodoInv'
  <2>1. CASE Tail(todo) = <<>>
    BY <1>b, <2>1 DEF TodoInv
  <2>2. CASE Tail(todo) # <<>>
    <3>1. ASSUME NEW k \in 1 .. Len(todo') PROVE IsEnd(todo[k], closed[Len(closed) - Len(todo) + k])'
      <4>1. /\ todo'[k] = todo[k + 1] /\ k + 1 \in 1 .. Len(todo)
            /\ Len(closed') - Len(todo') + k = Len(closed) - Len(todo) + (k + 1)
        BY <1>b, <1>c, <1>d
      <4>2. IsEnd(todo[k + 1], closed[Len(closed) - Len(todo) + (k + 1)])
        BY <1>c, <4>1
      <4>3. \A e, i : e = todo[k + 1] /\ i = closed[Len(closed) - Len(todo) + (k + 1)] => IsEnd(e, i)'
        BY <1>b, <4>2
      <4>4. QED
        BY <1>b, <4>1, <4>3 DEF IsEnd
    <3>2. EndsInv'
      BY <1>b, <1>c, <1>d, <2>2, <3>1 DEF EndsInv
    <3>3. QED
      BY <1>a, <1>b, <3>2 DEF TodoInv
  <2>3. QED
    BY <2>1, <2>2
<1>7. QED
  BY <1>a, <1>3, <1>4, <1>5, <1>6

\* A call put together from its events is the call the server has ended.
LEMMA TakenIsWhole ==
    ASSUME IInv, NEW e, NEW i \in Numbers, IsEnd(e, i), Waits(i),
           OnTheWay(i) = <<>>, todo # <<StartEvent(i)>>
    PROVE  /\ Taken(e) \in Uses /\ Taken(e).id = CallId(i) /\ Taken(e).name = i
           /\ initial = <<>> => Taken(e).input = sent[i]
<1>a. /\ TypeInv /\ ActiveInv /\ CallId(i) # None /\ i # 0 /\ i \in Nat
      /\ CallId(i) \in Names
  BY IdsDiffer DEF IInv
<1>b. /\ e.tool = Key(i) /\ e.call = CallId(i) /\ e.input \in Inputs
      /\ e.name = i \/ (e.name = 0 /\ api = "responses")
      /\ initial = <<>> => e.input = sent[i]
  BY DEF IsEnd, Ends
<1> DEFINE begun == e.tool \in DOMAIN turn.active
           start == turn.active[e.tool]
<1>1. begun => start.input \in Inputs
  BY <1>a DEF ActiveInv
<1>2. begun /\ initial = <<>> => start.input = sent[i]
  <2>1. CASE Announces
    BY <1>a, <1>b, <1>1, <2>1, EmptyInput DEF ActiveInv
  <2>2. CASE ~Announces
    BY <1>a, <2>2 DEF ActiveInv
  <2>3. QED
    BY <2>1, <2>2
<1>3. api = "responses" => begun /\ start.name = i
  <2>1. ASSUME api = "responses" PROVE Announces
    BY <2>1 DEF Announces
  <2>2. Announces => Key(i) \in DOMAIN turn.active /\ turn.active[Key(i)].name = i
    <3>1. Announces => /\ Key(i) \in DOMAIN turn.active
                       /\ turn.active[Key(i)] = [input |-> turn.active[Key(i)].input,
                                                 name |-> i, call |-> CallId(i)]
      BY <1>a DEF ActiveInv
    <3>2. \A r, input, call : r = [input |-> input, name |-> i, call |-> call] => r.name = i
      OBVIOUS
    <3>3. QED
      BY <3>1, <3>2
  <2>3. QED
    BY <1>b, <2>1, <2>2
<1> DEFINE id == CASE e.call # None -> e.call
                   [] e.call = None /\ begun /\ start.call # None -> start.call
                   [] OTHER -> e.tool
           name == IF e.name = 0 /\ begun THEN start.name ELSE e.name
           input == IF begun /\ start.input # <<>> THEN start.input ELSE e.input
<1>4. Taken(e) = [id |-> id, name |-> name, input |-> input]
  BY DEF Taken
<1>5. id = CallId(i)
  BY <1>a, <1>b
<1>6. name = i
  BY <1>a, <1>b, <1>3
<1>7. input \in Inputs /\ (initial = <<>> => input = sent[i])
  BY <1>b, <1>1, <1>2
<1> HIDE DEF id, name, input
<1>8. QED
  BY <1>a, <1>4, <1>5, <1>6, <1>7 DEF Uses

LEMMA EndKeeps ==
    ASSUME IInv, Take, EndsInv
    PROVE  IInv'
<1>a. TypeInv /\ EndInv /\ WireInv /\ ActiveInv /\ CallsInv
  BY DEF IInv
<1>b. /\ turn.state = "reading" /\ todo # <<>> /\ WireInv' /\ ToolsInv'
      /\ UNCHANGED <<server, opened, sent, closed, over, prod>>
  BY TakeFacts
<1>c. turn = [state |-> turn.state, active |-> turn.active, calls |-> turn.calls, text |-> turn.text]
  BY <1>a DEF TypeInv
<1>d. /\ api' = api /\ ids' = ids /\ initial' = initial /\ limit' = limit
      /\ Announces' <=> Announces
      /\ \A j : Key(j)' = Key(j) /\ CallId(j)' = CallId(j) /\ StartEvent(j)' = StartEvent(j)
  BY <1>b, SameServer
<1>e. /\ Heard \in Nat /\ Heard + 1 \in 1 .. Len(closed) /\ Heard' = Heard + 1 /\ prod = "read"
      /\ IsEnd(Head(todo), closed[Heard + 1]) /\ TodoInv'
      /\ \A j \in Numbers : OnTheWay(j) = <<>> /\ OnTheWay(j)' = <<>> /\ todo # <<StartEvent(j)>>
  BY EndTaken
<1> DEFINE e == Head(todo)
           i == closed[Heard + 1]
<1>f. i \in Numbers /\ e.type = "tool_use_end" /\ e.tool = Key(i)
  BY <1>a, <1>e, ElementOfSeq DEF WireInv, IsEnd, Ends
<1>g. Waits(i)
  BY <1>a, <1>e DEF WireInv, Waits
<1>h. \A j \in Numbers : Waits(j)' => Waits(j) /\ j # i /\ Key(j) # Key(i)
  BY <1>b, <1>e, <1>f, IdsDiffer DEF Waits
<1>i. /\ Taken(e) \in Uses /\ Taken(e).id = CallId(i) /\ Taken(e).name = i
      /\ initial = <<>> => Taken(e).input = sent[i]
  BY <1>e, <1>f, <1>g, TakenIsWhole
<1>j. limit \in Nat \ {0} /\ turn.calls \in Seq(Uses) /\ Len(turn.calls) = IF Heard < limit THEN Heard ELSE limit
  BY <1>a DEF TypeInv, CallsInv, Numbers
<1>k. turn' = OnEnd(e)
  BY <1>b, <1>f DEF Take
<1> HIDE DEF e, i
<1>1. CASE Len(turn.calls) >= limit
  <2>1. turn' = turn
    BY <1>k, <1>1 DEF OnEnd
  <2>2. ActiveInv'
    BY <1>a, <1>b, <1>d, <1>e, <1>h, <2>1 DEF ActiveInv
  <2>3. CallsInv'
    <3>1. Len(turn.calls) = IF Heard' < limit THEN Heard' ELSE limit
      BY <1>e, <1>j, <1>1
    <3>2. QED
      BY <1>a, <1>b, <1>d, <2>1, <3>1 DEF CallsInv
  <2>4. TypeInv' /\ EndInv'
    BY <1>a, <1>b, <1>d, <1>e, <2>1 DEF TypeInv, EndInv
  <2>5. QED
    BY <1>b, <1>e, <2>2, <2>3, <2>4 DEF IInv
<1>2. CASE ~(Len(turn.calls) >= limit)
  <2>1. Len(turn.calls) = Heard /\ Heard < limit
    BY <1>e, <1>j, <1>2
  <2> DEFINE calls == Append(turn.calls, Taken(e))
             active == Drop(turn.active, Key(i))
  <2>2. turn' = [turn EXCEPT !.calls = calls, !.active = active]
    BY <1>f, <1>k, <1>2 DEF OnEnd
  <2>3. /\ calls \in Seq(Uses) /\ Len(calls) = Heard + 1
        /\ calls[Heard + 1] = Taken(e) /\ \A k \in 1 .. Heard : calls[k] = turn.calls[k]
    BY <1>i, <1>j, <2>1, AppendProperties
  <2>4. /\ DOMAIN active \subseteq DOMAIN turn.active
        /\ \A x \in DOMAIN turn.active : x # Key(i) => x \in DOMAIN active
        /\ \A x \in DOMAIN active : active[x] = turn.active[x]
    BY DEF Drop
  <2> HIDE DEF calls, active
  <2>5. /\ turn'.calls = calls /\ turn'.active = active
        /\ turn'.state = turn.state /\ turn'.text = turn.text
        /\ turn' = [state |-> turn'.state, active |-> turn'.active, calls |-> turn'.calls, text |-> turn'.text]
    BY <1>c, <2>2
  <2>6. TypeInv' /\ EndInv'
    BY <1>a, <1>b, <1>d, <1>e, <2>3, <2>5 DEF TypeInv, EndInv
  <2>7. ActiveInv'
    BY <1>a, <1>b, <1>d, <1>e, <1>h, <2>4, <2>5 DEF ActiveInv
  <2>8. CallsInv'
    <3>1. Len(turn'.calls) = IF Heard' < limit' THEN Heard' ELSE limit'
      BY <1>d, <1>e, <1>j, <2>1, <2>3, <2>5
    <3>2. ASSUME NEW k \in 1 .. Len(turn'.calls)
          PROVE  /\ turn'.calls[k].id = CallId(closed[k])' /\ turn'.calls[k].name = closed'[k]
                 /\ initial' = <<>> => turn'.calls[k].input = sent'[closed'[k]]
      <4>1. CASE k = Heard + 1
        BY <1>b, <1>d, <1>i, <2>3, <2>5, <4>1 DEF i
      <4>2. CASE k \in 1 .. Heard
        BY <1>a, <1>b, <1>d, <2>1, <2>3, <2>5, <4>2 DEF CallsInv
      <4>3. QED
        BY <1>e, <2>3, <2>5, <4>1, <4>2
    <3>3. QED
      BY <3>1, <3>2 DEF CallsInv
  <2>9. QED
    BY <1>b, <1>e, <2>6, <2>7, <2>8 DEF IInv
<1>3. QED
  BY <1>1, <1>2

LEMMA TakeKeeps ==
    ASSUME IInv, Take
    PROVE  IInv'
<1>1. TodoInv /\ todo # <<>>
  BY TakeFacts DEF IInv
<1>2. CASE todo \in {<<TextEvent>>, <<Done>>, <<Err>>}
  BY <1>2, OtherKeeps
<1>3. CASE EndsInv
  BY <1>3, EndKeeps
<1>4. CASE prod = "read" /\ \E i \in Numbers :
              /\ Announces /\ IsOpen(i)
              /\ \/ todo = <<StartEvent(i)>> /\ sent[i] = <<>>
                 \/ todo = <<Head(todo)>> /\ IsDelta(Head(todo), i)
  BY <1>4, CallKeeps
<1>5. QED
  BY <1>1, <1>2, <1>3, <1>4 DEF TodoInv

LEMMA CompleteKeeps ==
    ASSUME IInv, Complete
    PROVE  IInv'
<1>a. TypeInv /\ TodoInv /\ WireInv /\ ToolsInv /\ ActiveInv /\ CallsInv /\ EndInv
  BY DEF IInv
<1>b. turn.state = "reading" /\ prod = "closed" /\ UNCHANGED <<server, opened, sent, closed, over, tools, prod, todo>>
  BY DEF Complete, wire
<1>c. turn = [state |-> turn.state, active |-> turn.active, calls |-> turn.calls, text |-> turn.text]
  BY <1>a DEF TypeInv
<1>d. todo = <<>> /\ over # "error"
  BY <1>a, <1>b, Single DEF EndInv
<1>e. Heard = Len(closed) /\ Heard' = Len(closed) /\ Len(closed) \in Nat
  BY <1>a, <1>b, <1>d, LenProperties DEF Heard, Pending, WireInv
<1>1. /\ turn'.active = turn.active /\ turn'.calls = turn.calls /\ turn'.text = turn.text
      /\ turn'.state = "completed"
      /\ turn' = [state |-> turn'.state, active |-> turn'.active, calls |-> turn'.calls, text |-> turn'.text]
  BY <1>c DEF Complete
<1>2. /\ api' = api /\ ids' = ids /\ initial' = initial /\ limit' = limit
      /\ Announces' <=> Announces
      /\ \A j : Key(j)' = Key(j) /\ CallId(j)' = CallId(j) /\ StartEvent(j)' = StartEvent(j)
                /\ OnTheWay(j)' = OnTheWay(j)
  BY <1>b, SameServer DEF OnTheWay
<1>3. TypeInv' /\ TodoInv' /\ EndInv'
  BY <1>a, <1>b, <1>d, <1>1, <1>2 DEF TypeInv, TodoInv, EndInv
<1>4. WireInv'
  BY <1>a, <1>b DEF WireInv
<1>5. \A j \in Numbers : (IsOpen(j)' <=> IsOpen(j)) /\ (Kept(j) => Kept(j)')
  BY <1>b, <1>2 DEF IsOpen, Kept
<1>6. \A j \in Numbers : Waits(j)' => Waits(j)
  BY <1>b, <1>e DEF Waits
<1>7. ToolsInv'
  BY <1>a, <1>b, <1>5 DEF ToolsInv
<1>8. ActiveInv'
  <2>1. \A j \in Numbers : OnTheWay(j)' = OnTheWay(j) /\ Key(j)' = Key(j) /\ CallId(j)' = CallId(j)
                           /\ StartEvent(j)' = StartEvent(j)
    BY <1>2
  <2>2. QED
    BY <1>a, <1>b, <1>1, <1>2, <1>6, <2>1 DEF ActiveInv
<1>9. CallsInv'
  BY <1>a, <1>b, <1>e, <1>1, <1>2 DEF CallsInv
<1>10. QED
  BY <1>3, <1>4, <1>7, <1>8, <1>9 DEF IInv

LEMMA HeardType ==
    ASSUME IInv
    PROVE  Heard \in Nat /\ Heard <= Len(closed) /\ Len(closed) \in Nat
<1>1. Len(closed) \in Nat
  BY LenProperties DEF IInv, WireInv
<1>2. Pending \in Nat /\ Pending <= Len(closed)
  <2>1. CASE EndsInv
    BY <1>1, <2>1, LenProperties DEF EndsInv, Pending
  <2>2. CASE ~EndsInv
    BY <1>1, <2>2, EventTypes, Single DEF IInv, TodoInv, Pending, IsDelta
  <2>3. QED
    BY <2>1, <2>2
<1>3. QED
  BY <1>1, <1>2 DEF Heard

LEMMA StutterKeeps ==
    ASSUME IInv, UNCHANGED vars
    PROVE  IInv'
<1>a. Heard \in Nat /\ TypeInv /\ TodoInv /\ WireInv /\ ToolsInv /\ ActiveInv /\ CallsInv /\ EndInv
  BY HeardType DEF IInv
<1>b. UNCHANGED <<server, opened, sent, closed, over, tools, prod, todo, turn>>
  BY DEF vars, wire
<1>c. /\ api' = api /\ ids' = ids /\ initial' = initial /\ limit' = limit
      /\ Announces' <=> Announces
      /\ \A j : Key(j)' = Key(j) /\ CallId(j)' = CallId(j) /\ StartEvent(j)' = StartEvent(j)
  BY <1>b, SameServer
<1>d. Heard' = Heard /\ \A j : OnTheWay(j)' = OnTheWay(j)
  BY <1>b, <1>c DEF Heard, Pending, OnTheWay
<1>1. TypeInv' /\ EndInv' /\ WireInv'
  BY <1>a, <1>b, <1>c DEF TypeInv, EndInv, WireInv
<1>2. \A j \in Numbers : /\ (IsOpen(j)' <=> IsOpen(j)) /\ (Kept(j) => Kept(j)')
                         /\ \A e : IsDelta(e, j) => IsDelta(e, j)'
  BY <1>b, <1>c DEF IsOpen, Kept, IsDelta
<1>3. \A j \in Numbers : Waits(j)' => Waits(j)
  BY <1>a, <1>b, <1>d DEF Waits
<1>4. ToolsInv'
  BY <1>a, <1>b, <1>2 DEF ToolsInv
<1>5. ActiveInv'
  BY <1>a, <1>b, <1>c, <1>d, <1>3 DEF ActiveInv
<1>6. CallsInv'
  BY <1>a, <1>b, <1>c, <1>d DEF CallsInv
<1>7. TodoInv'
  <2>1. EndsInv => EndsInv'
    BY <1>b, <1>c DEF EndsInv, IsEnd
  <2>2. ASSUME NEW j \in Numbers, IsDelta(Head(todo), j) PROVE IsDelta(Head(todo), j)'
    BY <1>b, <1>c, <2>2 DEF IsDelta
  <2>3. QED
    BY <1>a, <1>b, <1>c, <1>2, <2>1, <2>2 DEF TodoInv, TextEvent, Done, Err
<1>8. QED
  BY <1>1, <1>4, <1>5, <1>6, <1>7 DEF IInv

LEMMA NextIInv == IInv /\ [Next]_vars => IInv'
<1> SUFFICES ASSUME IInv, [Next]_vars PROVE IInv'
  OBVIOUS
<1>1. ASSUME NEW i \in Numbers, ItemAdded(i) \/ ArgumentsDelta(i) \/ ArgumentsDone(i) PROVE IInv'
  BY <1>1, ResponsesKeeps
<1>2. ASSUME NEW i \in Numbers, ChatStart(i) \/ ChatPart(i) PROVE IInv'
  BY <1>2, ChatKeeps
<1>3. ASSUME NEW i \in Numbers, BlockStart(i) \/ InputDelta(i) \/ BlockStop(i) PROVE IInv'
  BY <1>3, AnthropicKeeps
<1>4. CASE ChatFinish
  BY <1>4, FinishKeeps
<1>5. CASE SendText \/ ServerDone \/ ServerCut \/ StreamFails
  BY <1>5, ReadsKeep
<1>6. CASE Leave \/ CloseFails
  BY <1>6, LeavesKeep
<1>7. CASE Take
  BY <1>7, TakeKeeps
<1>8. CASE Complete
  BY <1>8, CompleteKeeps
<1>9. CASE UNCHANGED vars
  BY <1>9, StutterKeeps
<1>10. QED
  BY <1>1, <1>2, <1>3, <1>4, <1>5, <1>6, <1>7, <1>8, <1>9 DEF Next
-----------------------------------------------------------------------------
\* What is known of an answer on its way holds in every state.
THEOREM Invariance == Spec => []IInv
<1>1. QED
  BY InitIInv, NextIInv, PTL DEF Spec

\* The variables keep their types: what is sent of an input is a beginning of it.
THEOREM TypeCorrect == Spec => []TypeOK
<1>1. IInv => TypeOK
  <2> SUFFICES ASSUME IInv PROVE TypeOK
    OBVIOUS
  <2>1. TypeInv /\ WireInv /\ ToolsInv
    BY DEF IInv
  <2>2. opened \subseteq Numbers
    <3>1. PICK m \in 0 .. Calls : opened = 1 .. m
      BY <2>1 DEF WireInv
    <3>2. QED
      BY <3>1, CallsAssumption DEF Numbers
  <2>3. ASSUME NEW i \in Numbers PROVE sent[i] = SubSeq(Whole(i), 1, Len(sent[i]))
    <3>1. /\ sent[i] \in Inputs /\ Len(sent[i]) <= Parts
          /\ \A k \in 1 .. Len(sent[i]) : sent[i][k] = <<i, k>>
      BY <2>1 DEF WireInv
    <3>2. Len(sent[i]) \in Nat /\ sent[i] = [k \in 1 .. Len(sent[i]) |-> sent[i][k]]
      BY <3>1, LenProperties DEF Inputs
    <3>3. sent[i] = [k \in 1 .. Len(sent[i]) |-> <<i, k>>]
      BY <3>1, <3>2
    <3> DEFINE n == Len(sent[i])
    <3> HIDE DEF n
    <3>4. SubSeq(Whole(i), 1, n) = [k \in 1 .. n |-> Whole(i)[k]]
      BY <3>2 DEF n
    <3>5. \A k \in 1 .. n : Whole(i)[k] = <<i, k>>
      BY <3>1, <3>2, PartsAssumption DEF Whole, n
    <3>6. SubSeq(Whole(i), 1, n) = [k \in 1 .. n |-> <<i, k>>]
      BY <3>4, <3>5
    <3>7. QED
      BY <3>3, <3>6 DEF n
  <2>4. QED
    BY <2>1, <2>2, <2>3 DEF TypeOK, TypeInv, ToolsInv
<1>2. QED
  BY Invariance, <1>1, PTL

\* The calls a turn has taken are those the server has ended, in its order and
\* whole: with its ids, its names and every part of the input, however the parts of
\* several calls were interleaved, whichever API they came through and whatever its
\* events leave out.
THEOREM CallsTakenWhole == Spec => []CallsAreWhole
<1>1. IInv => CallsAreWhole
  <2> SUFFICES ASSUME IInv PROVE CallsAreWhole
    OBVIOUS
  <2>1. CallsInv /\ TypeInv /\ WireInv
    BY DEF IInv
  <2>2. DOMAIN turn.calls = 1 .. Len(turn.calls)
    BY <2>1, LenProperties DEF TypeInv
  <2>3. Heard \in Nat /\ Heard <= Len(closed) /\ Len(closed) \in Nat /\ limit \in Nat
    BY <2>1, HeardType DEF TypeInv, Numbers
  <2>4. \A k \in 1 .. Len(turn.calls) : k <= Len(closed)
    BY <2>1, <2>3 DEF CallsInv
  <2>5. QED
    BY <2>1, <2>2, <2>4 DEF CallsAreWhole, CallsInv
<1>2. QED
  BY Invariance, <1>1, PTL

\* An answer that counts as completed met no error and misses no call that the
\* server has ended: the channel is closed only when every event has been taken.
THEOREM CompletedIsComplete == Spec => []CompleteIsComplete
<1>1. IInv => CompleteIsComplete
  <2> SUFFICES ASSUME IInv, turn.state = "completed"
               PROVE  over # "error" /\ Len(turn.calls) = IF Len(closed) < limit THEN Len(closed) ELSE limit
    BY DEF CompleteIsComplete
  <2>1. prod = "closed" /\ over # "error" /\ todo = <<>>
    BY DEF IInv, EndInv
  <2>2. Heard = Len(closed)
    BY <2>1, LenProperties DEF IInv, WireInv, Heard, Pending
  <2>3. QED
    BY <2>1, <2>2 DEF IInv, CallsInv
<1>2. QED
  BY Invariance, <1>1, PTL
=============================================================================
