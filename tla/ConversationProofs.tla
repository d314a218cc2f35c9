------------------------- MODULE ConversationProofs -------------------------
(***************************************************************************)
(* Proofs about the conversation and its file: SessionLog for any          *)
(* terminals and session ids, any limit on the records of a log and any    *)
(* number of saves, and ToolLoop for every limit on turns, compactions and *)
(* subagents and every number of prompts.                                  *)
(***************************************************************************)
EXTENDS SessionLog, ToolLoop, SequenceTheorems, FiniteSetTheorems, WellFoundedInduction, TLAPS

-----------------------------------------------------------------------------
(***************************************************************************)
(* SessionLog.                                                             *)
(***************************************************************************)

Lines == Snapshots \union Unreadable

Rewriting(t) == step[t] \in {"truncate", "write"}

\* A terminal that is on has an id that was given out and a snapshot to save;
\* terminals with the same id share it, and an id not given out has no file.
OwnerInv ==
    /\ \A t \in Terminals :
          IF Live(t) THEN session[t] \in issued /\ record[t] \in Snapshots
                     ELSE session[t] = NoSession
    /\ \A t, u \in Terminals :
          t # u /\ Live(t) /\ session[t] = session[u] => session[t] \in shared
    /\ \A s \in Sessions \ issued : file[s] = <<>> /\ saved[s] = None

\* What a rewrite will put into a file is not older than what was saved there,
\* and between its two steps the file is empty; nor is what can be read older;
\* and if nothing was cut short or too long, what is read is what was saved last,
\* or a rewrite holds it.
LogInv(s) ==
    /\ \A t \in Terminals : session[t] = s /\ Rewriting(t) =>
          /\ record[t].time >= saved[s].time
          /\ step[t] = "write" => file[s] = <<>>
    /\ Readable(s) => Loaded(s).time >= saved[s].time
    /\ s \notin cut \union oversized =>
          /\ saved[s] = None => file[s] = <<>>
          /\ saved[s] # None /\ (\A t \in Terminals : session[t] = s => step[t] # "write") =>
                Readable(s) /\ Loaded(s) = saved[s]
          /\ \A t \in Terminals : session[t] = s /\ Rewriting(t) => record[t] = saved[s]

AloneInv == \A s \in Sessions : Alone(s) => LogInv(s)

IInv == TypeOK /\ OwnerInv /\ AloneInv

-----------------------------------------------------------------------------
(* The lines of a file.                                                    *)

LEMMA SnapshotFacts ==
    /\ None \notin Snapshots /\ Snapshots \cap Unreadable = {} /\ None \notin Unreadable
    /\ Torn \in Unreadable /\ TooLong \in Unreadable /\ Torn # TooLong
    /\ \A r \in Snapshots : r.time \in Nat /\ r.time > None.time
BY SessionAssumption DEF Snapshots, Times, Conversations, None, Torn, TooLong, Unreadable

LEMMA LastIsALine ==
    ASSUME NEW q \in Seq(Lines), q # <<>>
    PROVE  Last(q) \in Lines
<1>1. Len(q) \in 1 .. Len(q)
  BY EmptySeq, LenProperties
<1>2. QED
  BY <1>1, ElementOfSeq DEF Last

LEMMA SingleLine ==
    ASSUME NEW r \in Lines
    PROVE  <<r>> \in Seq(Lines) /\ <<r>> # <<>> /\ Last(<<r>>) = r
BY DEF Last

\* A line that is appended is the last one behind the lines that are there, unless
\* the file ends in a torn line.
LEMMA AppendedIsLast ==
    ASSUME NEW q \in Seq(Lines), NEW r \in Lines
    PROVE  /\ Appended(q, r) \in Seq(Lines) /\ Appended(q, r) # <<>>
           /\ \A i \in DOMAIN q : i \in DOMAIN Appended(q, r) /\ Appended(q, r)[i] = q[i]
           /\ \/ Appended(q, r) = q /\ q # <<>> /\ Last(q) = Torn
              \/ /\ Last(Appended(q, r)) = r /\ ~(q # <<>> /\ Last(q) = Torn)
                 /\ \A i \in DOMAIN Appended(q, r) : i \in DOMAIN q \/ Appended(q, r)[i] = r
<1>1. Append(q, r) \in Seq(Lines) /\ Append(q, r) # <<>>
  BY AppendProperties
<1>2. Last(Append(q, r)) = r
  BY <1>1, AppendProperties, LenProperties DEF Last
<1>3. /\ \A i \in DOMAIN q : i \in DOMAIN Append(q, r) /\ Append(q, r)[i] = q[i]
      /\ \A i \in DOMAIN Append(q, r) : i \in DOMAIN q \/ Append(q, r)[i] = r
  BY AppendProperties, LenProperties
<1>4. CASE q # <<>> /\ Last(q) = Torn
  BY <1>4 DEF Appended
<1>5. CASE ~(q # <<>> /\ Last(q) = Torn)
  BY <1>1, <1>2, <1>3, <1>5 DEF Appended
<1>6. QED
  BY <1>4, <1>5

\* What is readable has a snapshot for its last line.
LEMMA ReadableLast ==
    ASSUME NEW q \in Seq(Lines), q # <<>>, \A i \in DOMAIN q : q[i] \notin Unreadable
    PROVE  Last(q) \in Snapshots
<1>1. Len(q) \in DOMAIN q
  BY EmptySeq, LenProperties
<1>2. QED
  BY <1>1, LastIsALine DEF Last, Lines

LEMMA OverwrittenType ==
    ASSUME NEW q \in Seq(Lines), NEW r \in Lines
    PROVE  Overwritten(q, r) \subseteq Seq(Lines)
<1>1. <<r>> \in Seq(Lines) /\ <<r, Torn>> \in Seq(Lines)
  BY DEF Lines, Unreadable
<1>2. ASSUME NEW i \in 2 .. Len(q) PROVE <<r>> \o SubSeq(q, i, Len(q)) \in Seq(Lines)
  <2>1. \A j \in i .. Len(q) : q[j] \in Lines
    BY LenProperties
  <2>2. SubSeq(q, i, Len(q)) \in Seq(Lines)
    BY <2>1, LenProperties, SubSeqProperties
  <2>3. QED
    BY <1>1, <2>2, ConcatProperties
<1>3. QED
  BY <1>1, <1>2 DEF Overwritten

\* A rewrite that finds the file as it left it makes it hold the one record.
LEMMA OverwrittenEmpty ==
    ASSUME NEW r
    PROVE  Overwritten(<<>>, r) = {<<r>>}
<1>1. 2 .. Len(<<>>) = {}
  OBVIOUS
<1>2. QED
  BY <1>1 DEF Overwritten

LEMMA LoadedIsASnapshot ==
    ASSUME TypeOK, NEW s \in Sessions, Readable(s)
    PROVE  Loaded(s) \in Snapshots
<1>1. file[s] \in Seq(Lines)
  BY DEF TypeOK, Lines
<1>2. QED
  BY <1>1, ReadableLast DEF Readable, Loaded
-----------------------------------------------------------------------------
LEMMA InitIInv == Init => IInv
<1> SUFFICES ASSUME Init PROVE IInv
  OBVIOUS
<1>1. TypeOK
  BY SessionAssumption DEF Init, TypeOK, Steps, Conversations
<1>2. OwnerInv
  BY DEF Init, OwnerInv, Live
<1>3. AloneInv
  BY DEF Init, AloneInv, LogInv, Rewriting, Readable
<1>4. QED
  BY <1>1, <1>2, <1>3 DEF IInv
-----------------------------------------------------------------------------
(* What the steps have in common.                                          *)

LEMMA BeginSaveType ==
    ASSUME TypeOK, NEW t \in Terminals, NEW s \in Sessions, NEW c \in Conversations,
           NEW l, BeginSave(t, s, c, l)
    PROVE  /\ long' \subseteq Terminals
           /\ clock' \in 0 .. MaxSaves
           /\ step' \in [Terminals -> Steps]
           /\ session' \in [Terminals -> Sessions \union {NoSession}]
           /\ conv' \in [Terminals -> Conversations]
           /\ record' \in [Terminals -> Snapshots \union {None}]
           /\ record'[t] \in Snapshots /\ session'[t] = s /\ step'[t] = "append"
<1> USE DEF BeginSave
<1>1. clock' \in Times
  BY SessionAssumption DEF TypeOK, Times
<1>2. [time |-> clock', conv |-> c] \in Snapshots
  BY <1>1 DEF Snapshots
<1>3. clock' \in 0 .. MaxSaves
  BY <1>1 DEF Times
<1>4. step' \in [Terminals -> Steps] /\ step'[t] = "append"
  BY DEF TypeOK, Goto, Steps
<1>5. session' \in [Terminals -> Sessions \union {NoSession}] /\ session'[t] = s
  BY DEF TypeOK
<1>6. conv' \in [Terminals -> Conversations]
  BY DEF TypeOK
<1>7. record' \in [Terminals -> Snapshots \union {None}] /\ record'[t] \in Snapshots
  BY <1>2 DEF TypeOK
<1>8. long' \subseteq Terminals
  BY DEF TypeOK
<1>9. QED
  BY <1>3, <1>4, <1>5, <1>6, <1>7, <1>8

LEMMA SavingTerminal ==
    ASSUME TypeOK, OwnerInv, NEW t \in Terminals, Live(t)
    PROVE  session[t] \in Sessions /\ session[t] \in issued /\ record[t] \in Snapshots
BY DEF TypeOK, OwnerInv

\* A write that is cut short leaves the file as it was or ending in a torn line,
\* and one whose session does not count as cut leaves it as it was.
LEMMA CutShortType ==
    ASSUME TypeOK, OwnerInv, NEW t \in Terminals, Live(t), CutShort(t)
    PROVE  /\ file' \in [Sessions -> Seq(Lines)] /\ cut' \subseteq Sessions
           /\ cut \subseteq cut'
           /\ \A s \in Sessions : s # session[t] => file'[s] = file[s]
           /\ session[t] \notin cut' => file' = file /\ step[t] # "write"
           /\ \/ file' = file
              \/ file'[session[t]] # <<>> /\ Last(file'[session[t]]) = Torn
<1>1. session[t] \in Sessions /\ Torn \in Lines
  BY SavingTerminal, SnapshotFacts DEF Lines
<1>2. file \in [Sessions -> Seq(Lines)]
  BY DEF TypeOK, Lines
<1>3. CASE step[t] # "write" /\ UNCHANGED <<file, cut>>
  BY <1>1, <1>2, <1>3 DEF TypeOK
<1>4. CASE step[t] = "write" /\ UNCHANGED file /\ cut' = cut \union {session[t]}
  BY <1>1, <1>2, <1>4 DEF TypeOK
<1>5. CASE /\ file' = [file EXCEPT ![session[t]] =
                          IF step[t] = "append" THEN Appended(@, Torn) ELSE <<Torn>>]
           /\ cut' = cut \union {session[t]}
  <2> DEFINE new == IF step[t] = "append" THEN Appended(file[session[t]], Torn) ELSE <<Torn>>
  <2>1. new \in Seq(Lines) /\ new # <<>> /\ Last(new) = Torn
    BY <1>1, <1>2, AppendedIsLast, SingleLine
  <2>2. file' = [file EXCEPT ![session[t]] = new]
    BY <1>5
  <2> HIDE DEF new
  <2>3. file' \in [Sessions -> Seq(Lines)] /\ file'[session[t]] = new
    BY <1>1, <1>2, <2>1, <2>2
  <2>4. QED
    BY <1>1, <1>2, <1>5, <2>1, <2>2, <2>3 DEF TypeOK
<1>6. QED
  BY <1>3, <1>4, <1>5 DEF CutShort
-----------------------------------------------------------------------------
(* The types.                                                              *)

LEMMA NextType == TypeOK /\ OwnerInv /\ [Next]_vars => TypeOK'
<1> SUFFICES ASSUME TypeOK, OwnerInv, [Next]_vars PROVE TypeOK'
  OBVIOUS
<1> USE DEF history, terminals, Goto
<1>0. file \in [Sessions -> Seq(Lines)] /\ (file' \in [Sessions -> Seq(Lines)] <=>
         file' \in [Sessions -> Seq(Snapshots \union Unreadable)])
  BY DEF TypeOK, Lines
<1>1. ASSUME NEW t \in Terminals, AppendRecord(t) PROVE TypeOK'
  <2>1. session[t] \in Sessions /\ record[t] \in Snapshots /\ Line(t) \in Lines
    BY <1>1, SavingTerminal, SnapshotFacts DEF AppendRecord, Live, Line, Lines
  <2>2. Appended(file[session[t]], Line(t)) \in Seq(Lines)
    BY <1>0, <2>1, AppendedIsLast
  <2>3. file' \in [Sessions -> Seq(Lines)]
    BY <1>0, <1>1, <2>1, <2>2 DEF AppendRecord
  <2>4. /\ step' \in [Terminals -> Steps] /\ saved' \in [Sessions -> Snapshots \union {None}]
        /\ oversized' \subseteq Sessions /\ long' \subseteq Terminals
    BY <1>1, <2>1 DEF AppendRecord, TypeOK, Steps
  <2>5. QED
    BY <1>0, <1>1, <2>3, <2>4 DEF AppendRecord, TypeOK
<1>2. ASSUME NEW t \in Terminals, CountRecords(t) PROVE TypeOK'
  BY <1>2 DEF CountRecords, TypeOK, Steps
<1>3. ASSUME NEW t \in Terminals, LoadForRewrite(t) PROVE TypeOK'
  <2>1. session[t] \in Sessions
    BY <1>3, SavingTerminal DEF LoadForRewrite, Live
  <2>2. record' \in [Terminals -> Snapshots \union {None}]
    BY <1>3, <2>1, LoadedIsASnapshot DEF LoadForRewrite, TypeOK
  <2>3. step' \in [Terminals -> Steps]
    BY <1>3 DEF LoadForRewrite, TypeOK, Steps
  <2>4. QED
    BY <1>3, <2>2, <2>3 DEF LoadForRewrite, TypeOK
<1>4. ASSUME NEW t \in Terminals, Truncate(t) PROVE TypeOK'
  <2>1. <<>> \in Seq(Lines)
    BY EmptySeq
  <2>2. file' \in [Sessions -> Seq(Lines)]
    BY <1>0, <1>4, <2>1 DEF Truncate
  <2>3. QED
    BY <1>0, <1>4, <2>2 DEF Truncate, TypeOK, Steps
<1>5. ASSUME NEW t \in Terminals, Write(t) PROVE TypeOK'
  <2>1. session[t] \in Sessions /\ record[t] \in Lines
    BY <1>5, SavingTerminal DEF Write, Live, Lines
  <2>2. Overwritten(file[session[t]], record[t]) \subseteq Seq(Lines)
    BY <1>0, <2>1, OverwrittenType
  <2>3. file' \in [Sessions -> Seq(Lines)]
    BY <1>0, <1>5, <2>2 DEF Write
  <2>4. QED
    BY <1>0, <1>5, <2>3 DEF Write, TypeOK, Steps
<1>6. ASSUME NEW t \in Terminals, WriteFails(t) PROVE TypeOK'
  <2>1. file' \in [Sessions -> Seq(Lines)] /\ cut' \subseteq Sessions
    BY <1>6, CutShortType DEF WriteFails, Live
  <2>2. QED
    BY <1>0, <1>6, <2>1 DEF WriteFails, TypeOK, Steps
<1>7. ASSUME NEW t \in Terminals, Start(t) PROVE TypeOK'
  <2>1. PICK s \in Sessions \ issued : issued' = issued \union {s} /\ BeginSave(t, s, 0, FALSE)
    BY <1>7 DEF Start
  <2>2. 0 \in Conversations
    BY SessionAssumption DEF Conversations
  <2>3. QED
    BY <1>7, <2>1, <2>2, BeginSaveType DEF Start, TypeOK
<1>8. ASSUME NEW t \in Terminals, Run(t) PROVE TypeOK'
  <2>1. session[t] \in Sessions
    BY <1>8, SavingTerminal DEF Run, Live
  <2>2. PICK l \in BOOLEAN : BeginSave(t, session[t], clock + 1, l)
    BY <1>8 DEF Run
  <2>3. clock + 1 \in Conversations
    BY <2>2, SessionAssumption DEF BeginSave, TypeOK, Conversations
  <2>4. QED
    BY <1>8, <2>1, <2>2, <2>3, BeginSaveType DEF Run, TypeOK
<1>9. ASSUME NEW t \in Terminals, Clear(t) PROVE TypeOK'
  <2>1. session[t] \in Sessions
    BY <1>9, SavingTerminal DEF Clear, Live
  <2>2. 0 \in Conversations
    BY SessionAssumption DEF Conversations
  <2>3. QED
    BY <1>9, <2>1, <2>2, BeginSaveType DEF Clear, TypeOK
<1>10. ASSUME NEW t \in Terminals, NEW s, Resume(t, s) PROVE TypeOK'
  <2>1. s \in Sessions /\ Loaded(s) \in Snapshots
    BY <1>10, LoadedIsASnapshot DEF Resume, Listed
  <2>2. Loaded(s).conv \in Conversations
    BY <2>1 DEF Snapshots
  <2>3. shared' \subseteq Sessions
    BY <1>10, <2>1 DEF Resume, TypeOK
  <2>4. QED
    BY <1>10, <2>1, <2>2, <2>3, BeginSaveType DEF Resume, TypeOK
<1>11. ASSUME NEW t \in Terminals, Crash(t) PROVE TypeOK'
  <2>1. file' \in [Sessions -> Seq(Lines)] /\ cut' \subseteq Sessions
    BY <1>11, CutShortType DEF Crash
  <2>2. 0 \in Conversations
    BY SessionAssumption DEF Conversations
  <2>3. QED
    BY <1>0, <1>11, <2>1, <2>2 DEF Crash, TypeOK, Steps
<1>12. CASE UNCHANGED vars
  BY <1>12 DEF vars, TypeOK
<1>13. QED
  BY <1>1, <1>2, <1>3, <1>4, <1>5, <1>6, <1>7, <1>8, <1>9, <1>10, <1>11, <1>12
     DEF Next, Save, ResumeLatest
-----------------------------------------------------------------------------
(* Who has a session.                                                      *)

\* A save of a session the terminal has, or takes over, keeps the owners known.
LEMMA BeginSaveOwner ==
    ASSUME TypeOK, OwnerInv, NEW t \in Terminals, NEW s \in Sessions, NEW c \in Conversations,
           NEW l, BeginSave(t, s, c, l), UNCHANGED <<file, saved>>,
           issued \subseteq issued', s \in issued', shared \subseteq shared',
           \A u \in Terminals \ {t} : Live(u) /\ session[u] = s => s \in shared'
    PROVE  OwnerInv'
<1>1. record'[t] \in Snapshots /\ session'[t] = s /\ step'[t] = "append"
  BY BeginSaveType
<1>2. \A u \in Terminals \ {t} : session'[u] = session[u] /\ step'[u] = step[u] /\ record'[u] = record[u]
  BY DEF BeginSave, Goto, TypeOK
<1>3. \A u \in Terminals :
         IF Live(u)' THEN session'[u] \in issued' /\ record'[u] \in Snapshots
                     ELSE session'[u] = NoSession
  BY <1>1, <1>2 DEF OwnerInv, Live
<1>4. ASSUME NEW u \in Terminals, NEW v \in Terminals,
             u # v, Live(u)', session'[u] = session'[v]
      PROVE  session'[u] \in shared'
  <2>1. CASE u # t /\ v # t
    BY <1>2, <1>4, <2>1 DEF OwnerInv, Live
  <2>2. CASE u = t
    <3>1. Live(v)
      BY <1>1, <1>2, <1>4, <2>2, SessionAssumption DEF OwnerInv
    <3>2. QED
      BY <1>1, <1>2, <1>4, <2>2, <3>1
  <2>3. CASE v = t
    BY <1>1, <1>2, <1>4, <2>3 DEF Live
  <2>4. QED
    BY <2>1, <2>2, <2>3
<1>5. \A r \in Sessions \ issued' : file'[r] = <<>> /\ saved'[r] = None
  BY DEF OwnerInv
<1>6. QED
  BY <1>3, <1>4, <1>5 DEF OwnerInv

\* A step that keeps the sessions of the terminals, and writes to the file of
\* the one that takes it only, does too.
LEMMA SaveOwner ==
    ASSUME TypeOK, TypeOK', OwnerInv, NEW t \in Terminals, Live(t),
           NEW x, Goto(t, x), x # "off", record'[t] \in Snapshots,
           \A u \in Terminals \ {t} : record'[u] = record[u],
           \A s \in Sessions : s # session[t] => file'[s] = file[s] /\ saved'[s] = saved[s],
           UNCHANGED <<issued, session, shared>>
    PROVE  OwnerInv'
<1>1. step'[t] # "off" /\ \A u \in Terminals \ {t} : step'[u] = step[u]
  BY DEF Goto, TypeOK
<1>2. \A u \in Terminals : Live(u)' <=> Live(u)
  BY <1>1 DEF Live
<1>3. \A u \in Terminals :
         IF Live(u)' THEN session'[u] \in issued' /\ record'[u] \in Snapshots
                     ELSE session'[u] = NoSession
  BY <1>2 DEF OwnerInv
<1>4. \A u, v \in Terminals :
         u # v /\ Live(u)' /\ session'[u] = session'[v] => session'[u] \in shared'
  BY <1>2 DEF OwnerInv
<1>5. \A r \in Sessions \ issued' : file'[r] = <<>> /\ saved'[r] = None
  BY SavingTerminal DEF OwnerInv
<1>6. QED
  BY <1>3, <1>4, <1>5 DEF OwnerInv

LEMMA NextOwner == TypeOK /\ TypeOK' /\ OwnerInv /\ [Next]_vars => OwnerInv'
<1> SUFFICES ASSUME TypeOK, TypeOK', OwnerInv, [Next]_vars PROVE OwnerInv'
  OBVIOUS
<1> USE DEF history, terminals
<1>0. 0 \in Conversations
  BY SessionAssumption DEF Conversations
<1>1. ASSUME NEW t \in Terminals, AppendRecord(t) PROVE OwnerInv'
  <2>1. Live(t)
    BY <1>1 DEF AppendRecord, Live
  <2>2. \A s \in Sessions : s # session[t] => file'[s] = file[s] /\ saved'[s] = saved[s]
    BY <1>1 DEF AppendRecord, TypeOK
  <2>3. record'[t] \in Snapshots /\ Goto(t, "count")
    BY <1>1, <2>1, SavingTerminal DEF AppendRecord
  <2>4. QED
    BY <1>1, <2>1, <2>2, <2>3, SaveOwner DEF AppendRecord
<1>2. ASSUME NEW t \in Terminals, CountRecords(t) PROVE OwnerInv'
  <2> DEFINE x == IF /\ Len(file[session[t]]) > MaxRecords
                     /\ \A i \in DOMAIN file[session[t]] : file[session[t]][i] # TooLong
                  THEN "load" ELSE "prompt"
  <2>1. Live(t) /\ Goto(t, x) /\ x # "off"
    BY <1>2 DEF CountRecords, Live
  <2>2. record'[t] \in Snapshots
    BY <1>2, <2>1, SavingTerminal DEF CountRecords
  <2> HIDE DEF x
  <2>3. QED
    BY <1>2, <2>1, <2>2, SaveOwner DEF CountRecords
<1>3. ASSUME NEW t \in Terminals, LoadForRewrite(t) PROVE OwnerInv'
  <2>1. Live(t)
    BY <1>3 DEF LoadForRewrite, Live
  <2>2. session[t] \in Sessions /\ record[t] \in Snapshots
    BY <2>1, SavingTerminal
  <2>3. record'[t] \in Snapshots /\ \A u \in Terminals \ {t} : record'[u] = record[u]
    BY <1>3, <2>2, LoadedIsASnapshot DEF LoadForRewrite, TypeOK
  <2>4. Goto(t, "truncate") \/ Goto(t, "prompt")
    BY <1>3 DEF LoadForRewrite
  <2>5. QED
    BY <1>3, <2>1, <2>3, <2>4, SaveOwner DEF LoadForRewrite
<1>4. ASSUME NEW t \in Terminals, Truncate(t) PROVE OwnerInv'
  <2>1. Live(t)
    BY <1>4 DEF Truncate, Live
  <2>2. \A s \in Sessions : s # session[t] => file'[s] = file[s] /\ saved'[s] = saved[s]
    BY <1>4 DEF Truncate, TypeOK
  <2>3. QED
    BY <1>4, <2>1, <2>2, SaveOwner, SavingTerminal DEF Truncate
<1>5. ASSUME NEW t \in Terminals, Write(t) PROVE OwnerInv'
  <2>1. Live(t)
    BY <1>5 DEF Write, Live
  <2>2. \A s \in Sessions : s # session[t] => file'[s] = file[s] /\ saved'[s] = saved[s]
    BY <1>5 DEF Write, TypeOK
  <2>3. QED
    BY <1>5, <2>1, <2>2, SaveOwner, SavingTerminal DEF Write
<1>6. ASSUME NEW t \in Terminals, WriteFails(t) PROVE OwnerInv'
  <2>1. Live(t)
    BY <1>6 DEF WriteFails, Live
  <2>2. \A s \in Sessions : s # session[t] => file'[s] = file[s] /\ saved'[s] = saved[s]
    BY <1>6, <2>1, CutShortType DEF WriteFails
  <2>3. QED
    BY <1>6, <2>1, <2>2, SaveOwner, SavingTerminal DEF WriteFails
<1>7. ASSUME NEW t \in Terminals, Start(t) PROVE OwnerInv'
  <2>1. PICK s \in Sessions \ issued : issued' = issued \union {s} /\ BeginSave(t, s, 0, FALSE)
    BY <1>7 DEF Start
  <2>2. \A u \in Terminals \ {t} : ~(Live(u) /\ session[u] = s)
    BY DEF OwnerInv
  <2>3. QED
    BY <1>0, <1>7, <2>1, <2>2, BeginSaveOwner DEF Start
<1>8. ASSUME NEW t \in Terminals, Run(t) \/ Clear(t) PROVE OwnerInv'
  <2>1. Live(t)
    BY <1>8 DEF Run, Clear, Live
  <2>2. session[t] \in Sessions /\ session[t] \in issued
    BY <2>1, SavingTerminal
  <2>3. \A u \in Terminals \ {t} : Live(u) /\ session[u] = session[t] => session[t] \in shared
    BY <2>1 DEF OwnerInv
  <2>4. PICK c \in Conversations, l \in BOOLEAN : BeginSave(t, session[t], c, l)
    <3>1. CASE Run(t)
      <4>1. PICK l \in BOOLEAN : BeginSave(t, session[t], clock + 1, l)
        BY <3>1 DEF Run
      <4>2. clock + 1 \in Conversations
        BY <4>1, SessionAssumption DEF BeginSave, TypeOK, Conversations
      <4>3. QED
        BY <4>1, <4>2
    <3>2. CASE Clear(t)
      BY <1>0, <3>2 DEF Clear
    <3>3. QED
      BY <1>8, <3>1, <3>2
  <2>5. UNCHANGED <<file, issued, saved, shared>>
    BY <1>8 DEF Run, Clear
  <2>6. QED
    BY <2>2, <2>3, <2>4, <2>5, BeginSaveOwner
<1>9. ASSUME NEW t \in Terminals, NEW s, Resume(t, s) PROVE OwnerInv'
  <2>1. s \in Sessions /\ file[s] # <<>> /\ Loaded(s) \in Snapshots
    BY <1>9, LoadedIsASnapshot DEF Resume, Listed, Readable
  <2>2. Loaded(s).conv \in Conversations /\ s \in issued
    BY <2>1 DEF Snapshots, OwnerInv
  <2>3. shared \subseteq shared' /\ \A u \in Terminals \ {t} : Live(u) /\ session[u] = s => s \in shared'
    BY <1>9 DEF Resume
  <2>4. BeginSave(t, s, Loaded(s).conv, FALSE) /\ UNCHANGED <<file, issued, saved>>
    BY <1>9 DEF Resume
  <2>5. QED
    BY <2>1, <2>2, <2>3, <2>4, BeginSaveOwner
<1>10. ASSUME NEW t \in Terminals, Crash(t) PROVE OwnerInv'
  <2>1. session[t] \in issued /\ \A s \in Sessions : s # session[t] => file'[s] = file[s]
    BY <1>10, CutShortType, SavingTerminal DEF Crash
  <2>2. step'[t] = "off" /\ session'[t] = NoSession
    BY <1>10 DEF Crash, Goto, TypeOK
  <2>3. \A u \in Terminals \ {t} : session'[u] = session[u] /\ step'[u] = step[u] /\ record'[u] = record[u]
    BY <1>10 DEF Crash, Goto, TypeOK
  <2>4. \A u \in Terminals :
           IF Live(u)' THEN session'[u] \in issued' /\ record'[u] \in Snapshots
                       ELSE session'[u] = NoSession
    BY <1>10, <2>2, <2>3 DEF Crash, OwnerInv, Live
  <2>5. \A u, v \in Terminals :
           u # v /\ Live(u)' /\ session'[u] = session'[v] => session'[u] \in shared'
    <3>1. SUFFICES ASSUME NEW u \in Terminals, NEW v \in Terminals,
                          u # v, Live(u)', session'[u] = session'[v]
                   PROVE  session'[u] \in shared'
      OBVIOUS
    <3>2. u # t /\ Live(u) /\ session[u] # NoSession
      BY <2>2, <2>3, <3>1, SavingTerminal, SessionAssumption DEF Live
    <3>3. v # t
      BY <2>2, <2>3, <3>1, <3>2
    <3>4. QED
      BY <1>10, <2>3, <3>1, <3>2, <3>3 DEF Crash, OwnerInv
  <2>6. \A r \in Sessions \ issued' : file'[r] = <<>> /\ saved'[r] = None
    BY <1>10, <2>1 DEF Crash, OwnerInv
  <2>7. QED
    BY <2>4, <2>5, <2>6 DEF OwnerInv
<1>11. CASE UNCHANGED vars
  BY <1>11 DEF vars, OwnerInv, Live
<1>12. QED
  BY <1>1, <1>2, <1>3, <1>4, <1>5, <1>6, <1>7, <1>8, <1>9, <1>10, <1>11
     DEF Next, Save, ResumeLatest
-----------------------------------------------------------------------------
(* What a session's file holds, while one terminal has it.                 *)

\* A step that keeps a session's file, and neither begins nor ends a rewrite of
\* it, keeps what is known of it.
LEMMA Untouched ==
    ASSUME NEW s \in Sessions, LogInv(s), file'[s] = file[s], saved'[s] = saved[s],
           cut \subseteq cut', oversized \subseteq oversized',
           \A u \in Terminals : session'[u] = s /\ Rewriting(u)' =>
               session[u] = s /\ step'[u] = step[u] /\ record'[u] = record[u],
           \A u \in Terminals : session[u] = s /\ step[u] = "write" =>
               session'[u] = s /\ step'[u] = "write"
    PROVE  LogInv(s)'
BY DEF LogInv, Rewriting, Readable, Loaded

\* The terminal that has a session to itself ends what it did to the file: it
\* was cut short, or left as it was.
LEMMA UntouchedOrCut ==
    ASSUME TypeOK, OwnerInv, NEW t \in Terminals, Live(t), CutShort(t),
           NEW s \in Sessions, session[t] = s, LogInv(s),
           saved' = saved, oversized' = oversized, step'[t] \notin {"truncate", "write"},
           \A u \in Terminals \ {t} : session'[u] # s /\ session[u] # s
    PROVE  LogInv(s)'
<1>1. \A u \in Terminals : session'[u] = s => ~Rewriting(u)'
  BY DEF Rewriting
<1>2. CASE s \notin cut'
  <2>1. file' = file /\ step[t] # "write" /\ cut \subseteq cut'
    BY <1>2, CutShortType
  <2>2. QED
    BY <1>1, <2>1, Untouched
<1>3. CASE s \in cut'
  <2>1. /\ file' = file \/ (file'[s] # <<>> /\ Last(file'[s]) = Torn)
        /\ file'[s] \in Seq(Lines)
    BY CutShortType
  <2>2. Readable(s)' => file' = file
    BY <2>1, ReadableLast, SnapshotFacts DEF Readable
  <2>3. QED
    BY <1>1, <1>3, <2>2 DEF LogInv, Readable, Loaded
<1>4. QED
  BY <1>2, <1>3

LEMMA NextAlone == IInv /\ TypeOK' /\ OwnerInv' /\ [Next]_vars => AloneInv'
<1> SUFFICES ASSUME IInv, TypeOK', OwnerInv', [Next]_vars,
                    NEW s \in Sessions, Alone(s)'
             PROVE  LogInv(s)'
  BY DEF AloneInv
<1> USE DEF history, terminals
<1>a. TypeOK /\ OwnerInv
  BY DEF IInv
\* Whoever acts, the sessions of the others stay as they are ...
<1>b. ASSUME NEW t \in Terminals, LogInv(s), file'[s] = file[s], saved'[s] = saved[s],
             cut \subseteq cut', oversized \subseteq oversized',
             \A u \in Terminals \ {t} : /\ session'[u] = session[u] /\ step'[u] = step[u]
                                        /\ record'[u] = record[u],
             session'[t] = s => ~Rewriting(t)',
             session[t] = s => step[t] # "write"
      PROVE  LogInv(s)'
  BY <1>b, Untouched
\* ... and a session that is not shared has one terminal at most.
<1>c. ASSUME NEW t \in Terminals, shared' = shared, session[t] = s, Live(t)
      PROVE  \A u \in Terminals \ {t} : session[u] # s
  BY <1>a, <1>c DEF OwnerInv, Alone
<1>d. ASSUME shared \subseteq shared'
      PROVE  LogInv(s)
  BY <1>d DEF IInv, AloneInv, Alone
<1>1. ASSUME NEW t \in Terminals, AppendRecord(t) PROVE LogInv(s)'
  <2>1. step'[t] = "count" /\ session' = session /\ LogInv(s) /\ Live(t)
    BY <1>1, <1>a, <1>d DEF AppendRecord, Goto, TypeOK, Live
  <2>2. \A u \in Terminals \ {t} : /\ session'[u] = session[u] /\ step'[u] = step[u]
                                   /\ record'[u] = record[u]
    BY <1>1, <1>a DEF AppendRecord, Goto, TypeOK
  <2>3. CASE session[t] # s
    <3>1. /\ file'[s] = file[s] /\ saved'[s] = saved[s] /\ cut' = cut
          /\ oversized \subseteq oversized'
      BY <1>1, <1>a, <2>3 DEF AppendRecord, TypeOK
    <3>2. QED
      BY <1>b, <2>1, <2>2, <2>3, <3>1
  <2>4. CASE session[t] = s
    <3>1. \A u \in Terminals \ {t} : session[u] # s
      BY <1>1, <1>c, <2>1, <2>4 DEF AppendRecord
    <3>2. record[t] \in Snapshots /\ Line(t) \in Lines /\ (t \notin long => Line(t) = record[t])
      BY <1>a, <2>1, SavingTerminal, SnapshotFacts DEF Lines, Line
    <3>3. file[s] \in Seq(Lines)
      BY <1>a DEF TypeOK, Lines
    <3>4. /\ file'[s] = Appended(file[s], Line(t)) /\ saved'[s] = record[t] /\ cut' = cut
          /\ oversized \subseteq oversized' /\ (t \in long => s \in oversized')
      BY <1>1, <1>a, <2>4 DEF AppendRecord, TypeOK
    <3>5. Readable(s)' => Loaded(s)' = record[t]
      <4>1. SUFFICES ASSUME Readable(s)' PROVE Loaded(s)' = record[t]
        OBVIOUS
      <4>2. file'[s] \in Seq(Lines) /\ file'[s] # <<>>
        BY <3>2, <3>3, <3>4, AppendedIsLast
      <4>3. Last(file'[s]) \notin Unreadable
        BY <4>1, <4>2, ReadableLast, SnapshotFacts DEF Readable
      <4>4. Last(file'[s]) = Line(t)
        BY <3>2, <3>3, <3>4, <4>3, AppendedIsLast, SnapshotFacts
      <4>5. t \notin long
        BY <4>3, <4>4, SnapshotFacts DEF Line
      <4>6. QED
        BY <3>2, <4>4, <4>5 DEF Loaded
    <3>6. s \notin cut' \union oversized' => Readable(s)'
      <4>1. SUFFICES ASSUME s \notin cut' \union oversized' PROVE Readable(s)'
        OBVIOUS
      <4>2. s \notin cut \union oversized /\ t \notin long
        BY <3>4, <4>1
      <4>3. \A u \in Terminals : session[u] = s => step[u] # "write"
        BY <1>1, <3>1 DEF AppendRecord
      <4>4. \A i \in DOMAIN file[s] : file[s][i] \notin Unreadable
        <5>1. CASE saved[s] = None
          BY <2>1, <4>2, <5>1 DEF LogInv
        <5>2. CASE saved[s] # None
          BY <2>1, <4>2, <4>3, <5>2 DEF LogInv, Readable
        <5>3. QED
          BY <5>1, <5>2
      <4>5. ~(file[s] # <<>> /\ Last(file[s]) = Torn)
        BY <3>3, <4>4, ReadableLast, SnapshotFacts
      <4>6. /\ Appended(file[s], record[t]) # <<>>
            /\ \A i \in DOMAIN file[s] : Appended(file[s], record[t])[i] = file[s][i]
            /\ \A i \in DOMAIN Appended(file[s], record[t]) :
                  i \in DOMAIN file[s] \/ Appended(file[s], record[t])[i] = record[t]
        BY <3>2, <3>3, <4>5, AppendedIsLast DEF Lines
      <4>7. record[t] \notin Unreadable
        BY <3>2, SnapshotFacts
      <4>8. \A i \in DOMAIN Appended(file[s], record[t]) :
               Appended(file[s], record[t])[i] \notin Unreadable
        BY <4>4, <4>6, <4>7
      <4>9. file'[s] = Appended(file[s], record[t])
        BY <3>2, <3>4, <4>2
      <4>10. QED
        BY <4>6, <4>8, <4>9 DEF Readable
    <3>7. \A u \in Terminals : session'[u] = s => ~Rewriting(u)'
      BY <2>1, <3>1 DEF Rewriting
    <3>8. record[t].time >= record[t].time /\ record[t] # None
      BY <3>2, SnapshotFacts
    <3>9. QED
      BY <3>4, <3>5, <3>6, <3>7, <3>8 DEF LogInv
  <2>5. QED
    BY <2>3, <2>4
<1>2. ASSUME NEW t \in Terminals, CountRecords(t) PROVE LogInv(s)'
  <2>1. step'[t] \in {"load", "prompt"} /\ step[t] # "write"
    BY <1>2, <1>a DEF CountRecords, Goto, TypeOK
  <2>2. \A u \in Terminals \ {t} : /\ session'[u] = session[u] /\ step'[u] = step[u]
                                   /\ record'[u] = record[u]
    BY <1>2, <1>a DEF CountRecords, Goto, TypeOK
  <2>3. QED
    BY <1>2, <1>b, <1>d, <2>1, <2>2 DEF CountRecords, Rewriting
<1>3. ASSUME NEW t \in Terminals, LoadForRewrite(t) PROVE LogInv(s)'
  <2>1. LogInv(s) /\ Live(t) /\ step[t] # "write"
    BY <1>3, <1>d DEF LoadForRewrite, Live
  <2>2. \A u \in Terminals \ {t} : /\ session'[u] = session[u] /\ step'[u] = step[u]
                                   /\ record'[u] = record[u]
    BY <1>3, <1>a DEF LoadForRewrite, Goto, TypeOK
  <2>3. CASE session[t] = s /\ Readable(s)
    <3>1. \A u \in Terminals \ {t} : session[u] # s
      BY <1>3, <1>c, <2>1, <2>3 DEF LoadForRewrite
    <3>2. record'[t] = Loaded(s) /\ step'[t] = "truncate"
      BY <1>3, <1>a, <2>3 DEF LoadForRewrite, Goto, TypeOK
    <3>3. s \notin cut \union oversized => Loaded(s) = saved[s]
      BY <2>1, <2>3, <3>1 DEF LogInv, Readable
    <3>4. \A u \in Terminals : session'[u] = s => u = t
      BY <1>3, <3>1 DEF LoadForRewrite
    <3>5. UNCHANGED <<file, saved, cut, oversized>> /\ (Readable(s)' <=> Readable(s)) /\ Loaded(s)' = Loaded(s)
      BY <1>3 DEF LoadForRewrite, Readable, Loaded
    <3>6. QED
      BY <2>1, <2>3, <3>1, <3>2, <3>3, <3>4, <3>5 DEF LogInv, Readable
  <2>4. CASE session[t] = s /\ ~Readable(s)
    <3>1. step'[t] = "prompt"
      BY <1>3, <1>a, <2>4 DEF LoadForRewrite, Goto, TypeOK
    <3>2. QED
      BY <1>3, <1>b, <2>1, <2>2, <3>1 DEF LoadForRewrite, Rewriting
  <2>5. CASE session[t] # s
    BY <1>3, <1>b, <2>1, <2>2, <2>5 DEF LoadForRewrite
  <2>6. QED
    BY <2>3, <2>4, <2>5
<1>4. ASSUME NEW t \in Terminals, Truncate(t) PROVE LogInv(s)'
  <2>1. LogInv(s) /\ Live(t) /\ step'[t] = "write"
    BY <1>4, <1>a, <1>d DEF Truncate, Goto, TypeOK, Live
  <2>2. \A u \in Terminals \ {t} : /\ session'[u] = session[u] /\ step'[u] = step[u]
                                   /\ record'[u] = record[u]
    BY <1>4, <1>a DEF Truncate, Goto, TypeOK
  <2>3. CASE session[t] # s
    <3>1. file'[s] = file[s] /\ UNCHANGED <<session, saved, cut, oversized>>
      BY <1>4, <1>a, <2>3 DEF Truncate, TypeOK
    <3>2. QED
      BY <1>b, <2>1, <2>2, <2>3, <3>1
  <2>4. CASE session[t] = s
    <3>1. \A u \in Terminals \ {t} : session[u] # s
      BY <1>4, <1>c, <2>1, <2>4 DEF Truncate
    <3>2. file'[s] = <<>> /\ UNCHANGED <<session, record, saved, cut, oversized>>
      BY <1>4, <1>a, <2>4 DEF Truncate, TypeOK
    <3>3. record[t].time >= saved[s].time /\ (s \notin cut \union oversized => record[t] = saved[s])
      BY <1>4, <2>1, <2>4 DEF Truncate, LogInv, Rewriting
    <3>4. QED
      BY <2>1, <2>4, <3>1, <3>2, <3>3 DEF LogInv, Readable
  <2>5. QED
    BY <2>3, <2>4
<1>5. ASSUME NEW t \in Terminals, Write(t) PROVE LogInv(s)'
  <2>1. LogInv(s) /\ Live(t) /\ step'[t] = "prompt"
    BY <1>5, <1>a, <1>d DEF Write, Goto, TypeOK, Live
  <2>2. \A u \in Terminals \ {t} : /\ session'[u] = session[u] /\ step'[u] = step[u]
                                   /\ record'[u] = record[u]
    BY <1>5, <1>a DEF Write, Goto, TypeOK
  <2>3. CASE session[t] # s
    <3>1. file'[s] = file[s] /\ UNCHANGED <<session, saved, cut, oversized>>
      BY <1>5, <1>a, <2>3 DEF Write, TypeOK
    <3>2. QED
      BY <1>b, <2>1, <2>2, <2>3, <3>1
  <2>4. CASE session[t] = s
    <3>1. \A u \in Terminals \ {t} : session[u] # s
      BY <1>5, <1>c, <2>1, <2>4 DEF Write
    <3>2. record[t] \in Snapshots /\ record[t] \in Lines /\ record[t] # None
      BY <1>a, <2>1, SavingTerminal, SnapshotFacts DEF Lines
    <3>3. /\ record[t].time >= saved[s].time /\ (s \notin cut \union oversized => record[t] = saved[s])
          /\ file[s] = <<>>
      BY <1>5, <2>1, <2>4 DEF Write, LogInv, Rewriting
    <3>4. file'[s] = <<record[t]>> /\ UNCHANGED <<session, record, saved, cut, oversized>>
      BY <1>5, <1>a, <2>4, <3>3, OverwrittenEmpty DEF Write, TypeOK
    <3>5. Readable(s)' /\ Loaded(s)' = record[t]
      BY <3>2, <3>4, SingleLine, SnapshotFacts DEF Loaded, Readable
    <3>6. \A u \in Terminals : session'[u] = s => ~Rewriting(u)'
      BY <2>1, <3>1, <3>4 DEF Rewriting
    <3>7. QED
      BY <3>2, <3>3, <3>4, <3>5, <3>6 DEF LogInv
  <2>5. QED
    BY <2>3, <2>4
<1>6. ASSUME NEW t \in Terminals, WriteFails(t) \/ Crash(t) PROVE LogInv(s)'
  <2>1. LogInv(s) /\ Live(t) /\ CutShort(t) /\ step'[t] \in {"prompt", "off"}
    BY <1>6, <1>a, <1>d DEF WriteFails, Crash, Goto, TypeOK, Live
  <2>2. \A u \in Terminals \ {t} : /\ session'[u] = session[u] /\ step'[u] = step[u]
                                   /\ record'[u] = record[u]
    BY <1>6, <1>a DEF WriteFails, Crash, Goto, TypeOK
  <2>3. UNCHANGED <<saved, shared, oversized>>
    BY <1>6 DEF WriteFails, Crash
  <2>4. CASE session[t] # s
    <3>1. file'[s] = file[s] /\ cut \subseteq cut'
      BY <1>a, <2>1, <2>4, CutShortType
    <3>2. QED
      BY <1>b, <2>1, <2>2, <2>3, <2>4, <3>1 DEF Rewriting
  <2>5. CASE session[t] = s
    <3>1. \A u \in Terminals \ {t} : session[u] # s
      BY <1>c, <2>1, <2>3, <2>5
    <3>2. QED
      BY <1>a, <2>1, <2>2, <2>3, <2>5, <3>1, UntouchedOrCut
  <2>6. QED
    BY <2>4, <2>5
<1>7. ASSUME NEW t \in Terminals, NEW r, NEW c, NEW l, BeginSave(t, r, c, l), step[t] # "write",
             UNCHANGED <<file, saved, cut, oversized>>, shared \subseteq shared'
      PROVE  LogInv(s)'
  <2>1. step'[t] = "append"
    BY <1>7, <1>a DEF BeginSave, Goto, TypeOK
  <2>2. \A u \in Terminals \ {t} : /\ session'[u] = session[u] /\ step'[u] = step[u]
                                   /\ record'[u] = record[u]
    BY <1>7, <1>a DEF BeginSave, Goto, TypeOK
  <2>3. QED
    BY <1>7, <1>b, <1>d, <2>1, <2>2 DEF Rewriting
<1>8. ASSUME NEW t \in Terminals, Start(t) PROVE LogInv(s)'
  BY <1>7, <1>8 DEF Start, Live
<1>9. ASSUME NEW t \in Terminals, Run(t) \/ Clear(t) PROVE LogInv(s)'
  BY <1>7, <1>9 DEF Run, Clear
<1>10. ASSUME NEW t \in Terminals, NEW r, Resume(t, r) PROVE LogInv(s)'
  BY <1>7, <1>10 DEF Resume
<1>11. CASE UNCHANGED vars
  <2>1. \A u \in Terminals : session'[u] = session[u] /\ step'[u] = step[u] /\ record'[u] = record[u]
    BY <1>11 DEF vars
  <2>2. QED
    BY <1>11, <1>d, <2>1, Untouched DEF vars
<1>12. QED
  BY <1>1, <1>2, <1>3, <1>4, <1>5, <1>6, <1>8, <1>9, <1>10, <1>11
     DEF Next, Save, ResumeLatest
-----------------------------------------------------------------------------
\* The invariant holds in every reachable state.
THEOREM Invariance == Spec => []IInv
<1>1. IInv /\ [Next]_vars => IInv'
  BY NextType, NextOwner, NextAlone DEF IInv
<1>2. QED
  BY InitIInv, <1>1, PTL DEF Spec

\* Every variable keeps its type: what is in a file is a snapshot that was saved
\* at some time, or the rest of a line that was cut off.
THEOREM TypeCorrect == Spec => []TypeOK
<1>1. IInv => TypeOK
  BY DEF IInv
<1>2. QED
  BY <1>1, Invariance, PTL

\* However many terminals share the directory, and wherever each of them is
\* killed or fails to write, a session that no two of them had open at once
\* cannot be resumed, or is resumed as it was saved last or later.
THEOREM ResumeLosesNothing == Spec => []NeverStale
<1>1. IInv => NeverStale
  BY DEF IInv, AloneInv, LogInv, NeverStale, Listed
<1>2. QED
  BY <1>1, Invariance, PTL

\* While nothing is cut short in such a session, and no record of it was longer
\* than the readers take, it can be resumed whenever its terminal is at the prompt,
\* and with just what was saved last.
THEOREM SavesReadBack == Spec => []SavesAreKept
<1>1. IInv => SavesAreKept
  BY DEF IInv, AloneInv, LogInv, SavesAreKept, AtRest, ReadsBack
<1>2. QED
  BY <1>1, Invariance, PTL

-----------------------------------------------------------------------------
(***************************************************************************)
(* ToolLoop.                                                               *)
(***************************************************************************)

\* A summary is only the first message, and a prompt follows it: a compaction
\* strips the summary of the one before.  What is sent starts with either.
Shape(s) ==
    /\ \A i \in DOMAIN s : s[i].type = "summary" => i = 1 /\ Len(s) >= 2 /\ s[2].type = "prompt"
    /\ s # <<>> => IsTurnStart(s[1])

\* Tool calls are answered by the next message, except the last ones if open.
Whole(s, open) ==
    \A i \in DOMAIN s :
        /\ s[i].type = "calls" => Answered(s, i) \/ (i = Len(s) /\ open)
        /\ s[i].type = "results" => i > 1 /\ s[i - 1].type = "calls"

\* Each message but a summary tells of one prompt asked; those of a prompt
\* come before those of a later one, and only the first of them is the prompt.
Numbered(s) ==
    \A i \in DOMAIN s : s[i].type # "summary" => \E p \in 1 .. prompt : s[i].about = {p}
Ordered(s) ==
    \A i, j \in DOMAIN s : \A p, q \in 1 .. prompt :
        i < j /\ s[i].type # "summary" /\ s[i].about = {p} /\ s[j].about = {q} =>
            /\ s[j].type # "summary" => p <= q
            /\ s[j].type = "prompt" => p < q

MessagesInv ==
    /\ Shape(messages) /\ Whole(messages, pc = "results")
    /\ Numbered(messages) /\ Ordered(messages)
    /\ pc # "idle" => messages # <<>>
    /\ pc = "results" => /\ messages[Len(messages)].type = "calls"
                         /\ messages[Len(messages)].uses = uses

\* A run goes on only within its limits and without an error of the endpoint.
LimitsInv ==
    /\ pc # "idle" => apiErrors = 0
    /\ pc \in {"compact", "turn", "results"} => turn < MaxTurn
    /\ pc = "results" => toolCalls + uses <= MaxToolCalls

ForkInv ==
    \A i \in DOMAIN forkMessages :
        forkMessages[i].type = "calls" =>
            Answered(forkMessages, i) \/ i + 1 = Len(forkMessages)

LoopIInv == LoopTypeOK /\ MessagesInv /\ LimitsInv /\ ForkInv
-----------------------------------------------------------------------------
(* Numbers and positions.                                                  *)

\* Every set of numbers that is not empty has a least one.
LEMMA LeastNumber ==
    ASSUME NEW T \in SUBSET Nat, T # {}
    PROVE  \E m \in T : \A k \in T : m <= k
<1> DEFINE R == OpToRel(<, Nat)
<1>1. \A x, y \in Nat : x < y => <<x, y>> \in R
  BY DEF OpToRel
<1>2. IsWellFoundedOn(R, Nat)
  BY NatLessThanWellFounded
<1> HIDE DEF R
<1>3. PICK m \in T : \A k \in T : ~(<<k, m>> \in R)
  BY <1>2, WFMin
<1>4. ASSUME NEW k \in T PROVE m <= k
  <2>1. k \in Nat /\ m \in Nat
    OBVIOUS
  <2>2. ~(k < m)
    BY <1>1, <1>3, <2>1
  <2>3. QED
    BY <2>1, <2>2
<1>5. QED
  BY <1>4

\* Max, of FiniteSetsExt, on positions.
LEMMA MaxIsGreatest ==
    ASSUME NEW n \in Nat, NEW T \in SUBSET (1 .. n), T # {}
    PROVE  Max(T) \in T /\ \A k \in T : k <= Max(T)
<1> DEFINE U == {k \in Nat : n - k \in T}
<1>1. U # {}
  <2>1. PICK t \in T : TRUE
    OBVIOUS
  <2>2. n - t \in U
    OBVIOUS
  <2>3. QED
    BY <2>2
<1>2. PICK m \in U : \A k \in U : m <= k
  BY <1>1, LeastNumber
<1>3. n - m \in T
  BY <1>2
<1>4. ASSUME NEW k \in T PROVE n - m >= k
  <2>1. n - k \in U
    OBVIOUS
  <2>2. QED
    BY <1>2, <2>1
<1>5. QED
  BY <1>3, <1>4 DEF Max

\* How many of the positions in keep are not after i.
UpTo(keep, i) == {j \in keep : j <= i}

\* A set of positions and each beginning of it are finite.
LEMMA UpToCounts ==
    ASSUME NEW n \in Nat, NEW keep \in SUBSET (1 .. n), NEW i \in Int
    PROVE  /\ IsFiniteSet(keep) /\ IsFiniteSet(UpTo(keep, i))
           /\ Cardinality(keep) \in Nat /\ Cardinality(UpTo(keep, i)) \in Nat
           /\ Cardinality(UpTo(keep, i)) <= Cardinality(keep)
<1>1. IsFiniteSet(keep)
  <2>1. IsFiniteSet(1 .. n)
    BY FS_Interval, 1 \in Int, n \in Int
  <2>2. QED
    BY <2>1, FS_Subset
<1>2. UpTo(keep, i) \in SUBSET keep
  BY DEF UpTo
<1>3. QED
  BY <1>1, <1>2, FS_Subset, FS_CardinalityType

\* The count grows with the positions kept.
LEMMA UpToGrows ==
    ASSUME NEW n \in Nat, NEW keep \in SUBSET (1 .. n), NEW i \in Int, NEW j \in keep, i < j
    PROVE  Cardinality(UpTo(keep, i)) < Cardinality(UpTo(keep, j))
<1> DEFINE A == UpTo(keep, i) B == UpTo(keep, j)
<1>0. keep \subseteq Int /\ j \in Int
  OBVIOUS
<1>1. IsFiniteSet(A) /\ IsFiniteSet(B) /\ Cardinality(A) \in Nat /\ Cardinality(B) \in Nat
  BY <1>0, UpToCounts
<1>2. A \in SUBSET B /\ A # B
  <2>1. j \in B /\ j \notin A
    BY <1>0 DEF UpTo
  <2>2. A \in SUBSET B
    <3>1. \A l \in keep : l <= i => l <= j
      BY <1>0
    <3>2. QED
      BY <3>1 DEF UpTo
  <2>3. QED
    BY <2>1, <2>2
<1>3. Cardinality(A) <= Cardinality(B) /\ Cardinality(A) # Cardinality(B)
  BY <1>1, <1>2, FS_Subset
<1>4. QED
  BY <1>1, <1>3

\* There is a k-th position, and one only, which Nth chooses.
LEMMA NthIs ==
    ASSUME NEW n \in Nat, NEW keep \in SUBSET (1 .. n), NEW i \in keep
    PROVE  Nth(keep, Cardinality(UpTo(keep, i))) = i
<1>1. ASSUME NEW j \in keep, Cardinality(UpTo(keep, j)) = Cardinality(UpTo(keep, i))
      PROVE  j = i
  <2>1. j \in Int /\ i \in Int
    OBVIOUS
  <2>2. Cardinality(UpTo(keep, i)) \in Nat
    BY <2>1, UpToCounts
  <2>3. ~(i < j) /\ ~(j < i)
    <3>1. i < j => Cardinality(UpTo(keep, i)) < Cardinality(UpTo(keep, j))
      BY <2>1, UpToGrows
    <3>2. j < i => Cardinality(UpTo(keep, j)) < Cardinality(UpTo(keep, i))
      BY <2>1, UpToGrows
    <3>3. QED
      BY <1>1, <2>2, <3>1, <3>2
  <2>4. QED
    BY <2>1, <2>3
<1>2. QED
  BY <1>1 DEF Nth, UpTo

\* Nth is defined: every position in keep has its own number.
LEMMA NthExists ==
    ASSUME NEW n \in Nat, NEW keep \in SUBSET (1 .. n), NEW k \in 1 .. Cardinality(keep)
    PROVE  /\ Nth(keep, k) \in keep
           /\ Cardinality(UpTo(keep, Nth(keep, k))) = k
<1> DEFINE T == {i \in Nat : Cardinality(UpTo(keep, i)) >= k}
<1>1. Cardinality(keep) \in Nat /\ k \in Nat \ {0}
  <2>1. Cardinality(keep) \in Nat
    BY UpToCounts, 0 \in Int
  <2>2. QED
    BY <2>1
<1>2. UpTo(keep, n) = keep
  <2>1. \A j \in keep : j <= n
    OBVIOUS
  <2>2. QED
    BY <2>1 DEF UpTo
<1>3. T # {}
  BY <1>1, <1>2
<1>4. PICK m \in T : \A i \in T : m <= i
  BY <1>3, LeastNumber
<1>5. Cardinality(UpTo(keep, m)) >= k /\ m \in Nat
  BY <1>4
<1>6. m # 0
  <2>1. UpTo(keep, 0) = {}
    <3>1. \A j \in keep : ~(j <= 0)
      OBVIOUS
    <3>2. QED
      BY <3>1 DEF UpTo
  <2>2. Cardinality(UpTo(keep, 0)) = 0
    BY <2>1, FS_EmptySet
  <2>3. QED
    BY <1>1, <1>5, <2>2
<1>7. m - 1 \in Nat /\ m - 1 \in Int /\ m - 1 \notin T
  BY <1>4, <1>5, <1>6
<1>8. Cardinality(UpTo(keep, m - 1)) < k
  <2> DEFINE size == Cardinality(UpTo(keep, m - 1))
  <2>1. size \in Nat
    BY <1>7, UpToCounts
  <2>2. ~(size >= k)
    BY <1>7
  <2> HIDE DEF size
  <2>3. size < k
    BY <1>1, <2>1, <2>2
  <2>4. QED
    BY <2>3 DEF size
<1>0. keep \subseteq Int
  OBVIOUS
<1>9. m \in keep
  <2>1. CASE m \notin keep
    <3>1. UpTo(keep, m) = UpTo(keep, m - 1)
      <4>1. \A j \in keep : j <= m <=> j <= m - 1
        BY <1>0, <1>5, <2>1
      <4>2. QED
        BY <4>1 DEF UpTo
    <3>2. Cardinality(UpTo(keep, m - 1)) \in Nat
      BY <1>7, UpToCounts
    <3>3. QED
      BY <1>1, <1>5, <1>8, <3>1, <3>2
  <2>2. QED
    BY <2>1
<1>10. Cardinality(UpTo(keep, m)) = k
  <2>1. UpTo(keep, m) = UpTo(keep, m - 1) \union {m} /\ m \notin UpTo(keep, m - 1)
    <3>1. \A j \in keep : j <= m <=> j <= m - 1 \/ j = m
      BY <1>0, <1>5
    <3>2. m <= m /\ ~(m <= m - 1)
      BY <1>5
    <3>3. QED
      BY <1>9, <3>1, <3>2 DEF UpTo
  <2>2. IsFiniteSet(UpTo(keep, m - 1)) /\ Cardinality(UpTo(keep, m - 1)) \in Nat
    BY <1>7, UpToCounts
  <2>3. Cardinality(UpTo(keep, m)) = Cardinality(UpTo(keep, m - 1)) + 1
    BY <2>1, <2>2, FS_AddElement
  <2>4. QED
    BY <1>1, <1>5, <1>8, <2>2, <2>3
<1>11. Nth(keep, k) = m
  BY <1>9, <1>10, NthIs
<1>12. QED
  BY <1>9, <1>10, <1>11

\* Positions that are moved keep their count and their order.
LEMMA ShiftedPositions ==
    ASSUME NEW n \in Nat, NEW keep \in SUBSET (1 .. n), NEW m \in Nat, NEW d \in Int,
           {i + d : i \in keep} \in SUBSET (1 .. m)
    PROVE  /\ Cardinality({i + d : i \in keep}) = Cardinality(keep)
           /\ \A k \in 1 .. Cardinality(keep) :
                 Nth({i + d : i \in keep}, k) = Nth(keep, k) + d
<1> DEFINE Moved(T) == {i + d : i \in T}
<1>1. ASSUME NEW T \in SUBSET keep
      PROVE  Cardinality(Moved(T)) = Cardinality(T)
  <2> DEFINE f == [i \in T |-> i + d]
  <2>1. IsFiniteSet(T)
    BY UpToCounts, FS_Subset
  <2>2. f \in Surjection(T, Moved(T))
    BY DEF Surjection
  <2>3. \A i, j \in T : f[i] = f[j] => i = j
    OBVIOUS
  <2>4. f \in Bijection(T, Moved(T))
    BY <2>2, <2>3 DEF Bijection, Injection, IsInjective, Surjection
  <2>5. ExistsBijection(T, Moved(T))
    BY <2>4 DEF ExistsBijection
  <2>6. QED
    BY <2>1, <2>5, FS_Bijection
<1>2. ASSUME NEW k \in 1 .. Cardinality(keep)
      PROVE  Nth(Moved(keep), k) = Nth(keep, k) + d
  <2> DEFINE i == Nth(keep, k)
  <2>1. i \in keep /\ Cardinality(UpTo(keep, i)) = k
    BY NthExists
  <2> HIDE DEF i
  <2>2. UpTo(Moved(keep), i + d) = Moved(UpTo(keep, i))
    BY <2>1 DEF UpTo
  <2>3. UpTo(keep, i) \in SUBSET keep
    BY DEF UpTo
  <2>4. Cardinality(UpTo(Moved(keep), i + d)) = k
    BY <1>1, <2>1, <2>2, <2>3
  <2>5. i + d \in Moved(keep)
    BY <2>1
  <2>6. Nth(Moved(keep), Cardinality(UpTo(Moved(keep), i + d))) = i + d
    BY <2>5, NthIs
  <2>7. QED
    BY <2>4, <2>6 DEF i
<1>3. QED
  BY <1>1, <1>2

\* A position after all the others is the last one.
LEMMA LastPosition ==
    ASSUME NEW n \in Nat, NEW keep \in SUBSET (1 .. n)
    PROVE  /\ Cardinality(keep \union {n + 1}) = Cardinality(keep) + 1
           /\ \A k \in 1 .. Cardinality(keep) : Nth(keep \union {n + 1}, k) = Nth(keep, k)
<1> DEFINE more == keep \union {n + 1}
<1>1. Cardinality(more) = Cardinality(keep) + 1
  <2>1. n + 1 \notin keep
    OBVIOUS
  <2>2. IsFiniteSet(keep)
    BY UpToCounts, 0 \in Int
  <2>3. QED
    BY <2>1, <2>2, FS_AddElement
<1>2. ASSUME NEW k \in 1 .. Cardinality(keep)
      PROVE  Nth(more, k) = Nth(keep, k)
  <2> DEFINE i == Nth(keep, k)
  <2>1. i \in keep /\ Cardinality(UpTo(keep, i)) = k
    BY NthExists
  <2> HIDE DEF i
  <2>2. UpTo(more, i) = UpTo(keep, i)
    BY <2>1 DEF UpTo
  <2>3. more \in SUBSET (1 .. (n + 1)) /\ n + 1 \in Nat /\ i \in more
    BY <2>1
  <2>4. Nth(more, Cardinality(UpTo(more, i))) = i
    BY <2>3, NthIs
  <2>5. QED
    BY <2>1, <2>2, <2>4 DEF i
<1>3. QED
  BY <1>1, <1>2

\* All positions, in their order.
LEMMA AllPositions ==
    ASSUME NEW n \in Nat
    PROVE  Cardinality(1 .. n) = n /\ \A k \in 1 .. n : Nth(1 .. n, k) = k
<1>1. \A m \in Nat : Cardinality(1 .. m) = m
  <2> TAKE m \in Nat
  <2>1. Cardinality(1 .. m) = IF 1 > m THEN 0 ELSE m - 1 + 1
    BY FS_Interval
  <2>2. QED
    BY <2>1
<1>2. ASSUME NEW k \in 1 .. n PROVE Nth(1 .. n, k) = k
  <2>1. UpTo(1 .. n, k) = 1 .. k
    BY DEF UpTo
  <2>2. k \in Nat
    OBVIOUS
  <2>3. QED
    BY <1>1, <2>1, <2>2, NthIs
<1>3. QED
  BY <1>1, <1>2

\* There is a position of starts from which there are k of them.
LEMMA SuffixExists ==
    ASSUME NEW n \in Nat, NEW starts \in SUBSET (1 .. n), NEW k \in 1 .. Cardinality(starts)
    PROVE  \E i \in starts : Cardinality({j \in starts : j >= i}) = k
<1> DEFINE size == Cardinality(starts)
           r == size - k + 1
           i == Nth(starts, r)
           upTo == UpTo(starts, i)
           from == {j \in starts : j >= i}
<1>1. size \in Nat /\ IsFiniteSet(starts) /\ k \in Int
  <2>1. size \in Nat /\ IsFiniteSet(starts)
    BY UpToCounts, 0 \in Int
  <2>2. QED
    BY <2>1
<1>0. starts \subseteq Int
  OBVIOUS
<1>2. r \in 1 .. size
  BY <1>1
<1>3. i \in starts /\ Cardinality(upTo) = r
  BY <1>2, NthExists
<1> HIDE DEF i
<1>4. starts = upTo \union from /\ upTo \intersect from = {i}
  <2>1. \A j \in starts : (j <= i \/ j >= i) /\ (j <= i /\ j >= i <=> j = i)
    BY <1>0, <1>3
  <2>2. QED
    BY <1>3, <2>1 DEF UpTo
<1>5. IsFiniteSet(upTo) /\ IsFiniteSet(from)
  BY <1>1, <1>4, FS_Subset
<1>6. Cardinality(upTo \union from)
        = Cardinality(upTo) + Cardinality(from) - Cardinality(upTo \intersect from)
  BY <1>5, FS_Union
<1>7. Cardinality({i}) = 1
  BY FS_Singleton
<1>8. Cardinality(from) \in Nat
  BY <1>5, FS_CardinalityType
<1>9. Cardinality(from) = k
  BY <1>1, <1>3, <1>4, <1>6, <1>7, <1>8
<1>10. QED
  BY <1>3, <1>9

-----------------------------------------------------------------------------
(* Compaction.                                                             *)

\* The rest of a conversation from the position a.
LEMMA SubSeqAt ==
    ASSUME NEW s \in Seq(Messages), NEW a \in 1 .. Len(s)
    PROVE  /\ SubSeq(s, a, Len(s)) \in Seq(Messages)
           /\ Len(SubSeq(s, a, Len(s))) = Len(s) - a + 1
           /\ \A k \in 1 .. Len(s) - a + 1 : SubSeq(s, a, Len(s))[k] = s[k + a - 1]
<1>1. Len(s) \in Nat /\ a \in Int /\ a <= Len(s)
  OBVIOUS
<1>2. \A i \in a .. Len(s) : s[i] \in Messages
  BY <1>1
<1>3. QED
  BY <1>1, <1>2, SubSeqProperties

\* MessagesAt picks the messages at the positions in keep, one by one.
LEMMA MessagesAtIs ==
    ASSUME NEW s \in Seq(Messages), NEW keep \in SUBSET (1 .. Len(s))
    PROVE  /\ Cardinality(keep) \in Nat
           /\ MessagesAt(s, keep) \in Seq(Messages)
           /\ Len(MessagesAt(s, keep)) = Cardinality(keep)
           /\ \A k \in 1 .. Cardinality(keep) : MessagesAt(s, keep)[k] = s[Nth(keep, k)]
<1>1. Cardinality(keep) \in Nat
  BY UpToCounts, 0 \in Int, Len(s) \in Nat
<1>2. \A k \in 1 .. Cardinality(keep) : s[Nth(keep, k)] \in Messages
  <2> TAKE k \in 1 .. Cardinality(keep)
  <2>1. Nth(keep, k) \in keep
    BY NthExists, Len(s) \in Nat
  <2>2. \A i \in 1 .. Len(s) : s[i] \in Messages
    OBVIOUS
  <2>3. QED
    BY <2>1, <2>2
<1>3. QED
  BY <1>1, <1>2 DEF MessagesAt

\* Where a conversation begins without its summary.
Begins(s) == IF s[1].type = "summary" THEN 2 ELSE 1

\* Without its summary a conversation is what comes after it.
LEMMA StrippedIs ==
    ASSUME NEW s \in Seq(Messages), s # <<>>, Shape(s)
    PROVE  /\ Begins(s) \in 1 .. Len(s)
           /\ s[Begins(s)].type = "prompt"
           /\ \A i \in DOMAIN s : s[i].type # "summary" <=> i >= Begins(s)
           /\ WithoutSummaries(s) = SubSeq(s, Begins(s), Len(s))
<1> DEFINE n == Len(s)
           keep == {i \in DOMAIN s : s[i].type # "summary"}
<1>1. n \in Nat \ {0} /\ DOMAIN s = 1 .. n
  OBVIOUS
<1>2. CASE s[1].type = "summary"
  <2>1. n >= 2 /\ s[2].type = "prompt"
    BY <1>1, <1>2 DEF Shape
  <2>2. \A i \in DOMAIN s : s[i].type # "summary" <=> i >= 2
    <3> TAKE i \in DOMAIN s
    <3>1. s[i].type = "summary" => i = 1
      BY DEF Shape
    <3>2. QED
      BY <1>1, <1>2, <3>1
  <2>3. keep = {i + 1 : i \in 1 .. (n - 1)}
    <3>1. \A i \in keep : i - 1 \in 1 .. (n - 1) /\ i = (i - 1) + 1
      BY <1>1, <2>2
    <3>2. \A i \in 1 .. (n - 1) : i + 1 \in keep
      BY <1>1, <2>2
    <3>3. QED
      BY <3>1, <3>2
  <2>4. n - 1 \in Nat /\ keep \in SUBSET (1 .. n) /\ 1 \in Int
    BY <1>1, <2>1
  <2>5. /\ Cardinality(keep) = n - 1
        /\ \A k \in 1 .. (n - 1) : Nth(keep, k) = k + 1
    <3> HIDE DEF keep
    <3> DEFINE all == 1 .. (n - 1)
    <3>1. Cardinality(all) = n - 1 /\ \A k \in all : Nth(all, k) = k
      BY <2>4, AllPositions
    <3>2. all \in SUBSET (1 .. (n - 1)) /\ {i + 1 : i \in all} \in SUBSET (1 .. n)
      BY <2>3, <2>4
    <3>3. /\ Cardinality({i + 1 : i \in all}) = Cardinality(all)
          /\ \A k \in 1 .. Cardinality(all) : Nth({i + 1 : i \in all}, k) = Nth(all, k) + 1
      <4> HIDE DEF all
      <4> QED BY <1>1, <2>4, <3>2, ShiftedPositions
    <3>4. QED
      BY <2>3, <3>1, <3>3
  <2>6. WithoutSummaries(s) = SubSeq(s, 2, n)
    <3>1. WithoutSummaries(s) = [k \in 1 .. (n - 1) |-> s[k + 1]]
      BY <2>5 DEF WithoutSummaries, MessagesAt
    <3>2. SubSeq(s, 2, n) = [k \in 1 .. (n - 1) |-> s[k + 1]]
      <4>1. SubSeq(s, 2, n) = [k \in 1 .. (n - 2 + 1) |-> s[k + 2 - 1]]
        BY DEF SubSeq
      <4>2. n - 2 + 1 = n - 1 /\ \A k \in 1 .. (n - 1) : k + 2 - 1 = k + 1
        BY <1>1
      <4>3. QED
        BY <4>1, <4>2
    <3>3. QED
      BY <3>1, <3>2
  <2>7. QED
    BY <1>1, <1>2, <2>1, <2>2, <2>6 DEF Begins
<1>3. CASE s[1].type # "summary"
  <2>1. \A i \in DOMAIN s : s[i].type # "summary"
    BY <1>3 DEF Shape
  <2>2. s[1].type = "prompt"
    BY <1>1, <1>3 DEF Shape, IsTurnStart
  <2>3. keep = 1 .. n
    BY <1>1, <2>1
  <2>4. Cardinality(keep) = n /\ \A k \in 1 .. n : Nth(keep, k) = k
    BY <1>1, <2>3, AllPositions
  <2>5. WithoutSummaries(s) = [k \in 1 .. n |-> s[k]]
    BY <2>4 DEF WithoutSummaries, MessagesAt
  <2>6. SubSeq(s, 1, n) = s /\ [k \in 1 .. n |-> s[k]] = s
    BY <1>1, SubSeqFull
  <2>7. QED
    BY <1>1, <1>3, <2>1, <2>2, <2>5, <2>6 DEF Begins
<1>4. QED
  BY <1>2, <1>3

\* splitRecentRounds: nothing is split off, or the recent rounds start with
\* a prompt and are KeepRecent.
LEMMA RecentStartIs ==
    ASSUME NEW s \in Seq(Messages)
    PROVE  LET starts == {i \in DOMAIN s : IsTurnStart(s[i])}
           IN \/ RecentStart(s) = 1
              \/ /\ RecentStart(s) \in starts
                 /\ Cardinality({j \in starts : j >= RecentStart(s)}) = KeepRecent
<1> DEFINE starts == {i \in DOMAIN s : IsTurnStart(s[i])}
<1>1. CASE Cardinality(starts) < KeepRecent
  BY <1>1 DEF RecentStart
<1>2. CASE ~(Cardinality(starts) < KeepRecent)
  <2>1. starts \in SUBSET (1 .. Len(s)) /\ Len(s) \in Nat
    OBVIOUS
  <2>2. Cardinality(starts) \in Nat
    BY <2>1, UpToCounts, 0 \in Int
  <2>3. KeepRecent \in 1 .. Cardinality(starts)
    BY <1>2, <2>2, LoopAssumption
  <2>4. \E i \in starts : Cardinality({j \in starts : j >= i}) = KeepRecent
    <3> HIDE DEF starts
    <3> QED BY <2>1, <2>3, SuffixExists
  <2>5. RecentStart(s)
          = CHOOSE i \in starts : Cardinality({j \in starts : j >= i}) = KeepRecent
    BY <1>2 DEF RecentStart
  <2>6. QED
    BY <2>4, <2>5
<1>3. QED
  BY <1>1, <1>2

\* What a compaction makes of the conversation s: it is cut at the prompt at b,
\* with d summaries (one or none) before what is left.  Either b is where s
\* begins without its summary, or KeepRecent prompts are left.
CutAt(s, c, b, d) ==
    /\ b \in Begins(s) .. Len(s) /\ s[b].type = "prompt"
    /\ c \in Seq(Messages) /\ Len(c) = Len(s) - b + 1 + d
    /\ \A i \in b .. Len(s) : c[i - b + 1 + d] = s[i]
    /\ d = 1 => c[1].type = "summary"
    /\ \/ b = Begins(s)
       \/ Cardinality({j \in b .. Len(s) : s[j].type = "prompt"}) = KeepRecent

\* A summary tells of prompts.
LEMMA AboutIsPrompts ==
    ASSUME NEW s \in Seq(Messages)
    PROVE  About(s) \in SUBSET Prompts
<1>1. \A i \in DOMAIN s : s[i].about \in SUBSET Prompts
  <2> TAKE i \in DOMAIN s
  <2>1. s[i] \in Messages
    OBVIOUS
  <2>2. QED
    BY <2>1 DEF Messages
<1>2. QED
  BY <1>1 DEF About

\* Whatever it strips and summarises, a compaction is a cut of the conversation.
LEMMA CompactedIsCut ==
    ASSUME NEW s \in Seq(Messages), s # <<>>, Shape(s), NEW c \in Compacted(s)
    PROVE  \E b \in 1 .. Len(s), d \in {0, 1} : CutAt(s, c, b, d)
<1> DEFINE a == Begins(s)
           n == Len(s)
           other == WithoutSummaries(s)
           start == RecentStart(other)
           recent == SubSeq(other, start, Len(other))
           summary == Message("summary", About(SubSeq(other, 1, start - 1)), 0)
           starts == {i \in DOMAIN other : IsTurnStart(other[i])}
<1>1. /\ a \in 1 .. n /\ n \in Nat /\ s[a].type = "prompt"
      /\ \A i \in DOMAIN s : s[i].type # "summary" <=> i >= a
      /\ other = SubSeq(s, a, n)
  BY StrippedIs
<1>2. /\ other \in Seq(Messages) /\ Len(other) = n - a + 1
      /\ \A k \in 1 .. n - a + 1 : other[k] = s[k + a - 1]
  BY <1>1, SubSeqAt
<1>3. CutAt(s, other, a, 0)
  <2>1. \A i \in a .. n : other[i - a + 1 + 0] = s[i]
    <3> TAKE i \in a .. n
    <3>1. i - a + 1 \in 1 .. n - a + 1 /\ (i - a + 1) + a - 1 = i /\ i - a + 1 + 0 = i - a + 1
      BY <1>1
    <3>2. QED
      BY <1>2, <3>1
  <2>2. QED
    BY <1>1, <1>2, <2>1 DEF CutAt
<1>4. CASE start = 1
  <2>1. recent = other
    BY <1>2, <1>4, SubSeqFull
  <2>2. c = other
    BY <1>4, <2>1 DEF Compacted
  <2>3. QED
    BY <1>1, <1>3, <2>2
<1>5. CASE start # 1 /\ c = other
  BY <1>1, <1>3, <1>5
<1>6. CASE start # 1 /\ c = <<summary>> \o recent
  <2> DEFINE b == start + a - 1
  <2>1. /\ start \in starts
        /\ Cardinality({j \in starts : j >= start}) = KeepRecent
    BY <1>2, <1>6, RecentStartIs
  <2>2. start \in 1 .. Len(other) /\ IsTurnStart(other[start])
    BY <1>2, <2>1
  <2>3. /\ recent \in Seq(Messages) /\ Len(recent) = Len(other) - start + 1
        /\ \A k \in 1 .. Len(other) - start + 1 : recent[k] = other[k + start - 1]
    BY <1>2, <2>2, SubSeqAt
  <2>4. SubSeq(other, 1, start - 1) \in Seq(Messages)
    <3>1. \A i \in 1 .. (start - 1) : other[i] \in Messages
      BY <1>2, <2>2
    <3>2. 1 \in Int /\ start - 1 \in Int
      BY <1>2, <2>2
    <3>3. QED
      BY <3>1, <3>2, SubSeqProperties
  <2>5. summary \in Messages /\ summary.type = "summary"
    <3>1. About(SubSeq(other, 1, start - 1)) \in SUBSET Prompts
      BY <2>4, AboutIsPrompts
    <3>2. 0 \in 0 .. MaxToolCalls /\ "summary" \in Types
      BY LoopAssumption DEF Types
    <3>3. QED
      BY <3>1, <3>2 DEF Message, Messages
  <2> HIDE DEF start, summary, recent, other, a
  <2>6. b \in a .. n /\ b \in 1 .. n /\ other[start] = s[b]
    BY SMTT(30), <1>1, <1>2, <2>2
  <2>7. s[b].type = "prompt"
    <3>1. s[b].type # "summary"
      BY <1>1, <2>6
    <3>2. QED
      BY <2>2, <2>6, <3>1 DEF IsTurnStart
  <2>8. c \in Seq(Messages) /\ Len(c) = n - b + 1 + 1
    <3>1. <<summary>> \in Seq(Messages) /\ Len(<<summary>>) = 1
      BY <2>5
    <3>2. c \in Seq(Messages) /\ Len(c) = 1 + Len(recent)
      BY <1>6, <2>3, <3>1, ConcatProperties
    <3>3. Len(recent) = n - b + 1
      BY <1>1, <1>2, <2>2, <2>3
    <3>4. QED
      BY <1>1, <2>6, <3>2, <3>3
  <2>9. c[1].type = "summary"
    BY <1>6, <2>3, <2>5
  <2>10. \A i \in b .. n : c[i - b + 1 + 1] = s[i]
    <3> TAKE i \in b .. n
    <3> DEFINE k == i - b + 1
    <3>1. k \in 1 .. Len(other) - start + 1
      BY <1>1, <1>2, <2>2, <2>6
    <3>2. recent[k] = other[k + start - 1]
      BY <2>3, <3>1
    <3>3. k + start - 1 \in 1 .. n - a + 1 /\ (k + start - 1) + a - 1 = i
      BY <1>1, <1>2, <2>2, <2>6
    <3>4. recent[k] = s[i]
      BY <1>2, <3>2, <3>3
    <3>5. c[k + 1] = recent[k]
      BY <1>6, <2>3, <2>5, <3>1
    <3>6. QED
      BY <3>4, <3>5
  <2>11. Cardinality({j \in b .. n : s[j].type = "prompt"}) = KeepRecent
    <3> DEFINE late == {j \in starts : j >= start}
               d == a - 1
               moved == {j + d : j \in late}
    <3>1. late \in SUBSET (1 .. n) /\ d \in Int
      BY <1>1, <1>2
    <3>2. moved = {j \in b .. n : s[j].type = "prompt"}
      <4>1. ASSUME NEW j \in late PROVE j + d \in b .. n /\ s[j + d].type = "prompt"
        <5>1. j \in 1 .. n - a + 1 /\ j >= start /\ IsTurnStart(other[j])
          BY <1>2
        <5>2. j + d \in b .. n /\ j + d = j + a - 1 /\ j + d \in 1 .. n /\ j + d >= a
          <6>1. j \in Int /\ a \in Int /\ start \in Int /\ n \in Int
            BY <1>1, <2>2, <5>1
          <6>2. j >= start /\ j <= n - a + 1 /\ j >= 1 /\ a >= 1
            BY <1>1, <5>1
          <6>3. QED
            BY <6>1, <6>2
        <5>3. other[j] = s[j + d]
          BY <1>2, <5>1, <5>2
        <5>4. s[j + d].type # "summary"
          BY <1>1, <5>2
        <5>5. QED
          BY <5>1, <5>2, <5>3, <5>4 DEF IsTurnStart
      <4>2. ASSUME NEW j \in b .. n, s[j].type = "prompt" PROVE j - d \in late /\ j = (j - d) + d
        <5>1. j - d \in 1 .. n - a + 1 /\ j - d >= start /\ (j - d) + a - 1 = j /\ j = (j - d) + d
          BY <1>1, <1>2, <2>2
        <5>2. other[j - d] = s[j]
          BY <1>2, <5>1
        <5>3. IsTurnStart(other[j - d]) /\ j - d \in DOMAIN other
          BY <1>2, <4>2, <5>1, <5>2 DEF IsTurnStart
        <5>4. QED
          BY <5>1, <5>3
      <4>3. QED
        BY <4>1, <4>2
    <3>3. moved \in SUBSET (1 .. n)
      <4>1. \A j \in b .. n : j \in 1 .. n
        BY <1>1, <2>6
      <4> HIDE DEF b, moved
      <4>2. QED
        BY <3>2, <4>1
    <3>4. Cardinality(moved) = Cardinality(late)
      <4> HIDE DEF late, d
      <4> QED BY <1>1, <3>1, <3>3, ShiftedPositions
    <3>5. QED
      BY <2>1, <3>2, <3>4
  <2>12. QED
    <3>1. b \in Begins(s) .. n
      BY <2>6 DEF a
    <3>2. CutAt(s, c, b, 1)
      <4> HIDE DEF b
      <4> QED BY <2>7, <2>8, <2>9, <2>10, <2>11, <3>1 DEF CutAt
    <3>3. QED
      BY <2>6, <3>2
<1>7. QED
  BY <1>4, <1>5, <1>6 DEF Compacted

-----------------------------------------------------------------------------
(* The conversation.                                                       *)

\* The fields of a message in a conversation.
LEMMA TypesOfMessages ==
    ASSUME NEW s \in Seq(Messages), NEW i \in DOMAIN s
    PROVE  /\ s[i].type \in {"prompt", "text", "calls", "results", "summary"}
           /\ s[i].about \in SUBSET Prompts /\ s[i].uses \in 0 .. MaxToolCalls
<1>1. s[i] \in Messages
  OBVIOUS
<1>2. QED
  BY <1>1 DEF Messages, Types

\* One more message, and where the others are.
LEMMA AppendIs ==
    ASSUME NEW s \in Seq(Messages), NEW m \in Messages
    PROVE  /\ Append(s, m) \in Seq(Messages) /\ Append(s, m) # <<>>
           /\ Len(Append(s, m)) = Len(s) + 1 /\ Len(s) \in Nat
           /\ DOMAIN s = 1 .. Len(s) /\ DOMAIN Append(s, m) = 1 .. (Len(s) + 1)
           /\ \A i \in 1 .. Len(s) : Append(s, m)[i] = s[i]
           /\ Append(s, m)[Len(s) + 1] = m
  BY AppendProperties

\* A compaction keeps what a conversation must be.
LEMMA CutKeeps ==
    ASSUME NEW s \in Seq(Messages), s # <<>>, Shape(s), Whole(s, FALSE),
           Numbered(s), Ordered(s),
           NEW c, NEW b \in 1 .. Len(s), NEW d \in {0, 1}, CutAt(s, c, b, d)
    PROVE  c # <<>> /\ Shape(c) /\ Whole(c, FALSE) /\ Numbered(c) /\ Ordered(c)
<1> DEFINE n == Len(s)
           At(i) == i + b - 1 - d
<1>1. /\ n \in Nat /\ DOMAIN s = 1 .. n /\ b \in Nat /\ d \in Nat
      /\ c \in Seq(Messages) /\ Len(c) = n - b + 1 + d /\ DOMAIN c = 1 .. Len(c)
      /\ s[b].type = "prompt"
  BY DEF CutAt
<1>2. \A i \in b .. n : s[i].type # "summary"
  <2>1. \A i \in DOMAIN s : s[i].type # "summary" <=> i >= Begins(s)
    BY StrippedIs
  <2>2. b >= Begins(s) /\ Begins(s) \in Int
    BY <1>1, StrippedIs DEF CutAt
  <2>3. QED
    BY <1>1, <2>1, <2>2
<1>3. \A i \in 1 + d .. Len(c) : At(i) \in b .. n /\ c[i] = s[At(i)]
  <2> TAKE i \in 1 + d .. Len(c)
  <2>1. At(i) \in b .. n /\ At(i) - b + 1 + d = i
    BY <1>1
  <2>2. \A j \in b .. n : c[j - b + 1 + d] = s[j]
    BY DEF CutAt
  <2>3. c[At(i) - b + 1 + d] = s[At(i)]
    BY <2>1, <2>2
  <2>4. QED
    BY <2>1, <2>3
<1>4. \A i \in DOMAIN c : i >= 1 + d \/ (d = 1 /\ i = 1 /\ c[i].type = "summary")
  BY <1>1 DEF CutAt
<1>5. 1 + d \in 1 .. Len(c) /\ c[1 + d].type = "prompt"
  <2>1. 1 + d \in 1 + d .. Len(c)
    BY <1>1
  <2>2. At(1 + d) = b
    BY <1>1
  <2>3. c[1 + d] = s[b]
    BY <1>3, <2>1, <2>2
  <2>4. QED
    BY <1>1, <2>1, <2>3
<1>6. c # <<>>
  BY <1>1, <1>5
<1>7. Shape(c)
  <2>1. ASSUME NEW i \in DOMAIN c, c[i].type = "summary"
        PROVE  i = 1 /\ d = 1
    BY <1>1, <1>2, <1>3, <1>4, <2>1
  <2>2. IsTurnStart(c[1])
    BY <1>1, <1>4, <1>5 DEF IsTurnStart
  <2>3. d = 1 => Len(c) >= 2 /\ c[2].type = "prompt"
    BY <1>1, <1>5
  <2>4. QED
    BY <2>1, <2>2, <2>3 DEF Shape
<1>8. Whole(c, FALSE)
  <2> SUFFICES ASSUME NEW i \in DOMAIN c
               PROVE  /\ c[i].type = "calls" => Answered(c, i)
                      /\ c[i].type = "results" => i > 1 /\ c[i - 1].type = "calls"
    BY DEF Whole
  <2>1. CASE c[i].type = "calls"
    <3>1. i \in 1 + d .. Len(c)
      BY <1>1, <1>4, <2>1
    <3>2. At(i) \in DOMAIN s /\ s[At(i)].type = "calls" /\ s[At(i)] = c[i] /\ At(i) \in b .. n
      BY <1>1, <1>3, <2>1, <3>1
    <3>3. Answered(s, At(i))
      BY <3>2 DEF Whole
    <3>4. i + 1 \in 1 + d .. Len(c) /\ At(i + 1) = At(i) + 1 /\ i < Len(c)
      BY <1>1, <3>1, <3>2, <3>3 DEF Answered
    <3>5. c[i + 1] = s[At(i) + 1]
      BY <1>3, <3>4
    <3>6. QED
      BY <2>1, <3>2, <3>3, <3>4, <3>5 DEF Answered
  <2>2. CASE c[i].type = "results"
    <3>1. i \in 1 + d .. Len(c)
      BY <1>1, <1>4, <2>2
    <3>2. At(i) \in DOMAIN s /\ s[At(i)].type = "results" /\ At(i) \in b .. n
      <4>1. At(i) \in b .. n /\ c[i] = s[At(i)]
        BY <1>3, <3>1
      <4>2. QED
        BY <1>1, <2>2, <4>1
    <3>3. s[At(i) - 1].type = "calls"
      BY <3>2 DEF Whole
    <3>4. At(i) # b
      BY <1>1, <3>2
    <3>5. i - 1 \in 1 + d .. Len(c) /\ At(i - 1) = At(i) - 1 /\ i > 1
      BY <1>1, <3>1, <3>2, <3>4
    <3>6. c[i - 1] = s[At(i) - 1]
      BY <1>3, <3>5
    <3>7. QED
      BY <2>2, <3>3, <3>5, <3>6
  <2>3. QED
    BY <2>1, <2>2
<1>9. Numbered(c)
  <2> SUFFICES ASSUME NEW i \in DOMAIN c, c[i].type # "summary"
               PROVE  \E p \in 1 .. prompt : c[i].about = {p}
    BY DEF Numbered
  <2>1. i \in 1 + d .. Len(c)
    BY <1>1, <1>4
  <2>2. At(i) \in DOMAIN s /\ c[i] = s[At(i)]
    <3>1. At(i) \in b .. n /\ c[i] = s[At(i)]
      BY <1>3, <2>1
    <3>2. QED
      BY <1>1, <3>1
  <2>3. QED
    BY <2>2 DEF Numbered
<1>10. Ordered(c)
  <2> SUFFICES ASSUME NEW i \in DOMAIN c, NEW j \in DOMAIN c,
                      NEW p \in 1 .. prompt, NEW q \in 1 .. prompt,
                      i < j, c[i].type # "summary", c[i].about = {p}, c[j].about = {q}
               PROVE  /\ c[j].type # "summary" => p <= q
                      /\ c[j].type = "prompt" => p < q
    BY DEF Ordered
  <2>1. i \in 1 + d .. Len(c) /\ j \in 1 + d .. Len(c)
    BY <1>1, <1>4
  <2>2. At(i) \in DOMAIN s /\ c[i] = s[At(i)] /\ At(j) \in DOMAIN s /\ c[j] = s[At(j)]
    <3>1. \A k \in b .. n : k \in DOMAIN s
      BY <1>1
    <3>2. QED
      BY <1>3, <2>1, <3>1
  <2>3. At(i) < At(j)
    BY <1>1, <2>1
  <2>4. QED
    BY <2>2, <2>3 DEF Ordered
<1>11. QED
  BY <1>6, <1>7, <1>8, <1>9, <1>10

\* A message of the last prompt that is no prompt and no results may follow.
LEMMA AppendKeeps ==
    ASSUME NEW s \in Seq(Messages), NEW m \in Messages, s # <<>>, prompt \in Nat,
           Shape(s), Numbered(s), Ordered(s),
           m.type \in {"text", "calls", "results"}, m.about = {prompt}, prompt # 0
    PROVE  Shape(Append(s, m)) /\ Numbered(Append(s, m)) /\ Ordered(Append(s, m))
<1> DEFINE t == Append(s, m)
           n == Len(s)
<1>1. /\ t # <<>> /\ Len(t) = n + 1 /\ n \in Nat /\ n # 0
      /\ DOMAIN s = 1 .. n /\ DOMAIN t = 1 .. n + 1
      /\ \A i \in 1 .. n : t[i] = s[i]
      /\ t[n + 1] = m
  BY AppendIs
<1> HIDE DEF t
<1>2. \A i \in DOMAIN t : \/ i \in DOMAIN s /\ t[i] = s[i]
                          \/ i = n + 1 /\ t[i] = m
  <2> TAKE i \in DOMAIN t
  <2>1. i \in 1 .. n + 1
    BY <1>1
  <2>2. CASE i = n + 1
    BY <1>1, <2>2
  <2>3. CASE i \in 1 .. n
    BY <1>1, <2>3
  <2>4. QED
    BY <1>1, <2>1, <2>2, <2>3
<1>3. Shape(t)
  <2>1. IsTurnStart(t[1])
    BY <1>1 DEF Shape
  <2>2. ASSUME NEW i \in DOMAIN t, t[i].type = "summary"
        PROVE  i = 1 /\ Len(t) >= 2 /\ t[2].type = "prompt"
    <3>1. i \in DOMAIN s /\ s[i].type = "summary"
      BY <1>2, <2>2
    <3>2. i = 1 /\ n >= 2 /\ s[2].type = "prompt"
      BY <3>1 DEF Shape
    <3>3. QED
      BY <1>1, <3>2
  <2>3. QED
    BY <2>1, <2>2 DEF Shape
<1>4. Numbered(t)
  BY <1>2 DEF Numbered
<1>5. Ordered(t)
  <2> SUFFICES ASSUME NEW i \in DOMAIN t, NEW j \in DOMAIN t,
                      NEW p \in 1 .. prompt, NEW q \in 1 .. prompt,
                      i < j, t[i].type # "summary", t[i].about = {p}, t[j].about = {q}
               PROVE  /\ t[j].type # "summary" => p <= q
                      /\ t[j].type = "prompt" => p < q
    BY DEF Ordered
  <2>1. i \in DOMAIN s /\ t[i] = s[i]
    BY <1>1, <1>2
  <2>2. CASE j \in DOMAIN s /\ t[j] = s[j]
    BY <2>1, <2>2 DEF Ordered
  <2>3. CASE t[j] = m
    <3>1. q = prompt
      BY <2>3
    <3>2. QED
      BY <2>3, <3>1
  <2>4. QED
    BY <1>2, <2>2, <2>3
<1>6. QED
  BY <1>3, <1>4, <1>5 DEF t

\* A step that leaves the conversation and the number of the prompt as they are.
LEMMA SameConversation ==
    ASSUME MessagesInv, UNCHANGED <<messages, prompt>>,
           pc' # "idle" => pc # "idle",
           pc' = "results" <=> pc = "results", uses' = uses
    PROVE  MessagesInv'
<1>1. Shape(messages)' /\ Whole(messages, pc = "results")' /\ Numbered(messages)' /\ Ordered(messages)'
  BY DEF MessagesInv, Shape, IsTurnStart, Whole, Answered, Numbered, Ordered
<1>2. QED
  BY <1>1 DEF MessagesInv

\* Streaks of errors are numbers.
LEMMA StreakIsNumber ==
    ASSUME toolErrors \in Nat, uses \in Nat, NEW r, NEW i \in 0 .. uses
    PROVE  Streak(r, i) \in Nat
<1> DEFINE ok == {j \in 1 .. i : r[j] = "ok"}
<1>1. CASE ok = {}
  BY <1>1 DEF Streak
<1>2. CASE ok # {}
  <2>1. ok \in SUBSET (1 .. i) /\ i \in Nat
    OBVIOUS
  <2>2. Max(ok) \in ok
    BY <1>2, <2>1, MaxIsGreatest
  <2>3. Streak(r, i) = i - Max(ok)
    BY <1>2 DEF Streak
  <2>4. QED
    BY <2>2, <2>3
<1>3. QED
  BY <1>1, <1>2

\* The empty conversation satisfies the invariant.
LEMMA InitLoopIInv == LoopInit => LoopIInv
<1> SUFFICES ASSUME LoopInit PROVE LoopIInv
  OBVIOUS
<1> USE LoopAssumption DEF LoopInit
<1>1. LoopTypeOK
  <2>1. <<>> \in Seq(Messages)
    OBVIOUS
  <2>2. QED
    BY <2>1 DEF LoopTypeOK, PCs, Prompts, Stops
<1>2. MessagesInv
  BY DEF MessagesInv, Shape, Whole, Numbered, Ordered
<1>3. LimitsInv /\ ForkInv
  BY DEF LimitsInv, ForkInv
<1>4. QED
  BY <1>1, <1>2, <1>3 DEF LoopIInv

-----------------------------------------------------------------------------
(* Steps.  Types and limits first, then the conversation.                  *)

\* A prompt opens a round, after an answer or an error.
LEMMA StartRunKeeps ==
    ASSUME LoopIInv, StartRun
    PROVE  LoopIInv'
<1> USE LoopAssumption
<1> DEFINE m == Message("prompt", {prompt + 1}, 0)
           n == Len(messages)
<1>1. m \in Messages /\ m.type = "prompt" /\ m.about = {prompt + 1}
  BY DEF LoopIInv, LoopTypeOK, StartRun, Message, Messages, Types, Prompts
<1>2. /\ messages \in Seq(Messages) /\ prompt \in Nat /\ prompt' = prompt + 1
      /\ messages' = Append(messages, m)
  BY DEF LoopIInv, LoopTypeOK, StartRun, Prompts
<1>3. /\ messages' \in Seq(Messages) /\ messages' # <<>> /\ Len(messages') = n + 1 /\ n \in Nat
      /\ DOMAIN messages = 1 .. n /\ DOMAIN messages' = 1 .. n + 1
      /\ \A i \in 1 .. n : messages'[i] = messages[i]
      /\ messages'[n + 1] = m
  BY <1>1, <1>2, AppendIs
<1> HIDE DEF m
<1>4. \A i \in DOMAIN messages' : \/ i \in DOMAIN messages /\ messages'[i] = messages[i]
                                  \/ i = n + 1 /\ messages'[i] = m
  <2>1. \A i \in 1 .. n + 1 : i \in 1 .. n \/ i = n + 1
    BY <1>3
  <2>2. QED
    BY <1>3, <2>1
<1>5. LoopTypeOK'
  BY <1>3 DEF LoopIInv, LoopTypeOK, StartRun, counters, forks, PCs, Prompts, Stops
<1>6. Shape(messages)'
  <2>1. IsTurnStart(messages[1])'
    <3>1. CASE n = 0
      BY <1>1, <1>3, <3>1 DEF IsTurnStart
    <3>2. CASE n # 0
      <4>1. messages # <<>> /\ 1 \in 1 .. n
        BY <1>2, <1>3, <3>2
      <4>2. QED
        BY <1>3, <4>1 DEF LoopIInv, MessagesInv, Shape, IsTurnStart
    <3>3. QED
      BY <3>1, <3>2
  <2>2. ASSUME NEW i \in DOMAIN messages', messages'[i].type = "summary"
        PROVE  i = 1 /\ Len(messages') >= 2 /\ messages'[2].type = "prompt"
    <3>1. i \in DOMAIN messages /\ messages[i].type = "summary"
      BY <1>1, <1>4, <2>2
    <3>2. i = 1 /\ n >= 2 /\ messages[2].type = "prompt"
      BY <3>1 DEF LoopIInv, MessagesInv, Shape
    <3>3. QED
      BY <1>3, <3>2
  <2>3. QED
    BY <2>1, <2>2 DEF Shape
<1>7. Whole(messages, pc = "results")'
  <2> SUFFICES ASSUME NEW i \in DOMAIN messages'
               PROVE  /\ messages'[i].type = "calls" => Answered(messages, i)'
                      /\ messages'[i].type = "results" => i > 1 /\ messages'[i - 1].type = "calls"
    BY DEF Whole
  <2>1. CASE i = n + 1 /\ messages'[i] = m
    BY <1>1, <2>1
  <2>2. CASE i \in DOMAIN messages /\ messages'[i] = messages[i]
    <3>1. pc = "idle"
      BY DEF StartRun
    <3>2. messages[i].type = "calls" => Answered(messages, i)
      BY <2>2, <3>1 DEF LoopIInv, MessagesInv, Whole
    <3>3. messages[i].type = "results" => i > 1 /\ messages[i - 1].type = "calls"
      BY <2>2 DEF LoopIInv, MessagesInv, Whole
    <3>4. i > 1 => i - 1 \in 1 .. n
      BY <1>3, <2>2
    <3>5. i < n => i + 1 \in 1 .. n /\ i < n + 1
      BY <1>3, <2>2
    <3>6. QED
      BY <1>3, <2>2, <3>2, <3>3, <3>4, <3>5 DEF Answered
  <2>3. QED
    BY <1>4, <2>1, <2>2
<1>8. Numbered(messages)'
  <2> SUFFICES ASSUME NEW i \in DOMAIN messages', messages'[i].type # "summary"
               PROVE  \E p \in 1 .. prompt' : messages'[i].about = {p}
    BY DEF Numbered
  <2>1. CASE i = n + 1 /\ messages'[i] = m
    BY <1>1, <1>2, <2>1
  <2>2. CASE i \in DOMAIN messages /\ messages'[i] = messages[i]
    <3>1. PICK p \in 1 .. prompt : messages[i].about = {p}
      BY <2>2 DEF LoopIInv, MessagesInv, Numbered
    <3>2. QED
      BY <1>2, <2>2, <3>1
  <2>3. QED
    BY <1>4, <2>1, <2>2
<1>9. Ordered(messages)'
  <2> SUFFICES ASSUME NEW i \in DOMAIN messages', NEW j \in DOMAIN messages',
                      NEW p \in 1 .. prompt', NEW q \in 1 .. prompt', i < j,
                      messages'[i].type # "summary",
                      messages'[i].about = {p}, messages'[j].about = {q}
               PROVE  /\ messages'[j].type # "summary" => p <= q
                      /\ messages'[j].type = "prompt" => p < q
    BY DEF Ordered
  <2>1. i \in DOMAIN messages /\ messages'[i] = messages[i]
    BY <1>3, <1>4
  <2>2. PICK p0 \in 1 .. prompt : messages[i].about = {p0}
    BY <2>1 DEF LoopIInv, MessagesInv, Numbered
  <2>3. p \in 1 .. prompt
    BY <2>1, <2>2
  <2>4. CASE j = n + 1 /\ messages'[j] = m
    <3>1. {q} = {prompt + 1}
      BY <1>1, <2>4
    <3>2. q = prompt + 1
      BY <3>1
    <3>3. QED
      BY <1>2, <2>3, <3>2
  <2>5. CASE j \in DOMAIN messages /\ messages'[j] = messages[j] /\ messages[j].type # "summary"
    <3>1. PICK q0 \in 1 .. prompt : messages[j].about = {q0}
      BY <2>5 DEF LoopIInv, MessagesInv, Numbered
    <3>2. q \in 1 .. prompt
      BY <2>5, <3>1
    <3>3. QED
      BY <2>1, <2>3, <2>5, <3>2 DEF LoopIInv, MessagesInv, Ordered
  <2>6. QED
    BY <1>4, <2>4, <2>5
<1>10. MessagesInv'
  BY <1>3, <1>6, <1>7, <1>8, <1>9 DEF MessagesInv, StartRun
<1>11. LimitsInv' /\ ForkInv'
  BY DEF LoopIInv, LimitsInv, ForkInv, Answered, StartRun, forks
<1>12. QED
  BY <1>5, <1>10, <1>11 DEF LoopIInv

\* A compaction is a cut, or leaves the conversation as it is.
LEMMA AutoCompactKeeps ==
    ASSUME LoopIInv, AutoCompact
    PROVE  LoopIInv'
<1> USE LoopAssumption
<1>1. /\ messages \in Seq(Messages) /\ messages # <<>> /\ pc = "compact" /\ pc' = "turn"
      /\ Shape(messages) /\ Whole(messages, FALSE) /\ Numbered(messages) /\ Ordered(messages)
  BY DEF LoopIInv, LoopTypeOK, MessagesInv, AutoCompact
<1>2. /\ messages' \in Seq(Messages) /\ messages' # <<>> /\ Shape(messages')
      /\ Whole(messages', FALSE) /\ Numbered(messages') /\ Ordered(messages')
  <2>1. CASE messages' = messages
    BY <1>1, <2>1
  <2>2. CASE messages' \in Compacted(messages)
    <3>1. PICK b \in 1 .. Len(messages), d \in {0, 1} : CutAt(messages, messages', b, d)
      BY <1>1, <2>2, CompactedIsCut
    <3>2. QED
      BY <1>1, <3>1, CutKeeps DEF CutAt
  <2>3. QED
    BY <2>1, <2>2 DEF AutoCompact
<1>3. MessagesInv'
  <2>1. prompt' = prompt
    BY DEF AutoCompact
  <2>2. Shape(messages)' /\ Whole(messages, pc = "results")'
    BY <1>1, <1>2 DEF Shape, IsTurnStart, Whole, Answered
  <2>3. Numbered(messages)' /\ Ordered(messages)'
    BY <1>2, <2>1 DEF Numbered, Ordered
  <2>4. QED
    BY <1>1, <1>2, <2>2, <2>3 DEF MessagesInv
<1>4. LoopTypeOK'
  BY <1>1, <1>2 DEF LoopIInv, LoopTypeOK, AutoCompact, counters, forks, PCs
<1>5. LimitsInv' /\ ForkInv'
  BY DEF LoopIInv, LimitsInv, ForkInv, Answered, AutoCompact, counters, forks
<1>6. QED
  BY <1>3, <1>4, <1>5 DEF LoopIInv

\* A message of the run under way is appended to a whole conversation.
LEMMA NextMessage ==
    ASSUME LoopIInv, NEW m \in Messages, m.about = {prompt},
           m.type \in {"text", "calls", "results"},
           pc \in {"turn", "results"}, messages' = Append(messages, m), prompt' = prompt
    PROVE  /\ messages' \in Seq(Messages) /\ messages' # <<>>
           /\ Shape(messages)' /\ Numbered(messages)' /\ Ordered(messages)'
           /\ Len(messages') = Len(messages) + 1 /\ Len(messages) \in Nat \ {0}
           /\ DOMAIN messages = 1 .. Len(messages) /\ DOMAIN messages' = 1 .. Len(messages) + 1
           /\ \A i \in 1 .. Len(messages) : messages'[i] = messages[i]
           /\ messages'[Len(messages')] = m
<1>1. messages \in Seq(Messages) /\ messages # <<>> /\ prompt \in Nat
  BY LoopAssumption DEF LoopIInv, LoopTypeOK, MessagesInv, Prompts
<1>2. Shape(messages) /\ Numbered(messages) /\ Ordered(messages)
  BY DEF LoopIInv, MessagesInv
<1>3. prompt # 0
  <2>1. 1 \in DOMAIN messages
    BY <1>1
  <2>2. \E i \in DOMAIN messages : messages[i].type # "summary"
    <3>1. Begins(messages) \in DOMAIN messages /\ messages[Begins(messages)].type = "prompt"
      BY <1>1, <1>2, StrippedIs
    <3>2. QED
      BY <3>1
  <2>3. 1 .. prompt # {}
    BY <1>2, <2>2 DEF Numbered
  <2>4. QED
    BY <1>1, <2>3
<1>4. Shape(messages') /\ Numbered(messages') /\ Ordered(messages')
  BY <1>1, <1>2, <1>3, AppendKeeps
<1>5. Shape(messages)' /\ Numbered(messages)' /\ Ordered(messages)'
  BY <1>4 DEF Shape, IsTurnStart, Numbered, Ordered
<1>6. QED
  BY <1>1, <1>5, AppendIs

\* The answer that ends a run has no tool calls.
LEMMA AnswerKeeps ==
    ASSUME LoopIInv, Answer
    PROVE  LoopIInv'
<1> USE LoopAssumption
<1> DEFINE m == Message("text", {prompt}, 0)
<1>1. m \in Messages /\ m.type = "text" /\ m.about = {prompt}
  BY DEF LoopIInv, LoopTypeOK, Message, Messages, Types, Prompts
<1> HIDE DEF m
<1>2. CASE messages' = messages
  <2>1. MessagesInv'
    <3>1. Shape(messages)' /\ Numbered(messages)' /\ Ordered(messages)'
      BY <1>2 DEF LoopIInv, MessagesInv, Shape, IsTurnStart, Numbered, Ordered, Answer
    <3>2. Whole(messages, pc = "results")'
      BY <1>2 DEF LoopIInv, MessagesInv, Whole, Answered, Answer, Return
    <3>3. QED
      BY <3>1, <3>2 DEF MessagesInv, Answer, Return
  <2>2. QED
    BY <1>2, <2>1 DEF LoopIInv, LoopTypeOK, LimitsInv, ForkInv, Answered, Answer, Return,
                      forks, PCs, Stops
<1>3. CASE messages' = Append(messages, m)
  <2> DEFINE n == Len(messages)
  <2>1. /\ messages' \in Seq(Messages) /\ Shape(messages)'
        /\ Numbered(messages)' /\ Ordered(messages)'
        /\ Len(messages') = n + 1 /\ n \in Nat \ {0}
      /\ DOMAIN messages = 1 .. n /\ DOMAIN messages' = 1 .. n + 1
        /\ \A i \in 1 .. n : messages'[i] = messages[i]
        /\ messages'[n + 1] = m
    BY <1>1, <1>3, NextMessage DEF Answer
  <2>2. Whole(messages, pc = "results")'
    <3> SUFFICES ASSUME NEW i \in 1 .. n + 1
                 PROVE  /\ messages'[i].type = "calls" => Answered(messages, i)'
                        /\ messages'[i].type = "results" => i > 1 /\ messages'[i - 1].type = "calls"
      BY <2>1 DEF Whole
    <3>1. CASE i = n + 1
      BY <1>1, <2>1, <3>1
    <3>2. CASE i \in 1 .. n
      <4>1. /\ messages[i].type = "calls" => Answered(messages, i)
            /\ messages[i].type = "results" => i > 1 /\ messages[i - 1].type = "calls"
        <5>1. pc = "turn" /\ Whole(messages, pc = "results") /\ i \in DOMAIN messages
          BY <2>1, <3>2 DEF LoopIInv, MessagesInv, Answer
        <5>2. QED
          BY <5>1 DEF Whole
      <4>2. /\ i > 1 => i - 1 \in 1 .. n
            /\ i < n => i + 1 \in 1 .. n /\ i < n + 1
        BY <2>1, <3>2
      <4>3. QED
        BY <2>1, <3>2, <4>1, <4>2 DEF Answered
    <3>3. QED
      BY <2>1, <3>1, <3>2
  <2>3. MessagesInv'
    BY <2>1, <2>2 DEF MessagesInv, Answer, Return
  <2>4. QED
    BY <2>1, <2>3 DEF LoopIInv, LoopTypeOK, LimitsInv, ForkInv, Answered, Answer, Return,
                      forks, PCs, Stops
<1>4. QED
  BY <1>2, <1>3 DEF Answer, m

\* Tool calls become the last message, open until their results come.
LEMMA CallToolsKeeps ==
    ASSUME LoopIInv, NEW k \in 1 .. MaxToolCalls, CallTools(k)
    PROVE  LoopIInv'
<1> USE LoopAssumption
<1> DEFINE m == Message("calls", {prompt}, k)
           n == Len(messages)
<1>1. m \in Messages /\ m.type = "calls" /\ m.about = {prompt} /\ m.uses = k
  BY DEF LoopIInv, LoopTypeOK, Message, Messages, Types, Prompts
<1>2. messages' = Append(messages, m)
  BY DEF CallTools
<1> HIDE DEF m
<1>3. /\ messages' \in Seq(Messages) /\ messages' # <<>> /\ Shape(messages)'
      /\ Numbered(messages)' /\ Ordered(messages)'
      /\ Len(messages') = n + 1 /\ n \in Nat \ {0}
      /\ DOMAIN messages = 1 .. n /\ DOMAIN messages' = 1 .. n + 1
      /\ \A i \in 1 .. n : messages'[i] = messages[i]
      /\ messages'[n + 1] = m
  BY <1>1, <1>2, NextMessage DEF CallTools
<1>4. Whole(messages, pc = "results")'
  <2> SUFFICES ASSUME NEW i \in 1 .. n + 1
               PROVE  /\ messages'[i].type = "calls" => Answered(messages, i)' \/ i = n + 1
                      /\ messages'[i].type = "results" => i > 1 /\ messages'[i - 1].type = "calls"
    <3>1. pc' = "results"
      BY DEF CallTools
    <3>2. QED
      BY <1>3, <3>1 DEF Whole
  <2>1. CASE i = n + 1
    BY <1>1, <1>3, <2>1
  <2>2. CASE i \in 1 .. n
    <3>1. /\ messages[i].type = "calls" => Answered(messages, i)
          /\ messages[i].type = "results" => i > 1 /\ messages[i - 1].type = "calls"
      <4>1. pc = "turn" /\ Whole(messages, pc = "results") /\ i \in DOMAIN messages
        BY <1>3, <2>2 DEF LoopIInv, MessagesInv, CallTools
      <4>2. QED
        BY <4>1 DEF Whole
    <3>2. /\ i > 1 => i - 1 \in 1 .. n
          /\ i < n => i + 1 \in 1 .. n /\ i < n + 1
      BY <1>3, <2>2
    <3>3. QED
      BY <1>3, <2>2, <3>1, <3>2 DEF Answered
  <2>3. QED
    BY <1>3, <2>1, <2>2
<1>5. MessagesInv'
  BY <1>1, <1>3, <1>4 DEF MessagesInv, CallTools
<1>6. uses' \in 0 .. MaxToolCalls /\ toolCalls' + uses' <= MaxToolCalls
  BY DEF LoopIInv, LoopTypeOK, CallTools
<1>7. LoopTypeOK'
  BY <1>3, <1>6 DEF LoopIInv, LoopTypeOK, CallTools, forks, PCs
<1>8. LimitsInv' /\ ForkInv'
  BY <1>6 DEF LoopIInv, LimitsInv, ForkInv, Answered, CallTools, forks
<1>9. QED
  BY <1>5, <1>7, <1>8 DEF LoopIInv

\* A position that is not the last one has another after it.
LEMMA NotTheLast ==
    ASSUME NEW n \in Nat, NEW i \in 1 .. n, i # n
    PROVE  /\ i > 1 => i - 1 \in 1 .. n
           /\ i + 1 \in 1 .. n /\ i < n + 1 /\ i < n
OBVIOUS

\* The results answer the calls that were left open.
LEMMA AppendResultsKeeps ==
    ASSUME LoopIInv, NEW r, AppendResults(r)
    PROVE  LoopIInv'
<1> USE LoopAssumption
<1> DEFINE m == Message("results", {prompt}, uses)
           n == Len(messages)
<1>1. m \in Messages /\ m.type = "results" /\ m.about = {prompt} /\ m.uses = uses
  BY DEF LoopIInv, LoopTypeOK, Message, Messages, Types, Prompts
<1>2. messages' = Append(messages, m) /\ pc = "results"
  BY DEF AppendResults
<1> HIDE DEF m
<1>3. /\ messages' \in Seq(Messages) /\ messages' # <<>> /\ Shape(messages)'
      /\ Numbered(messages)' /\ Ordered(messages)'
      /\ Len(messages') = n + 1 /\ n \in Nat \ {0}
      /\ DOMAIN messages = 1 .. n /\ DOMAIN messages' = 1 .. n + 1
      /\ \A i \in 1 .. n : messages'[i] = messages[i]
      /\ messages'[n + 1] = m
  BY <1>1, <1>2, NextMessage DEF AppendResults
<1>4. messages[n].type = "calls" /\ messages[n].uses = uses /\ n \in 1 .. n
  BY <1>2, <1>3 DEF LoopIInv, MessagesInv
<1>5. \A i \in 1 .. n + 1 :
        /\ messages'[i].type = "calls" => Answered(messages, i)'
        /\ messages'[i].type = "results" => i > 1 /\ messages'[i - 1].type = "calls"
  <2> SUFFICES ASSUME NEW i \in 1 .. n + 1
               PROVE  /\ messages'[i].type = "calls" => Answered(messages, i)'
                      /\ messages'[i].type = "results" => i > 1 /\ messages'[i - 1].type = "calls"
    OBVIOUS
  <2>1. CASE i = n + 1
    <3>1. i - 1 = n /\ i > 1
      BY <1>3, <2>1
    <3>2. QED
      BY <1>1, <1>3, <1>4, <2>1, <3>1
  <2>2. CASE i = n
    <3>1. Answered(messages, i)'
      BY <1>1, <1>3, <1>4, <2>2 DEF Answered
    <3>2. messages'[i].type = "calls"
      <4>1. messages'[i] = messages[i] /\ messages[i].type = "calls"
        BY ZenonT(60), <1>3, <1>4, <2>2
      <4>2. QED
        BY <4>1
    <3>3. QED
      BY <3>1, <3>2
  <2>3. CASE i \in 1 .. n /\ i # n
    <3>1. /\ messages[i].type = "calls" => Answered(messages, i)
          /\ messages[i].type = "results" => i > 1 /\ messages[i - 1].type = "calls"
      BY <1>3, <2>3 DEF LoopIInv, LoopTypeOK, MessagesInv, Whole
    <3>2. /\ i > 1 => i - 1 \in 1 .. n
          /\ i + 1 \in 1 .. n /\ i < n + 1 /\ i < n
      BY <1>3, <2>3, NotTheLast
    <3>3. QED
      BY ZenonT(60), <1>3, <2>3, <3>1, <3>2 DEF Answered
  <2>4. QED
    <3>1. i = n + 1 \/ i = n \/ (i \in 1 .. n /\ i # n)
      BY <1>4
    <3>2. QED
      BY <2>1, <2>2, <2>3, <3>1
<1>6. Whole(messages, pc = "results")'
  BY <1>3, <1>5 DEF Whole
<1>7. pc' \in {"idle", "limits"}
  BY DEF AppendResults, Return
<1>8. MessagesInv'
  BY <1>3, <1>6, <1>7 DEF MessagesInv
<1>9. toolCalls' \in 0 .. MaxToolCalls
  BY <1>2 DEF LoopIInv, LoopTypeOK, LimitsInv, AppendResults
<1>10. turn' \in 0 .. MaxTurn
  BY <1>2 DEF LoopIInv, LoopTypeOK, LimitsInv, AppendResults
<1>11. toolErrors' \in Nat
  <2>1. toolErrors \in Nat /\ uses \in Nat /\ uses \in 0 .. uses
    BY DEF LoopIInv, LoopTypeOK
  <2>2. QED
    BY <2>1, StreakIsNumber DEF AppendResults
<1>12. LoopTypeOK'
  BY <1>3, <1>7, <1>9, <1>10, <1>11
  DEF LoopIInv, LoopTypeOK, AppendResults, Return, forks, PCs, Stops
<1>13. LimitsInv' /\ ForkInv'
  BY <1>2, <1>7 DEF LoopIInv, LimitsInv, ForkInv, Answered, AppendResults, forks
<1>14. QED
  BY <1>8, <1>12, <1>13 DEF LoopIInv

\* A fork copies what the parent's conversation is at that moment.
LEMMA StartForkKeeps ==
    ASSUME LoopIInv, StartFork
    PROVE  LoopIInv'
<1> USE LoopAssumption
<1> DEFINE m == Message("prompt", {0}, 0)
           n == Len(messages)
<1>1. m \in Messages /\ m.type = "prompt"
  BY DEF Message, Messages, Types, Prompts
<1>2. messages \in Seq(Messages) /\ forkMessages' = Append(messages, m)
  BY DEF LoopIInv, LoopTypeOK, StartFork
<1> HIDE DEF m
<1>3. /\ forkMessages' \in Seq(Messages) /\ Len(forkMessages') = n + 1 /\ n \in Nat
      /\ DOMAIN messages = 1 .. n /\ DOMAIN forkMessages' = 1 .. n + 1
      /\ \A i \in 1 .. n : forkMessages'[i] = messages[i]
      /\ forkMessages'[n + 1] = m
  BY <1>1, <1>2, AppendIs
<1>4. ForkInv'
  <2> SUFFICES ASSUME NEW i \in 1 .. n + 1, forkMessages'[i].type = "calls"
               PROVE  Answered(forkMessages, i)' \/ i + 1 = n + 1
    BY <1>3 DEF ForkInv
  <2>1. i \in 1 .. n
    BY <1>1, <1>3
  <2>2. Answered(messages, i) \/ i = n
    <3>1. Whole(messages, pc = "results") /\ i \in DOMAIN messages /\ messages[i].type = "calls"
      BY <1>3, <2>1 DEF LoopIInv, MessagesInv
    <3>2. QED
      BY <3>1 DEF Whole
  <2>3. i < n => i + 1 \in 1 .. n /\ i < n + 1
    BY <1>3, <2>1
  <2>4. QED
    BY <1>3, <2>1, <2>2, <2>3 DEF Answered
<1>5. MessagesInv'
  BY SameConversation DEF LoopIInv, StartFork
<1>6. LoopTypeOK' /\ LimitsInv'
  BY <1>3 DEF LoopIInv, LoopTypeOK, LimitsInv, StartFork, counters
<1>7. QED
  BY <1>4, <1>5, <1>6 DEF LoopIInv

\* Every step keeps the invariant.
LEMMA NextLoopIInv == LoopIInv /\ [LoopNext]_loopVars => LoopIInv'
<1> SUFFICES ASSUME LoopIInv, [LoopNext]_loopVars PROVE LoopIInv'
  OBVIOUS
<1> USE LoopAssumption
<1>1. CASE StartRun
  BY <1>1, StartRunKeeps
<1>2. CASE CheckLimits
  <2>1. MessagesInv'
    BY <1>2, SameConversation DEF LoopIInv, CheckLimits, Return
  <2>2. LoopTypeOK'
    BY <1>2 DEF LoopIInv, LoopTypeOK, CheckLimits, Return, counters, forks, PCs, Stops
  <2>3. LimitsInv' /\ ForkInv'
    BY <1>2 DEF LoopIInv, LoopTypeOK, LimitsInv, ForkInv, Answered, CheckLimits, Return,
                counters, forks
  <2>4. QED
    BY <2>1, <2>2, <2>3 DEF LoopIInv
<1>3. CASE AutoCompact
  BY <1>3, AutoCompactKeeps
<1>4. CASE TurnFails
  <2>1. MessagesInv'
    BY <1>4, SameConversation DEF LoopIInv, TurnFails, Return
  <2>2. LoopTypeOK'
    BY <1>4 DEF LoopIInv, LoopTypeOK, LimitsInv, TurnFails, Return, forks, PCs, Stops
  <2>3. LimitsInv' /\ ForkInv'
    BY <1>4 DEF LoopIInv, LimitsInv, ForkInv, Answered, TurnFails, Return, forks
  <2>4. QED
    BY <2>1, <2>2, <2>3 DEF LoopIInv
<1>5. CASE Answer
  BY <1>5, AnswerKeeps
<1>6. ASSUME NEW k \in 1 .. MaxToolCalls, CallTools(k) PROVE LoopIInv'
  BY <1>6, CallToolsKeeps
<1>7. ASSUME NEW r \in [1 .. uses -> Results], AppendResults(r) PROVE LoopIInv'
  BY <1>7, AppendResultsKeeps
<1>8. CASE ClearMessages
  <2>1. MessagesInv'
    BY <1>8 DEF ClearMessages, MessagesInv, Shape, Whole, Numbered, Ordered
  <2>2. <<>> \in Seq(Messages)
    OBVIOUS
  <2>3. LoopTypeOK' /\ LimitsInv' /\ ForkInv'
    BY <1>8, <2>2 DEF LoopIInv, LoopTypeOK, LimitsInv, ForkInv, Answered, ClearMessages,
                      counters, forks
  <2>4. QED
    BY <2>1, <2>3 DEF LoopIInv
<1>9. CASE AskFork
  <2>1. MessagesInv'
    BY <1>9, SameConversation DEF LoopIInv, AskFork
  <2>2. <<>> \in Seq(Messages)
    OBVIOUS
  <2>3. LoopTypeOK' /\ LimitsInv' /\ ForkInv'
    BY <1>9, <2>2 DEF LoopIInv, LoopTypeOK, LimitsInv, ForkInv, AskFork, counters
  <2>4. QED
    BY <2>1, <2>3 DEF LoopIInv
<1>10. CASE StartFork
  BY <1>10, StartForkKeeps
<1>11. CASE UNCHANGED loopVars
  <2>1. MessagesInv'
    BY <1>11, SameConversation DEF LoopIInv, loopVars
  <2>2. QED
    BY <1>11, <2>1 DEF LoopIInv, LoopTypeOK, LimitsInv, ForkInv, Answered, loopVars, counters, forks
<1>12. QED
  BY <1>1, <1>2, <1>3, <1>4, <1>5, <1>6, <1>7, <1>8, <1>9, <1>10, <1>11
  DEF LoopNext, RunToolLoop

-----------------------------------------------------------------------------
(* The theorems.                                                           *)

\* The inductive invariant holds of every behaviour of the loop.
THEOREM LoopInvariance == LoopSpec => []LoopIInv
BY InitLoopIInv, NextLoopIInv, PTL DEF LoopSpec

\* Every variable keeps its type: no run exceeds its turns or its tool calls.
THEOREM LoopTypeCorrect == LoopSpec => []LoopTypeOK
<1>1. LoopIInv => LoopTypeOK
  BY DEF LoopIInv
<1>2. QED
  BY <1>1, LoopInvariance, PTL

\* However runs end, compact and follow one another, no provider is sent a
\* conversation in which tool calls go unanswered, and a fork's may do so only
\* right before its task.
THEOREM EveryCallIsAnswered == LoopSpec => []CallsAreAnswered
<1>1. LoopIInv => CallsAreAnswered
  <2> SUFFICES ASSUME LoopIInv PROVE CallsAreAnswered
    OBVIOUS
  <2>1. Shape(messages) /\ Whole(messages, pc = "results") /\ ForkInv
    BY DEF LoopIInv, MessagesInv
  <2>2. QED
    BY <2>1 DEF CallsAreAnswered, Shape, Whole, ForkInv
<1>2. QED
  BY <1>1, LoopInvariance, PTL

-----------------------------------------------------------------------------
(* Recent rounds.                                                          *)

\* The positions of the messages of a prompt.
PositionsOf(p, s) == {i \in DOMAIN s : s[i].type # "summary" /\ s[i].about = {p}}

\* The beginning of a conversation, by its messages.
LEMMA SamePrefix ==
    ASSUME NEW s \in Seq(Messages), NEW t \in Seq(Messages), Len(s) <= Len(t),
           \A k \in 1 .. Len(s) : s[k] = t[k]
    PROVE  IsPrefix(s, t)
<1>1. Len(s) \in Nat /\ Len(t) \in Nat /\ 1 \in Int
  OBVIOUS
<1>2. SubSeq(s, 1, Len(s)) = SubSeq(t, 1, Len(s))
  <2>1. SubSeq(s, 1, Len(s)) = [k \in 1 .. Len(s) - 1 + 1 |-> s[k + 1 - 1]]
    BY DEF SubSeq
  <2>2. SubSeq(t, 1, Len(s)) = [k \in 1 .. Len(s) - 1 + 1 |-> t[k + 1 - 1]]
    BY DEF SubSeq
  <2>3. \A k \in 1 .. Len(s) - 1 + 1 : k + 1 - 1 = k /\ k \in 1 .. Len(s)
    BY <1>1
  <2>4. QED
    BY <2>1, <2>2, <2>3
<1>3. QED
  BY <1>2 DEF IsPrefix

\* An append leaves what there is of a prompt, and may add to it.
LEMMA AppendExtends ==
    ASSUME NEW s \in Seq(Messages), NEW m \in Messages, NEW p
    PROVE  IsPrefix(OfPrompt(p, s), OfPrompt(p, Append(s, m)))
<1> DEFINE t == Append(s, m)
           n == Len(s)
           keep == PositionsOf(p, s)
           more == PositionsOf(p, t)
<1>1. /\ t \in Seq(Messages) /\ Len(t) = n + 1 /\ n \in Nat
      /\ DOMAIN s = 1 .. n /\ DOMAIN t = 1 .. n + 1
      /\ \A i \in 1 .. n : t[i] = s[i]
  BY AppendIs
<1> HIDE DEF t
<1>2. keep \in SUBSET (1 .. n) /\ more \in SUBSET (1 .. Len(t)) /\ keep \in SUBSET (1 .. n)
  BY <1>1 DEF PositionsOf
<1>3. more = keep \/ more = keep \union {n + 1}
  <2>1. \A i \in 1 .. n : i \in more <=> i \in keep
    <3>1. \A i \in 1 .. n : i \in 1 .. n + 1
      BY <1>1
    <3>2. QED
      BY <1>1, <3>1 DEF PositionsOf
  <2>2. \A i \in more : i \in 1 .. n \/ i = n + 1
    <3>1. \A i \in 1 .. n + 1 : i \in 1 .. n \/ i = n + 1
      BY <1>1
    <3>2. QED
      BY <1>1, <1>2, <3>1
  <2> HIDE DEF keep, more
  <2>3. QED
    BY <1>2, <2>1, <2>2
<1> HIDE DEF keep, more
<1>4. /\ Cardinality(keep) \in Nat /\ Cardinality(more) \in Nat
      /\ MessagesAt(s, keep) \in Seq(Messages) /\ MessagesAt(t, more) \in Seq(Messages)
      /\ Len(MessagesAt(s, keep)) = Cardinality(keep)
      /\ Len(MessagesAt(t, more)) = Cardinality(more)
      /\ \A k \in 1 .. Cardinality(keep) : MessagesAt(s, keep)[k] = s[Nth(keep, k)]
      /\ \A k \in 1 .. Cardinality(more) : MessagesAt(t, more)[k] = t[Nth(more, k)]
  BY <1>1, <1>2, MessagesAtIs
<1>5. /\ Cardinality(keep) <= Cardinality(more)
      /\ \A k \in 1 .. Cardinality(keep) :
            k \in 1 .. Cardinality(more) /\ Nth(more, k) = Nth(keep, k)
  <2>1. CASE more = keep
    BY <1>4, <2>1
  <2>2. CASE more = keep \union {n + 1}
    <3>1. /\ Cardinality(more) = Cardinality(keep) + 1
          /\ \A k \in 1 .. Cardinality(keep) : Nth(more, k) = Nth(keep, k)
      BY <1>1, <1>2, <2>2, LastPosition
    <3>2. QED
      BY <1>4, <3>1
  <2>3. QED
    BY <1>3, <2>1, <2>2
<1>6. \A k \in 1 .. Cardinality(keep) : MessagesAt(s, keep)[k] = MessagesAt(t, more)[k]
  <2> TAKE k \in 1 .. Cardinality(keep)
  <2>1. Nth(keep, k) \in 1 .. n
    BY <1>1, <1>2, NthExists
  <2>2. QED
    BY <1>1, <1>4, <1>5, <2>1
<1>7. IsPrefix(MessagesAt(s, keep), MessagesAt(t, more))
  BY <1>4, <1>5, <1>6, SamePrefix
<1>8. QED
  BY <1>7 DEF keep, more, t, OfPrompt, PositionsOf

\* The rounds a compaction cuts off are older than the KeepRecent last prompts:
\* the prompts it leaves have numbers of their own, all after the cut ones.
LEMMA CutIsOld ==
    ASSUME NEW s \in Seq(Messages), s # <<>>, Shape(s), Numbered(s), Ordered(s), prompt \in Nat,
           NEW c, NEW b \in 1 .. Len(s), NEW d \in {0, 1}, CutAt(s, c, b, d),
           NEW p \in 1 .. prompt, p + KeepRecent > prompt,
           NEW i \in PositionsOf(p, s)
    PROVE  i >= b
<1> DEFINE n == Len(s)
           J == {j \in b .. n : s[j].type = "prompt"}
           later == (p + 1) .. prompt
<1>1. /\ n \in Nat /\ DOMAIN s = 1 .. n /\ b \in Nat /\ i \in 1 .. n /\ p \in Nat
      /\ i \in DOMAIN s /\ s[i].type # "summary" /\ s[i].about = {p}
      /\ KeepRecent \in Nat
  BY LoopAssumption DEF PositionsOf
<1>2. CASE b = Begins(s)
  BY <1>1, <1>2, StrippedIs
<1>3. CASE Cardinality(J) = KeepRecent
  <2> SUFFICES ASSUME i < b PROVE FALSE
    BY <1>1
  <2>1. \A j \in J : j \in DOMAIN s /\ s[j].type = "prompt" /\ i < j
    BY <1>1
  <2>2. \A j \in J : \E q \in later : s[j].about = {q}
    <3> TAKE j \in J
    <3>1. PICK q \in 1 .. prompt : s[j].about = {q}
      BY <2>1 DEF Numbered
    <3>2. p < q
      BY <1>1, <2>1, <3>1 DEF Ordered
    <3>3. q \in later
      BY <1>1, <3>2
    <3>4. QED
      BY <3>1, <3>3
  <2> DEFINE f == [j \in J |-> CHOOSE q \in later : s[j].about = {q}]
  <2>3. \A j \in J : f[j] \in later /\ s[j].about = {f[j]}
    BY <2>2
  <2>4. later \subseteq 1 .. prompt
    BY <1>1
  <2>5. \A j, k \in J : j < k => f[j] < f[k]
    <3> TAKE j \in J, k \in J
    <3> HAVE j < k
    <3>1. f[j] \in 1 .. prompt /\ f[k] \in 1 .. prompt
      BY <2>3, <2>4
    <3>2. s[j].about = {f[j]} /\ s[k].about = {f[k]}
      BY <2>3
    <3> HIDE DEF f
    <3>3. s[j].type # "summary"
      BY <2>1
    <3>4. QED
      BY <2>1, <3>1, <3>2, <3>3 DEF Ordered
  <2>6. f \in [J -> later]
    BY <2>3
  <2> HIDE DEF f
  <2>7. \A j, k \in J : f[j] = f[k] => j = k
    <3> TAKE j \in J, k \in J
    <3>1. f[j] \in Int /\ f[k] \in Int /\ j \in Int /\ k \in Int
      BY SMTT(30), <1>1, <2>6
    <3>2. (j < k => f[j] < f[k]) /\ (k < j => f[k] < f[j])
      BY <2>5
    <3>3. QED
      BY <3>1, <3>2
  <2>8. f \in Injection(J, later)
    BY <2>6, <2>7 DEF Injection, IsInjective
  <2>9. IsFiniteSet(later) /\ Cardinality(later) = prompt - p
    <3>1. p + 1 \in Int /\ prompt \in Int /\ p <= prompt
      BY <1>1
    <3>2. /\ IsFiniteSet(later)
          /\ Cardinality(later) = IF p + 1 > prompt THEN 0 ELSE prompt - (p + 1) + 1
      BY <3>1, FS_Interval
    <3>3. QED
      BY <3>1, <3>2
  <2>10. Cardinality(J) <= Cardinality(later)
    <3> HIDE DEF J, later
    <3>1. QED
      BY <2>8, <2>9, FS_Injection
  <2>11. QED
    <3> HIDE DEF J, later
    <3>1. Cardinality(J) = KeepRecent /\ Cardinality(later) = prompt - p
      BY <1>3, <2>9
    <3>2. QED
      BY <1>1, <2>10, <3>1
<1>4. QED
  BY <1>2, <1>3 DEF CutAt

\* What a cut leaves out is of no recent prompt: their messages only move.
LEMMA CutLeavesRecent ==
    ASSUME NEW s \in Seq(Messages), s # <<>>, Shape(s), Numbered(s), Ordered(s), prompt \in Nat,
           NEW c, NEW b \in 1 .. Len(s), NEW d \in {0, 1}, CutAt(s, c, b, d),
           NEW p \in 1 .. prompt, p + KeepRecent > prompt
    PROVE  IsPrefix(OfPrompt(p, s), OfPrompt(p, c))
<1> DEFINE n == Len(s)
           e == 1 - b + d
           keep == PositionsOf(p, s)
           moved == {i + e : i \in keep}
<1>1. /\ n \in Nat /\ DOMAIN s = 1 .. n /\ b \in Nat /\ d \in Nat /\ e \in Int
      /\ c \in Seq(Messages) /\ Len(c) = n - b + 1 + d /\ DOMAIN c = 1 .. Len(c)
      /\ Len(c) \in Nat
  BY DEF CutAt
<1>2. \A i \in b .. n : c[i + e] = s[i]
  <2> TAKE i \in b .. n
  <2>1. i + e = i - b + 1 + d
    BY <1>1
  <2>2. QED
    BY <2>1 DEF CutAt
<1>3. \A i \in keep : i \in b .. n
  <2> TAKE i \in keep
  <2>1. i \in 1 .. n
    BY <1>1 DEF PositionsOf
  <2>2. i >= b
    BY CutIsOld
  <2>3. QED
    BY <1>1, <2>1, <2>2
<1>4. PositionsOf(p, c) = moved
  <2>1. ASSUME NEW i \in keep PROVE i + e \in PositionsOf(p, c)
    <3>1. i \in b .. n /\ s[i].type # "summary" /\ s[i].about = {p}
      BY <1>3 DEF PositionsOf
    <3>2. i + e \in 1 .. Len(c)
      BY <1>1, <3>1
    <3>3. QED
      BY <1>1, <1>2, <3>1, <3>2 DEF PositionsOf
  <2>2. ASSUME NEW k \in PositionsOf(p, c) PROVE k - e \in keep /\ k = (k - e) + e
    <3>1. k \in 1 .. Len(c) /\ c[k].type # "summary" /\ c[k].about = {p}
      BY <1>1 DEF PositionsOf
    <3>2. ~(d = 1 /\ k = 1)
      BY <3>1 DEF CutAt
    <3>3. k - e \in b .. n /\ k = (k - e) + e /\ k - e \in 1 .. n
      <4>1. k \in Nat /\ 1 + d <= k /\ k <= n - b + 1 + d
        BY <1>1, <3>1, <3>2
      <4>2. k - e = k - 1 + b - d
        BY <1>1, <4>1
      <4>3. b <= k - e /\ k - e <= n /\ k - e \in Int
        BY <1>1, <4>1, <4>2
      <4>4. k = (k - e) + e
        BY <1>1, <4>1
      <4>5. QED
        BY <1>1, <4>3, <4>4
    <3>4. c[k] = s[k - e]
      BY <1>2, <3>3
    <3>5. QED
      BY <1>1, <3>1, <3>3, <3>4 DEF PositionsOf
  <2> HIDE DEF keep, e
  <2>3. QED
    BY <2>1, <2>2
<1>5. keep \in SUBSET (1 .. n) /\ moved \in SUBSET (1 .. Len(c))
  <2>1. keep \in SUBSET (1 .. n)
    BY <1>1 DEF PositionsOf
  <2>2. PositionsOf(p, c) \in SUBSET (1 .. Len(c))
    BY <1>1 DEF PositionsOf
  <2>3. QED
    BY <1>4, <2>1, <2>2
<1> HIDE DEF keep, e
<1>6. /\ Cardinality(moved) = Cardinality(keep)
      /\ \A k \in 1 .. Cardinality(keep) : Nth(moved, k) = Nth(keep, k) + e
  BY <1>1, <1>5, ShiftedPositions
<1> HIDE DEF moved
<1>7. /\ Cardinality(keep) \in Nat
      /\ MessagesAt(s, keep) \in Seq(Messages) /\ MessagesAt(c, moved) \in Seq(Messages)
      /\ Len(MessagesAt(s, keep)) = Cardinality(keep)
      /\ Len(MessagesAt(c, moved)) = Cardinality(moved)
      /\ \A k \in 1 .. Cardinality(keep) : MessagesAt(s, keep)[k] = s[Nth(keep, k)]
      /\ \A k \in 1 .. Cardinality(moved) : MessagesAt(c, moved)[k] = c[Nth(moved, k)]
  BY <1>1, <1>5, MessagesAtIs
<1>8. \A k \in 1 .. Cardinality(keep) : MessagesAt(s, keep)[k] = MessagesAt(c, moved)[k]
  <2> TAKE k \in 1 .. Cardinality(keep)
  <2>1. Nth(keep, k) \in b .. n
    BY <1>1, <1>3, <1>5, NthExists
  <2>2. c[Nth(keep, k) + e] = s[Nth(keep, k)]
    BY <1>2, <2>1
  <2>3. QED
    BY <1>6, <1>7, <2>2
<1>9. IsPrefix(MessagesAt(s, keep), MessagesAt(c, moved))
  BY <1>6, <1>7, <1>8, SamePrefix
<1>10. OfPrompt(p, s) = MessagesAt(s, keep) /\ OfPrompt(p, c) = MessagesAt(c, moved)
  BY <1>4 DEF keep, OfPrompt, PositionsOf
<1>11. QED
  BY <1>9, <1>10

\* No compaction, however many there were before it, drops or rewrites a message
\* of one of the KeepRecent last prompts, nor does anything but /clear.
THEOREM RecentRoundsStay == LoopSpec => RecentRoundsKept
<1> DEFINE Kept == messages' # <<>> =>
                      \A p \in 1 .. prompt : p + KeepRecent > prompt =>
                          IsPrefix(OfPrompt(p, messages), OfPrompt(p, messages'))
<1>1. LoopIInv /\ [LoopNext]_loopVars => [Kept]_messages
  <2> SUFFICES ASSUME LoopIInv, LoopNext, messages' # messages, messages' # <<>>,
                      NEW p \in 1 .. prompt, p + KeepRecent > prompt
               PROVE  IsPrefix(OfPrompt(p, messages), OfPrompt(p, messages'))
    BY DEF loopVars
  <2> USE LoopAssumption
  <2>1. messages \in Seq(Messages) /\ prompt \in Nat
    BY DEF LoopIInv, LoopTypeOK, Prompts
  <2>2. ASSUME NEW m \in Messages, messages' = Append(messages, m)
        PROVE  IsPrefix(OfPrompt(p, messages), OfPrompt(p, messages'))
    BY <2>1, <2>2, AppendExtends
  <2>3. CASE StartRun
    <3>1. Message("prompt", {prompt'}, 0) \in Messages
      BY <2>3 DEF LoopIInv, LoopTypeOK, StartRun, Message, Messages, Types, Prompts
    <3>2. QED
      BY <2>2, <2>3, <3>1 DEF StartRun
  <2>4. CASE AutoCompact
    <3>1. messages # <<>> /\ Shape(messages) /\ Numbered(messages) /\ Ordered(messages)
      BY <2>4 DEF LoopIInv, MessagesInv, AutoCompact
    <3>2. messages' \in Compacted(messages)
      BY <2>4 DEF AutoCompact
    <3>3. PICK b \in 1 .. Len(messages), d \in {0, 1} : CutAt(messages, messages', b, d)
      BY <2>1, <3>1, <3>2, CompactedIsCut
    <3>4. QED
      BY <2>1, <3>1, <3>3, CutLeavesRecent
  <2>5. CASE Answer
    <3>1. Message("text", {prompt}, 0) \in Messages
      BY DEF LoopIInv, LoopTypeOK, Message, Messages, Types, Prompts
    <3>2. QED
      BY <2>2, <2>5, <3>1 DEF Answer
  <2>6. ASSUME NEW k \in 1 .. MaxToolCalls, CallTools(k)
        PROVE  IsPrefix(OfPrompt(p, messages), OfPrompt(p, messages'))
    <3>1. Message("calls", {prompt}, k) \in Messages
      BY DEF LoopIInv, LoopTypeOK, Message, Messages, Types, Prompts
    <3>2. QED
      BY <2>2, <2>6, <3>1 DEF CallTools
  <2>7. ASSUME NEW r, AppendResults(r)
        PROVE  IsPrefix(OfPrompt(p, messages), OfPrompt(p, messages'))
    <3>1. Message("results", {prompt}, uses) \in Messages
      BY DEF LoopIInv, LoopTypeOK, Message, Messages, Types, Prompts
    <3>2. QED
      BY <2>2, <2>7, <3>1 DEF AppendResults
  <2>8. QED
    BY <2>3, <2>4, <2>5, <2>6, <2>7
    DEF LoopNext, RunToolLoop, CheckLimits, TurnFails, ClearMessages, AskFork, StartFork
<1>2. QED
  BY <1>1, LoopInvariance, PTL DEF LoopSpec, RecentRoundsKept
=============================================================================
