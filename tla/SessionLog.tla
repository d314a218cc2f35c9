------------------------------ MODULE SessionLog ------------------------------
(***************************************************************************)
(* The session store (session.go) and the controller that saves and        *)
(* resumes (sessionController, main.go).  A session is a file of JSON      *)
(* lines, one snapshot each; a save appends a line and, when there are too *)
(* many, rewrites the file as its last snapshot, in place and without a    *)
(* lock.  Several terminals of one project share the directory, and a      *)
(* terminal may be killed between any two writes.                          *)
(*                                                                         *)
(* A snapshot is its time and the conversation it holds; conversations are *)
(* numbered by the save that follows the run which made them.  A line that *)
(* was cut off is Torn, and whatever comes after it, in the same line, is  *)
(* left out.  A record of more than 10 MiB, as images make it, is appended *)
(* like any other but is TooLong for the scanner.  No reader gets past     *)
(* either of them.                                                         *)
(***************************************************************************)
EXTENDS Naturals, Sequences, SequencesExt

CONSTANTS Terminals,   \* processes that run the TUI
          Sessions,    \* session ids, as many as are ever drawn
          NoSession,   \* the session of a terminal that is off
          MaxRecords,  \* defaultSessionCheckpointRecords
          MaxSaves     \* bound of the model: saves there are

ASSUME SessionAssumption ==
    MaxRecords \in Nat \ {0} /\ MaxSaves \in Nat /\ NoSession \notin Sessions

Times == 1 .. MaxSaves
Conversations == 0 .. MaxSaves
Snapshots == [time : Times, conv : Conversations]
None == [time |-> 0, conv |-> 0]
Torn == [time |-> 0, conv |-> 1]
TooLong == [time |-> 0, conv |-> 2]
Unreadable == {Torn, TooLong}
Steps == {"off", "prompt", "append", "count", "load", "truncate", "write"}

VARIABLES
    file,     \* the lines of each session's file; empty if there is none
    clock,    \* time.Now, as the number of saves begun
    issued,   \* ids that NewSessionID has given out
    step,     \* what each terminal is doing
    session,  \* sessionController.sessionID
    conv,     \* the conversation of the agent
    record,   \* the snapshot a save is writing
    long,     \* terminals whose record is too long for the readers
    saved,    \* history: the last snapshot each session's file was sent whole
    shared,   \* history: sessions two terminals have had open at once
    cut,      \* history: sessions whose file a write was cut short in
    oversized \* history: sessions a record that is too long was appended to

terminals == <<step, session, conv, record, long>>
history == <<saved, shared, cut, oversized>>
vars == <<file, clock, issued, terminals, history>>

Live(t) == step[t] # "off"

Init ==
    /\ file = [s \in Sessions |-> <<>>]
    /\ clock = 0 /\ issued = {}
    /\ step = [t \in Terminals |-> "off"]
    /\ session = [t \in Terminals |-> NoSession]
    /\ conv = [t \in Terminals |-> 0]
    /\ record = [t \in Terminals |-> None] /\ long = {}
    /\ saved = [s \in Sessions |-> None] /\ shared = {} /\ cut = {} /\ oversized = {}

Goto(t, s) == step' = [step EXCEPT ![t] = s]
-----------------------------------------------------------------------------
(* Reading.                                                                *)

\* loadSessionSnapshot fails at a malformed line, at one that does not fit the
\* scanner's buffer, and without any record.
Readable(s) == file[s] # <<>> /\ \A i \in DOMAIN file[s] : file[s][i] \notin Unreadable

\* Mutant: the first record is taken for the latest.
LoadedFirst(s) == Head(file[s])

Loaded(s) == Last(file[s])

\* List, which leaves out what it cannot read.
Listed == {s \in Sessions : Readable(s)}

\* LoadLatest: the listed session with the latest snapshot.
Latest == CHOOSE s \in Listed : \A r \in Listed : Loaded(r).time <= Loaded(s).time
-----------------------------------------------------------------------------
(* Saving (AppendSnapshot and compactSessionLogIfNeeded).                  *)

Appended(lines, line) ==
    IF lines # <<>> /\ Last(lines) = Torn THEN lines ELSE Append(lines, line)

\* Session s of terminal t, which holds conversation c, is saved next; the record
\* of a conversation with images may be too long.
BeginSave(t, s, c, isLong) ==
    /\ clock < MaxSaves
    /\ clock' = clock + 1
    /\ session' = [session EXCEPT ![t] = s]
    /\ conv' = [conv EXCEPT ![t] = c]
    /\ record' = [record EXCEPT ![t] = [time |-> clock', conv |-> c]]
    /\ long' = IF isLong THEN long \union {t} ELSE long \ {t}
    /\ Goto(t, "append")

Line(t) == IF t \in long THEN TooLong ELSE record[t]

AppendRecord(t) ==
    /\ step[t] = "append"
    /\ file' = [file EXCEPT ![session[t]] = Appended(@, Line(t))]
    /\ saved' = [saved EXCEPT ![session[t]] = record[t]]
    /\ oversized' = IF t \in long THEN oversized \union {session[t]} ELSE oversized
    /\ long' = long \ {t}
    /\ Goto(t, "count")
    /\ UNCHANGED <<clock, issued, session, conv, record, shared, cut>>

\* countSessionRecords does not decode the lines, but has the same buffer.
CountRecords(t) ==
    /\ step[t] = "count"
    /\ Goto(t, IF /\ Len(file[session[t]]) > MaxRecords
                  /\ \A i \in DOMAIN file[session[t]] : file[session[t]][i] # TooLong
               THEN "load" ELSE "prompt")
    /\ UNCHANGED <<file, clock, issued, session, conv, record, long, history>>

\* The rewrite starts from what is in the file now; a file that cannot be
\* read stays as it is.
LoadForRewrite(t) ==
    /\ step[t] = "load"
    /\ IF Readable(session[t])
       THEN Goto(t, "truncate") /\ record' = [record EXCEPT ![t] = Loaded(session[t])]
       ELSE Goto(t, "prompt") /\ UNCHANGED record
    /\ UNCHANGED <<file, clock, issued, session, conv, long, history>>

\* os.WriteFile truncates ...
Truncate(t) ==
    /\ step[t] = "truncate"
    /\ file' = [file EXCEPT ![session[t]] = <<>>]
    /\ Goto(t, "write")
    /\ UNCHANGED <<clock, issued, session, conv, record, long, history>>

\* ... and writes at the start of the file, over lines that another terminal
\* has appended since: it covers them all, or ends in one of them or between.
Overwritten(lines, line) ==
    {<<line>>}
    \union (IF lines = <<>> THEN {} ELSE {<<line, Torn>>})
    \union {<<line>> \o SubSeq(lines, i, Len(lines)) : i \in 2 .. Len(lines)}

Write(t) ==
    /\ step[t] = "write"
    /\ \E lines \in Overwritten(file[session[t]], record[t]) :
          file' = [file EXCEPT ![session[t]] = lines]
    /\ Goto(t, "prompt")
    /\ UNCHANGED <<clock, issued, session, conv, record, long, history>>

\* What an end at any point leaves: a record that has not been written at
\* all, the start of its line, or a truncated file.
CutShort(t) ==
    \/ step[t] # "write" /\ UNCHANGED <<file, cut>>
    \/ /\ step[t] \in {"append", "write"}
       /\ \/ file' = [file EXCEPT ![session[t]] =
                       IF step[t] = "append" THEN Appended(@, Torn) ELSE <<Torn>>]
          \/ step[t] = "write" /\ UNCHANGED file
       /\ cut' = cut \union {session[t]}

\* The disk is full: the save reports an error and the terminal goes on.
WriteFails(t) ==
    /\ step[t] \in {"append", "write"}
    /\ CutShort(t)
    /\ Goto(t, "prompt") /\ long' = long \ {t}
    /\ UNCHANGED <<clock, issued, session, conv, record, saved, shared, oversized>>
-----------------------------------------------------------------------------
(* A terminal.                                                             *)

\* RunTUI draws an id and saves the empty session at once.
Start(t) ==
    /\ ~Live(t)
    /\ \E s \in Sessions \ issued :
          /\ issued' = issued \union {s}
          /\ BeginSave(t, s, 0, FALSE)
    /\ UNCHANGED <<file, history>>

\* A run, however it ends, is followed by a save; a terminal that is closed
\* before, at the question after an interrupted run, is one killed in "append".
Run(t) ==
    /\ step[t] = "prompt"
    /\ \E isLong \in BOOLEAN : BeginSave(t, session[t], clock + 1, isLong)
    /\ UNCHANGED <<file, issued, history>>

\* /clear
Clear(t) ==
    /\ step[t] = "prompt"
    /\ BeginSave(t, session[t], 0, FALSE)
    /\ UNCHANGED <<file, issued, history>>

\* /resume: the snapshot replaces the conversation, further saves go to the
\* session's own file.
Resume(t, s) ==
    /\ step[t] = "prompt"
    /\ s \in Listed
    /\ BeginSave(t, s, Loaded(s).conv, FALSE)
    /\ shared' = IF \E u \in Terminals \ {t} : Live(u) /\ session[u] = s
                 THEN shared \union {s} ELSE shared
    /\ UNCHANGED <<file, issued, saved, cut, oversized>>

ResumeLatest(t) == Listed # {} /\ Resume(t, Latest)

\* /exit at the prompt, or the process is killed anywhere.
Crash(t) ==
    /\ Live(t)
    /\ CutShort(t)
    /\ Goto(t, "off")
    /\ session' = [session EXCEPT ![t] = NoSession]
    /\ conv' = [conv EXCEPT ![t] = 0]
    /\ record' = [record EXCEPT ![t] = None] /\ long' = long \ {t}
    /\ UNCHANGED <<clock, issued, saved, shared, oversized>>
-----------------------------------------------------------------------------
Save(t) == \/ AppendRecord(t) \/ CountRecords(t) \/ LoadForRewrite(t)
           \/ Truncate(t) \/ Write(t) \/ WriteFails(t)

Next == \E t \in Terminals :
            \/ Save(t) \/ Start(t) \/ Run(t) \/ Clear(t) \/ ResumeLatest(t) \/ Crash(t)
            \/ \E s \in Sessions : Resume(t, s)

Spec == Init /\ [][Next]_vars
-----------------------------------------------------------------------------
TypeOK ==
    /\ file \in [Sessions -> Seq(Snapshots \union Unreadable)]
    /\ clock \in 0 .. MaxSaves
    /\ issued \subseteq Sessions /\ shared \subseteq Sessions /\ cut \subseteq Sessions
    /\ oversized \subseteq Sessions /\ long \subseteq Terminals
    /\ step \in [Terminals -> Steps]
    /\ session \in [Terminals -> Sessions \union {NoSession}]
    /\ conv \in [Terminals -> Conversations]
    /\ record \in [Terminals -> Snapshots \union {None}]
    /\ saved \in [Sessions -> Snapshots \union {None}]

Alone(s) == s \notin shared

\* No terminal is saving the session, which has been saved before.
AtRest(s) == saved[s] # None /\ \A t \in Terminals : session[t] = s => step[t] = "prompt"
ReadsBack(s) == Readable(s) /\ Loaded(s) = saved[s]

\* Crashes, failed writes, rewrites, records that are too long and other
\* terminals may make a session unreadable, but what can be read is never older
\* than the last snapshot that was saved: unless two terminals have had the
\* session open at once, /resume either fails or loses nothing.
NeverStale ==
    \A s \in Listed : Alone(s) => Loaded(s).time >= saved[s].time

\* As long as nothing is cut short and no record is too long for the readers, a
\* session that is not being saved is read back as it was saved last, rewrites of
\* the log, other sessions' saves and what befalls their files notwithstanding.
SavesAreKept ==
    \A s \in Sessions \ (cut \union oversized) : Alone(s) /\ AtRest(s) => ReadsBack(s)

\* What the documentation says of any session: it can be resumed as it was saved.
\* A record of more than 10 MiB is written, and with it neither this snapshot nor
\* any earlier or later one of the session is ever read again.
SavedSessionsResume ==
    \A s \in Sessions \ cut : Alone(s) /\ AtRest(s) => ReadsBack(s)

=============================================================================
