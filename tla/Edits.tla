-------------------------------- MODULE Edits --------------------------------
(***************************************************************************)
(* What the edit and write tools do to a text (tool/edit.go, write.go) and *)
(* the diff shown of it (agent/file_diff.go).  A text is a sequence of     *)
(* lines; an anchor is a sequence of whole lines.                          *)
(*                                                                         *)
(* An input of edit is [names, mode, old, new, all, nth], nth = 0 when no  *)
(* occurrence is given; one of write is [names, new, overwrite].  names    *)
(* holds the paths given, under the keys "path", "file_path", "filePath".  *)
(***************************************************************************)
EXTENDS Naturals, Sequences, SequencesExt, FiniteSetsExt

Absent == [exists |-> FALSE, text |-> <<>>]
FileOf(text) == [exists |-> TRUE, text |-> text]
-----------------------------------------------------------------------------
(* EditTool.Call.                                                          *)

\* Where old begins in s, the matches not overlapping (strings.Index in a loop).
Matches(s, old) ==
    LET at(k) == SubSeq(s, k, k + Len(old) - 1) = old
        from[k \in 1 .. Len(s) + 1] ==
            LET later == {j \in k .. Len(s) + 1 - Len(old) : at(j)}
            IN IF later = {} THEN <<>>
               ELSE <<Min(later)>> \o from[Min(later) + Len(old)]
    IN from[1]

EditReplacement(in) ==
    CASE in.mode = "replace" -> in.new
      [] in.mode = "delete" -> <<>>
      [] in.mode = "insert_before" -> in.new \o in.old
      [] in.mode = "insert_after" -> in.old \o in.new

\* editNth or editAll: the matches of the sequence at are replaced, from the
\* last one so that the earlier ones stay where they are.
EditAt(s, in, at) ==
    FoldRight(LAMBDA k, t : SubSeq(t, 1, k - 1) \o EditReplacement(in)
                                \o SubSeq(t, k + Len(in.old), Len(t)),
              at, s)

\* The edit is refused: no anchor, one that is not unique, or no such match.
EditRefused(file, in) ==
    LET count == Len(Matches(file.text, in.old))
    IN \/ ~file.exists
       \/ count = 0
       \/ in.all /\ in.nth > 0
       \/ ~in.all /\ in.nth = 0 /\ count > 1
       \/ in.nth > count

\* What a successful edit leaves.
Edited(s, in) ==
    LET at == Matches(s, in.old)
    IN EditAt(s, in, IF in.all THEN at ELSE <<at[IF in.nth = 0 THEN 1 ELSE in.nth]>>)

\* WriteTool.Call: O_EXCL without overwrite.
WriteRefused(file, in) == file.exists /\ ~in.overwrite
-----------------------------------------------------------------------------
(* unifiedFileDiff.                                                        *)

Op(kind, line) == [kind |-> kind, line |-> line]

\* diffLines: the table of longest common subsequences, then a walk through it
\* that deletes before it inserts.
DiffLines(a, b) ==
    LET n == Len(a) m == Len(b)
        table[i \in 1 .. n + 1, j \in 1 .. m + 1] ==
            IF i > n \/ j > m THEN 0
            ELSE IF a[i] = b[j] THEN table[i + 1, j + 1] + 1
            ELSE Max({table[i + 1, j], table[i, j + 1]})
        ops[i \in 1 .. n + 1, j \in 1 .. m + 1] ==
            IF i > n THEN [k \in 1 .. m + 1 - j |-> Op("insert", b[j + k - 1])]
            ELSE IF j > m THEN [k \in 1 .. n + 1 - i |-> Op("delete", a[i + k - 1])]
            ELSE IF a[i] = b[j] THEN <<Op("equal", a[i])>> \o ops[i + 1, j + 1]
            ELSE IF table[i + 1, j] >= table[i, j + 1]
                 THEN <<Op("delete", a[i])>> \o ops[i + 1, j]
                 ELSE <<Op("insert", b[j])>> \o ops[i, j + 1]
    IN ops[1, 1]

\* What a reader of a diff takes the text to have been, or to be now.
Shown(ops, kinds) ==
    LET kept == SelectSeq(ops, LAMBDA op : op.kind \in kinds)
    IN [k \in DOMAIN kept |-> kept[k].line]
=============================================================================
