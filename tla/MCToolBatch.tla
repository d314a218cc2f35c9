----------------------------- MODULE MCToolBatch -----------------------------
(***************************************************************************)
(* Three calls, so that a batch of two can have one before or after it.    *)
(* The second file is not there at first.  The inputs do not commute: an   *)
(* anchor is unique, made ambiguous, taken away or found again depending   *)
(* on the order.  Two hooks of edit run together and choose other edits:   *)
(* one redirects to the other file under the key the model uses, one adds  *)
(* a key that only the record and the diff prefer.  The last input has a   *)
(* key that write does not know.                                           *)
(***************************************************************************)
EXTENDS ToolBatch

Edit(names, mode, old, new, all, nth) ==
    [names |-> names, mode |-> mode, old |-> old, new |-> new, all |-> all, nth |-> nth]
Write(names, new, overwrite) == [names |-> names, new |-> new, overwrite |-> overwrite]

MCFiles == [f1 |-> FileOf(<<"a">>), f2 |-> Absent]

MCInputs == {Edit([file_path |-> "f1"], "insert_after", <<"a">>, <<"b", "a">>, FALSE, 0),
             Write([filePath |-> "f2"], <<"a", "b">>, FALSE),
             Write([filePath |-> "f1"], <<"b", "a">>, TRUE),
             Write([path |-> "f1"], <<"b">>, TRUE)}

MCHooks == <<[parallel |-> TRUE,
              update |-> Edit([filePath |-> "f2"], "delete", <<"a">>, <<>>, FALSE, 0)],
             [parallel |-> TRUE,
              update |-> Edit([filePath |-> "f1", file_path |-> "f2"],
                              "replace", <<"a">>, <<"b">>, TRUE, 0)]>>
=============================================================================
