------------------------------ MODULE Terminal ------------------------------
(***************************************************************************)
(* What a text display promises: it shows the last Rows lines of what was  *)
(* printed, broken after Columns characters and at every newline.          *)
(***************************************************************************)
EXTENDS Naturals, Sequences

CONSTANTS Columns, Rows, Glyphs

VARIABLE lines \* the lines shown; the last one is being written

NewLine(ls) == Append(IF Len(ls) = Rows THEN Tail(ls) ELSE ls, <<>>)
Write(ls, ch) == [ls EXCEPT ![Len(ls)] = Append(@, ch)]
Full(ls) == Len(ls[Len(ls)]) = Columns

Init == lines = <<<<>>>>

Break == lines' = NewLine(lines)
Show(ch) == lines' = Write(IF Full(lines) THEN NewLine(lines) ELSE lines, ch)

Next == Break \/ \E ch \in Glyphs : Show(ch)

Spec == Init /\ [][Next]_lines
=============================================================================
