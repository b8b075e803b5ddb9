------------------------------- MODULE Screen --------------------------------
(***************************************************************************)
(* What a terminal promises: the last Rows lines of the text written to    *)
(* it, each of at most Columns characters.  A full line ends by itself.    *)
(***************************************************************************)
EXTENDS Naturals, Sequences

CONSTANTS Chars, Rows, Columns

VARIABLE lines    \* oldest first; the last one is being written

Init == lines = << <<>> >>

Cut(text) == IF Len(text) > Rows THEN Tail(text) ELSE text
Current == lines[Len(lines)]
Replaced(line) == [lines EXCEPT ![Len(lines)] = line]

Write(c) ==
  LET line == Append(Current, c)
  IN  lines' = IF Len(line) = Columns THEN Cut(Append(Replaced(line), <<>>)) ELSE Replaced(line)

Newline == lines' = Cut(Append(lines, <<>>))

Erase ==
  /\ Current # <<>>
  /\ lines' = Replaced(SubSeq(Current, 1, Len(Current) - 1))

Next == Newline \/ Erase \/ \E c \in Chars : Write(c)

Spec == Init /\ [][Next]_lines
=============================================================================
