------------------------------ MODULE Terminal -------------------------------
(***************************************************************************)
(* The text buffer of class Terminal (terminal.hpp): a ring of lines       *)
(* between head and tail, and the characters drawn in the framebuffer.     *)
(* Rows and columns are counted from 0 as in the code.  The cursor, a      *)
(* one-pixel rule, is not modelled.                                        *)
(***************************************************************************)
EXTENDS Naturals, Sequences

CONSTANTS Chars, Blank, Rows, Columns   \* Blank: nothing drawn

VARIABLES buffer,   \* Line: data and len, by index in the ring
          head, tail, row, column,
          fb        \* the character drawn at each row and column

vars == <<buffer, head, tail, row, column, fb>>

Ring == 0..Rows - 1
Cells == Ring \X (0..Columns - 1)
Empty == [data |-> [c \in 0..Columns - 1 |-> Blank], len |-> 0]

\* resize, called by the constructor
Init ==
  /\ buffer = [i \in Ring |-> Empty]
  /\ head = 0 /\ tail = 1 /\ row = 0 /\ column = 0
  /\ fb = [p \in Cells |-> Blank]

-----------------------------------------------------------------------------
\* The number of lines the loop visits: n = 0, and while i differs from tail.
Visited(h, t) == CHOOSE n \in 1..Rows : (h + n) % Rows = t

draw_all(b, h, t) ==
  [p \in Cells |->
    LET line == b[(h + p[1]) % Rows]
    IN  IF p[1] < Visited(h, t) /\ p[2] < line.len THEN line.data[p[2]] ELSE Blank]

\* Deliberately wrong: the line that becomes the current one keeps its length.
newline_uncleared(b, screen) ==
  LET redraw == row + 1 = Rows
  IN  /\ tail' = (tail + 1) % Rows
      /\ row' = IF redraw THEN row ELSE row + 1
      /\ head' = IF redraw THEN (head + 1) % Rows ELSE head
      /\ column' = 0
      /\ buffer' = b
      /\ fb' = IF redraw THEN draw_all(buffer', head', tail') ELSE screen

\* b is the buffer, and screen the framebuffer, when newline is called.
newline(b, screen) ==
  LET redraw == row + 1 = Rows
  IN  /\ tail' = (tail + 1) % Rows
      /\ row' = IF redraw THEN row ELSE row + 1
      /\ head' = IF redraw THEN (head + 1) % Rows ELSE head
      /\ column' = 0
      /\ buffer' = [b EXCEPT ![IF tail' = 0 THEN Rows - 1 ELSE tail' - 1].len = 0]
      /\ fb' = IF redraw THEN draw_all(buffer', head', tail') ELSE screen

Line == (head + row) % Rows

putc_newline == newline(buffer, fb)

putc_backspace ==
  /\ column # 0
  /\ column' = column - 1
  /\ buffer' = [buffer EXCEPT ![Line].len = @ - 1]
  /\ fb' = [fb EXCEPT ![row, column - 1] = Blank]
  /\ UNCHANGED <<head, tail, row>>

\* The character that fills a line is stored and not drawn.
putc_char(chr) ==
  LET b == [buffer EXCEPT ![Line].data[column] = chr, ![Line].len = @ + 1]
  IN  \/ /\ column + 1 # Columns
         /\ buffer' = b
         /\ fb' = [fb EXCEPT ![row, column] = chr]
         /\ column' = column + 1
         /\ UNCHANGED <<head, tail, row>>
      \/ column + 1 = Columns /\ newline(b, fb)

Next == putc_newline \/ putc_backspace \/ \E chr \in Chars : putc_char(chr)

Spec == Init /\ [][Next]_vars

-----------------------------------------------------------------------------
(* Properties.                                                             *)

\* Every variable keeps its type; a line is never longer than its storage.
TypeOK ==
  /\ buffer \in [Ring -> [data : [0..Columns - 1 -> Chars \cup {Blank}], len : 0..Columns]]
  /\ head \in Ring /\ tail \in 0..Rows /\ row \in Ring /\ column \in 0..Columns - 1
  /\ fb \in [Cells -> Chars \cup {Blank}]

\* The n-th line of the text, from the ring.
Text(n) == LET line == buffer[(head + n) % Rows]
           IN  [c \in 1..line.len |-> line.data[c - 1]]

Shown == INSTANCE Screen WITH lines <- [n \in 1..row + 1 |-> Text(n - 1)]

\* The ring between head and tail is the screen: newline, the wrap of a full line
\* and backspace do to it what they should do to the last Rows lines written.
RingIsScreen == Shown!Spec

\* What is drawn is the text of the ring, whether it was drawn one character at
\* a time or by draw_all.  The last column is the exception: putc does not draw
\* the character that fills a line, it appears at the next draw_all.
DrawnIsText ==
  \A p \in Cells :
    LET line == buffer[(head + p[1]) % Rows]
        text == IF p[1] <= row /\ p[2] < line.len THEN line.data[p[2]] ELSE Blank
    IN  fb[p] = text \/ (p[2] = Columns - 1 /\ fb[p] = Blank)
=============================================================================
