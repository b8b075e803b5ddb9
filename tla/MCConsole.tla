------------------------------ MODULE MCConsole ------------------------------
(***************************************************************************)
(* The parts of the console for TLC: the refresh loop of the terminal, its *)
(* text buffer and the keyboard.  They share no state: a behaviour is one  *)
(* of one part, while the others keep their initial values.                *)
(***************************************************************************)
EXTENDS Keyboard

CONSTANTS Chars, Blank, Rows, Columns, MaxPuts, MaxSessions

VARIABLES
  part,
  buffer, head, tail, row, column, fb,
  double_buffered, drawn, copied, shown, r_flag, r_registered, term, swap_done, swap_pending,
  r_shell, shell_event, r_kernel, sync_done, r_device, session, r_missed, overrun, dropped

T == INSTANCE Terminal
R == INSTANCE TerminalRefresh WITH flag <- r_flag, registered <- r_registered, shell <- r_shell,
                                   kernel <- r_kernel, device <- r_device, missed <- r_missed

text == <<buffer, head, tail, row, column, fb>>
refresh == <<double_buffered, drawn, copied, shown, r_flag, r_registered, term, swap_done,
             swap_pending, r_shell, shell_event, r_kernel, sync_done, r_device, session,
             r_missed, overrun, dropped>>
all == <<part, vars, text, refresh>>

Typing == part = "keys" /\ UNCHANGED <<part, text, refresh>>
Writing == part = "text" /\ UNCHANGED <<part, vars, refresh>>
Refreshing == part = "refresh" /\ UNCHANGED <<part, vars, text>>

\* The parts that stand still have one initial state each.
ConsoleInit ==
  /\ Init /\ T!Init /\ R!Init
  /\ part \in {"keys", "text", "refresh"}
  /\ part = "keys" \/ packet = CHOOSE p \in Packets : TRUE
  /\ part = "refresh" \/ double_buffered

ConsoleNext == (Typing /\ Next) \/ (Writing /\ T!Next) \/ (Refreshing /\ R!Next)

\* The fairness of Keyboard and of TerminalRefresh.
ConsoleSpec ==
  /\ ConsoleInit /\ [][ConsoleNext]_all
  /\ WF_all(Typing /\ pusher) /\ WF_all(Typing /\ reader)
  /\ WF_all(Refreshing /\ R!shell_main) /\ WF_all(Refreshing /\ R!terminal_main)
  /\ WF_all(Refreshing /\ R!complete) /\ WF_all(Refreshing /\ R!kernel_thread)

-----------------------------------------------------------------------------
\* What is typed is read, in bounds: copy_num, computed in one region under the
\* keyboard's mutex and used in the next, never exceeds the packets.  At most
\* one packet outlives a close.
KeysAreRead == [](TypeOK /\ AtMostOneStale) /\ PacketsAreRead

\* The ring between head and tail is the abstract screen, no line is longer
\* than its storage, and what is drawn is the ring, except in the last column.
ScreenKept == [](T!TypeOK /\ T!DrawnIsText) /\ T!RingIsScreen

\* What is drawn is shown, but for the windows R!DrawnIsShown names.  The virtio
\* device is given one swap at a time, and a swap returns early only after
\* terminal_main was entered again or a completion was overwritten.
DrawnIsShown ==
  [](R!TypeOK /\ R!DropsExplained) /\ R!OneSwapInFlight /\ (part = "refresh" => R!DrawnIsShown)
=============================================================================
