------------------------------- MODULE Screen -------------------------------
(***************************************************************************)
(* The screen server, drivers/screen.c: it takes a message, prints it      *)
(* character by character into the video memory, and replies.  kernel/     *)
(* vga.c is the same code with another fill character.                     *)
(***************************************************************************)
EXTENDS Integers, Sequences

CONSTANTS
  screen_columns, screen_rows,
  Letters, NL, Nul, \* characters: '\n' and '\0' are special
  Blank,            \* a cell that nothing was printed to
  BufSize           \* MSG_IO_BUFSIZE

ASSUME ScreenAssumption ==
  /\ screen_columns \in Nat \ {0}
  /\ screen_rows \in Nat \ {0}
  /\ BufSize \in Nat \ {0}
  /\ {NL, Nul, Blank} \cap Letters = {}
  /\ NL # Nul /\ NL # Blank /\ Nul # Blank

VARIABLES
  video_memory, column, row,
  msg,     \* the message being served, NoMsg if none
  todo     \* what is left to print for it

vars == <<video_memory, column, row, msg, todo>>

Glyphs == Letters \cup {Nul}
Chars == Glyphs \cup {NL}
Cells == 0 .. screen_columns * screen_rows - 1

Message ==
  [type : {"PUTS", "PUTC", "GETC"}, one_char : Chars, chars : [1 .. BufSize -> Chars]]
NoMsg == [type |-> "none"]

(* The variables set and the screen cleared.                               *)
Init ==
  /\ video_memory = [i \in Cells |-> Blank]
  /\ column = 0
  /\ row = 0
  /\ msg = NoMsg
  /\ todo = <<>>

-----------------------------------------------------------------------------
(* Mutant: the first row is lost from the copy.                            *)
scrollup_short(vm) ==
  [i \in Cells |->
     IF i + screen_columns \in Cells
     THEN IF i < screen_columns THEN vm[i] ELSE vm[i + screen_columns] ELSE Blank]

(* Each row takes the contents of the next, the last is cleared.           *)
scrollup(vm) ==
  [i \in Cells |->
     IF i + screen_columns \in Cells THEN vm[i + screen_columns] ELSE Blank]

put_char_at(vm, ch, x, y) == [vm EXCEPT ![y * screen_columns + x] = ch]

Wraps(ch) == column >= screen_columns \/ ch = NL

put_char(ch) ==
  LET row1 == IF Wraps(ch) THEN row + 1 ELSE row
      column1 == IF Wraps(ch) THEN 0 ELSE column
      scrolls == row1 >= screen_rows
      row2 == IF scrolls THEN row1 - 1 ELSE row1
      vm == IF scrolls THEN scrollup(video_memory) ELSE video_memory
  IN /\ row' = row2
     /\ IF ch = NL
        THEN video_memory' = vm /\ column' = column1
        ELSE /\ video_memory' = put_char_at(vm, ch, column1, row2)
             /\ column' = column1 + 1

-----------------------------------------------------------------------------
(* The buffer up to its first '\0', or to its end.                         *)
Text(chars) ==
  LET ends == {n \in 1 .. BufSize : chars[n] = Nul}
      len == IF ends = {} THEN BufSize
             ELSE (CHOOSE n \in ends : \A k \in ends : n <= k) - 1
  IN SubSeq(chars, 1, len)

(* ipc_recv, and the switch: MSG_PUTS falls through to MSG_PUTC.           *)
Receive(m) ==
  /\ msg = NoMsg
  /\ msg' = m
  /\ todo' = CASE m.type = "PUTS" -> Append(Text(m.chars), m.one_char)
               [] m.type = "PUTC" -> <<m.one_char>>
               [] OTHER -> <<>>
  /\ UNCHANGED <<video_memory, column, row>>

Put ==
  /\ todo # <<>>
  /\ put_char(Head(todo))
  /\ todo' = Tail(todo)
  /\ UNCHANGED msg

(* ipc_reply                                                               *)
Reply ==
  /\ msg # NoMsg
  /\ todo = <<>>
  /\ msg' = NoMsg
  /\ UNCHANGED <<video_memory, column, row, todo>>

Next == (\E m \in Message : Receive(m)) \/ Put \/ Reply

Spec == Init /\ [][Next]_vars

-----------------------------------------------------------------------------
(* Row y as far as it was written to.                                      *)
Line(y) ==
  LET cell(x) == video_memory[y * screen_columns + x]
      len == IF \E x \in 0 .. screen_columns - 1 : cell(x) = Blank
             THEN CHOOSE x \in 0 .. screen_columns - 1 :
                    cell(x) = Blank /\ \A z \in 0 .. x - 1 : cell(z) # Blank
             ELSE screen_columns
  IN [x \in 1 .. len |-> cell(x - 1)]

terminal == INSTANCE Terminal WITH
  Columns <- screen_columns, Rows <- screen_rows,
  lines <- [y \in 1 .. row + 1 |-> Line(y - 1)]

(* The server is a text display: each character printed goes behind the    *)
(* one before it, lines break where they should, and when the screen is    *)
(* full it is the oldest line that goes and no other is disturbed.         *)
IsTerminal == terminal!Spec
=============================================================================
