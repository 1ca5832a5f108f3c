------------------------------ MODULE Console ------------------------------
(***************************************************************************)
(* kprintf: print_lock, the formatting of a decimal number, and the output *)
(* to the serial port and then to the video memory (kernel/print.c, com.c  *)
(* and vga.c).                                                             *)
(*                                                                         *)
(* Three contexts print.  The kernel process prints the number of a        *)
(* message it does not know, and idle, which runs when no other process    *)
(* can, a letter for ever: interrupts are on, and each can be interrupted  *)
(* anywhere.  A handler, of the keyboard or of a system call, prints       *)
(* numbers of processes with interrupts off, on top of whatever it has     *)
(* interrupted; where that holds print_lock, the handler spins for good.   *)
(* The other processes do not print.                                       *)
(***************************************************************************)
EXTENDS Integers, SequencesExt

CONSTANTS
  Values,     \* the numbers that are printed
  Base,       \* base of the digits, 10 in the code
  Columns, Rows,
  MaxPrints   \* bound: calls of kprintf

ASSUME ConsoleAssumption ==
  /\ Values \subseteq Int
  /\ {Base, Columns, Rows, MaxPrints} \subseteq Nat \ {0}

Contexts == {"idle", "kernel", "handler"}
MINUS == -1
NL == -2
BLANK == -3
LETTER == -4   \* the "i" of idle
Cells == 0 .. Columns * Rows - 1

VARIABLES
  print_lock,
  running,            \* who has the CPU: a context, or the "others"
  ready,              \* who of "kernel" and "others" is not blocked
  below,              \* whom the handler has interrupted
  pc, value,          \* each context: where it is, its argument
  buf, todo,          \* its text, and what is left to print of it
  serial,             \* what COM1 has sent
  said,               \* history: the messages, in the order of their locks
  vga_mem, vga_col, vga_row,
  prints

vga_vars == <<vga_mem, vga_col, vga_row>>
vars == <<print_lock, running, ready, below, pc, value, buf, todo, serial, said, vga_vars, prints>>

-----------------------------------------------------------------------------
(* The digits of v > 0, least first, as putd collects them.                *)
RECURSIVE Digits(_)
Digits(v) == IF v = 0 THEN <<>> ELSE <<v % Base>> \o Digits(v \div Base)

putd(v) ==
  IF v = 0 THEN <<0>>
  ELSE IF v < 0 THEN <<MINUS>> \o Reverse(Digits(-v)) ELSE Reverse(Digits(v))

(* kvformat of "i" and of "%d\n"; the wording around %d is left out.       *)
kvformat(c, v) == IF c = "idle" THEN <<LETTER>> ELSE Append(putd(v), NL)

-----------------------------------------------------------------------------
(* Mutant: the last row is not cleared.                                    *)
vga_scrollup_kept(m) ==
  [i \in Cells |-> IF i + Columns \in Cells THEN m[i + Columns] ELSE m[i]]

vga_scrollup(m) ==
  [i \in Cells |-> IF i + Columns \in Cells THEN m[i + Columns] ELSE BLANK]

vga_putch(ch) ==
  LET wraps == vga_col >= Columns \/ ch = NL
      row1 == IF wraps THEN vga_row + 1 ELSE vga_row
      col1 == IF wraps THEN 0 ELSE vga_col
      row2 == IF row1 >= Rows THEN row1 - 1 ELSE row1
      m == IF row1 >= Rows THEN vga_scrollup(vga_mem) ELSE vga_mem
  IN /\ vga_row' = row2
     /\ vga_col' = IF ch = NL THEN col1 ELSE col1 + 1
     /\ vga_mem' = IF ch = NL THEN m ELSE [m EXCEPT ![row2 * Columns + col1] = ch]

(* print_init                                                              *)
Init ==
  /\ print_lock = 0
  /\ running = "others" /\ ready = {"kernel", "others"} /\ below = "others"
  /\ pc = [c \in Contexts |-> "out"]
  /\ value = [c \in Contexts |-> 0]
  /\ buf = [c \in Contexts |-> <<>>]
  /\ todo = [c \in Contexts |-> <<>>]
  /\ serial = <<>>
  /\ said = <<>>
  /\ vga_mem = [i \in Cells |-> BLANK]
  /\ vga_col = 0 /\ vga_row = 0
  /\ prints = 0

At(c, from, to) ==
  /\ running = c
  /\ pc[c] = from
  /\ pc' = [pc EXCEPT ![c] = to]
  /\ UNCHANGED <<running, below>>

(* kprintf is called.                                                      *)
Call(c, v) ==
  /\ prints < MaxPrints
  /\ At(c, "out", "lock")
  /\ prints' = prints + 1
  /\ value' = [value EXCEPT ![c] = v]
  /\ UNCHANGED <<print_lock, ready, buf, todo, serial, said, vga_vars>>

(* Mutant: the lock is taken without a look at it.                         *)
Lock_unchecked(c) ==
  /\ At(c, "lock", "com")
  /\ print_lock' = 1
  /\ buf' = [buf EXCEPT ![c] = kvformat(c, value[c])]
  /\ todo' = [todo EXCEPT ![c] = buf'[c]]
  /\ said' = Append(said, buf'[c])
  /\ UNCHANGED <<ready, value, serial, vga_vars, prints>>

(* The compare-and-swap of LOCK succeeds; the text is formatted.           *)
Lock(c) ==
  /\ print_lock = 0
  /\ At(c, "lock", "com")
  /\ print_lock' = 1
  /\ buf' = [buf EXCEPT ![c] = kvformat(c, value[c])]
  /\ todo' = [todo EXCEPT ![c] = buf'[c]]
  /\ said' = Append(said, buf'[c])
  /\ UNCHANGED <<ready, value, serial, vga_vars, prints>>

(* com_puts and then vga_puts, a character a step.                         *)
com_putc(c) ==
  /\ todo[c] # <<>>
  /\ At(c, "com", "com")
  /\ serial' = Append(serial, Head(todo[c]))
  /\ todo' = [todo EXCEPT ![c] = Tail(@)]
  /\ UNCHANGED <<print_lock, ready, value, buf, said, vga_vars, prints>>

com_done(c) ==
  /\ todo[c] = <<>>
  /\ At(c, "com", "vga")
  /\ todo' = [todo EXCEPT ![c] = buf[c]]
  /\ UNCHANGED <<print_lock, ready, value, buf, serial, said, vga_vars, prints>>

vga_puts(c) ==
  /\ todo[c] # <<>>
  /\ At(c, "vga", "vga")
  /\ vga_putch(Head(todo[c]))
  /\ todo' = [todo EXCEPT ![c] = Tail(@)]
  /\ UNCHANGED <<print_lock, ready, value, buf, serial, said, prints>>

Unlock(c) ==
  /\ todo[c] = <<>>
  /\ At(c, "vga", "out")
  /\ print_lock' = 0
  /\ UNCHANGED <<ready, value, buf, todo, serial, said, vga_vars, prints>>

(* LOCK goes round.                                                        *)
Spin(c) ==
  /\ print_lock = 1
  /\ running = c /\ pc[c] = "lock"
  /\ UNCHANGED vars

kprintf(c) ==
  Lock(c) \/ Spin(c) \/ com_putc(c) \/ com_done(c) \/ vga_puts(c) \/ Unlock(c)

-----------------------------------------------------------------------------
(* Who prints what.                                                        *)
proc_idle == Call("idle", 0)
msg_dispatcher(v) == Call("kernel", v)
proc_dump_proc_list(v) == Call("handler", v)

(* A handler runs, and prints as often as it likes: kbd_handler a line for *)
(* each process.                                                           *)
Enter ==
  /\ running # "handler"
  /\ running' = "handler"
  /\ below' = running
  /\ UNCHANGED <<print_lock, ready, pc, value, buf, todo, serial, said, vga_vars, prints>>

Return ==
  /\ running = "handler" /\ pc["handler"] = "out"
  /\ running' = below
  /\ UNCHANGED <<print_lock, ready, below, pc, value, buf, todo, serial, said, vga_vars, prints>>

-----------------------------------------------------------------------------
(* The scheduler takes idle only when no other process is ready.           *)
Schedule ==
  /\ running' \in IF ready' = {} THEN {"idle"} ELSE ready'
  /\ UNCHANGED <<print_lock, below, pc, value, buf, todo, serial, said, vga_vars, prints>>

Timer == running # "handler" /\ UNCHANGED ready /\ Schedule

(* A process sends the kernel process a message, and blocks; or it blocks  *)
(* in ipc_recv.  Others may be left.                                       *)
Message ==
  /\ running = "others"
  /\ ready' \in {{"kernel"}, {"kernel", "others"}}
  /\ Schedule

Sleep ==
  /\ running = "others"
  /\ ready' = ready \ {"others"}
  /\ Schedule

(* The kernel process replies, and waits for the next message in ipc_recv. *)
Reply ==
  /\ running = "kernel" /\ pc["kernel"] = "out"
  /\ ready' = ready \cup {"others"}
  /\ Schedule

Wait ==
  /\ running = "kernel" /\ pc["kernel"] = "out"
  /\ ready' = ready \ {"kernel"}
  /\ Schedule

Next ==
  \/ \E c \in Contexts : kprintf(c)
  \/ proc_idle
  \/ \E v \in Values : msg_dispatcher(v) \/ proc_dump_proc_list(v)
  \/ Enter \/ Return \/ Timer \/ Message \/ Sleep \/ Reply \/ Wait

Spec == Init /\ [][Next]_vars

-----------------------------------------------------------------------------
(* print_lock keeps messages whole, wherever a handler that prints comes   *)
(* between: the serial port sends one after the other, none twice, in the  *)
(* order in which the lock was taken.                                      *)
MessagesWhole == IsPrefix(serial, FlattenSeq(said))

terminal == INSTANCE Terminal WITH Glyphs <- {}, lines <- <<>>

(* The lines that a display shows after a text.                            *)
Shown(text) ==
  FoldLeft(LAMBDA ls, ch :
             IF ch = NL THEN terminal!NewLine(ls)
             ELSE terminal!Write(IF terminal!Full(ls) THEN terminal!NewLine(ls) ELSE ls, ch),
           <<<<>>>>, text)

(* The video memory shows the end of what went over the serial port, once  *)
(* nobody prints: the two outputs of kprintf never come apart.             *)
OutputsAgree ==
  print_lock = 0 =>
    LET ls == Shown(serial)
    IN \A y \in 1 .. Rows, x \in 1 .. Columns :
         vga_mem[(y - 1) * Columns + x - 1] =
           IF y <= Len(ls) /\ x <= Len(ls[y]) THEN ls[y][x] ELSE BLANK
=============================================================================
