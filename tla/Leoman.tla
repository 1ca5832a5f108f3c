------------------------------- MODULE Leoman -------------------------------
(***************************************************************************)
(* The system as it ships: the kernel's message dispatcher, the idle       *)
(* process, and the screen, kbd, shell and angle programs of the initrd,   *)
(* over the kernel of Ipc.                                                 *)
(*                                                                         *)
(* A program is a control state, which names what it does next.  screen    *)
(* and kbd are clients of the kernel before they are servers; angle calls  *)
(* nothing.  Kbd is the data of kbd and its interrupt handler.             *)
(***************************************************************************)
EXTENDS Ipc

CONSTANTS
  Garbage, \* what a variable holds that nobody has initialised
  Shifts, Keys, NoKey \* of Kbd

kernel == 0
screen == 2
kbd == 3
shell == 4
Servers == {kernel, screen, kbd}

(* A message: its type, and the pid that a search asks for or answers.     *)
Msg(type, val) == [type |-> type, val |-> val]
Find(p) == Msg("FIND_PROC_BY_NAME", p)
Messages ==
  {Find(screen), Find(kbd), Msg("MAP_MEMORY", 0),
   Msg("REQUEST_INTERRUPT_FORWARDING", 0), Msg("PUTS", 0), Msg("PUTC", 0),
   Msg("GETC", 0), Msg("pid", screen), Msg("pid", kbd), Msg("done", 0), Garbage}

ASSUME LeomanAssumption ==
  NEssential = 4 /\ Data = Messages

VARIABLES
  pc,          \* what each program does next
  down, handler, pdir, is_pressed, last, key_pressed, reply, unread, heard, \* Kbd
  early        \* a message was sent to a process that was itself blocked in
               \* ipc_send: syscall_send_msg returned without an answer

kb == INSTANCE Kbd

kbd_vars == <<down, handler, pdir, is_pressed, last, key_pressed, reply, unread, heard>>
lm_vars == <<vars, pc, kbd_vars, early>>

(* p is about to do what it does at a control state.  What programs do    *)
(* after an early message, with an answer that was not written, is not     *)
(* followed.                                                               *)
Program(p, at) == ~early /\ Calling /\ current_proc = p /\ pc[p] = at
Goto(p, to) == pc' = [pc EXCEPT ![p] = to]
NoCall == UNCHANGED vars

-----------------------------------------------------------------------------
(* Servers.                                                                *)

Recv(s) ==
  /\ Program(s, "recv")
  /\ syscall_recv_msg
  /\ Goto(s, "dispatch")
  /\ UNCHANGED <<kbd_vars, early>>

(* Mutant: no process is found by its name.                                *)
Response_not_found(m) == Msg("done", 0)

(* What the request asks for.                                              *)
Response(m) ==
  IF m.type = "FIND_PROC_BY_NAME" THEN Msg("pid", m.val) ELSE Msg("done", 0)

Reply(s) ==
  /\ Program(s, "reply")
  /\ syscall_rply_msg(Response(mem[recv_buf(s)]))
  /\ Goto(s, "recv")
  /\ UNCHANGED <<kbd_vars, early>>

(* Mutant: interrupts are not forwarded.                                   *)
KernelDispatch_unforwarded ==
  /\ Program(kernel, "dispatch")
  /\ Goto(kernel, "reply")
  /\ NoCall
  /\ UNCHANGED <<kbd_vars, early>>

(* The switch of msg_dispatcher.  IRQ 1 is forwarded in two stores, with   *)
(* scheduling off and interrupts on.                                       *)
KernelDispatch ==
  /\ Program(kernel, "dispatch")
  /\ IF mem[recv_buf(kernel)].type = "REQUEST_INTERRUPT_FORWARDING"
     THEN /\ kb!StoreHandler
          /\ scheduling_enabled' = FALSE
          /\ Goto(kernel, "forward")
     ELSE /\ Goto(kernel, "reply")
          /\ UNCHANGED <<kbd_vars, scheduling_enabled>>
  /\ UNCHANGED <<state, pid, next_pid, cursor, idle, current_proc, booted, ipc_vars, early>>

KernelForward ==
  /\ Program(kernel, "forward")
  /\ kb!StorePdir
  /\ scheduling_enabled' = TRUE
  /\ Goto(kernel, "reply")
  /\ UNCHANGED <<state, pid, next_pid, cursor, idle, current_proc, booted, ipc_vars, early>>

(* screen draws what it is asked to.                                       *)
ScreenDispatch ==
  /\ Program(screen, "dispatch")
  /\ Goto(screen, "reply")
  /\ NoCall
  /\ UNCHANGED <<kbd_vars, early>>

(* kbd waits for a key.                                                    *)
KbdDispatch ==
  /\ Program(kbd, "dispatch")
  /\ IF mem[recv_buf(kbd)].type = "GETC"
     THEN kb!Read /\ Goto(kbd, "clear")
     ELSE Goto(kbd, "reply") /\ UNCHANGED kbd_vars
  /\ NoCall
  /\ UNCHANGED early

KbdClear ==
  /\ Program(kbd, "clear")
  /\ Goto(kbd, "reply")
  /\ kb!Clear
  /\ NoCall
  /\ UNCHANGED early

(* IRQ 1.                                                                  *)
Key(act(_)) ==
  /\ booted
  /\ ~panic
  /\ \E k \in Shifts \cup Keys : act(k)
  /\ NoCall
  /\ UNCHANGED <<pc, early>>

Press == Key(kb!Press)
Release == Key(kb!Release)

(* Between the two stores irq_handler calls the address of the server's    *)
(* handler in the space of the kernel process, where no code is: the       *)
(* kernel faults.                                                          *)
KeyFault ==
  /\ ~panic
  /\ kb!Torn
  /\ panic' = TRUE
  /\ UNCHANGED <<proc_vars, recv_queue, allocated, mem, from, pc, kbd_vars, early>>

-----------------------------------------------------------------------------
(* Clients.                                                                *)

Send(p, at, q, m, to) ==
  /\ Program(p, at)
  /\ syscall_send_msg(q, m)
  /\ Goto(p, to)
  /\ early' = (early \/ (q \in Slots /\ state[q] \in SenderBlocked))
  /\ UNCHANGED kbd_vars

ScreenInit == Send(screen, "init", kernel, Msg("MAP_MEMORY", 0), "recv")
KbdInit == Send(kbd, "init", kernel, Msg("REQUEST_INTERRUPT_FORWARDING", 0), "recv")

(* puts, getc and putc look their server up first, and send to the pid     *)
(* that the variable response of find_by_name then holds.                  *)
find_by_name(p, at, to) == Send(shell, at, kernel, Find(p), to)
Found == mem[recv_buf(shell)].val

puts == Send(shell, "puts", Found, Msg("PUTS", 0), "find_kbd")
getc == Send(shell, "getc", Found, Msg("GETC", 0), "find_screen")
putc == Send(shell, "putc", Found, Msg("PUTC", 0), "find_kbd")

(* puts(...); while (1){ char ch = getc(); putc(ch); }                     *)
Shell ==
  \/ find_by_name(screen, "init", "puts")
  \/ puts
  \/ find_by_name(kbd, "find_kbd", "getc")
  \/ getc
  \/ find_by_name(screen, "find_screen", "putc")
  \/ putc

Step ==
  \/ \E s \in Servers : Recv(s) \/ Reply(s)
  \/ KernelDispatch \/ KernelForward \/ ScreenDispatch \/ KbdDispatch \/ KbdClear
  \/ ScreenInit \/ KbdInit \/ Shell

LMInit ==
  /\ Init
  /\ mem = [b \in Buf |-> Garbage]
  /\ pc = [s \in Slots |-> IF s = kernel THEN "recv" ELSE "init"]
  /\ kb!Init
  /\ early = FALSE

Kernel == (Boot \/ Timer) /\ UNCHANGED <<pc, kbd_vars, early>>

LMNext ==
  \/ Kernel
  \/ Step
  \/ Press \/ Release \/ KeyFault

(* The timer ticks, someone types, and a program that keeps getting the    *)
(* CPU goes on.                                                            *)
LMSpec ==
  /\ LMInit /\ [][LMNext]_lm_vars
  /\ WF_lm_vars(Kernel)
  /\ WF_lm_vars(Press)
  /\ \A s \in Slots : SF_lm_vars(current_proc = s /\ Step)

-----------------------------------------------------------------------------
(* A server acts on messages meant for it: the buffer that a packet points *)
(* to still holds the message when syscall_recv_msg copies it.             *)
OwnMessages ==
  \A s \in Servers :
    ~early /\ pc[s] = "reply" =>
      mem[recv_buf(s)].type \in
        CASE s = kernel -> {"FIND_PROC_BY_NAME", "MAP_MEMORY",
                            "REQUEST_INTERRUPT_FORWARDING"}
          [] s = screen -> {"PUTS", "PUTC"}
          [] s = kbd -> {"GETC"}

(* kbd never answers two requests with the same press of a key, wherever   *)
(* its handler interrupts it: once _key_pressed has been cleared, it waits *)
(* for a press that came after the one it has read.  Its first answer may  *)
(* be to no press at all: _key_pressed starts as what the file holds.      *)
EachPressOnce == pc[kbd] # "clear" /\ key_pressed => unread # "nothing"

(* Shift never sticks: the handler that has the IRQ takes it for pressed   *)
(* only while a Shift key is held down; the server may be wrong until the  *)
(* first Shift key reaches it.                                             *)
ShiftNotStuck == kb!ShiftNotStuck

(* The shell goes on echoing keys: getc and putc, with the searches before *)
(* them, always return in the end, unless a message was early or a key     *)
(* came between the two stores that forward IRQ 1.  Nothing else halts the *)
(* machine.                                                                *)
ShellEchoes ==
  []~(early \/ (panic /\ kb!Torn)) => []<>(pc[shell] = "putc" /\ current_proc = shell)
=============================================================================
