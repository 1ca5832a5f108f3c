--------------------------------- MODULE Idt ---------------------------------
(***************************************************************************)
(* Interrupts: the gates and handlers of kernel/idt.c, the stubs of        *)
(* idt_obj.asm that save and restore the CPU, and what                     *)
(* proc_schedule_after_irq does to the CPU when it switches processes.     *)
(*                                                                         *)
(* A stub pushes a frame on the kernel stack in use, calls its handler,    *)
(* and pops the frame that the handler returns: the same one, or that of   *)
(* another process.  From user mode the CPU goes to the top of the stack   *)
(* in the TSS first.  All gates are interrupt gates, so handlers run with  *)
(* interrupts off; a system call that ends in proc_schedule_without_irq    *)
(* pushes a second frame on top of its own.                                *)
(*                                                                         *)
(* What a system call does to the table of processes depends on queues     *)
(* that Ipc models; here it is any of the changes that it may make.        *)
(***************************************************************************)
EXTENDS Proc

CONSTANTS
  Lines,     \* the IRQs that devices raise
  Forwarded  \* the IRQs that programs ask to be forwarded to them

ASSUME IdtAssumption ==
  /\ Lines \subseteq 0 .. 15
  /\ Forwarded \subseteq Lines \ {0}

VARIABLES
  at,           \* what the CPU executes
  user,         \* in ring 3
  ifl,          \* the interrupt flag
  cr3,          \* the process whose page directory is in use
  esp0,         \* the process whose kernel stack the TSS holds
  esp,          \* the kernel stack in use and how many frames are on it
  stack,        \* the frames on the kernel stacks
  trapframe,    \* procs[s].trapframe
  ret,          \* the frame that a handler returns
  num,          \* the IRQ being handled
  irq_handlers, \* handler and pdir of the IRQs
  saved_pdir,   \* local of irq_handler
  irr, isr, isr2, \* PICs: requests, and the IRQs in service of both
  kpc, sender, which \* msg_dispatcher: where it is, the process that asks
                     \* and the IRQ it asks for

cpu_vars == <<at, user, ifl, esp>>
space_vars == <<cr3, esp0, trapframe, ret>>
irq_vars == <<num, saved_pdir>>
pic_vars == <<irr, isr, isr2>>
kernel_vars == <<kpc, sender, which>>
vars == <<proc_vars, cpu_vars, space_vars, stack, irq_vars, irq_handlers, pic_vars,
          kernel_vars>>

kernel == 0
Privileged(s) == pid[s] \in {0, 1}
Users == {s \in Slots : pid[s] > 1}

(* A frame holds whose execution was interrupted and where.                *)
Frame(s, in) == [of |-> s, in |-> in, user |-> user, ifl |-> ifl]
Garbage == [of |-> NULL, in |-> "boot", user |-> FALSE, ifl |-> FALSE]
Nowhere == [of |-> NULL, at |-> 0]
FrameAt(p) == stack[p.of][p.at]

(* Entries of irq_handlers: NULL is no handler and no pdir, the handler of *)
(* a process is named by the process.                                      *)
Entry(h, p) == [handler |-> h, pdir |-> p]
timer_entry == -2
kbd_entry == -3

(* Initially there are no processes and interrupts are off.  timer_install *)
(* and kbd_install have run.                                               *)
Init ==
  /\ proc_earlyinit
  /\ at = "boot" /\ user = FALSE /\ ifl = FALSE
  /\ cr3 = NULL /\ esp0 = NULL
  /\ esp = Nowhere /\ ret = Nowhere
  /\ stack = [s \in Slots |-> [n \in 1 .. 2 |-> Garbage]]
  /\ trapframe = [s \in Slots |-> Nowhere]
  /\ num = 0 /\ saved_pdir = NULL
  /\ irq_handlers = [n \in Lines |->
       Entry(IF n = 0 THEN timer_entry ELSE IF n = 1 THEN kbd_entry ELSE NULL, NULL)]
  /\ irr = {} /\ isr = {} /\ isr2 = {}
  /\ kpc = "recv" /\ sender = NULL /\ which = NULL

-----------------------------------------------------------------------------
(* Boot.                                                                   *)

(* proc_new leaves a frame on the new stack that starts proc_load.         *)
New(k) ==
  /\ at = "boot"
  /\ Create(k)
  /\ stack' = [stack EXCEPT ![k][1] = [of |-> k, in |-> "load", user |-> FALSE, ifl |-> TRUE]]
  /\ trapframe' = [trapframe EXCEPT ![k] = [of |-> k, at |-> 1]]
  /\ UNCHANGED <<cpu_vars, cr3, esp0, ret, irq_vars, irq_handlers, pic_vars, kernel_vars>>

(* The first process enters proc_load on the stack of kmain.               *)
Kickoff ==
  /\ at = "boot"
  /\ proc_kickoff_first_process
  /\ esp0' = current_proc
  /\ cr3' = current_proc
  /\ at' = "load"
  /\ UNCHANGED <<user, ifl, esp, stack, trapframe, ret, irq_vars, irq_handlers, pic_vars,
                 kernel_vars>>

(* proc_load, up to its iret: a privileged process stays on its stack.     *)
proc_load ==
  /\ at = "load"
  /\ at' = "code"
  /\ user' = ~Privileged(current_proc)
  /\ ifl' = TRUE
  /\ esp' = IF Privileged(current_proc) THEN esp ELSE Nowhere
  /\ UNCHANGED <<proc_vars, space_vars, stack, irq_vars, irq_handlers, pic_vars, kernel_vars>>

-----------------------------------------------------------------------------
(* Frames.                                                                 *)

(* What the CPU and a stub push when they interrupt the current process.   *)
Push(in) ==
  LET base == IF user THEN [of |-> esp0, at |-> 0] ELSE esp
  IN /\ stack' = [stack EXCEPT ![base.of][base.at + 1] = Frame(current_proc, in)]
     /\ esp' = [base EXCEPT !.at = @ + 1]
     /\ user' = FALSE
     /\ ifl' = FALSE

(* mov esp, eax; pop everything; iret.  What is popped, and the locals of  *)
(* the handlers, are garbage from then on.                                 *)
Iret ==
  /\ at = "stub"
  /\ at' = FrameAt(ret).in
  /\ user' = FrameAt(ret).user
  /\ ifl' = FrameAt(ret).ifl
  /\ esp' = IF FrameAt(ret).user THEN Nowhere ELSE [ret EXCEPT !.at = @ - 1]
  /\ stack' = [stack EXCEPT ![ret.of][ret.at] = Garbage]
  /\ ret' = Nowhere
  /\ num' = 0 /\ saved_pdir' = NULL
  /\ UNCHANGED <<proc_vars, cr3, esp0, trapframe, irq_handlers, pic_vars, kernel_vars>>

(* Mutant: the stack in the TSS stays that of the process before.          *)
Switch_keeps_esp0(st) ==
  /\ proc_schedule_after_irq(st, scheduling_enabled)
  /\ IF scheduling_enabled
     THEN /\ trapframe' = [trapframe EXCEPT ![current_proc] = esp]
          /\ IF current_proc' = current_proc
             THEN ret' = esp /\ UNCHANGED <<cr3, esp0>>
             ELSE /\ cr3' = current_proc'
                  /\ ret' = trapframe[current_proc']
                  /\ UNCHANGED esp0
     ELSE ret' = esp /\ UNCHANGED <<cr3, esp0, trapframe>>

(* The rest of proc_schedule_after_irq.                                    *)
Switch(st) ==
  /\ proc_schedule_after_irq(st, scheduling_enabled)
  /\ IF scheduling_enabled
     THEN /\ trapframe' = [trapframe EXCEPT ![current_proc] = esp]
          /\ IF current_proc' = current_proc
             THEN ret' = esp /\ UNCHANGED <<cr3, esp0>>
             ELSE /\ cr3' = current_proc'
                  /\ esp0' = current_proc'
                  /\ ret' = trapframe[current_proc']
     ELSE ret' = esp /\ UNCHANGED <<cr3, esp0, trapframe>>

Unscheduled == UNCHANGED <<pid, next_pid, idle, scheduling_enabled, booted>>

-----------------------------------------------------------------------------
(* Hardware interrupts.                                                    *)

Raise(n) ==
  /\ booted
  /\ irr' = irr \cup {n}
  /\ UNCHANGED <<proc_vars, cpu_vars, space_vars, stack, irq_vars, irq_handlers, isr, isr2,
                 kernel_vars>>

(* The slave is at line 2 of the master.                                   *)
MasterLine(n) == IF n < 8 THEN n ELSE 2

(* A PIC passes on requests that are more urgent than what is in service.  *)
Passes(n) ==
  /\ \A m \in isr : MasterLine(n) < m
  /\ n >= 8 => \A m \in isr2 : n < m

Interrupt(n) ==
  /\ ifl
  /\ n \in irr
  /\ Passes(n)
  /\ irr' = irr \ {n}
  /\ isr' = isr \cup {MasterLine(n)}
  /\ isr2' = IF n >= 8 THEN isr2 \cup {n} ELSE isr2
  /\ num' = n
  /\ Push(at)
  /\ at' = "irq"
  /\ UNCHANGED <<proc_vars, space_vars, saved_pdir, irq_handlers, kernel_vars>>

(* The non-specific end of interrupt: the most urgent one is over.         *)
Ended(s) == s \ {m \in s : \A k \in s : m <= k}

(* Mutant: the slave is left alone.                                        *)
Eoi_master_only == isr' = Ended(isr) /\ UNCHANGED isr2

Eoi ==
  /\ isr2' = IF num >= 8 THEN Ended(isr2) ELSE isr2
  /\ isr' = Ended(isr)

(* Mutant: the handler runs in the address space that was interrupted.     *)
irq_handler_call_here ==
  /\ at = "irq"
  /\ irq_handlers[num].handler # NULL
  /\ at' = "handler"
  /\ saved_pdir' = cr3
  /\ UNCHANGED <<proc_vars, user, ifl, esp, space_vars, stack, num, irq_handlers, pic_vars,
                 kernel_vars>>

(* irq_handler, up to the call of the handler.                             *)
irq_handler_call ==
  /\ at = "irq"
  /\ irq_handlers[num].handler # NULL
  /\ at' = "handler"
  /\ saved_pdir' = cr3
  /\ cr3' = IF irq_handlers[num].pdir = NULL THEN cr3 ELSE irq_handlers[num].pdir
  /\ UNCHANGED <<proc_vars, user, ifl, esp, esp0, trapframe, ret, stack, num, irq_handlers,
                 pic_vars, kernel_vars>>

irq_handler_none ==
  /\ at = "irq"
  /\ irq_handlers[num].handler = NULL
  /\ at' = "stub"
  /\ ret' = esp
  /\ Eoi
  /\ UNCHANGED <<proc_vars, user, ifl, esp, cr3, esp0, trapframe, stack, irq_vars,
                 irq_handlers, irr, kernel_vars>>

(* The timer's handler and the rest of irq_handler.                        *)
Timer ==
  /\ at = "handler"
  /\ irq_handlers[num].handler = timer_entry
  /\ Switch(state)
  /\ Unscheduled
  /\ Eoi
  /\ at' = "stub"
  /\ UNCHANGED <<user, ifl, esp, stack, irq_vars, irq_handlers, irr, kernel_vars>>

(* The address of a process's handler means its code in its own address    *)
(* space only; elsewhere the CPU faults.                                   *)
Faults ==
  /\ irq_handlers[num].handler \in Slots
  /\ irq_handlers[num].handler # cr3

(* Mutant: the address space of the handler stays.                         *)
Other_not_restored ==
  /\ at = "handler"
  /\ irq_handlers[num].handler # timer_entry /\ ~Faults
  /\ ret' = esp
  /\ Eoi
  /\ at' = "stub"
  /\ UNCHANGED <<proc_vars, user, ifl, esp, cr3, esp0, trapframe, stack, irq_vars,
                 irq_handlers, irr, kernel_vars>>

(* Any other handler, which returns the frame it was given.                *)
Other ==
  /\ at = "handler"
  /\ irq_handlers[num].handler # timer_entry /\ ~Faults
  /\ ret' = esp
  /\ cr3' = IF irq_handlers[num].pdir = NULL THEN cr3 ELSE saved_pdir
  /\ Eoi
  /\ at' = "stub"
  /\ UNCHANGED <<proc_vars, user, ifl, esp, esp0, trapframe, stack, irq_vars, irq_handlers,
                 irr, kernel_vars>>

(* An exception: screen_of_death hangs.                                    *)
Fault ==
  /\ at = "handler" /\ Faults
  /\ at' = "dead"
  /\ UNCHANGED <<proc_vars, user, ifl, esp, space_vars, stack, irq_vars, irq_handlers,
                 pic_vars, kernel_vars>>

-----------------------------------------------------------------------------
(* System calls.                                                           *)

(* idle makes none, and msg_dispatcher none while it handles a request.    *)
Syscall ==
  /\ at = "code"
  /\ current_proc # idle
  /\ current_proc = kernel => kpc = "recv"
  /\ Push("code")
  /\ at' = "int"
  /\ UNCHANGED <<proc_vars, space_vars, irq_vars, irq_handlers, pic_vars, kernel_vars>>

(* syscall_send_msg to a process that does not exist.                      *)
NoReceiver ==
  /\ at = "int"
  /\ scheduling_enabled' = FALSE
  /\ ret' = esp
  /\ at' = "stub"
  /\ UNCHANGED <<state, pid, next_pid, cursor, idle, current_proc, booted, user, ifl, esp,
                 cr3, esp0, trapframe, stack, irq_vars, irq_handlers, pic_vars, kernel_vars>>

(* What sending, receiving and replying make of the table: a reply makes   *)
(* the sender READY whatever it was.                                       *)
Effect(st) ==
  \/ \E q \in Slots : /\ state[q] = "RECV_BLOCKED"
                      /\ st = [state EXCEPT ![current_proc] = "SEND_BLOCKED", ![q] = "READY"]
  \/ /\ \E q \in Slots : state[q] = "READY"
     /\ st = [state EXCEPT ![current_proc] = "REPLY_BLOCKED"]
  \/ st = [state EXCEPT ![current_proc] = "RECV_BLOCKED"]
  \/ \E q \in Slots : /\ state[q] # "UNUSED"
                      /\ st = [state EXCEPT ![q] = "READY"]
  \/ st = state

(* The system call, up to the int 0x7f of proc_schedule_without_irq.       *)
Call ==
  /\ at = "int"
  /\ Effect(state')
  /\ scheduling_enabled' = TRUE
  /\ Push("syscall")
  /\ at' = "int127"
  /\ UNCHANGED <<pid, next_pid, cursor, idle, current_proc, booted, space_vars, irq_vars,
                 irq_handlers, pic_vars, kernel_vars>>

int127 ==
  /\ at = "int127"
  /\ Switch(state)
  /\ Unscheduled
  /\ at' = "stub"
  /\ UNCHANGED <<user, ifl, esp, stack, irq_vars, irq_handlers, pic_vars, kernel_vars>>

(* Back behind the int 0x7f: return regs.                                  *)
Return ==
  /\ at = "syscall"
  /\ ret' = esp
  /\ at' = "stub"
  /\ UNCHANGED <<proc_vars, user, ifl, esp, cr3, esp0, trapframe, stack, irq_vars,
                 irq_handlers, pic_vars, kernel_vars>>

-----------------------------------------------------------------------------
(* msg_dispatcher: the two requests that it handles with scheduling off    *)
(* and interrupts on.                                                      *)

Dispatch(from, to) ==
  /\ at = "code"
  /\ current_proc = kernel
  /\ kpc = from
  /\ kpc' = to
  /\ UNCHANGED <<state, pid, next_pid, cursor, idle, current_proc, booted, cpu_vars, esp0,
                 trapframe, ret, stack, irq_vars, pic_vars>>

(* Memory to be mapped, or an interrupt to be forwarded.                   *)
Request(s, n) ==
  /\ Dispatch("recv", "enter")
  /\ sender' = s
  /\ which' = n
  /\ scheduling_enabled' = FALSE
  /\ UNCHANGED <<cr3, irq_handlers>>

Enter ==
  /\ Dispatch("enter", "inside")
  /\ cr3' = sender
  /\ UNCHANGED <<scheduling_enabled, irq_handlers, sender, which>>

Leave ==
  /\ Dispatch("inside", IF which = NULL THEN "enable" ELSE "handler")
  /\ cr3' = current_proc
  /\ UNCHANGED <<scheduling_enabled, irq_handlers, sender, which>>

(* irq_install_handler, two stores.                                        *)
StoreHandler ==
  /\ Dispatch("handler", "pdir")
  /\ irq_handlers' = [irq_handlers EXCEPT ![which].handler = sender]
  /\ UNCHANGED <<cr3, scheduling_enabled, sender, which>>

StorePdir ==
  /\ Dispatch("pdir", "enable")
  /\ irq_handlers' = [irq_handlers EXCEPT ![which].pdir = sender]
  /\ UNCHANGED <<cr3, scheduling_enabled, sender, which>>

Enable ==
  /\ Dispatch("enable", "recv")
  /\ scheduling_enabled' = TRUE
  /\ sender' = NULL /\ which' = NULL
  /\ UNCHANGED <<cr3, irq_handlers>>

msg_dispatcher ==
  \/ \E s \in Users, n \in Forwarded \cup {NULL} : Request(s, n)
  \/ Enter \/ Leave \/ StoreHandler \/ StorePdir \/ Enable

-----------------------------------------------------------------------------
irq_handler == irq_handler_call \/ irq_handler_none \/ Timer \/ Other \/ Fault

int_handler == NoReceiver \/ Call \/ int127 \/ Return

(* screen_of_death: for (;;);                                              *)
Hang == at = "dead" /\ UNCHANGED vars

Boot == Kickoff \/ \E k \in Slots : New(k)

Handler == irq_handler \/ int_handler \/ Iret

Next ==
  \/ Boot \/ proc_load \/ Handler \/ Syscall \/ msg_dispatcher \/ Hang
  \/ \E n \in Lines : Raise(n) \/ Interrupt(n)

(* The CPU executes, and takes the interrupts that it is asked to.         *)
Spec ==
  /\ Init /\ [][Next]_vars
  /\ WF_vars(Boot \/ proc_load \/ Handler)
  /\ \A n \in Lines : SF_vars(Interrupt(n))

-----------------------------------------------------------------------------
(* Where process s is in its own execution.                                *)
Doing(s) ==
  IF pid[s] = -1 THEN "none"
  ELSE IF s # current_proc \/ at = "boot" THEN FrameAt(trapframe[s]).in
  ELSE IF at = "stub" THEN FrameAt(ret).in
  ELSE IF at \in {"irq", "handler", "dead"} THEN FrameAt(esp).in
  ELSE IF at \in {"int", "int127"} THEN "syscall"
  ELSE at

contexts == INSTANCE Contexts WITH Procs <- Slots, running <- current_proc,
                                   where <- [s \in Slots |-> Doing(s)]

(* Every process goes through its own code as if it had a CPU of its own:  *)
(* whatever interrupts it, it goes on where it was.                        *)
IsContexts == contexts!Spec

(* Outside of handlers the CPU is set up for the current process: its page *)
(* directory, except where msg_dispatcher works in that of a sender, and   *)
(* its kernel stack, in the TSS and, in ring 0, in use.                    *)
OwnContext ==
  at \in {"load", "code", "syscall"} =>
    /\ esp0 = current_proc
    /\ cr3 = IF current_proc = kernel /\ kpc = "inside" THEN sender ELSE current_proc
    /\ user \/ esp.of = current_proc \/ ~ifl

(* A handler that a process had forwarded runs in its address space, save  *)
(* between the two stores of irq_install_handler.                          *)
HandlerInItsSpace ==
  at \in {"handler", "dead"} /\ irq_handlers[num].handler \in Slots /\ kpc # "pdir" =>
    cr3 = irq_handlers[num].handler

(* Whoever runs with interrupts on, no interrupt is left in service: both  *)
(* controllers pass on the next one, also when the handler switched to     *)
(* another process.                                                        *)
Acknowledged == ifl => isr = {} /\ isr2 = {}

(* An interrupt that a device asks for is served, unless the machine died. *)
Served == \A n \in Lines : n \in irr ~> (at = "irq" /\ num = n) \/ at = "dead"
=============================================================================
