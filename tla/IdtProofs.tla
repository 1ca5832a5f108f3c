------------------------------ MODULE IdtProofs ------------------------------
(***************************************************************************)
(* For every number of processes and every set of IRQs: interrupts and     *)
(* switches leave the CPU set up for the process that runs, and Idt        *)
(* implements Contexts.                                                    *)
(***************************************************************************)
EXTENDS IdtInv

(* System calls.                                                           *)

(* int 0x80 saves the context of the caller.                               *)
LEMMA SyscallKeepsIInv == IInv /\ Syscall => IInv'
<1> SUFFICES ASSUME IInv, Syscall PROVE IInv'
  OBVIOUS
<1>1. /\ at = "code" /\ ifl /\ booted /\ current_proc \in Slots
      /\ IF user THEN esp0 = current_proc ELSE esp = Pos(current_proc, 0)
      /\ kpc = "recv"
  BY Current DEF Syscall, IInv, CpuInv, DispatchInv
<1>2. /\ Push("code") /\ at' = "int"
      /\ UNCHANGED <<proc_vars, space_vars, irq_vars, irq_handlers, pic_vars, kernel_vars>>
  BY DEF Syscall
<1>3. /\ esp' = Pos(current_proc, 1)
      /\ ~user' /\ ~ifl'
      /\ DOMAIN stack' = Slots
      /\ \A s \in Slots : DOMAIN stack'[s] = 1 .. 2
      /\ \A s \in Slots \ {current_proc} : stack'[s] = stack[s]
      /\ stack'[current_proc][1] = Frame(current_proc, "code")
  <2>1. 0 \in 0 .. 1 /\ StackInv
    BY DEF IInv
  <2> QED
    BY <1>1, <1>2, <2>1, Pushing, Zenon
<1>4. TableInv' /\ DispatchInv' /\ HandlerInv'
  BY <1>1, <1>2 DEF IInv, TableInv, ProcTypeOK, DispatchInv, HandlerInv, proc_vars,
     kernel_vars
<1>5. StackInv'
  BY <1>1, <1>2, <1>3, OthersSaved DEF IInv, proc_vars, space_vars
<1>6. CpuInv'
  <2>1. InCode(current_proc, Frame(current_proc, "code"))
    BY <1>1 DEF IInv, CpuInv, InCode, Frame
  <2>2. InCode(current_proc, stack[current_proc][1])'
    BY <1>2, <1>3, <2>1 DEF InCode, Privileged, proc_vars
  <2> QED
    BY <1>1, <1>2, <1>3, <2>2 DEF IInv, CpuInv, Handling, Pos, proc_vars, space_vars
<1>7. SpaceInv' /\ PicInv'
  BY <1>1, <1>2 DEF IInv, SpaceInv, Space, PicInv, Handling, proc_vars, space_vars,
     kernel_vars, pic_vars
<1> QED
  BY <1>4, <1>5, <1>6, <1>7 DEF IInv

(* A system call returns the frame of its caller.                          *)
LEMMA ReturnKeepsIInv == IInv /\ (NoReceiver \/ Return) => IInv'
<1> SUFFICES ASSUME IInv, NoReceiver \/ Return PROVE IInv'
  OBVIOUS
<1>1. /\ at \in {"int", "syscall"} /\ at' = "stub" /\ ret' = esp
      /\ scheduling_enabled' \in {FALSE, scheduling_enabled}
      /\ UNCHANGED <<state, pid, next_pid, cursor, idle, current_proc, booted, user, ifl,
                     esp, cr3, esp0, trapframe, stack, irq_vars, irq_handlers, pic_vars,
                     kernel_vars>>
  BY Zenon DEF NoReceiver, Return, proc_vars
<1>2. TableInv'
  <2>1. scheduling_enabled' \in BOOLEAN
    BY <1>1, Zenon DEF IInv, TableInv, ProcTypeOK
  <2> QED
    BY <1>1, <2>1 DEF IInv, TableInv, ProcTypeOK
<1>3. DispatchInv' /\ HandlerInv'
  <2>1. ~scheduling_enabled => ~scheduling_enabled'
    BY <1>1, Zenon
  <2> QED
    BY <1>1, <2>1 DEF IInv, DispatchInv, HandlerInv, kernel_vars
<1>4. StackInv'
  BY <1>1, OthersSaved DEF IInv, StackInv
<1>5. CpuInv'
  BY <1>1, SameFrames, Zenon DEF IInv, CpuInv, Saved, Handling
<1>6. SpaceInv' /\ PicInv'
  BY <1>1 DEF IInv, SpaceInv, Space, PicInv, Handling, kernel_vars, pic_vars
<1> QED
  BY <1>2, <1>3, <1>4, <1>5, <1>6 DEF IInv

(* A system call neither creates nor removes a process.                    *)
LEMMA Effects ==
  ASSUME TableInv, current_proc \in Slots, pid[current_proc] # -1, Effect(state')
  PROVE  /\ state' \in [Slots -> ProcState]
         /\ \A s \in Slots : state'[s] = "UNUSED" <=> state[s] = "UNUSED"
  BY DEF Effect, TableInv, ProcTypeOK, ProcState, Blocked, SenderBlocked

(* int 0x7f saves the system call itself, on top of its caller.            *)
LEMMA BlockKeepsIInv == IInv /\ Call => IInv'
<1> SUFFICES ASSUME IInv, Call PROVE IInv'
  OBVIOUS
<1>1. /\ at = "int" /\ booted /\ current_proc \in Slots /\ pid[current_proc] # -1
      /\ ~user /\ ~ifl /\ esp = Pos(current_proc, 1) /\ kpc = "recv"
      /\ InCode(current_proc, stack[current_proc][1])
  BY Current DEF Call, IInv, CpuInv, DispatchInv
<1>2. /\ Effect(state') /\ scheduling_enabled' = TRUE /\ Push("syscall") /\ at' = "int127"
      /\ UNCHANGED <<pid, next_pid, cursor, idle, current_proc, booted, space_vars,
                     irq_vars, irq_handlers, pic_vars, kernel_vars>>
  BY DEF Call
<1>3. /\ esp' = Pos(current_proc, 2)
      /\ ~user' /\ ~ifl'
      /\ DOMAIN stack' = Slots
      /\ \A s \in Slots : DOMAIN stack'[s] = 1 .. 2
      /\ \A s \in Slots \ {current_proc} : stack'[s] = stack[s]
      /\ stack'[current_proc][1] = stack[current_proc][1]
      /\ stack'[current_proc][2] = Frame(current_proc, "syscall")
  <2>1. 1 \in 0 .. 1 /\ StackInv
    BY DEF IInv
  <2> QED
    BY <1>1, <1>2, <2>1, Pushing
<1>4. TableInv'
  <2>1. /\ state' \in [Slots -> ProcState]
        /\ \A s \in Slots : state'[s] = "UNUSED" <=> state[s] = "UNUSED"
    BY <1>1, <1>2, Effects, Zenon DEF IInv
  <2> QED
    BY <1>1, <1>2, <2>1 DEF IInv, TableInv, ProcTypeOK
<1>5. DispatchInv' /\ HandlerInv'
  BY <1>1, <1>2, Zenon DEF IInv, DispatchInv, HandlerInv, kernel_vars
<1>6. StackInv'
  BY <1>1, <1>2, <1>3, OthersSaved DEF IInv, space_vars
<1>7. CpuInv'
  <2>1. InCall(current_proc, Frame(current_proc, "syscall"))
    BY <1>1 DEF InCall, Frame
  <2>2. Saved(current_proc, esp)'
    BY <1>1, <1>2, <1>3, <2>1 DEF Saved, InCode, InCall, Privileged
  <2> QED
    BY <1>1, <1>2, <1>3, <2>2, Zenon DEF IInv, CpuInv, Handling, Pos, space_vars
<1>8. SpaceInv' /\ PicInv'
  BY <1>1, <1>2 DEF IInv, SpaceInv, Space, PicInv, Handling, space_vars, kernel_vars, pic_vars
<1> QED
  BY <1>4, <1>5, <1>6, <1>7, <1>8 DEF IInv

(* proc_schedule_without_irq switches to a process, or goes on.            *)
LEMMA ScheduleKeepsIInv == IInv /\ int127 => IInv'
<1> SUFFICES ASSUME IInv, int127 PROVE IInv'
  OBVIOUS
<1>1. /\ at = "int127" /\ at' = "stub" /\ Switch(state) /\ Unscheduled
      /\ UNCHANGED <<user, ifl, esp, stack, irq_vars, irq_handlers, pic_vars, kernel_vars>>
  BY DEF int127
<1>2. Saved(current_proc, esp) /\ cr3 = Space
  BY <1>1 DEF IInv, CpuInv, SpaceInv
<1>3. /\ TableInv' /\ StackInv'
      /\ Saved(current_proc, ret)'
      /\ esp0' = current_proc' /\ cr3' = Space'
      /\ kpc # "recv" => current_proc' = current_proc
  BY <1>1, <1>2, SwitchKeepsContexts
<1>4. DispatchInv' /\ HandlerInv'
  BY <1>1, <1>3 DEF IInv, DispatchInv, HandlerInv, kernel_vars, Unscheduled
<1>5. CpuInv'
  BY <1>1, <1>3 DEF IInv, CpuInv, Handling
<1>6. SpaceInv' /\ PicInv'
  BY <1>1, <1>3 DEF IInv, SpaceInv, PicInv, Handling, pic_vars
<1> QED
  BY <1>3, <1>4, <1>5, <1>6 DEF IInv

-----------------------------------------------------------------------------
(* msg_dispatcher.                                                         *)

(* What all of its steps have in common.                                   *)
LEMMA Dispatching ==
  ASSUME IInv, NEW from, NEW to, Dispatch(from, to), scheduling_enabled' \in BOOLEAN
  PROVE  /\ TableInv' /\ StackInv' /\ CpuInv' /\ PicInv'
         /\ current_proc = kernel /\ current_proc \in Slots
<1>1. /\ at = "code" /\ current_proc = kernel
      /\ UNCHANGED <<state, pid, next_pid, cursor, idle, current_proc, booted, cpu_vars,
                     esp0, trapframe, ret, stack, irq_vars, pic_vars>>
  BY DEF Dispatch
<1>2. TableInv'
  BY <1>1 DEF IInv, TableInv, ProcTypeOK, cpu_vars
<1>3. StackInv'
  BY <1>1, OthersSaved DEF IInv, StackInv, cpu_vars
<1>4. CpuInv'
  BY <1>1, SameFrames DEF IInv, CpuInv, Handling, Pos, cpu_vars
<1>5. PicInv'
  BY <1>1 DEF IInv, PicInv, cpu_vars, irq_vars, pic_vars
<1> QED
  BY <1>1, <1>2, <1>3, <1>4, <1>5, Current

(* msg_dispatcher leaves the address space of the sender before it lets    *)
(* others run, and stores handlers together with their address spaces.     *)
LEMMA DispatcherKeepsIInv == IInv /\ msg_dispatcher => IInv'
<1> SUFFICES ASSUME IInv, msg_dispatcher PROVE IInv'
  OBVIOUS
<1>1. at = "code" /\ at' = at /\ num' = num /\ saved_pdir' = saved_pdir
  BY DEF msg_dispatcher, Request, Enter, Leave, StoreHandler, StorePdir, Enable, Dispatch,
     cpu_vars, irq_vars
<1>2. ASSUME NEW s \in Users, NEW n \in Forwarded \cup {NULL}, Request(s, n) PROVE IInv'
  <2>1. /\ TableInv' /\ StackInv' /\ CpuInv' /\ PicInv'
        /\ current_proc = kernel /\ current_proc \in Slots
    <3>1. Dispatch("recv", "enter") /\ scheduling_enabled' \in BOOLEAN
      BY <1>2, Zenon DEF Request
    <3> QED
      BY <3>1, Dispatching
  <2>2. DispatchInv' /\ HandlerInv' /\ SpaceInv'
    BY <1>1, <1>2, <2>1
    DEF Request, Dispatch, Users, IInv, DispatchInv, HandlerInv, SpaceInv, Space
  <2> QED
    BY <2>1, <2>2 DEF IInv
<1>3. CASE Enter
  <2>1. /\ TableInv' /\ StackInv' /\ CpuInv' /\ PicInv'
        /\ current_proc = kernel /\ current_proc \in Slots
    <3>1. Dispatch("enter", "inside") /\ scheduling_enabled' \in BOOLEAN
      BY <1>3 DEF Enter, IInv, TableInv, ProcTypeOK
    <3> QED
      BY <3>1, Dispatching
  <2>2. DispatchInv' /\ HandlerInv' /\ SpaceInv'
    BY <1>1, <1>3, <2>1
    DEF Enter, Dispatch, IInv, DispatchInv, HandlerInv, SpaceInv, Space
  <2> QED
    BY <2>1, <2>2 DEF IInv
<1>4. CASE Leave
  <2>1. /\ TableInv' /\ StackInv' /\ CpuInv' /\ PicInv'
        /\ current_proc = kernel /\ current_proc \in Slots
    <3>1. /\ Dispatch("inside", IF which = NULL THEN "enable" ELSE "handler")
          /\ scheduling_enabled' \in BOOLEAN
      BY <1>4 DEF Leave, IInv, TableInv, ProcTypeOK
    <3> QED
      BY <3>1, Dispatching
  <2>2. DispatchInv' /\ HandlerInv' /\ SpaceInv'
    BY <1>1, <1>4, <2>1
    DEF Leave, Dispatch, IInv, DispatchInv, HandlerInv, SpaceInv, Space
  <2> QED
    BY <2>1, <2>2 DEF IInv
<1>5. CASE StoreHandler
  <2>1. /\ TableInv' /\ StackInv' /\ CpuInv' /\ PicInv'
        /\ current_proc = kernel /\ current_proc \in Slots
    <3>1. Dispatch("handler", "pdir") /\ scheduling_enabled' \in BOOLEAN
      BY <1>5 DEF StoreHandler, IInv, TableInv, ProcTypeOK
    <3> QED
      BY <3>1, Dispatching
  <2>2. DispatchInv' /\ SpaceInv'
    BY <1>1, <1>5, <2>1
    DEF StoreHandler, Dispatch, IInv, DispatchInv, SpaceInv, Space
  <2>3. HandlerInv'
    BY <1>5, IdtAssumption, Marks
    DEF StoreHandler, Dispatch, IInv, DispatchInv, HandlerInv
  <2> QED
    BY <2>1, <2>2, <2>3 DEF IInv
<1>6. CASE StorePdir
  <2>1. /\ TableInv' /\ StackInv' /\ CpuInv' /\ PicInv'
        /\ current_proc = kernel /\ current_proc \in Slots
    <3>1. Dispatch("pdir", "enable") /\ scheduling_enabled' \in BOOLEAN
      BY <1>6 DEF StorePdir, IInv, TableInv, ProcTypeOK
    <3> QED
      BY <3>1, Dispatching
  <2>2. DispatchInv' /\ SpaceInv'
    BY <1>1, <1>6, <2>1
    DEF StorePdir, Dispatch, IInv, DispatchInv, SpaceInv, Space
  <2>3. HandlerInv'
    BY <1>6, IdtAssumption, Marks
    DEF StorePdir, Dispatch, IInv, DispatchInv, HandlerInv
  <2> QED
    BY <2>1, <2>2, <2>3 DEF IInv
<1>7. CASE Enable
  <2>1. /\ TableInv' /\ StackInv' /\ CpuInv' /\ PicInv'
        /\ current_proc = kernel /\ current_proc \in Slots
    <3>1. Dispatch("enable", "recv") /\ scheduling_enabled' \in BOOLEAN
      BY <1>7 DEF Enable
    <3> QED
      BY <3>1, Dispatching
  <2>2. DispatchInv' /\ HandlerInv' /\ SpaceInv'
    BY <1>1, <1>7, <2>1
    DEF Enable, Dispatch, IInv, DispatchInv, HandlerInv, SpaceInv, Space
  <2> QED
    BY <2>1, <2>2 DEF IInv
<1> QED
  BY <1>2, <1>3, <1>4, <1>5, <1>6, <1>7 DEF msg_dispatcher

-----------------------------------------------------------------------------
(* Every step of the CPU and the devices preserves the invariant.          *)
LEMMA NextKeepsIInv == IInv /\ [Next]_vars => IInv'
<1> SUFFICES ASSUME IInv, [Next]_vars PROVE IInv'
  OBVIOUS
<1>1. CASE UNCHANGED vars
  <2>1. UNCHANGED <<proc_vars, cpu_vars, space_vars, stack, irq_vars, irq_handlers, pic_vars,
                    kernel_vars>>
    BY <1>1 DEF vars
  <2>2. TableInv' /\ DispatchInv' /\ HandlerInv'
    BY <2>1 DEF IInv, TableInv, ProcTypeOK, DispatchInv, HandlerInv, proc_vars, cpu_vars,
       kernel_vars
  <2>3. StackInv' /\ CpuInv'
    <3>1. /\ \A s : \A p : Saved(s, p)' <=> Saved(s, p)
          /\ \A s : \A f : InCode(s, f)' <=> InCode(s, f)
          /\ \A s : Privileged(s)' <=> Privileged(s)
      BY <2>1, SameFrames DEF proc_vars
    <3>2. StackInv'
      BY <2>1, <3>1 DEF IInv, StackInv, InLoad, FrameAt, proc_vars, cpu_vars, space_vars
    <3>3. CpuInv'
      BY <2>1, <3>1 DEF IInv, CpuInv, Handling, Pos, proc_vars, cpu_vars, space_vars
    <3> QED
      BY <3>2, <3>3
  <2>4. SpaceInv' /\ PicInv'
    BY <2>1 DEF IInv, SpaceInv, Space, PicInv, proc_vars, cpu_vars, space_vars, irq_vars,
       kernel_vars, pic_vars
  <2> QED
    BY <2>2, <2>3, <2>4 DEF IInv
<1>2. CASE Boot \/ proc_load
  BY <1>2, NewKeepsIInv, KickoffKeepsIInv, LoadKeepsIInv DEF Boot
<1>3. CASE Handler
  BY <1>3, CallKeepsIInv, NoneKeepsIInv, TimerKeepsIInv, ReturnKeepsIInv, BlockKeepsIInv,
     ScheduleKeepsIInv, IretKeepsIInv DEF Handler, irq_handler, int_handler
<1>4. CASE Syscall \/ msg_dispatcher
  BY <1>4, SyscallKeepsIInv, DispatcherKeepsIInv
<1>5. CASE \E n \in Lines : Raise(n) \/ Interrupt(n)
  BY <1>5, RaiseKeepsIInv, InterruptKeepsIInv
<1> QED
  BY <1>1, <1>2, <1>3, <1>4, <1>5 DEF Next, Hang

(* The invariant holds for every number of processes and set of IRQs.      *)
THEOREM Invariance == Spec => []IInv
  BY InitIInv, NextKeepsIInv, PTL DEF Spec

(* Outside of handlers the CPU is set up for the current process, whatever *)
(* interrupts it, calls the scheduler or switches address spaces.          *)
THEOREM ContextsKept == Spec => []OwnContext
<1>1. ASSUME IInv, at \in {"load", "code", "syscall"}
      PROVE  /\ esp0 = current_proc
             /\ cr3 = IF current_proc = kernel /\ kpc = "inside" THEN sender ELSE current_proc
             /\ user \/ esp.of = current_proc \/ ~ifl
  <2>1. CpuInv /\ cr3 = Space
    BY <1>1 DEF IInv, SpaceInv
  <2>2. at # "boot" /\ (at = "syscall" => ~ifl)
    BY <1>1, <2>1 DEF CpuInv
  <2>3. user \/ esp = Pos(current_proc, 0) \/ ~ifl
    BY <1>1, <2>1, <2>2 DEF CpuInv
  <2>4. esp0 = current_proc
    BY <2>1, <2>2 DEF CpuInv
  <2>5. user \/ esp.of = current_proc \/ ~ifl
    BY <2>3 DEF Pos
  <2> QED
    BY <2>1, <2>4, <2>5 DEF Space
<1>2. IInv => OwnContext
  BY <1>1 DEF OwnContext
<1> QED
  BY <1>2, Invariance, PTL

(* A forwarded interrupt is handled in the address space of the process    *)
(* that asked for it, save while irq_install_handler is between its stores.*)
THEOREM HandlersAtHome == Spec => []HandlerInItsSpace
<1>1. IInv => HandlerInItsSpace
  BY Marks DEF IInv, HandlerInv, PicInv, SpaceInv, HandlerInItsSpace, Handling
<1> QED
  BY <1>1, Invariance, PTL

(* Every interrupt taken has been acknowledged to both controllers by the  *)
(* time interrupts are on again.                                           *)
THEOREM InterruptsEnd == Spec => []Acknowledged
<1>1. IInv => Acknowledged
  BY DEF IInv, CpuInv, PicInv, Acknowledged, Handling
<1> QED
  BY <1>1, Invariance, PTL

-----------------------------------------------------------------------------
(* Idt implements Contexts.                                                *)

Where == [s \in Slots |-> Doing(s)]

(* What happens on the stack of the current process moves no other.        *)
LEMMA OthersStay ==
  ASSUME IInv, at # "boot", at' # "boot", UNCHANGED <<pid, current_proc, trapframe>>,
         \A s \in Slots \ {current_proc} : stack'[s] = stack[s]
  PROVE  \A s \in Slots \ {current_proc} : Doing(s)' = Doing(s)
<1> SUFFICES ASSUME NEW s \in Slots \ {current_proc}, pid[s] # -1 PROVE Doing(s)' = Doing(s)
  BY DEF Doing
<1>1. Saved(s, trapframe[s])
  BY DEF IInv, StackInv
<1>2. trapframe[s].of = s
  BY <1>1, OnOwnStack
<1> QED
  BY <1>2 DEF Doing, FrameAt

(* The current process goes on from a to b, or stays where it is.          *)
LEMMA GoesOn ==
  ASSUME IInv, at # "boot", at' # "boot", UNCHANGED <<pid, current_proc, trapframe>>,
         \A s \in Slots \ {current_proc} : stack'[s] = stack[s],
         NEW a, NEW b, Doing(current_proc) = a, Doing(current_proc)' = b
  PROVE  /\ contexts!GoOn(a, b)
         /\ a = b => UNCHANGED <<current_proc, Where>>
<1>1. current_proc \in Slots
  BY Current
<1>2. \A s \in Slots \ {current_proc} : Doing(s)' = Doing(s)
  BY OthersStay
<1>3. Where' = [Where EXCEPT ![current_proc] = b]
  BY <1>1, <1>2, Zenon DEF Where
<1>4. Where[current_proc] = a
  BY <1>1 DEF Where
<1>5. a = b => Where' = Where
  BY <1>1, <1>2 DEF Where
<1> QED
  BY <1>3, <1>4, <1>5 DEF contexts!GoOn, Where

(* The scheduler changes who runs and nothing else.                        *)
LEMMA SwitchMovesNobody ==
  ASSUME IInv, at # "boot", at' = "stub", Switch(state), Unscheduled,
         Saved(current_proc, esp), UNCHANGED stack,
         Doing(current_proc) = FrameAt(esp).in
  PROVE  contexts!Switch
<1>1. booted /\ current_proc \in Slots
  BY Current
<1>2. current_proc' \in Slots
  BY <1>1, Scheduling DEF IInv, Switch
<1>3. UNCHANGED pid
  BY DEF Unscheduled
<1>4. ASSUME NEW s \in Slots, pid[s] # -1 PROVE Doing(s)' = Doing(s)
  <2>1. CASE current_proc' = current_proc
    <3>1. ret' = esp /\ (s # current_proc => trapframe'[s] = trapframe[s])
      BY <2>1 DEF Switch, IInv, StackInv
    <3> QED
      BY <1>3, <1>4, <2>1, <3>1 DEF Doing, FrameAt
  <2>2. CASE current_proc' # current_proc
    <3>1. /\ trapframe'[current_proc] = esp
          /\ s # current_proc => trapframe'[s] = trapframe[s]
          /\ ret' = trapframe[current_proc']
      BY <1>1, <1>2, <2>2, Scheduling DEF Switch, IInv, StackInv
    <3> QED
      BY <1>1, <1>2, <1>3, <1>4, <2>2, <3>1 DEF Doing, FrameAt
  <2> QED
    BY <2>1, <2>2
<1>5. \A s \in Slots : Doing(s)' = Doing(s)
  BY <1>3, <1>4 DEF Doing
<1>6. Where' = Where
  BY <1>5 DEF Where
<1> QED
  BY <1>2, <1>6 DEF contexts!Switch, Where

(* proc_new and proc_kickoff_first_process.                                *)
LEMMA BootMoves ==
  ASSUME IInv, Boot
  PROVE  (\E p \in Slots : contexts!New(p)) \/ UNCHANGED <<current_proc, Where>>
<1>1. ASSUME NEW k \in Slots, New(k) PROVE contexts!New(k)
  <2>1. at = "boot" /\ at' = "boot" /\ pid[k] = -1 /\ pid'[k] # -1
    <3>1. find_next_proc(state, "UNUSED", k) /\ k # NULL
      BY <1>1 DEF New, Create, proc_new
    <3>2. state[k] = "UNUSED"
      BY <3>1, FindNextProc DEF IInv, TableInv, ProcTypeOK, ProcState
    <3>3. at = "boot" /\ at' = "boot" /\ pid' = [pid EXCEPT ![k] = next_pid]
      BY <1>1 DEF New, Create, proc_new, cpu_vars
    <3> QED
      BY <3>2, <3>3 DEF IInv, TableInv, ProcTypeOK, NCreated
  <2>2. Doing(k) = "none" /\ Doing(k)' = "load"
    BY <1>1, <2>1 DEF New, Doing, FrameAt, IInv, StackInv
  <2>3. ASSUME NEW s \in Slots \ {k} PROVE Doing(s)' = Doing(s)
    <3>1. pid'[s] = pid[s] /\ trapframe'[s] = trapframe[s] /\ stack'[s] = stack[s]
      BY <1>1 DEF New, Create, proc_new, IInv, TableInv, ProcTypeOK, StackInv
    <3>2. pid[s] # -1 => Saved(s, trapframe[s])
      BY <2>1 DEF IInv, StackInv
    <3>3. pid[s] # -1 => trapframe[s].of = s
      BY <3>2, OnOwnStack
    <3> QED
      BY <2>1, <3>1, <3>3 DEF Doing, FrameAt
  <2>4. Where' = [Where EXCEPT ![k] = "load"] /\ Where[k] = "none"
    BY <2>2, <2>3, Zenon DEF Where
  <2> QED
    BY <2>4 DEF contexts!New, Where
<1>2. ASSUME Kickoff PROVE UNCHANGED <<current_proc, Where>>
  <2>1. /\ at = "boot" /\ at' = "load"
        /\ UNCHANGED <<pid, current_proc, stack, trapframe>>
        /\ current_proc \in Slots /\ pid[current_proc] # -1
    BY <1>2, ProcAssumption
    DEF Kickoff, proc_kickoff_first_process, IInv, TableInv, NCreated
  <2>2. ASSUME NEW s \in Slots PROVE Doing(s)' = Doing(s)
    BY <2>1 DEF Doing, FrameAt, IInv, StackInv, InLoad
  <2> QED
    BY <2>1, <2>2 DEF Where
<1> QED
  BY <1>1, <1>2 DEF Boot

(* The steps after boot, by where they take the current process.           *)
LEMMA StepMoves ==
  ASSUME IInv, [Next]_vars, ~Boot
  PROVE  contexts!Next \/ UNCHANGED <<current_proc, Where>>
<1> USE DEF contexts!Next
<1>1. CASE UNCHANGED vars \/ \E n \in Lines : Raise(n)
  <2>1. UNCHANGED <<pid, current_proc, at, trapframe, stack, ret, esp>>
    BY <1>1 DEF vars, Raise, proc_vars, cpu_vars, space_vars
  <2>2. \A s : Doing(s)' = Doing(s)
    BY <2>1 DEF Doing, FrameAt
  <2> QED
    BY <2>1, <2>2 DEF Where
<1>2. CASE proc_load
  <2>1. /\ at = "load" /\ at' = "code"
        /\ UNCHANGED <<pid, current_proc, trapframe, stack>>
    BY <1>2 DEF proc_load, proc_vars, space_vars
  <2>2. Doing(current_proc) = "load" /\ Doing(current_proc)' = "code"
    BY <2>1, Current DEF Doing
  <2> QED
    BY <2>1, <2>2, GoesOn
<1>3. CASE \E n \in Lines : Interrupt(n)
  <2>1. PICK n \in Lines : Interrupt(n)
    BY <1>3
  <2>2. /\ at \in {"load", "code"} /\ at' = "irq"
        /\ IF user THEN esp0 = current_proc ELSE esp = Pos(current_proc, 0)
        /\ current_proc \in Slots /\ pid[current_proc] # -1
        /\ UNCHANGED <<pid, current_proc, trapframe>>
    BY <2>1, Current DEF Interrupt, IInv, CpuInv, Handling, proc_vars, space_vars
  <2>3. /\ esp' = Pos(current_proc, 1)
        /\ \A s \in Slots \ {current_proc} : stack'[s] = stack[s]
        /\ stack'[current_proc][1] = Frame(current_proc, at)
    <3>1. 0 \in 0 .. 1 /\ StackInv /\ Push(at)
      BY <2>1 DEF IInv, Interrupt
    <3> QED
      BY <2>2, <3>1, Pushing
  <2>4. Doing(current_proc) = at
    BY <2>2 DEF Doing
  <2>5. FrameAt(esp)'.in = at
    BY <2>3 DEF FrameAt, Frame, Pos
  <2>6. Doing(current_proc)' = at
    BY <2>2, <2>5 DEF Doing
  <2> QED
    BY <2>2, <2>3, <2>4, <2>6, GoesOn
<1>4. CASE irq_handler_call \/ Fault \/ irq_handler_none \/ Other
  <2>1. /\ at \in {"irq", "handler"} /\ at' \in {"handler", "dead", "stub"}
        /\ at' = "stub" => ret' = esp
        /\ UNCHANGED <<pid, current_proc, trapframe, stack, esp>>
    BY <1>4 DEF irq_handler_call, Fault, irq_handler_none, Other, proc_vars, space_vars
  <2>2. Doing(current_proc)' = Doing(current_proc)
    BY <2>1 DEF Doing, FrameAt
  <2> QED
    BY <2>1, <2>2, GoesOn
<1>5. CASE Timer \/ int127
  <2>1. /\ at \in {"handler", "int127"} /\ at' = "stub" /\ Switch(state) /\ Unscheduled
        /\ UNCHANGED stack
    BY <1>5 DEF Timer, int127
  <2>2. Saved(current_proc, esp) /\ (at = "int127" => esp = Pos(current_proc, 2))
    BY <2>1 DEF IInv, CpuInv, Handling
  <2>3. at = "int127" => FrameAt(esp).in = "syscall"
    BY <2>2 DEF Saved, FrameAt, InCall, Pos
  <2>4. Doing(current_proc) = FrameAt(esp).in
    BY <2>1, <2>3, Current DEF Doing
  <2> QED
    BY <2>1, <2>2, <2>4, SwitchMovesNobody
<1>6. CASE Iret
  <2>1. /\ at = "stub" /\ current_proc \in Slots /\ pid[current_proc] # -1
        /\ Saved(current_proc, ret)
    BY <1>6, Current DEF Iret, IInv, CpuInv
  <2>2. /\ at' = FrameAt(ret).in
        /\ stack' = [stack EXCEPT ![ret.of][ret.at] = Garbage]
        /\ UNCHANGED <<pid, current_proc, trapframe>>
    BY <1>6 DEF Iret, proc_vars
  <2>3. at' \in {"code", "load", "syscall"} /\ ret.of = current_proc
    <3>1. FrameAt(ret).in \in {"code", "load", "syscall"}
      <4>1. PICK n \in {1, 2} :
              /\ ret = Pos(current_proc, n)
              /\ stack[current_proc][n].in \in {"code", "load", "syscall"}
        BY <2>1 DEF Saved, InCode, InLoad, InCall
      <4> QED
        BY <4>1 DEF Pos, FrameAt
    <3>2. ret.of = current_proc
      BY <2>1 DEF Saved, Pos
    <3> QED
      BY <2>2, <3>1, <3>2
  <2>4. \A s \in Slots \ {current_proc} : stack'[s] = stack[s]
    BY <2>2, <2>3 DEF IInv, StackInv
  <2>5. Doing(current_proc) = at' /\ Doing(current_proc)' = at'
    BY <2>1, <2>2, <2>3 DEF Doing
  <2> QED
    BY <2>1, <2>2, <2>3, <2>4, <2>5, GoesOn
<1>7. CASE Syscall
  <2>1. /\ at = "code" /\ at' = "int"
        /\ IF user THEN esp0 = current_proc ELSE esp = Pos(current_proc, 0)
        /\ current_proc \in Slots /\ pid[current_proc] # -1
        /\ UNCHANGED <<pid, current_proc, trapframe>>
    BY <1>7, Current DEF Syscall, IInv, CpuInv, proc_vars, space_vars
  <2>2. \A s \in Slots \ {current_proc} : stack'[s] = stack[s]
    <3>1. 0 \in 0 .. 1 /\ StackInv /\ Push("code")
      BY <1>7 DEF IInv, Syscall
    <3> QED
      BY <2>1, <3>1, Pushing
  <2>3. Doing(current_proc) = "code" /\ Doing(current_proc)' = "syscall"
    BY <2>1 DEF Doing
  <2> QED
    BY <2>1, <2>2, <2>3, GoesOn
<1>8. CASE NoReceiver \/ Return
  <2>1. /\ at \in {"int", "syscall"} /\ at' = "stub" /\ ret' = esp
        /\ UNCHANGED <<pid, current_proc, trapframe, stack>>
    BY <1>8 DEF NoReceiver, Return, proc_vars
  <2>2. esp = Pos(current_proc, 1) /\ InCode(current_proc, stack[current_proc][1])
    BY <2>1 DEF IInv, CpuInv
  <2>3. FrameAt(ret)'.in = "code"
    BY <2>1, <2>2 DEF FrameAt, InCode, Pos
  <2>4. Doing(current_proc) = "syscall" /\ Doing(current_proc)' = "code"
    BY <2>1, <2>3, Current DEF Doing
  <2> QED
    BY <2>1, <2>4, GoesOn
<1>9. CASE Call
  <2>1. /\ at = "int" /\ at' = "int127" /\ ~user /\ esp = Pos(current_proc, 1)
        /\ current_proc \in Slots /\ pid[current_proc] # -1
        /\ UNCHANGED <<pid, current_proc, trapframe>>
    BY <1>9, Current DEF Call, IInv, CpuInv, space_vars
  <2>2. \A s \in Slots \ {current_proc} : stack'[s] = stack[s]
    <3>1. 1 \in 0 .. 1 /\ StackInv /\ Push("syscall")
      BY <1>9 DEF IInv, Call
    <3> QED
      BY <2>1, <3>1, Pushing
  <2>3. Doing(current_proc) = "syscall" /\ Doing(current_proc)' = "syscall"
    BY <2>1 DEF Doing
  <2> QED
    BY <2>1, <2>2, <2>3, GoesOn
<1>10. CASE msg_dispatcher
  <2>1. /\ at = "code" /\ at' = "code"
        /\ UNCHANGED <<pid, current_proc, trapframe, stack>>
    BY <1>10 DEF msg_dispatcher, Request, Enter, Leave, StoreHandler, StorePdir, Enable,
       Dispatch, cpu_vars
  <2>2. Doing(current_proc)' = Doing(current_proc)
    BY <2>1 DEF Doing
  <2> QED
    BY <2>1, <2>2, GoesOn
<1> QED
  BY <1>1, <1>2, <1>3, <1>4, <1>5, <1>6, <1>7, <1>8, <1>9, <1>10
  DEF Next, Handler, irq_handler, int_handler, Hang

(* Every process goes through its own code as if it had a CPU of its own,  *)
(* for every number of processes and whatever IRQs the devices raise and   *)
(* the processes have forwarded.                                           *)
THEOREM Multitasking == Spec => IsContexts
<1>1. Init => contexts!Init
  BY DEF Init, proc_earlyinit, contexts!Init, Doing
<1>2. IInv /\ [Next]_vars => [contexts!Next]_<<current_proc, Where>>
  BY BootMoves, StepMoves DEF contexts!Next
<1> QED
  BY <1>1, <1>2, Invariance, PTL DEF Spec, IsContexts, contexts!Spec, Where
==============================================================================
