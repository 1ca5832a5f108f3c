------------------------------- MODULE IdtInv -------------------------------
(***************************************************************************)
(* The invariant of Idt: where the contexts of the processes are.  It holds*)
(* initially; creating, loading and interrupting processes, and the        *)
(* handlers of interrupts, keep it.                                        *)
(***************************************************************************)
EXTENDS Idt, TLAPS

Handling == {"irq", "handler", "dead"}
Pos(s, n) == [of |-> s, at |-> n]

(* The frames that a process leaves behind: interrupted in its code, in    *)
(* proc_load, and in a system call that gives up the CPU.                  *)
InCode(s, f) == f.of = s /\ f.in = "code" /\ (f.user <=> ~Privileged(s)) /\ f.ifl
InLoad(s, f) == f.of = s /\ f.in = "load" /\ ~f.user /\ f.ifl
InCall(s, f) == f.of = s /\ f.in = "syscall" /\ ~f.user /\ ~f.ifl

(* At p the stub can pop everything that it takes to go on with s.         *)
Saved(s, p) ==
  \/ p = Pos(s, 1) /\ (InCode(s, stack[s][1]) \/ InLoad(s, stack[s][1]))
  \/ p = Pos(s, 2) /\ InCode(s, stack[s][1]) /\ InCall(s, stack[s][2])

-----------------------------------------------------------------------------
(* The table of processes: those that exist have a pid, idle and the       *)
(* current one do, and the one that boot ends with runs in ring 3.         *)
TableInv ==
  /\ ProcTypeOK
  /\ \A s \in Slots : pid[s] = -1 <=> state[s] = "UNUSED"
  /\ next_pid >= 2 => idle \in Slots /\ pid[idle] # -1
  /\ next_pid > 0 => current_proc \in Slots /\ pid[current_proc] # -1
  /\ booted => next_pid = NCreated
  /\ ~booted /\ next_pid > 0 => pid[current_proc] = next_pid - 1
  /\ booted <=> at # "boot"

(* Every process that does not run has its context on its own stack, where *)
(* its trapframe points.                                                   *)
StackInv ==
  /\ DOMAIN stack = Slots /\ \A s \in Slots : DOMAIN stack[s] = 1 .. 2
  /\ DOMAIN trapframe = Slots
  /\ \A s \in Slots :
       pid[s] # -1 /\ (s # current_proc \/ at = "boot") => Saved(s, trapframe[s])
  /\ at = "boot" => \A s \in Slots : pid[s] # -1 => InLoad(s, FrameAt(trapframe[s]))

(* The CPU works on the stack of the process that runs.                    *)
CpuInv ==
  /\ at \in {"boot", "load", "code", "int", "int127", "syscall", "stub"} \cup Handling
  /\ at # "boot" => esp0 = current_proc
  /\ at # "code" => ~user
  /\ at \notin {"load", "code"} => ~ifl
  /\ at = "load" => IF ifl THEN esp = Pos(current_proc, 0) ELSE ~Privileged(current_proc)
  /\ at = "code" => /\ ifl
                    /\ user <=> ~Privileged(current_proc)
                    /\ ~user => esp = Pos(current_proc, 0)
  /\ at \in Handling => esp = Pos(current_proc, 1) /\ Saved(current_proc, esp)
  /\ at \in {"int", "syscall"} =>
       esp = Pos(current_proc, 1) /\ InCode(current_proc, stack[current_proc][1])
  /\ at = "int127" => esp = Pos(current_proc, 2) /\ Saved(current_proc, esp)
  /\ at = "stub" => Saved(current_proc, ret)

(* While msg_dispatcher handles a request nobody else runs.                *)
DispatchInv ==
  /\ kpc # "recv" => /\ current_proc = kernel /\ ~scheduling_enabled
                     /\ sender \in Slots
                     /\ at \notin {"boot", "int"}
  /\ kpc \in {"handler", "pdir"} => which \in Forwarded
  /\ which \in Forwarded \cup {NULL}

(* The handlers of the IRQs and their address spaces agree.                *)
HandlerInv ==
  /\ DOMAIN irq_handlers = Lines
  /\ \A n \in Lines :
       /\ DOMAIN irq_handlers[n] = {"handler", "pdir"}
       /\ irq_handlers[n].handler \in Slots =>
            irq_handlers[n].pdir = irq_handlers[n].handler \/ (kpc = "pdir" /\ n = which)
       /\ irq_handlers[n].handler = timer_entry => irq_handlers[n].pdir = NULL
  /\ kpc = "pdir" => irq_handlers[which].handler = sender

(* The address space in use.                                               *)
Space == IF current_proc = kernel /\ kpc = "inside" THEN sender ELSE current_proc

SpaceInv ==
  /\ at \notin {"boot", "handler", "dead"} => cr3 = Space
  /\ at \in {"handler", "dead"} =>
       /\ saved_pdir = Space
       /\ cr3 = IF irq_handlers[num].pdir = NULL THEN saved_pdir
                ELSE irq_handlers[num].pdir

(* Of the interrupts, only the one being handled is in service.            *)
PicInv ==
  IF at \in Handling
  THEN /\ num \in Lines
       /\ isr = {MasterLine(num)}
       /\ isr2 = IF num >= 8 THEN {num} ELSE {}
  ELSE isr = {} /\ isr2 = {}

IInv ==
  /\ TableInv /\ StackInv /\ CpuInv
  /\ DispatchInv /\ HandlerInv /\ SpaceInv /\ PicInv

-----------------------------------------------------------------------------
(* What find_next_proc returns.                                            *)
LEMMA FindNextProc ==
  ASSUME ProcTypeOK, NEW st \in [Slots -> ProcState], NEW s \in ProcState,
         NEW k, find_next_proc(st, s, k)
  PROVE  /\ cursor' \in 0 .. NPROCS
         /\ k # NULL => k \in Slots /\ k # idle /\ st[k] = s /\ cursor' = k + 1
<1>1. \A n \in 0 .. NPROCS - 1 : Visited(n) \in Slots
  BY ProcAssumption DEF Visited, Slots, ProcTypeOK
<1>2. cursor % NPROCS \in 0 .. NPROCS
  BY ProcAssumption DEF ProcTypeOK
<1> QED
  BY <1>1, <1>2, ProcAssumption
  DEF find_next_proc, FirstCandidate, Candidate, Slots

(* No process is what marks an empty slot or a handler of the kernel.      *)
LEMMA Marks == \A s \in Slots : s \notin {NULL, timer_entry, kbd_entry}
  BY DEF Slots, NULL, timer_entry, kbd_entry

(* A context that can be popped is on the stack of its process.            *)
LEMMA OnOwnStack ==
  ASSUME NEW s, NEW p, Saved(s, p)
  PROVE  p.of = s /\ FrameAt(p).in \in {"code", "load", "syscall"}
<1>1. CASE p = Pos(s, 1) /\ (InCode(s, stack[s][1]) \/ InLoad(s, stack[s][1]))
  BY <1>1 DEF FrameAt, Pos, InCode, InLoad
<1>2. CASE p = Pos(s, 2) /\ InCall(s, stack[s][2])
  BY <1>2 DEF FrameAt, Pos, InCall
<1> QED
  BY <1>1, <1>2 DEF Saved

(* Before the first process there is nothing to save.                      *)
LEMMA InitIInv == Init => IInv
<1> SUFFICES ASSUME Init PROVE IInv
  OBVIOUS
<1>1. TableInv
  <2>1. scheduling_enabled \in BOOLEAN /\ booted \in BOOLEAN
    BY Zenon DEF Init, proc_earlyinit
  <2>2. state \in [Slots -> ProcState] /\ pid \in [Slots -> Int]
    BY DEF Init, proc_earlyinit, ProcState
  <2> QED
    BY <2>1, <2>2, ProcAssumption DEF Init, proc_earlyinit, TableInv, ProcTypeOK, NCreated
<1>2. StackInv
  BY DEF Init, proc_earlyinit, StackInv
<1>3. CpuInv
  BY DEF Init, CpuInv, Handling
<1>4. DispatchInv
  BY DEF Init, DispatchInv
<1>5. HandlerInv
  BY Marks DEF Init, HandlerInv, Entry, NULL, timer_entry, kbd_entry
<1>6. SpaceInv /\ PicInv
  BY DEF Init, SpaceInv, PicInv, Handling
<1> QED
  BY <1>1, <1>2, <1>3, <1>4, <1>5, <1>6 DEF IInv

(* The scheduler picks a process that exists.                              *)
LEMMA Scheduling ==
  ASSUME TableInv, booted, proc_schedule_after_irq(state, scheduling_enabled)
  PROVE  /\ state' \in [Slots -> ProcState]
         /\ \A s \in Slots : state'[s] = "UNUSED" <=> state[s] = "UNUSED"
         /\ cursor' \in 0 .. NPROCS
         /\ current_proc' \in Slots /\ pid[current_proc'] # -1
         /\ ~scheduling_enabled => current_proc' = current_proc
<1>1. /\ current_proc \in Slots /\ idle \in Slots
      /\ pid[current_proc] # -1 /\ pid[idle] # -1
      /\ state[current_proc] # "UNUSED"
  BY ProcAssumption DEF TableInv, NCreated
<1>2. CASE ~scheduling_enabled
  BY <1>1, <1>2 DEF proc_schedule_after_irq, TableInv, ProcTypeOK
<1>3. CASE scheduling_enabled
  <2> DEFINE st1 == [state EXCEPT ![current_proc] =
                       IF proc_is_blocked(state, pid[current_proc]) THEN @ ELSE "READY"]
  <2>1. /\ st1 \in [Slots -> ProcState]
        /\ \A s \in Slots : st1[s] = "UNUSED" <=> state[s] = "UNUSED"
    BY <1>1 DEF TableInv, ProcTypeOK, ProcState
  <2>2. state' = st1
    BY <1>3 DEF proc_schedule_after_irq
  <2>3. PICK k \in Slots \cup {NULL} :
          /\ find_next_proc(st1, "READY", k)
          /\ current_proc' = IF k = NULL THEN idle ELSE k
    BY <1>3, Zenon DEF proc_schedule_after_irq
  <2> HIDE DEF st1
  <2>4. cursor' \in 0 .. NPROCS /\ (k # NULL => k \in Slots /\ st1[k] = "READY")
    BY <2>1, <2>3, FindNextProc DEF TableInv, ProcState
  <2> QED
    BY <1>1, <1>3, <2>1, <2>2, <2>3, <2>4 DEF TableInv
<1> QED
  BY <1>2, <1>3

(* What is saved depends on the frames and the pids alone.                 *)
LEMMA SameFrames ==
  ASSUME UNCHANGED <<pid, stack>>
  PROVE  /\ \A s : \A p : Saved(s, p)' <=> Saved(s, p)
         /\ \A s : \A f : InCode(s, f)' <=> InCode(s, f)
         /\ \A s : Privileged(s)' <=> Privileged(s)
  BY DEF Saved, InCode, InLoad, InCall, Privileged

-----------------------------------------------------------------------------
(* Boot.                                                                   *)

(* proc_new leaves the context of the new process on its own stack.        *)
LEMMA NewKeepsIInv == ASSUME IInv, NEW k \in Slots, New(k) PROVE IInv'
<1>1. /\ ~booted /\ at = "boot" /\ kpc = "recv"
      /\ pid[k] = -1 /\ state[k] = "UNUSED"
      /\ next_pid \in Nat /\ next_pid < NCreated
      /\ cursor' \in 0 .. NPROCS
  <2>1. find_next_proc(state, "UNUSED", k) /\ k # NULL
    BY DEF New, Create, proc_new
  <2>2. cursor' \in 0 .. NPROCS /\ state[k] = "UNUSED"
    BY <2>1, FindNextProc DEF IInv, TableInv, ProcTypeOK, ProcState
  <2> QED
    BY <2>2 DEF New, Create, IInv, TableInv, DispatchInv, ProcTypeOK
<1>2. /\ pid' = [pid EXCEPT ![k] = next_pid]
      /\ next_pid' = next_pid + 1
      /\ state' = [state EXCEPT ![k] = "READY"]
      /\ current_proc' = k
      /\ idle' = IF next_pid = 1 THEN k ELSE idle
      /\ stack' = [stack EXCEPT ![k][1] =
                     [of |-> k, in |-> "load", user |-> FALSE, ifl |-> TRUE]]
      /\ trapframe' = [trapframe EXCEPT ![k] = [of |-> k, at |-> 1]]
      /\ UNCHANGED <<scheduling_enabled, booted, cpu_vars, cr3, esp0, ret, irq_vars,
                     irq_handlers, pic_vars, kernel_vars>>
  BY DEF New, Create, proc_new
<1>3. TableInv'
  <2>1. ProcTypeOK'
    BY <1>1, <1>2, ProcAssumption DEF IInv, TableInv, ProcTypeOK, ProcState, NCreated
  <2> QED
    BY <1>1, <1>2, <2>1 DEF IInv, TableInv, cpu_vars, ProcTypeOK
<1>4. StackInv'
  <2>1. /\ DOMAIN stack' = Slots /\ \A s \in Slots : DOMAIN stack'[s] = 1 .. 2
        /\ DOMAIN trapframe' = Slots
    BY <1>2 DEF IInv, StackInv
  <2>2. InLoad(k, stack[k][1])' /\ trapframe'[k] = Pos(k, 1)
    BY <1>2 DEF IInv, StackInv, InLoad, Pos
  <2>3. \A s \in Slots \ {k} : pid'[s] = pid[s] /\ stack'[s] = stack[s]
                                /\ trapframe'[s] = trapframe[s]
    BY <1>2 DEF IInv, StackInv, TableInv, ProcTypeOK
  <2>4. Saved(k, trapframe[k])' /\ InLoad(k, FrameAt(trapframe[k]))'
    BY <2>2 DEF Saved, FrameAt, Pos
  <2>5. ASSUME NEW s \in Slots \ {k}, pid'[s] # -1
        PROVE  Saved(s, trapframe[s])' /\ InLoad(s, FrameAt(trapframe[s]))'
    <3>1. /\ Saved(s, trapframe[s]) /\ InLoad(s, FrameAt(trapframe[s]))
          /\ trapframe[s].of = s
      BY <1>1, <2>3, <2>5 DEF IInv, StackInv, Saved, Pos
    <3>2. Saved(s, trapframe[s])'
      BY <2>3, <3>1 DEF Saved, InCode, InLoad, InCall, Privileged
    <3>3. InLoad(s, FrameAt(trapframe[s]))'
      BY <2>3, <3>1 DEF FrameAt, InLoad
    <3> QED
      BY <3>2, <3>3
  <2> QED
    BY <2>1, <2>4, <2>5 DEF StackInv
<1>5. CpuInv'
  BY <1>1, <1>2 DEF IInv, CpuInv, cpu_vars, Handling
<1>6. DispatchInv' /\ HandlerInv'
  BY <1>1, <1>2 DEF IInv, DispatchInv, HandlerInv, kernel_vars
<1>7. SpaceInv' /\ PicInv'
  BY <1>1, <1>2 DEF IInv, SpaceInv, PicInv, cpu_vars, irq_vars, pic_vars, Handling
<1> QED
  BY <1>3, <1>4, <1>5, <1>6, <1>7 DEF IInv

(* proc_kickoff_first_process sets the TSS and the address space up for the*)
(* last process that was created.                                          *)
LEMMA KickoffKeepsIInv == IInv /\ Kickoff => IInv'
<1> SUFFICES ASSUME IInv, Kickoff PROVE IInv'
  OBVIOUS
<1>1. /\ ~booted /\ at = "boot" /\ kpc = "recv"
      /\ current_proc \in Slots /\ pid[current_proc] = NCreated - 1
      /\ ~Privileged(current_proc)
  BY ProcAssumption
  DEF IInv, TableInv, DispatchInv, Kickoff, proc_kickoff_first_process, NCreated, Privileged
<1>2. TableInv'
  BY <1>1, ProcAssumption
  DEF IInv, TableInv, ProcTypeOK, ProcState, Kickoff, proc_kickoff_first_process, NCreated
<1>3. StackInv'
  <2>1. UNCHANGED <<pid, stack, trapframe, current_proc>> /\ at' = "load"
    BY DEF Kickoff, proc_kickoff_first_process
  <2>2. \A t : \A p : Saved(t, p)' <=> Saved(t, p)
    BY <2>1, SameFrames, Zenon
  <2>3. \A t \in Slots : pid[t] # -1 => Saved(t, trapframe[t])'
    BY <1>1, <2>1, <2>2 DEF IInv, StackInv
  <2> QED
    BY <2>1, <2>3 DEF IInv, StackInv
<1>4. CpuInv'
  BY <1>1 DEF IInv, CpuInv, Kickoff, proc_kickoff_first_process, Privileged, Handling
<1>5. DispatchInv' /\ HandlerInv'
  BY <1>1 DEF IInv, DispatchInv, HandlerInv, Kickoff, kernel_vars
<1>6. SpaceInv' /\ PicInv'
  BY <1>1
  DEF IInv, SpaceInv, Space, PicInv, Kickoff, proc_kickoff_first_process, Handling, pic_vars,
      kernel_vars
<1> QED
  BY <1>2, <1>3, <1>4, <1>5, <1>6 DEF IInv

(* A process enters its code in its ring, with interrupts on.              *)
LEMMA LoadKeepsIInv == IInv /\ proc_load => IInv'
<1> SUFFICES ASSUME IInv, proc_load PROVE IInv'
  OBVIOUS
<1>1. TableInv' /\ StackInv'
  <2>1. TableInv'
    BY DEF IInv, TableInv, ProcTypeOK, proc_load, proc_vars
  <2>2. StackInv'
    BY Zenon DEF IInv, StackInv, Saved, InCode, InLoad, InCall, Privileged, FrameAt,
                 proc_load, proc_vars, space_vars
  <2> QED
    BY <2>1, <2>2
<1>2. CpuInv'
  BY Zenon DEF IInv, CpuInv, proc_load, proc_vars, space_vars, Privileged, Handling
<1>3. DispatchInv' /\ HandlerInv'
  BY DEF IInv, DispatchInv, HandlerInv, proc_load, proc_vars, kernel_vars
<1>4. SpaceInv' /\ PicInv'
  BY DEF IInv, SpaceInv, Space, PicInv, proc_load, proc_vars, space_vars, kernel_vars,
     pic_vars, Handling
<1> QED
  BY <1>1, <1>2, <1>3, <1>4 DEF IInv

-----------------------------------------------------------------------------
(* Interrupts.                                                             *)

(* After boot somebody always runs: a process that exists.                 *)
LEMMA Current ==
  ASSUME IInv, at # "boot"
  PROVE  booted /\ current_proc \in Slots /\ pid[current_proc] # -1
  BY ProcAssumption DEF IInv, TableInv, NCreated

(* A process that does not run is not disturbed by what happens on the     *)
(* stack of the one that does.                                             *)
LEMMA OthersSaved ==
  ASSUME StackInv, at # "boot", at' # "boot", UNCHANGED <<pid, current_proc, trapframe>>,
         DOMAIN stack' = Slots, \A s \in Slots : DOMAIN stack'[s] = 1 .. 2,
         \A s \in Slots \ {current_proc} : stack'[s] = stack[s]
  PROVE  StackInv'
<1>1. ASSUME NEW s \in Slots, pid'[s] # -1, s # current_proc'
      PROVE  Saved(s, trapframe[s])'
  <2>1. Saved(s, trapframe[s]) /\ stack'[s] = stack[s]
    BY <1>1 DEF StackInv
  <2> QED
    BY <2>1 DEF Saved, InCode, InLoad, InCall, Privileged
<1> QED
  BY <1>1 DEF StackInv

(* Frames are pushed on the stack of the process that runs.                *)
LEMMA Pushing ==
  ASSUME StackInv, current_proc \in Slots, NEW in, NEW n \in 0 .. 1, Push(in),
         IF user THEN esp0 = current_proc /\ n = 0 ELSE esp = Pos(current_proc, n)
  PROVE  /\ esp' = Pos(current_proc, IF n = 0 THEN 1 ELSE 2)
         /\ ~user' /\ ~ifl'
         /\ DOMAIN stack' = Slots
         /\ \A s \in Slots : DOMAIN stack'[s] = 1 .. 2
         /\ \A s \in Slots \ {current_proc} : stack'[s] = stack[s]
         /\ n = 0 => stack'[current_proc][1] = Frame(current_proc, in)
         /\ n = 1 => /\ stack'[current_proc][1] = stack[current_proc][1]
                     /\ stack'[current_proc][2] = Frame(current_proc, in)
<1> DEFINE base == IF user THEN [of |-> esp0, at |-> 0] ELSE esp
<1>1. base = Pos(current_proc, n)
  BY DEF Pos
<1>2. /\ stack' = [stack EXCEPT ![base.of][base.at + 1] = Frame(current_proc, in)]
      /\ esp' = [base EXCEPT !.at = @ + 1]
      /\ user' = FALSE /\ ifl' = FALSE
  BY DEF Push
<1> HIDE DEF base
<1>3. /\ stack' = [stack EXCEPT ![current_proc][n + 1] = Frame(current_proc, in)]
      /\ esp' = Pos(current_proc, n + 1)
  BY <1>1, <1>2 DEF Pos
<1>4. n + 1 \in 1 .. 2
  OBVIOUS
<1> QED
  BY <1>2, <1>3, <1>4 DEF StackInv

(* A device that asks for an interrupt changes nothing else.               *)
LEMMA RaiseKeepsIInv == ASSUME IInv, NEW n \in Lines, Raise(n) PROVE IInv'
<1>1. UNCHANGED <<proc_vars, cpu_vars, space_vars, stack, irq_vars, irq_handlers, isr, isr2,
                  kernel_vars>>
  BY DEF Raise
<1>2. TableInv' /\ DispatchInv' /\ HandlerInv'
  BY <1>1 DEF IInv, TableInv, ProcTypeOK, DispatchInv, HandlerInv, proc_vars, cpu_vars,
     kernel_vars
<1>3. StackInv' /\ CpuInv'
  <2>1. /\ \A s : \A p : Saved(s, p)' <=> Saved(s, p)
        /\ \A s : \A f : InCode(s, f)' <=> InCode(s, f)
        /\ \A s : Privileged(s)' <=> Privileged(s)
    BY <1>1, SameFrames DEF proc_vars
  <2>2. StackInv'
    BY <1>1, <2>1 DEF IInv, StackInv, InLoad, FrameAt, proc_vars, cpu_vars, space_vars
  <2>3. CpuInv'
    BY <1>1, <2>1 DEF IInv, CpuInv, Handling, Pos, proc_vars, cpu_vars, space_vars
  <2> QED
    BY <2>2, <2>3
<1>4. SpaceInv' /\ PicInv'
  BY <1>1 DEF IInv, SpaceInv, Space, PicInv, proc_vars, cpu_vars, space_vars, irq_vars,
     kernel_vars
<1> QED
  BY <1>2, <1>3, <1>4 DEF IInv

(* The stub saves the context that is interrupted where irq_handler expects*)
(* it.                                                                     *)
LEMMA InterruptKeepsIInv == ASSUME IInv, NEW n \in Lines, Interrupt(n) PROVE IInv'
<1>1. /\ at \in {"load", "code"} /\ ifl
      /\ IF user THEN esp0 = current_proc ELSE esp = Pos(current_proc, 0)
      /\ booted /\ current_proc \in Slots /\ pid[current_proc] # -1
  BY Current DEF Interrupt, IInv, CpuInv, Handling
<1>2. /\ Push(at) /\ at' = "irq" /\ num' = n
      /\ isr' = isr \cup {MasterLine(n)}
      /\ isr2' = IF n >= 8 THEN isr2 \cup {n} ELSE isr2
      /\ UNCHANGED <<proc_vars, space_vars, saved_pdir, irq_handlers, kernel_vars>>
  BY DEF Interrupt
<1>3. /\ esp' = Pos(current_proc, 1)
      /\ ~user' /\ ~ifl'
      /\ DOMAIN stack' = Slots
      /\ \A s \in Slots : DOMAIN stack'[s] = 1 .. 2
      /\ \A s \in Slots \ {current_proc} : stack'[s] = stack[s]
      /\ stack'[current_proc][1] = Frame(current_proc, at)
  <2>1. 0 \in 0 .. 1 /\ StackInv
    BY DEF IInv
  <2> QED
    BY <1>1, <1>2, <2>1, Pushing, Zenon
<1>4. TableInv' /\ DispatchInv' /\ HandlerInv'
  BY <1>1, <1>2 DEF IInv, TableInv, ProcTypeOK, DispatchInv, HandlerInv, proc_vars,
     kernel_vars
<1>5. StackInv'
  BY <1>1, <1>2, <1>3, OthersSaved, Zenon DEF IInv, proc_vars, space_vars
<1>6. Saved(current_proc, esp)'
  <2>1. \/ InCode(current_proc, Frame(current_proc, at))
        \/ InLoad(current_proc, Frame(current_proc, at))
    BY <1>1 DEF IInv, CpuInv, InCode, InLoad, Frame
  <2> QED
    BY <1>2, <1>3, <2>1 DEF Saved, InCode, InLoad, Privileged, proc_vars
<1>7. CpuInv'
  BY <1>1, <1>2, <1>3, <1>6 DEF IInv, CpuInv, Handling, Pos, proc_vars, space_vars
<1>8. SpaceInv' /\ PicInv'
  BY <1>1, <1>2 DEF IInv, SpaceInv, Space, PicInv, Handling, MasterLine, proc_vars,
     space_vars, kernel_vars
<1> QED
  BY <1>4, <1>5, <1>7, <1>8 DEF IInv

-----------------------------------------------------------------------------
(* Interrupts.                                                             *)

(* The scheduler leaves the context of the old process where it saves it   *)
(* and returns that of the new one.                                        *)
LEMMA SwitchKeepsContexts ==
  ASSUME IInv, at # "boot", at' = "stub", Switch(state), Unscheduled,
         Saved(current_proc, esp), cr3 = Space, UNCHANGED <<stack, kernel_vars>>
  PROVE  /\ TableInv' /\ StackInv'
         /\ Saved(current_proc, ret)'
         /\ esp0' = current_proc' /\ cr3' = Space'
         /\ kpc # "recv" => current_proc' = current_proc
<1>1. booted /\ current_proc \in Slots /\ pid[current_proc] # -1 /\ esp0 = current_proc
  BY Current DEF IInv, CpuInv
<1>2. UNCHANGED <<pid, next_pid, idle, scheduling_enabled, booted>>
  BY DEF Unscheduled
<1>3. /\ state' \in [Slots -> ProcState]
      /\ \A s \in Slots : state'[s] = "UNUSED" <=> state[s] = "UNUSED"
      /\ cursor' \in 0 .. NPROCS
      /\ current_proc' \in Slots /\ pid[current_proc'] # -1
      /\ ~scheduling_enabled => current_proc' = current_proc
  BY <1>1, Scheduling DEF IInv, Switch
<1>4. TableInv'
  BY <1>1, <1>2, <1>3 DEF IInv, TableInv, ProcTypeOK
<1>5. \A s : \A p : Saved(s, p)' <=> Saved(s, p)
  BY <1>2, SameFrames
<1>6. kpc # "recv" => current_proc' = current_proc
  BY <1>3 DEF IInv, DispatchInv
<1>7. CASE current_proc' = current_proc
  <2>1. /\ ret' = esp /\ UNCHANGED <<cr3, esp0>>
        /\ DOMAIN trapframe' = Slots
        /\ \A s \in Slots \ {current_proc} : trapframe'[s] = trapframe[s]
    BY <1>7 DEF Switch, IInv, StackInv
  <2>2. StackInv'
    BY <1>2, <1>5, <1>7, <2>1 DEF IInv, StackInv
  <2>3. Saved(current_proc, ret)'
    BY <1>5, <1>7, <2>1
  <2> QED
    BY <1>1, <1>4, <1>6, <1>7, <2>1, <2>2, <2>3 DEF Space, kernel_vars
<1>8. CASE current_proc' # current_proc
  <2>1. /\ trapframe' = [trapframe EXCEPT ![current_proc] = esp]
        /\ cr3' = current_proc' /\ esp0' = current_proc'
        /\ ret' = trapframe[current_proc']
    BY <1>3, <1>8 DEF Switch
  <2>2. Saved(current_proc, ret)'
    BY <1>3, <1>5, <1>8, <2>1 DEF IInv, StackInv
  <2>3. StackInv'
    BY <1>1, <1>2, <1>5, <1>8, <2>1 DEF IInv, StackInv
  <2> QED
    BY <1>4, <1>6, <1>8, <2>1, <2>2, <2>3 DEF Space, kernel_vars
<1> QED
  BY <1>7, <1>8

(* The end of interrupt: nothing is in service any more.                   *)
LEMMA EoiEnds ==
  ASSUME PicInv, at \in Handling, Eoi
  PROVE  isr' = {} /\ isr2' = {}
<1>1. ASSUME NEW m \in Int PROVE Ended({m}) = {}
  <2>1. m <= m
    OBVIOUS
  <2> QED
    BY <2>1, Zenon DEF Ended
<1>2. num \in Int /\ MasterLine(num) \in Int
  <2>1. num \in 0 .. 15
    BY IdtAssumption, Zenon DEF PicInv
  <2> QED
    BY <2>1 DEF MasterLine
<1> QED
  BY <1>1, <1>2 DEF PicInv, Eoi

(* irq_handler switches to the address space of the handler; a handler that*)
(* is called in the wrong one stops the machine.                           *)
LEMMA CallKeepsIInv == IInv /\ (irq_handler_call \/ Fault) => IInv'
<1> SUFFICES ASSUME IInv, irq_handler_call \/ Fault PROVE IInv'
  OBVIOUS
<1>1. /\ at \in {"irq", "handler"} /\ at' \in {"handler", "dead"}
      /\ UNCHANGED <<proc_vars, user, ifl, esp, esp0, trapframe, ret, stack, num,
                     irq_handlers, pic_vars, kernel_vars>>
  BY DEF irq_handler_call, Fault, space_vars, irq_vars
<1>2. TableInv' /\ DispatchInv' /\ HandlerInv'
  BY <1>1 DEF IInv, TableInv, ProcTypeOK, DispatchInv, HandlerInv, proc_vars, kernel_vars
<1>3. StackInv'
  BY <1>1, OthersSaved DEF IInv, StackInv, proc_vars
<1>4. CpuInv'
  BY <1>1, SameFrames DEF IInv, CpuInv, Handling, Pos, proc_vars
<1>5. PicInv'
  BY <1>1 DEF IInv, PicInv, Handling, pic_vars
<1>6. SpaceInv'
  BY <1>1 DEF IInv, SpaceInv, Space, irq_handler_call, Fault, proc_vars, space_vars,
     irq_vars, kernel_vars
<1> QED
  BY <1>2, <1>3, <1>4, <1>5, <1>6 DEF IInv

(* irq_handler without a handler, and with one that returns its frame: the *)
(* address space is the one before, and the interrupt is over.             *)
LEMMA NoneKeepsIInv == IInv /\ (irq_handler_none \/ Other) => IInv'
<1> SUFFICES ASSUME IInv, irq_handler_none \/ Other PROVE IInv'
  OBVIOUS
<1>1. /\ at \in {"irq", "handler"} /\ at' = "stub" /\ ret' = esp /\ Eoi
      /\ UNCHANGED <<proc_vars, user, ifl, esp, esp0, trapframe, stack, irq_vars,
                     irq_handlers, kernel_vars>>
  BY DEF irq_handler_none, Other
<1>2. TableInv' /\ DispatchInv' /\ HandlerInv'
  BY <1>1 DEF IInv, TableInv, ProcTypeOK, DispatchInv, HandlerInv, proc_vars, kernel_vars
<1>3. StackInv'
  BY <1>1, OthersSaved DEF IInv, StackInv, proc_vars
<1>4. CpuInv'
  BY <1>1, SameFrames DEF IInv, CpuInv, Handling, proc_vars
<1>5. PicInv'
  BY <1>1, EoiEnds DEF IInv, PicInv, Handling
<1>6. SpaceInv'
  <2>1. cr3' = Space
    BY <1>1 DEF IInv, SpaceInv, irq_handler_none, Other
  <2>2. Space' = Space
    BY <1>1 DEF Space, proc_vars, kernel_vars
  <2> QED
    BY <1>1, <2>1, <2>2 DEF SpaceInv
<1> QED
  BY <1>2, <1>3, <1>4, <1>5, <1>6 DEF IInv

(* The timer's handler switches processes, and the interrupt is over.      *)
LEMMA TimerKeepsIInv == IInv /\ Timer => IInv'
<1> SUFFICES ASSUME IInv, Timer PROVE IInv'
  OBVIOUS
<1>1. /\ at = "handler" /\ at' = "stub" /\ Switch(state) /\ Unscheduled /\ Eoi
      /\ UNCHANGED <<user, ifl, esp, stack, irq_vars, irq_handlers, irr, kernel_vars>>
  BY DEF Timer
<1>2. Saved(current_proc, esp) /\ cr3 = Space
  BY <1>1 DEF Timer, IInv, CpuInv, SpaceInv, HandlerInv, PicInv, Handling
<1>3. /\ TableInv' /\ StackInv'
      /\ Saved(current_proc, ret)'
      /\ esp0' = current_proc' /\ cr3' = Space'
      /\ kpc # "recv" => current_proc' = current_proc
  BY <1>1, <1>2, SwitchKeepsContexts
<1>4. DispatchInv' /\ HandlerInv'
  BY <1>1, <1>3 DEF IInv, DispatchInv, HandlerInv, kernel_vars, Unscheduled
<1>5. CpuInv'
  BY <1>1, <1>3 DEF IInv, CpuInv, Handling
<1>6. SpaceInv' /\ PicInv'
  BY <1>1, <1>3, EoiEnds DEF IInv, SpaceInv, PicInv, Handling
<1> QED
  BY <1>3, <1>4, <1>5, <1>6 DEF IInv

(* The stub goes on with what the frame holds, on the stack of its process.*)
LEMMA IretKeepsIInv == IInv /\ Iret => IInv'
<1> SUFFICES ASSUME IInv, Iret PROVE IInv'
  OBVIOUS
<1>1. /\ at = "stub" /\ booted /\ current_proc \in Slots
      /\ Saved(current_proc, ret) /\ esp0 = current_proc
  BY Current DEF Iret, IInv, CpuInv
<1> DEFINE f == FrameAt(ret)
<1>2. /\ at' = f.in /\ user' = f.user /\ ifl' = f.ifl
      /\ esp' = IF f.user THEN Nowhere ELSE [ret EXCEPT !.at = @ - 1]
      /\ stack' = [stack EXCEPT ![ret.of][ret.at] = Garbage]
      /\ UNCHANGED <<proc_vars, cr3, esp0, trapframe, irq_handlers, pic_vars, kernel_vars>>
  BY DEF Iret
<1> HIDE DEF f
<1>3. \/ /\ ret = Pos(current_proc, 1)
         /\ InCode(current_proc, f) \/ InLoad(current_proc, f)
         /\ ~f.user => esp' = Pos(current_proc, 0)
      \/ /\ ret = Pos(current_proc, 2)
         /\ InCall(current_proc, f) /\ InCode(current_proc, stack[current_proc][1])
         /\ esp' = Pos(current_proc, 1)
  <2>1. CASE /\ ret = Pos(current_proc, 1)
             /\ \/ InCode(current_proc, stack[current_proc][1])
                \/ InLoad(current_proc, stack[current_proc][1])
    <3>1. f = stack[current_proc][1]
      BY <2>1 DEF f, FrameAt, Pos
    <3>2. ~f.user => esp' = Pos(current_proc, 0)
      BY <1>2, <2>1 DEF Pos
    <3> QED
      BY <2>1, <3>1, <3>2
  <2>2. CASE /\ ret = Pos(current_proc, 2)
             /\ InCode(current_proc, stack[current_proc][1])
             /\ InCall(current_proc, stack[current_proc][2])
    <3>1. f = stack[current_proc][2]
      BY <2>2 DEF f, FrameAt, Pos
    <3>2. ~f.user => esp' = Pos(current_proc, 1)
      BY <1>2, <2>2 DEF Pos
    <3> QED
      BY <2>2, <3>1, <3>2 DEF InCall
  <2> QED
    BY <1>1, <2>1, <2>2 DEF Saved
<1>4. at' \in {"code", "load", "syscall"}
  BY <1>2, <1>3 DEF InCode, InLoad, InCall
<1>5. /\ DOMAIN stack' = Slots
      /\ \A s \in Slots : DOMAIN stack'[s] = 1 .. 2
      /\ \A s \in Slots \ {current_proc} : stack'[s] = stack[s]
      /\ ret.at = 2 => stack'[current_proc][1] = stack[current_proc][1]
  BY <1>1, <1>2, <1>3 DEF IInv, StackInv, Pos
<1>6. TableInv' /\ DispatchInv' /\ HandlerInv'
  BY <1>1, <1>2, <1>4 DEF IInv, TableInv, ProcTypeOK, DispatchInv, HandlerInv, proc_vars,
     kernel_vars
<1>7. StackInv'
  BY <1>1, <1>2, <1>4, <1>5, OthersSaved DEF IInv, proc_vars
<1>8. CpuInv'
  <2>1. CASE ret = Pos(current_proc, 1)
    BY <1>1, <1>2, <1>3, <2>1 DEF IInv, CpuInv, InCode, InLoad, Privileged, Handling, Pos,
       proc_vars
  <2>2. CASE ret = Pos(current_proc, 2)
    <3>1. InCode(current_proc, stack[current_proc][1])'
      BY <1>2, <1>3, <1>5, <2>2 DEF Pos, InCode, Privileged, proc_vars
    <3> QED
      BY <1>1, <1>2, <1>3, <2>2, <3>1 DEF CpuInv, InCall, Handling, Pos, proc_vars
  <2> QED
    BY <1>3, <2>1, <2>2
<1>9. SpaceInv' /\ PicInv'
  BY <1>1, <1>2, <1>4 DEF IInv, SpaceInv, Space, PicInv, Handling, proc_vars, kernel_vars,
     pic_vars
<1> QED
  BY <1>6, <1>7, <1>8, <1>9 DEF IInv
=============================================================================
