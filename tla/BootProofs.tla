----------------------------- MODULE BootProofs -----------------------------
(***************************************************************************)
(* Boot, for every disc, memory map, table and machine: however many cores *)
(* there are, and however late they start, each of them gets a stack of    *)
(* its own; the A20 line is turned on where there is a fast gate, and the  *)
(* keyboard controller's other lines are kept.                             *)
(***************************************************************************)
EXTENDS Boot, TLAPS

(* Core c runs on a stack.                                                 *)
Runs(c) == core[c] \in {"stack", "up"}

(* The numbers of the stacks in use have all been given out.               *)
IInv ==
  /\ unique_stack_id \in Nat
  /\ DOMAIN core = Cores /\ DOMAIN stack = Cores
  /\ \A c \in Cores : Runs(c) => stack[c] \in 0 .. unique_stack_id - 1
  /\ OwnStacks

(* No core runs before it was sent an IPI.                                 *)
LEMMA InitIInv == KInit => IInv
  BY DEF KInit, Init, IInv, Runs, OwnStacks

(* What neither starts a core nor gives it a stack keeps the stacks apart. *)
LEMMA NoneStarts ==
  ASSUME IInv, UNCHANGED <<stack, unique_stack_id>>, DOMAIN core' = Cores,
         \A c \in Cores : Runs(c)' => Runs(c)
  PROVE  IInv'
<1>1. OwnStacks'
  BY DEF IInv, Runs, OwnStacks
<1> QED
  BY <1>1 DEF IInv, Runs

(* The APIC resets cores and sends them to the trampoline.                 *)
LEMMA DeliverKeepsIInv == IInv /\ Deliver => IInv'
<1> SUFFICES ASSUME IInv, Deliver PROVE IInv'
  OBVIOUS
<1>1. UNCHANGED <<stack, unique_stack_id>> /\ DOMAIN core' = Cores
  BY DEF Deliver, IInv
<1>2. ASSUME NEW c \in Cores PROVE Runs(c)' => Runs(c)
  BY DEF Deliver, IInv, Runs
<1> QED
  BY <1>1, <1>2, NoneStarts

(* lock cmpxchg gives out a number once: the core that succeeds takes one  *)
(* that is above all others.                                               *)
LEMMA CoreKeepsIInv == ASSUME IInv, NEW c \in Cores, Core(c) PROVE IInv'
<1>1. CASE ReadId(c)
  <2>1. UNCHANGED <<stack, unique_stack_id>> /\ DOMAIN core' = Cores
    BY <1>1 DEF ReadId, At, IInv
  <2>2. ASSUME NEW d \in Cores PROVE Runs(d)' => Runs(d)
    BY <1>1 DEF ReadId, At, IInv, Runs
  <2> QED
    BY <2>1, <2>2, NoneStarts
<1>2. CASE kmain_secondary_cores(c)
  <2>1. UNCHANGED <<stack, unique_stack_id>> /\ DOMAIN core' = Cores
    BY <1>2 DEF kmain_secondary_cores, At, IInv
  <2>2. ASSUME NEW d \in Cores PROVE Runs(d)' => Runs(d)
    BY <1>2 DEF kmain_secondary_cores, At, IInv, Runs
  <2> QED
    BY <2>1, <2>2, NoneStarts
<1>3. CASE TakeId(c) /\ unique_stack_id # eax[c]
  <2>1. UNCHANGED <<stack, unique_stack_id>> /\ DOMAIN core' = Cores
    BY <1>3 DEF TakeId, At, IInv
  <2>2. ASSUME NEW d \in Cores PROVE Runs(d)' => Runs(d)
    BY <1>3 DEF TakeId, At, IInv, Runs
  <2> QED
    BY <2>1, <2>2, NoneStarts
<1>4. CASE TakeId(c) /\ unique_stack_id = eax[c]
  <2>1. /\ unique_stack_id' = unique_stack_id + 1
        /\ unique_stack_id' \in Nat
        /\ DOMAIN core' = Cores /\ DOMAIN stack' = Cores
        /\ stack'[c] = unique_stack_id
        /\ \A d \in Cores \ {c} : stack'[d] = stack[d] /\ (Runs(d)' <=> Runs(d))
    BY <1>4 DEF TakeId, At, IInv, Runs
  <2>2. \A d \in Cores \ {c} : Runs(d)' => stack'[d] \in 0 .. unique_stack_id - 1
    BY <2>1 DEF IInv
  <2>3. \A d \in Cores : Runs(d)' => stack'[d] \in 0 .. unique_stack_id' - 1
    BY <2>1, <2>2 DEF IInv
  <2>4. ASSUME NEW d \in Cores, NEW e \in Cores, d # e, Runs(d)', Runs(e)'
        PROVE  stack'[d] # stack'[e]
    <3>1. CASE d # c /\ e # c
      BY <2>1, <2>4, <3>1 DEF IInv, OwnStacks, Runs
    <3>2. CASE d = c \/ e = c
      BY <2>1, <2>2, <2>4, <3>2 DEF IInv
    <3> QED
      BY <3>1, <3>2
  <2>5. OwnStacks'
    BY <2>4 DEF OwnStacks, Runs
  <2> QED
    BY <2>1, <2>3, <2>5 DEF IInv
<1> QED
  BY <1>1, <1>2, <1>3, <1>4 DEF Core

(* The loader, the memory map and the bootstrap processor leave the cores  *)
(* alone.                                                                  *)
LEMMA NextKeepsIInv == IInv /\ [KNext]_boot_vars => IInv'
<1> SUFFICES ASSUME IInv, [KNext]_boot_vars PROVE IInv'
  OBVIOUS
<1>1. CASE UNCHANGED core_vars
  <2>1. UNCHANGED <<core, stack, unique_stack_id>>
    BY <1>1 DEF core_vars
  <2> QED
    BY <2>1 DEF IInv, Runs, OwnStacks
<1>2. CASE Load \/ Enter \/ Keyboard \/ UNCHANGED boot_vars
  BY <1>1, <1>2 DEF Load, Enter, Keyboard, boot_vars, vars
<1>3. CASE kmain
  BY <1>1, <1>3 DEF kmain, Memory, Search, smp_init, Scan, smp_send_init_ipi,
     smp_send_startup_ipi, Send, Poll, vars
<1>4. CASE Others
  BY <1>4, DeliverKeepsIInv, CoreKeepsIInv DEF Others
<1> QED
  BY <1>2, <1>3, <1>4 DEF KNext

(* For every number of cores, and every table, disc and memory map: no two *)
(* cores run on the same stack.                                            *)
THEOREM StacksApart == KSpec => []OwnStacks
<1>1. IInv => OwnStacks
  BY DEF IInv
<1> QED
  BY <1>1, InitIInv, NextKeepsIInv, PTL DEF KSpec

-----------------------------------------------------------------------------
(* The A20 line.                                                           *)

(* The output port: the A20 line, and whether the others are as they were. *)
Lines == [a20 : BOOLEAN, kept : BOOLEAN]

(* As long as no key was pressed, what the controller has for the CPU is   *)
(* its output port, and the code has read what the port was.               *)
PortInv ==
  /\ al \in Lines /\ port \in Lines
  /\ output \in Seq({"port", "scancode"})
  /\ ~typed => port.kept /\ (lpc = "a20" => al.kept /\ output \in Seq({"port"}))

(* Where there is a fast gate, the line is held on once it was used or the *)
(* code is done with it; past that the loader has dropped what it knew of  *)
(* the hardware.                                                           *)
LineInv ==
  "fast" \in hw =>
    /\ lpc \in {"a20", "error"}
    /\ apc \in {"check_fast", "end"} => holds # {}
    /\ apc # "error"

(* The port starts as it is kept, with nothing held.                       *)
LEMMA InitGate == KInit => PortInv /\ LineInv
  BY DEF KInit, ld!LInit, ld!gate!Init, ld!gate!Port, PortInv, LineInv, Lines

(* What the CPU does about the line.                                       *)
LEMMA CpuKeepsGate ==
  ASSUME PortInv, LineInv, ld!TryA20 PROVE PortInv' /\ LineInv'
<1> USE DEF ld!TryA20, ld!gate!controller_vars
<1>1. CASE ld!gate!TryBios
  BY <1>1 DEF ld!gate!TryBios, PortInv, LineInv
<1>2. ASSUME NEW from, NEW next, ld!gate!Check(from, next), from = "check_fast" \/ next # "error",
             next # "check_fast", next # "end"
      PROVE  PortInv' /\ LineInv'
  <2>1. UNCHANGED <<hw, holds, al, input, output, kbd_on, port, typed, lpc>>
    BY <1>2 DEF ld!gate!Check
  <2>2. PortInv'
    BY <2>1 DEF PortInv
  <2>3. holds # {} => ld!gate!check_a20
    BY DEF ld!gate!check_a20, ld!gate!a20
  <2>4. holds = {} => ~ld!gate!check_a20
    BY DEF ld!gate!check_a20, ld!gate!a20
  <2>5. LineInv'
    BY <1>2, <2>1, <2>3, <2>4 DEF LineInv, ld!gate!Check
  <2> QED
    BY <2>2, <2>5
<1>3. ASSUME NEW from, NEW byte, NEW to, ld!gate!Write(from, byte, to),
             to \notin {"check_fast", "end", "error"}
      PROVE  PortInv' /\ LineInv'
  BY <1>3 DEF ld!gate!Write, PortInv, LineInv
<1>4. CASE ld!gate!Read
  <2>1. LineInv'
    BY <1>4 DEF ld!gate!Read, LineInv
  <2>2. output # <<>> /\ output' = Tail(output) /\ UNCHANGED <<port, typed>>
    BY <1>4 DEF ld!gate!Read
  <2>3. output' \in Seq({"port", "scancode"})
    BY <2>2 DEF PortInv
  <2>4. al' \in Lines
    BY <1>4 DEF ld!gate!Read, ld!gate!AsPort, ld!gate!Port, PortInv, Lines
  <2>5. ASSUME ~typed PROVE al'.kept /\ output' \in Seq({"port"})
    <3>1. output \in Seq({"port"}) /\ port.kept
      BY <2>5 DEF PortInv
    <3>2. Head(output) = "port" /\ output' \in Seq({"port"})
      BY <2>2, <3>1
    <3>3. al' = port
      BY <1>4, <3>2 DEF ld!gate!Read, ld!gate!AsPort, ld!gate!Scancode
    <3> QED
      BY <3>1, <3>2, <3>3
  <2> QED
    BY <2>1, <2>2, <2>3, <2>4, <2>5 DEF PortInv
<1>5. CASE ld!gate!Sti
  BY <1>5 DEF ld!gate!Sti, PortInv, LineInv
<1>6. CASE ld!gate!Fast
  <2>1. PortInv'
    BY <1>6 DEF ld!gate!Fast, PortInv
  <2>2. LineInv'
    BY <1>6 DEF ld!gate!Fast, LineInv
  <2> QED
    BY <2>1, <2>2
<1> QED
  BY <1>1, <1>2, <1>3, <1>4, <1>5, <1>6 DEF ld!gate!enable_a20_or_die, ld!gate!enable_a20_via_kbd

(* What the controller and the keyboard do.                                *)
LEMMA KeyboardKeepsGate ==
  ASSUME PortInv, LineInv, ld!Around PROVE PortInv' /\ LineInv'
<1>1. CASE ld!gate!Controller
  <2>1. output' \in Seq({"port", "scancode"}) /\ (~typed => output' \in Seq({"port"}))
    BY <1>1 DEF ld!gate!Controller, ld!Around, PortInv
  <2>2. port' \in Lines /\ (~typed => port'.kept)
    BY <1>1 DEF ld!gate!Controller, ld!Around, PortInv, Lines
  <2>3. UNCHANGED <<hw, apc, al, typed, lpc>> /\ (holds # {} => holds' # {})
    BY <1>1 DEF ld!gate!Controller, ld!Around
  <2> QED
    BY <2>1, <2>2, <2>3 DEF PortInv, LineInv
<1>2. CASE ld!gate!Key
  BY <1>2 DEF ld!gate!Key, ld!gate!cpu_vars, ld!gate!Scancode, ld!Around, PortInv, LineInv
<1> QED
  BY <1>1, <1>2 DEF ld!Around

(* All the other steps of boot leave the gate alone, or are done with it.  *)
LEMMA NextKeepsGate == PortInv /\ LineInv /\ [KNext]_boot_vars => (PortInv /\ LineInv)'
<1> SUFFICES ASSUME PortInv, LineInv, [KNext]_boot_vars PROVE PortInv' /\ LineInv'
  OBVIOUS
<1>1. ASSUME UNCHANGED <<hw, apc, al, output, port, typed>>,
             lpc' = "a20" => lpc = "a20",
             \/ "fast" \notin hw
             \/ holds' = holds /\ (lpc \in {"a20", "error"} => lpc' \in {"a20", "error"})
      PROVE  PortInv' /\ LineInv'
  BY <1>1 DEF PortInv, LineInv
<1>2. CASE LoadKernel
  BY <1>2 DEF LoadKernel, ld!LoadKernel, ld!gate!Port, PortInv, LineInv, Lines
<1>3. CASE ld!Loader
  <2>1. CASE ld!TryA20
    BY <2>1, CpuKeepsGate
  <2>2. CASE ld!Die
    BY <1>1, <2>2 DEF ld!Die, ld!a20_vars
  <2>3. CASE ld!Find \/ ld!NotFound \/ ld!Headers \/ ld!detect_memory \/ ld!LoadInitrd \/ ld!Farewell
    BY <1>1, <2>3 DEF ld!Find, ld!NotFound, ld!Headers, ld!detect_memory, ld!LoadInitrd,
       ld!Farewell, ld!a20_vars, LineInv
  <2>4. CASE ld!dispatch_elf_sections
    BY <1>1, <2>4 DEF ld!dispatch_elf_sections, ld!a20_vars, LineInv
  <2> QED
    BY <1>3, <2>1, <2>2, <2>3, <2>4 DEF ld!Loader
<1>4. CASE Enter
  BY <1>1, <1>4 DEF Enter, LineInv
<1>5. CASE Keyboard
  BY <1>5, KeyboardKeepsGate DEF Keyboard
<1>6. CASE UNCHANGED ld_vars
  BY <1>1, <1>6 DEF ld_vars
<1>7. CASE kmain \/ Others \/ UNCHANGED boot_vars
  BY <1>6, <1>7 DEF kmain, Memory, Drop, Others, boot_vars
<1> QED
  BY <1>2, <1>3, <1>4, <1>5, <1>7 DEF KNext, Load

(* As long as no key is pressed meanwhile, what enable_a20_via_kbd writes  *)
(* to the controller's output port has its other lines as they were.       *)
THEOREM PortKept == KSpec => []OutputPortKept
<1>1. PortInv => OutputPortKept
  BY DEF PortInv, OutputPortKept, ld!gate!OutputPortKept
<1> QED
  BY <1>1, InitGate, NextKeepsGate, PTL DEF KSpec

(* On every machine that has a fast gate enable_a20_or_die does not die,   *)
(* and the line is on when it is done.                                     *)
THEOREM GateOpens == KSpec => []ld!LineOn
<1>1. LineInv => ld!LineOn
  BY DEF LineInv, ld!LineOn, ld!gate!a20
<1> QED
  BY <1>1, InitGate, NextKeepsGate, PTL DEF KSpec
=============================================================================
