--------------------------------- MODULE Smp ---------------------------------
(***************************************************************************)
(* The start of the other cores: smp_init of kernel/smp.c on the bootstrap *)
(* processor, the trampoline on every core it wakes, and between them the  *)
(* local APIC, which delivers an inter-processor interrupt (IPI) some time *)
(* after it was written to the interrupt command register (ICR).           *)
(***************************************************************************)
EXTENDS Integers, Sequences, FiniteSets

CONSTANTS
  Cores,    \* local_apic_id of the other cores; the bootstrap one has 0
  Tables,   \* the entries that the MP configuration table may have
  MaxTries  \* how often smp_init_core looks at the counter

ASSUME SmpAssumption ==
  /\ Cores \subseteq Nat \ {0}
  /\ \A t \in Tables : t \in Seq([type : {"cpu", "other", "unknown"}, id : Cores \cup {0}])
  /\ MaxTries \in Nat

VARIABLES
  table, entry,   \* the MP table, and the entry smp_init is at
  bsp,            \* what the bootstrap processor does next
  saved, tries,   \* saved_inited_cores_num and tries of smp_init_core
  icr,            \* the IPI that is being delivered
  core,           \* what each core does next
  eax,            \* unique_stack_id as a core has read it
  stack,          \* the number of the stack each core runs on
  unique_stack_id,
  smp_initialized_cores_num

bsp_vars == <<table, entry, bsp, saved, tries>>
core_vars == <<core, eax, stack, unique_stack_id, smp_initialized_cores_num>>
vars == <<bsp_vars, icr, core_vars>>

NoIpi == [kind |-> "none", target |-> 0]
Ipi(kind, c) == [kind |-> kind, target |-> c]
NoStack == -1

Init ==
  /\ table = <<>>
  /\ bsp = "search"
  /\ entry = 1
  /\ saved = 1
  /\ tries = 0
  /\ icr = NoIpi
  /\ core = [c \in Cores |-> "off"]
  /\ eax = [c \in Cores |-> 0]
  /\ stack = [c \in Cores |-> NoStack]
  /\ unique_stack_id = 0
  /\ smp_initialized_cores_num = 1

-----------------------------------------------------------------------------
(* The bootstrap processor.                                                *)

(* search_for_mp_table: without a table there is nothing to do.            *)
Search ==
  /\ bsp = "search"
  /\ \/ table' \in Tables /\ bsp' = "scan"
     \/ table' = table /\ bsp' = "done"
  /\ UNCHANGED <<entry, saved, tries, icr, core_vars>>

Entry == table[entry]

(* The loop over the entries of the table.                                 *)
Scan ==
  /\ bsp = "scan"
  /\ CASE entry > Len(table) \/ (entry <= Len(table) /\ Entry.type = "unknown") ->
            bsp' = "done" /\ UNCHANGED <<entry, saved, tries>>
       [] entry <= Len(table) /\ Entry.type = "cpu" /\ Entry.id # 0 ->
            /\ bsp' = "init"
            /\ saved' = smp_initialized_cores_num
            /\ tries' = 0
            /\ UNCHANGED entry
       [] OTHER -> entry' = entry + 1 /\ UNCHANGED <<bsp, saved, tries>>
  /\ UNCHANGED <<table, icr, core_vars>>

(* Write an IPI to the ICR.  The loop in front of it, meant to wait until  *)
(* none is pending, reads the version register and never waits.            *)
Send(from, kind, to) ==
  /\ bsp = from
  /\ bsp' = to
  /\ icr' = Ipi(kind, Entry.id)
  /\ UNCHANGED <<table, entry, saved, tries, core_vars>>

smp_send_init_ipi == Send("init", "INIT", "startup")
smp_send_startup_ipi == Send("startup", "STARTUP", "poll")

(* Mutant: the tries are not counted.                                      *)
Poll_forever ==
  /\ bsp = "poll"
  /\ IF smp_initialized_cores_num = saved
     THEN UNCHANGED <<bsp, entry>>
     ELSE bsp' = "scan" /\ entry' = entry + 1
  /\ UNCHANGED <<table, saved, tries, icr, core_vars>>

(* Look at the counter until it has moved, MaxTries + 1 times.  That more  *)
(* cores came up than intended is reported to nobody.                      *)
Poll ==
  /\ bsp = "poll"
  /\ IF smp_initialized_cores_num = saved /\ tries < MaxTries
     THEN tries' = tries + 1 /\ UNCHANGED <<bsp, entry>>
     ELSE bsp' = "scan" /\ entry' = entry + 1 /\ UNCHANGED tries
  /\ UNCHANGED <<table, saved, icr, core_vars>>

(* With a table.                                                           *)
smp_init == Scan \/ smp_send_init_ipi \/ smp_send_startup_ipi \/ Poll

-----------------------------------------------------------------------------
(* The APIC delivers: INIT resets a core, STARTUP starts a reset one.      *)
Deliver ==
  /\ icr # NoIpi
  /\ icr' = NoIpi
  /\ core' = [core EXCEPT ![icr.target] =
                CASE icr.kind = "INIT" -> "reset"
                  [] icr.kind = "STARTUP" /\ @ = "reset" -> "trampoline"
                  [] OTHER -> @]
  /\ UNCHANGED <<bsp_vars, eax, stack, unique_stack_id, smp_initialized_cores_num>>

-----------------------------------------------------------------------------
(* The other cores.                                                        *)

At(c, from, to) ==
  /\ core[c] = from
  /\ core' = [core EXCEPT ![c] = to]
  /\ UNCHANGED <<bsp_vars, icr>>

(* find_my_stack: mov eax, [unique_stack_id]                               *)
ReadId(c) ==
  /\ At(c, "trampoline", "cmpxchg")
  /\ eax' = [eax EXCEPT ![c] = unique_stack_id]
  /\ UNCHANGED <<stack, unique_stack_id, smp_initialized_cores_num>>

(* Mutant: the id is incremented without the comparison.                   *)
TakeId_unchecked(c) ==
  /\ At(c, "cmpxchg", "stack")
  /\ unique_stack_id' = eax[c] + 1
  /\ stack' = [stack EXCEPT ![c] = eax[c]]
  /\ UNCHANGED <<eax, smp_initialized_cores_num>>

(* lock cmpxchg [unique_stack_id], ebx                                     *)
TakeId(c) ==
  \/ /\ unique_stack_id = eax[c]
     /\ At(c, "cmpxchg", "stack")
     /\ unique_stack_id' = unique_stack_id + 1
     /\ stack' = [stack EXCEPT ![c] = eax[c]]
     /\ UNCHANGED <<eax, smp_initialized_cores_num>>
  \/ /\ unique_stack_id # eax[c]
     /\ At(c, "cmpxchg", "trampoline")
     /\ UNCHANGED <<eax, stack, unique_stack_id, smp_initialized_cores_num>>

(* The core loads its tables, counts itself and halts.                     *)
kmain_secondary_cores(c) ==
  /\ At(c, "stack", "up")
  /\ smp_initialized_cores_num' = smp_initialized_cores_num + 1
  /\ UNCHANGED <<eax, stack, unique_stack_id>>

Core(c) == ReadId(c) \/ TakeId(c) \/ kmain_secondary_cores(c)

-----------------------------------------------------------------------------
(* No two cores run on the same stack, also when the bootstrap processor   *)
(* has given up on a slow one and both are in the trampoline.              *)
OwnStacks ==
  \A c, d \in Cores :
    c # d /\ core[c] \in {"stack", "up"} /\ core[d] \in {"stack", "up"} =>
      stack[c] # stack[d]
==============================================================================
