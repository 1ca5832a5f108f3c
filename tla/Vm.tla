--------------------------------- MODULE Vm ---------------------------------
(***************************************************************************)
(* Address spaces: the page tables of kernel/vm.c as boot, proc_new,       *)
(* proc_load, the system calls and msg_dispatcher use them.                *)
(*                                                                         *)
(* Addresses are page numbers; a page directory entry covers Entries of    *)
(* them.  The first Entries pages of physical memory are identity-mapped   *)
(* by the boot page table and hold the kernel and the initrd, the next     *)
(* Entries are the pool of pm_alloc, whose pages come in order because     *)
(* none is ever freed, and the others are device memory.  A page table is  *)
(* the function of its present entries.  Steps of different processes      *)
(* interleave; the race inside pm_alloc is the subject of Pm.              *)
(***************************************************************************)
EXTENDS Integers, SequencesExt

CONSTANTS
  NProcs,     \* processes, numbered from 1; address space 0 is the boot one
  Privileged, \* those that run in ring 0 and are no ELF: the kernel, idle
  Entries,    \* entries of a page table, 1024 in the code
  HeapPages,  \* pages of the kernel heap
  StackPages, \* pages of a user stack
  PageSize,   \* bytes of a page
  File,       \* File[s]: first page, pages in the initrd and in memory
  Device,     \* Device[s]: device page that s asks the kernel to map
  Windows,    \* directory entries of the windows, three in the code
  Buffers,    \* offsets and lengths of the buffers passed to the kernel,
              \* and how much of them is copied
  Ram         \* Ram[p]: what pool page p holds when it is first used

Procs == 1 .. NProcs
User == Procs \ Privileged

(* The page directory entries in use, in the order of their addresses:     *)
(* identity map, pool, 0x10000000, ELF image at 0x30000000, user stack,    *)
(* kernel heap, and behind it the windows of the system calls.             *)
LOW == 0
POOL == 1
MEMORY == 2
IMAGE == 3
STACK == 4
HEAP == 5
Dirs == (0 .. HEAP) \cup Windows

ASSUME VmAssumption ==
  /\ {NProcs, Entries, HeapPages, StackPages, PageSize} \subseteq Nat \ {0}
  /\ Privileged \subseteq Procs
  /\ \A w \in Windows : w > HEAP
  /\ \A s \in User : /\ File[s].page + File[s].memsz <= Entries
                     /\ Device[s] >= 2 * Entries
  /\ \A b \in Buffers : /\ b.off \in 0 .. PageSize - 1
                         /\ {b.len, b.copy} \subseteq 1 .. PageSize

Pool == Entries .. 2 * Entries - 1
Pte(p, u) == [page |-> p, user |-> u]
NoPde == [page |-> -1, user |-> FALSE]

VARIABLES
  vm,     \* paging: directories, tables, next page of the pool, halt()
  kstack, \* page of the kernel stack of the processes created so far
  pdir,   \* page of their page directory
  stage,  \* how far a process has come
  outcome \* of the last copy through a window

vars == <<vm, kstack, pdir, stage, outcome>>

-----------------------------------------------------------------------------
(* The entry that the MMU finds for page v of space s.                     *)
Present(m, s, v) ==
  LET e == m.pde[s][v \div Entries]
  IN e # NoPde /\ (v % Entries) \in DOMAIN m.ptab[e.page]

Entry(m, s, v) == m.ptab[m.pde[s][v \div Entries].page][v % Entries]

vm_get_phys_mapping(m, s, v) == Entry(m, s, v).page

pm_alloc(m) == [m EXCEPT !.next = @ + 1]


(* Write the entry into a page table that exists.                          *)
SetPte(m, s, v, p, u) ==
  LET d == v \div Entries
      tab == m.pde[s][d].page
  IN [m EXCEPT !.pde[s][d].user = @ \/ u,
               !.ptab[tab] = (v % Entries) :> Pte(p, u) @@ @]

(* Map page v of space s to p.  A new page table is used as it comes out   *)
(* of the pool.                                                            *)
map_page(m, s, v, p, u) ==
  LET d == v \div Entries
      table == [m EXCEPT !.pde[s][d] = Pte(m.next, u),
                         !.ptab[m.next] = Ram[m.next]]
  IN IF m.pde[s][d] = NoPde THEN SetPte(pm_alloc(table), s, v, p, u)
     ELSE IF ~Present(m, s, v) THEN SetPte(m, s, v, p, u)
     ELSE IF Entry(m, s, v) = Pte(p, u) THEN m
     ELSE [m EXCEPT !.halted = TRUE]

map_pages(m, s, v, p, u, n) ==
  FoldLeft(LAMBDA acc, i : map_page(acc, s, v + i - 1, p + i - 1, u), m,
           [i \in 1 .. n |-> i])

(* Mutant: the last page stays mapped.                                     *)
unmap_pages_short(m, s, v, n) ==
  LET tab == m.pde[s][v \div Entries].page
  IN [m EXCEPT !.ptab[tab] =
        [t \in DOMAIN @ \ {(v + i) % Entries : i \in 0 .. n - 2} |-> @[t]]]

unmap_pages(m, s, v, n) ==
  LET tab == m.pde[s][v \div Entries].page
  IN [m EXCEPT !.ptab[tab] =
        [t \in DOMAIN @ \ {(v + i) % Entries : i \in 0 .. n - 1} |-> @[t]]]

(* Mutant: the pages are mapped but not taken from the pool.               *)
vm_alloc_pages_at_shared(m, s, v, u, n) ==
  FoldLeft(LAMBDA acc, i : map_page(acc, s, v + i - 1, acc.next, u), m,
           [i \in 1 .. n |-> i])

vm_alloc_pages_at(m, s, v, u, n) ==
  FoldLeft(LAMBDA acc, i :
             map_page(pm_alloc(acc), s, v + i - 1, acc.next, u), m,
           [i \in 1 .. n |-> i])

(* Mutant: the entry of the pool is not copied.                            *)
vm_copy_kernel_pdir_partial(m, s) ==
  LET m1 == map_page(pm_alloc(m), 0, m.next, m.next, FALSE)
  IN [m1 EXCEPT !.pde[s] = [d \in Dirs |-> IF d = POOL THEN NoPde
                                           ELSE m1.pde[0][d]]]

(* A directory for s with the entries of the boot one that are the         *)
(* kernel's.  It is mapped into itself, which is how map_page reaches it.  *)
vm_copy_kernel_pdir(m, s) ==
  LET m1 == map_page(pm_alloc(m), 0, m.next, m.next, FALSE)
  IN [m1 EXCEPT !.pde[s] = [d \in Dirs |-> IF m1.pde[0][d].user THEN NoPde
                                           ELSE m1.pde[0][d]]]

-----------------------------------------------------------------------------
(* The boot page table maps the first Entries pages onto themselves, and   *)
(* heap_init maps the heap, the first pages of the pool.                   *)
Boot ==
  [pde |-> [s \in 0 .. NProcs |->
              [d \in Dirs |-> IF s = 0 /\ d = LOW THEN Pte(0, FALSE)
                              ELSE NoPde]],
   ptab |-> [p \in {0} \cup Pool |->
               IF p = 0 THEN [t \in 0 .. Entries - 1 |-> Pte(t, FALSE)]
               ELSE <<>>],
   next |-> Entries + HeapPages,
   halted |-> FALSE]

Init ==
  /\ vm = map_pages(Boot, 0, HEAP * Entries, Entries, FALSE, HeapPages)
  /\ kstack = <<>>
  /\ pdir = <<>>
  /\ stage = [s \in Procs |-> "none"]
  /\ outcome = "none"

Died(o) == o \in {"crossing", "fault"}

(* The machine runs, and the pool has room for n more pages: the bound of  *)
(* the model.                                                              *)
Room(n) ==
  /\ ~vm.halted /\ ~Died(outcome)
  /\ vm.next + n <= 2 * Entries

(* A kernel stack, identity-mapped in the boot space, and a directory.     *)
proc_new(s) ==
  LET m1 == map_page(pm_alloc(vm), 0, vm.next, vm.next, FALSE)
  IN /\ Room(4)
     /\ Len(kstack) = s - 1
     /\ kstack' = Append(kstack, vm.next)
     /\ pdir' = Append(pdir, m1.next)
     /\ vm' = vm_copy_kernel_pdir(m1, s)
     /\ stage' = [stage EXCEPT ![s] = "created"]
     /\ UNCHANGED outcome

(* Boot is over: the first process runs.                                   *)
Running == Len(kstack) = NProcs

(* The ELF image is mapped where it lies in the initrd, p_memsz of it.     *)
elf_load(s) ==
  /\ Room(1)
  /\ Running
  /\ stage[s] = "created"
  /\ vm' = IF s \in Privileged THEN vm
           ELSE map_pages(vm, s, IMAGE * Entries, File[s].page, TRUE, File[s].memsz)
  /\ stage' = [stage EXCEPT ![s] = "image"]
  /\ UNCHANGED <<kstack, pdir, outcome>>

(* The rest of proc_load: a stack, and off to the program.                 *)
proc_load(s) ==
  /\ Room(StackPages + 1)
  /\ stage[s] = "image"
  /\ vm' = vm_alloc_pages_at(vm, s, STACK * Entries, s \in User, StackPages)
  /\ stage' = [stage EXCEPT ![s] = "loaded"]
  /\ UNCHANGED <<kstack, pdir, outcome>>

(* MSG_MAP_MEMORY, by the kernel process in the space of the sender s.     *)
MapMemory(s) ==
  /\ Room(1)
  /\ stage[s] = "loaded"
  /\ vm' = map_pages(vm, s, MEMORY * Entries, Device[s], TRUE, 1)
  /\ UNCHANGED <<kstack, pdir, stage, outcome>>

(* Pages that map_pages maps for a length in bytes.                        *)
Npages(len) == len \div PageSize + (IF len % PageSize > 0 THEN 1 ELSE 0)

(* What becomes of a copy through a window at page base of s, mapped as in *)
(* m, for buffer b at page own of t: it moves the bytes of the buffer, or  *)
(* others, or it faults, because of a buffer that crosses the end of a     *)
(* page or without it.                                                     *)
Outcome(m, s, base, t, own, b) ==
  LET touched == {i \div PageSize : i \in b.off .. b.off + b.copy - 1}
      mapped == \A k \in touched : Present(m, s, base + k)
      own_pages == \A k \in touched :
        /\ Present(m, t, own + k)
        /\ vm_get_phys_mapping(m, s, base + k) = vm_get_phys_mapping(m, t, own + k)
  IN IF mapped THEN (IF own_pages THEN "buffer" ELSE "others")
     ELSE IF b.off + b.copy > PageSize THEN "crossing" ELSE "fault"

(* A system call of s copies a buffer of t through window w: pages for the *)
(* length of the buffer are mapped, used and unmapped.  A fault is the end *)
(* of the machine.                                                         *)
Copy(s, t, w, b) ==
  LET base == w * Entries
      own == STACK * Entries
      m1 == map_pages(vm, s, base, vm_get_phys_mapping(vm, t, own), FALSE, Npages(b.len))
  IN /\ Room(1)
     /\ {stage[s], stage[t]} = {"loaded"}
     /\ outcome' = Outcome(m1, s, base, t, own, b)
     /\ vm' = IF Died(outcome') THEN m1 ELSE unmap_pages(m1, s, base, Npages(b.len))
     /\ UNCHANGED <<kstack, pdir, stage>>

Next ==
  \/ \E s \in Procs : proc_new(s) \/ elf_load(s) \/ proc_load(s)
  \/ \E s \in User : MapMemory(s)
  \/ \E s \in Procs, t \in Procs, w \in Windows, b \in Buffers :
       s # t /\ Copy(s, t, w, b)

Spec == Init /\ [][Next]_vars

-----------------------------------------------------------------------------
Created == 1 .. Len(kstack)

(* map_page never meets a page that is mapped to something else, the case  *)
(* in which it halts the machine: images, stacks, device memory and the    *)
(* windows keep out of each other's way, and every window is unmapped      *)
(* before it is used again.                                                *)
NoConflict == ~vm.halted

(* proc_schedule_after_irq loads cr3 while it runs on the kernel stack of  *)
(* the process it leaves and returns to the trapframe on another: in every *)
(* address space every kernel stack, those of processes created later      *)
(* included, is mapped to itself and closed to user code.                  *)
KernelStacksMapped ==
  \A s \in Created, t \in Created :
    /\ Present(vm, s, kstack[t])
    /\ Entry(vm, s, kstack[t]) = Pte(kstack[t], FALSE)

(* The memory that user code of s reaches: both levels must allow it.      *)
UserFrames(s) ==
  LET open == {d \in Dirs : vm.pde[s][d].user}
  IN UNION {{e.page : e \in {f \in Range(vm.ptab[vm.pde[s][d].page]) : f.user}} :
              d \in open}

TableFrames == {vm.pde[s][d].page : s \in DOMAIN vm.pde, d \in Dirs}

KernelFrames ==
  TableFrames \cup Range(kstack) \cup Range(pdir)
    \cup Entries .. Entries + HeapPages - 1

(* Processes run in their own address spaces: however the loads, device    *)
(* mappings and copies mix, no page of memory, device memory apart, is     *)
(* open to the user code of two processes, and no page table, page         *)
(* directory, kernel stack or page of the heap to that of any.             *)
OwnAddressSpaces ==
  \A s \in Created :
    /\ UserFrames(s) \cap KernelFrames = {}
    /\ \A t \in Created \ {s} :
         UserFrames(s) \cap UserFrames(t) \subseteq {Device[u] : u \in User}

=============================================================================
