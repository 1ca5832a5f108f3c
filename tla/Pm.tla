--------------------------------- MODULE Pm ---------------------------------
(***************************************************************************)
(* The physical page allocator of kernel/pm.c and its callers.             *)
(*                                                                         *)
(* While the kernel boots interrupts are off and a call runs as a whole:   *)
(* heap_init takes its run of pages with pm_alloc_cont, then page tables,  *)
(* page directories and kernel stacks are taken with pm_alloc.  After      *)
(* that, processes allocate their user stacks and page tables in           *)
(* proc_load, with interrupts on: the timer can preempt pm_alloc between   *)
(* any two of its accesses to the bitmap.  The build uses -O0, so that     *)
(*   pm_bitmap[idx] |= 1 << bit                                            *)
(* is a load and a store.  Nothing calls pm_free.                          *)
(***************************************************************************)
EXTENDS Integers, FiniteSets

CONSTANTS
  NWords,   \* PM_BITMAP_NMEMB
  WordBits, \* bits in a word of the bitmap
  Loaders   \* processes in proc_load

ASSUME PmAssumption ==
  /\ NWords \in Nat \ {0}
  /\ WordBits \in Nat \ {0}
  /\ "boot" \notin Loaders

VARIABLES
  pm_bitmap, \* the bits set in each word
  booting,   \* interrupts are off
  pc,        \* where each loader is in pm_alloc, "out" when it is not
  idx, bit,  \* pm_alloc's variables, for each loader
  loaded,    \* the word as loaded by |=
  held,      \* the pages each caller was given
  raced      \* some loader took a step while another was in pm_alloc

vars == <<pm_bitmap, booting, pc, idx, bit, loaded, held, raced>>

Words == 0 .. NWords - 1
Bits == 0 .. WordBits - 1
Callers == Loaders \cup {"boot"}

(* The page of a bit.  The loop over the bits has no guard: when the word  *)
(* has filled up since it was found not to be all ones, bit runs past the  *)
(* word, shifts take it modulo WordBits, and the page is one of a later    *)
(* word; SpinBits bounds how far it is counted.                            *)
Page(i, b) == i * WordBits + b
SpinBits == 2 * WordBits
Pages == 0 .. Page(NWords - 1, SpinBits - 1)

Marked(p) == p \div WordBits \in Words /\ p % WordBits \in pm_bitmap[p \div WordBits]

Init ==
  /\ pm_bitmap = [i \in Words |-> {}]
  /\ booting = TRUE
  /\ pc = [c \in Loaders |-> "out"]
  /\ idx = [c \in Loaders |-> 0]
  /\ bit = [c \in Loaders |-> 0]
  /\ loaded = [c \in Loaders |-> {}]
  /\ held = [c \in Callers |-> {}]
  /\ raced = FALSE

-----------------------------------------------------------------------------
(* Boot.                                                                   *)

Run(b, n) == b .. b + n - 1

(* Mutant: only the first page of the run is marked.                       *)
Take_first(c, i, run) ==
  /\ pm_bitmap' = [pm_bitmap EXCEPT ![i] = @ \cup {CHOOSE b \in run : \A d \in run : b <= d}]
  /\ held' = [held EXCEPT ![c] = @ \cup {Page(i, b) : b \in run}]

Take(c, i, run) ==
  /\ pm_bitmap' = [pm_bitmap EXCEPT ![i] = @ \cup run]
  /\ held' = [held EXCEPT ![c] = @ \cup {Page(i, b) : b \in run}]

Fits(i, b, n) == Run(b, n) \subseteq Bits \ pm_bitmap[i]

(* The first run of n clear bits within a word.                            *)
pm_alloc_cont(n) ==
  \E i \in Words, b \in Bits :
    /\ Fits(i, b, n)
    /\ \A j \in Words, d \in Bits : Page(j, d) < Page(i, b) => ~Fits(j, d, n)
    /\ Take("boot", i, Run(b, n))

(* heap_init, which allocates before anyone else.                          *)
BootHeap ==
  /\ booting
  /\ \A i \in Words : pm_bitmap[i] = {}
  /\ \E n \in 1 .. WordBits : pm_alloc_cont(n)
  /\ UNCHANGED <<booting, pc, idx, bit, loaded, raced>>

(* pm_alloc, with interrupts off.                                          *)
BootAlloc ==
  /\ booting
  /\ pm_alloc_cont(1)
  /\ UNCHANGED <<booting, pc, idx, bit, loaded, raced>>

BootDone ==
  /\ booting
  /\ booting' = FALSE
  /\ UNCHANGED <<pm_bitmap, pc, idx, bit, loaded, held, raced>>

-----------------------------------------------------------------------------
(* pm_alloc, preemptible.                                                  *)

Goto(c, from, to) ==
  /\ ~booting
  /\ pc[c] = from
  /\ pc' = [pc EXCEPT ![c] = to]
  /\ raced' = (raced \/ \E d \in Loaders \ {c} : pc[d] # "out")
  /\ UNCHANGED booting

Enter(c) ==
  /\ Goto(c, "out", "word")
  /\ UNCHANGED <<pm_bitmap, idx, bit, loaded, held>>

(* Return from pm_alloc: its variables are gone.                           *)
Return(c, from) ==
  /\ Goto(c, from, "out")
  /\ idx' = [idx EXCEPT ![c] = 0]
  /\ bit' = [bit EXCEPT ![c] = 0]
  /\ loaded' = [loaded EXCEPT ![c] = {}]

(* pm_bitmap[idx] != -1                                                    *)
NextWord(c) ==
  /\ idx[c] < NWords
  /\ pm_bitmap[idx[c]] = Bits
  /\ Goto(c, "word", "word")
  /\ idx' = [idx EXCEPT ![c] = @ + 1]
  /\ UNCHANGED <<pm_bitmap, bit, loaded, held>>

FoundWord(c) ==
  /\ idx[c] < NWords
  /\ pm_bitmap[idx[c]] # Bits
  /\ Goto(c, "word", "bit")
  /\ UNCHANGED <<pm_bitmap, idx, bit, loaded, held>>

(* Out of pages: return NULL.                                              *)
Fail(c) ==
  /\ idx[c] = NWords
  /\ Return(c, "word")
  /\ UNCHANGED <<pm_bitmap, held>>

Clear(c) == bit[c] % WordBits \notin pm_bitmap[idx[c]]

(* !(pm_bitmap[idx] & (1 << bit))                                          *)
NextBit(c) ==
  /\ Goto(c, "bit", "bit")
  /\ ~Clear(c)
  /\ bit' = [bit EXCEPT ![c] = IF @ + 1 = SpinBits THEN WordBits ELSE @ + 1]
  /\ UNCHANGED <<pm_bitmap, idx, loaded, held>>

FoundBit(c) ==
  /\ Goto(c, "bit", "load")
  /\ Clear(c)
  /\ UNCHANGED <<pm_bitmap, idx, bit, loaded, held>>

Load(c) ==
  /\ Goto(c, "load", "store")
  /\ loaded' = [loaded EXCEPT ![c] = pm_bitmap[idx[c]]]
  /\ UNCHANGED <<pm_bitmap, idx, bit, held>>

(* Mutant: the word is overwritten by the mask.                            *)
Store_mask(c) ==
  /\ Return(c, "store")
  /\ pm_bitmap' = [pm_bitmap EXCEPT ![idx[c]] = {bit[c] % WordBits}]
  /\ held' = [held EXCEPT ![c] = @ \cup {Page(idx[c], bit[c])}]

(* The store, and the return of the page to the caller.                    *)
Store(c) ==
  /\ Return(c, "store")
  /\ pm_bitmap' = [pm_bitmap EXCEPT ![idx[c]] = loaded[c] \cup {bit[c] % WordBits}]
  /\ held' = [held EXCEPT ![c] = @ \cup {Page(idx[c], bit[c])}]

pm_alloc(c) ==
  \/ NextWord(c) \/ FoundWord(c) \/ Fail(c)
  \/ NextBit(c) \/ FoundBit(c) \/ Load(c) \/ Store(c)

Next ==
  \/ BootHeap \/ BootAlloc \/ BootDone
  \/ \E c \in Loaders : Enter(c) \/ pm_alloc(c)

Spec == Init /\ [][Next]_vars

-----------------------------------------------------------------------------
(* What boot has taken (the heap, page tables, kernel stacks) stays marked *)
(* and is never given to a process, however the calls of pm_alloc are      *)
(* interleaved: a store of a stale word still has the bits of boot.        *)
BootPagesKept ==
  \A p \in held["boot"] : Marked(p) /\ \A c \in Loaders : p \notin held[c]

(* While no two calls of pm_alloc have overlapped, every page given out is *)
(* marked and has one owner.                                               *)
SerialIsSafe ==
  ~raced =>
    /\ \A c \in Callers : \A p \in held[c] : Marked(p)
    /\ \A c, d \in Callers : c # d => held[c] \cap held[d] = {}

(* README.md: "Processes run in their own address spaces".  No page is the *)
(* stack or page table of two processes.                                   *)
OwnPages == \A c, d \in Loaders : c # d => held[c] \cap held[d] = {}
=============================================================================
