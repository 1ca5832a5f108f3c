----------------------------- MODULE MemoryMap -----------------------------
(***************************************************************************)
(* The BIOS memory map on its way to the physical memory manager:          *)
(* adjust_the_memory_map of kernel/kernel.c cuts the kernel out of it and  *)
(* merges entries, pm_init of kernel/pm.c picks the pool.                  *)
(*                                                                         *)
(* One step is one iteration of an outer loop.  Addresses are below 4 GiB. *)
(* The table of the boot sector has Entries entries, but the kernel works  *)
(* on Slots of them: behind the table lies the boot sector's GDT, which    *)
(* reads as one entry of an unknown type, and then zeroes.                 *)
(*                                                                         *)
(* The base of an entry is a uint32_t *, its length a number of bytes.  A  *)
(* length that is added to a base therefore counts Word times, and what    *)
(* lies between two bases counts as its number of words.                   *)
(***************************************************************************)
EXTENDS Integers, Sequences, FiniteSetsExt

CONSTANTS
  Entries, \* entries of the table, 16 in the code
  Slots,   \* entries that adjust_the_memory_map works on, 64
  KernBase, KernLen, \* the kernel, and 4 MiB for paging
  Word     \* bytes of a uint32_t, 4 in the code

VARIABLES
  bios,      \* what the BIOS said
  map,       \* bootinfo->memory_map
  pc, i,     \* the loop and its counter
  mem_avail, \* bootinfo->mem_avail
  pool       \* pm_page_pool

vars == <<bios, map, pc, i, mem_avail, pool>>

AVAILABLE == 1
RESERVED == 2
ACPI == 3

Area(b, l, t) == [base |-> b, len |-> l, type |-> t]
Zero == Area(0, 0, 0)
Gdt == Area(0, 1, 9)
kernentry == Area(KernBase, KernLen, RESERVED)
At(m, k) == IF k \in 0 .. Slots - 1 THEN m[k] ELSE Zero

(* The map that detect_memory has left, from what the BIOS said.           *)
detect_memory ==
  /\ map' = [k \in 0 .. Slots - 1 |-> IF k < Len(bios') THEN bios'[k + 1]
                                     ELSE IF k = Entries THEN Gdt ELSE Zero]
  /\ pc' = "split" /\ i' = 0 /\ mem_avail' = 0 /\ pool' = 0

(* Go round the loop until i reaches n, then on to the next loop.          *)
Loop(here, n, next) ==
  /\ pc = here
  /\ i < n
  /\ IF i + 1 < n THEN i' = i + 1 /\ pc' = here ELSE i' = 0 /\ pc' = next

(* kernentry.base_low - e.base_low                                         *)
Before(e) == (KernBase - e.base) \div Word

Fits(e) ==
  /\ e.type = AVAILABLE
  /\ KernBase >= e.base
  /\ e.len >= KernLen + Before(e)


(* Shift the entries behind k, and put e into the gap.                     *)
Insert(m, k, e) ==
  [n \in DOMAIN m |-> IF n = k + 1 THEN e ELSE IF n > k + 1 THEN m[n - 1] ELSE m[n]]

(* An available entry that the kernel fits in becomes the part before the  *)
(* kernel, the kernel, and the part behind it.                             *)
Split ==
  LET e == map[i]
      before == Before(e)
      behind == e.len - KernLen - before
      j == IF before > 0 THEN i + 1 ELSE i
      m1 == IF before > 0
            THEN [Insert(map, i, kernentry) EXCEPT ![i] = Area(e.base, before, AVAILABLE)]
            ELSE [map EXCEPT ![i] = kernentry]
      m2 == IF behind > 0
            THEN Insert(m1, j, Area(KernBase + Word * KernLen, behind, AVAILABLE))
            ELSE m1
  IN /\ pc = "split"
     /\ Fits(e)
     /\ map' = m2
     /\ IF j + 1 < Slots - 3 THEN i' = j + 1 /\ pc' = pc ELSE i' = 0 /\ pc' = "merge"
     /\ UNCHANGED <<bios, mem_avail, pool>>

SplitNot ==
  /\ ~Fits(map[i])
  /\ Loop("split", Slots - 3, "merge")
  /\ UNCHANGED <<bios, map, mem_avail, pool>>

(* How many entries behind i have its type.                                *)
Same == CHOOSE j \in 0 .. Slots :
          /\ \A n \in 1 .. j : At(map, i + n).type = map[i].type
          /\ At(map, i + j + 1).type # map[i].type

(* The lengths of j more entries go to entry i, and those behind move up.  *)
Merged(j) ==
  LET sum == MapThenSumSet(LAMBDA n : At(map, i + n).len, 0 .. j)
  IN [k \in DOMAIN map |-> IF k = i THEN [map[i] EXCEPT !.len = sum]
                           ELSE IF j > 0 /\ k \in i + 1 .. Slots - i - 2
                           THEN At(map, k + j) ELSE map[k]]

Merge ==
  /\ Loop("merge", Slots, "total")
  /\ map' = IF map[i].len = 0 THEN map ELSE Merged(Same)
  /\ UNCHANGED <<bios, mem_avail, pool>>

Counted(e) == e.type \in {AVAILABLE, ACPI}

Total ==
  /\ Loop("total", Slots, "pool")
  /\ mem_avail' = mem_avail + (IF Counted(map[i]) THEN map[i].len ELSE 0)
  /\ UNCHANGED <<bios, map, pool>>


(* No area is longer than entry k, and none behind it is as long.          *)
Biggest(k) ==
  \A n \in 0 .. Entries - 1 :
    IF n <= k THEN map[n].len <= map[k].len ELSE map[n].len < map[k].len

pm_init ==
  /\ pc = "pool"
  /\ \E k \in 0 .. Entries - 1 : Biggest(k) /\ pool' = map[k].base
  /\ pc' = "done"
  /\ UNCHANGED <<bios, map, i, mem_avail>>

Next == Split \/ SplitNot \/ Merge \/ Total \/ pm_init

-----------------------------------------------------------------------------
Pages(e) == e.base .. e.base + e.len - 1
Of(s, types) == UNION {Pages(e) : e \in {f \in s : f.type \in types}}
BiosPages(types) == Of({bios[k] : k \in DOMAIN bios}, types)
MapPages(types) == Of({map[k] : k \in DOMAIN map}, types)

(* The memory to use: what the BIOS calls available, less the kernel.      *)
Free == BiosPages({AVAILABLE}) \ Pages(kernentry)

Length(m) ==
  MapThenSumSet(LAMBDA k : m[k].len, {k \in DOMAIN m : m[k].type = AVAILABLE})


(* Some free area is longer than all that is not free taken together, its  *)
(* bytes counted as words.                                                 *)
Roomy ==
  LET taken == KernLen + MapThenSumSet(LAMBDA k : bios[k].len,
                           {k \in DOMAIN bios : bios[k].type # AVAILABLE})
  IN \E b \in Free : b .. b + Word * taken \subseteq Free

(* How much free memory there is from b on.                                *)
Run(b) == Max({n \in 0 .. Cardinality(Free) : b .. b + n - 1 \subseteq Free})

=============================================================================
