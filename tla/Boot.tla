-------------------------------- MODULE Boot --------------------------------
(***************************************************************************)
(* Boot, from the boot sector to the other cores.  The boot loader         *)
(* (Isoboot) jumps to kmain of kernel/kernel.c, which adjusts the memory   *)
(* map that the loader left and gives its longest area to pm_init          *)
(* (MemoryMap), then starts the other cores (Smp), which run from there on *)
(* beside it.  The set-up of tables in between is straight code.           *)
(***************************************************************************)
EXTENDS Smp

CONSTANTS
  Discs, \* the discs that the machine may boot from
  Bios,  \* the memory maps that its BIOS may have
  Shorter, Sector, Unit, Wrap, Dword, High, \* Isoboot
  Entries, Slots, KernBase, KernLen, Word   \* MemoryMap

ASSUME BootAssumption ==
  /\ {Sector, Unit, Wrap, Dword, High, Word} \subseteq Nat \ {0}
  /\ {Entries, Slots, KernBase, KernLen} \subseteq Nat
  /\ KernBase < KernLen  \* 1 MiB, and more than 4 MiB
  /\ Entries < Slots - 3

VARIABLES
  disc, path, seg, dir, di, file, ipc,
  hw, holds, apc, al, input, output, kbd_on, port, typed, lpc, ph, high,
  bios, map, pc, i, mem_avail, pool

ld == INSTANCE Isoboot
mm == INSTANCE MemoryMap

ld_vars == <<disc, path, seg, dir, di, file, ipc,
             hw, holds, apc, al, input, output, kbd_on, port, typed, lpc, ph, high>>
mm_vars == <<bios, map, pc, i, mem_avail, pool>>
boot_vars == <<ld_vars, mm_vars, vars>>

NoMap == [k \in 0 .. Slots - 1 |-> mm!Zero]

KInit ==
  /\ ld!LInit
  /\ bios = <<>> /\ map = NoMap /\ pc = "loader" /\ i = 0 /\ mem_avail = 0 /\ pool = 0
  /\ Init

LoadKernel ==
  /\ lpc = "a20" /\ apc = "end"
  /\ disc' \in Discs
  /\ ld!LoadKernel

Load == (LoadKernel \/ ld!Loader) /\ UNCHANGED <<mm_vars, vars>>

(* The kernel is entered.  Nothing looks at the loader's variables again:  *)
(* they are dropped, so that what follows is looked at once and not for    *)
(* every disc.                                                             *)
Enter ==
  /\ lpc = "kmain"
  /\ pc = "loader" /\ pc' = "map"
  /\ disc' = ld!NoDisc
  /\ path' = <<>> /\ dir' = <<>> /\ file' = <<>> /\ seg' = 1 /\ di' = 1 /\ ph' = 1
  /\ holds' = {}
  /\ high' = [a \in DOMAIN high |-> ld!OLD]
  /\ UNCHANGED <<ipc, hw, apc, al, input, output, kbd_on, port, typed, lpc,
                 bios, map, i, mem_avail, pool, vars>>

(* adjust_the_memory_map and pm_init; the map is looked at for the first   *)
(* time.                                                                   *)
Map ==
  /\ pc = "map"
  /\ bios' \in Bios
  /\ mm!detect_memory

Memory == (Map \/ mm!Next) /\ UNCHANGED <<ld_vars, vars>>

(* Nothing reads the memory map again: it is dropped as smp_init begins,   *)
(* so that the cores are looked at once and not for every map.             *)
Drop ==
  /\ bios' = <<>>
  /\ map' = NoMap
  /\ mem_avail' = 0
  /\ UNCHANGED <<ld_vars, pc, i, pool>>

kmain ==
  \/ Memory
  \/ pc = "done" /\ Search /\ Drop
  \/ smp_init /\ UNCHANGED <<ld_vars, mm_vars>>

(* The keyboard and its controller.                                        *)
Keyboard == ld!Around /\ UNCHANGED <<mm_vars, vars>>

Others == (Deliver \/ \E c \in Cores : Core(c)) /\ UNCHANGED <<ld_vars, mm_vars>>

KNext == Load \/ Enter \/ kmain \/ Keyboard \/ Others

(* The bootstrap processor runs on, with interrupts off, and the keyboard  *)
(* controller takes what it is sent; nothing is assumed of the APIC and    *)
(* the other cores.                                                        *)
KSpec ==
  /\ KInit /\ [][KNext]_boot_vars
  /\ WF_boot_vars(Load \/ Enter \/ kmain)
  /\ WF_boot_vars(ld!gate!Controller /\ Keyboard)

-----------------------------------------------------------------------------


(* The kernel starts with all of its segments in place, what the file does *)
(* not hold of them zeroed and nothing else above 1 MiB written, and with  *)
(* the whole initrd at 0x10000, though both files went through the same    *)
(* memory.                                                                 *)
ImageLoaded == ld!ImageLoaded

(* A machine with a fast A20 gate has its line turned on, and a disc that  *)
(* the loader can cope with is booted: neither of its files goes           *)
(* unnoticed, no other one is taken for it, and the search does not stop   *)
(* short of it.                                                            *)
Boots == ld!Boots

(* The controller's output port gets its other lines back as they were,    *)
(* unless a key was pressed before the keyboard had been stopped.          *)
OutputPortKept == ld!gate!OutputPortKept

(* The loader gives up, or the kernel gets as far as the processes: no     *)
(* controller that is slow, core that does not start or IPI that is lost   *)
(* keeps the bootstrap processor.                                          *)
BootGoesOn == <>(bsp = "done" \/ lpc \in {"error", "wild"})
=============================================================================
