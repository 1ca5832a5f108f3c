------------------------------- MODULE Isoboot -------------------------------
(***************************************************************************)
(* The boot loader, boot/isoboot.asm: it turns on the A20 line (A20),      *)
(* reads the kernel off the CD (Isofs), puts its segments where they       *)
(* belong (elf.asm), asks for the memory map, reads the initrd to where    *)
(* the kernel's file was, and jumps to the kernel.                         *)
(***************************************************************************)
EXTENDS Isofs

CONSTANTS
  Dword, \* bytes that one round of a copy loop moves, 4
  High   \* bytes of memory above 1 MiB that are looked at

VARIABLES
  hw, holds, apc, al, input, output, kbd_on, port, typed, \* A20
  lpc,  \* what the loader does
  ph,   \* the program header it is at
  high  \* the memory above 1 MiB

gate == INSTANCE A20

a20_vars == <<hw, holds, apc, al, input, output, kbd_on, port, typed>>
loader_vars == <<vars, a20_vars, lpc, ph, high>>

kernel_path == <<"BOOT", "KERNEL", "KERNEL.BIN">>
initrd_path == <<"BOOT", "KERNEL", "INITRD.BIN">>

(* A byte of memory: one of the disc, a zero, or what was there before.    *)
ZERO == -1
OLD == -2

LInit ==
  /\ Init
  /\ gate!Init
  /\ lpc = "a20" /\ ph = 1
  /\ high = [a \in 0 .. High - 1 |-> OLD]

-----------------------------------------------------------------------------
(* try_enabling_a20                                                        *)
TryA20 ==
  /\ lpc = "a20" /\ apc \notin {"end", "error"}
  /\ gate!enable_a20_or_die
  /\ UNCHANGED <<vars, lpc, ph, high>>

Around ==
  /\ lpc = "a20"
  /\ gate!Controller \/ gate!Key
  /\ UNCHANGED <<vars, lpc, ph, high>>

Die ==
  /\ lpc = "a20" /\ apc = "error"
  /\ lpc' = "error"
  /\ UNCHANGED <<vars, a20_vars, ph, high>>

(* load_the_kernel, where the disc is looked at for the first time.  Of    *)
(* the A20 line only its state matters from then on: the rest is dropped.  *)
LoadKernel ==
  /\ lpc' = "kernel"
  /\ Start(kernel_path)
  /\ hw' = {}
  /\ al' = gate!Port(FALSE, TRUE) /\ port' = al' /\ typed' = FALSE
  /\ UNCHANGED <<holds, apc, input, output, kbd_on, ph, high>>

Find ==
  /\ lpc \in {"kernel", "initrd"}
  /\ find_and_load_file
  /\ UNCHANGED <<a20_vars, lpc, ph, high>>

NotFound ==
  /\ lpc \in {"kernel", "initrd"} /\ ipc = "error"
  /\ lpc' = "error"
  /\ UNCHANGED <<vars, a20_vars, ph, high>>

(* The entry point and the program headers are at the beginning of the     *)
(* file.  The loader reads them from whatever it has loaded; what it does  *)
(* when that is no kernel is not followed.                                 *)
Headers ==
  /\ lpc = "kernel" /\ ipc = "found"
  /\ lpc' = IF file[1] = disc.kernel.extent THEN "elf" ELSE "wild"
  /\ ph' = 1
  /\ UNCHANGED <<vars, a20_vars, high>>

-----------------------------------------------------------------------------
Byte(n) == IF Holds(n) THEN ByteAt(n) ELSE OLD

(* Mutant: the rest is always zeroed, also when there is none.             *)
Zeroed_unchecked(p) == Times((p.memsz - p.filesz) \div Dword) * Dword

(* How many bytes of a segment the two loops write.                        *)
Copied(p) == IF p.filesz \div Dword = 0 THEN 0 ELSE Times(p.filesz \div Dword) * Dword
Zeroed(p) ==
  IF p.memsz <= p.filesz THEN 0 ELSE Times((p.memsz - p.filesz) \div Dword) * Dword

Segment == disc.segments[ph]

(* With the line off, what goes above 1 MiB lands below it, on the tables  *)
(* of the BIOS.                                                            *)
dispatch_elf_sections ==
  LET p == Segment
      rest == p.paddr + Copied(p)
  IN /\ lpc = "elf" /\ ph <= Len(disc.segments)
     /\ IF p.load /\ ~gate!a20
        THEN lpc' = "wild" /\ UNCHANGED <<ph, high>>
        ELSE /\ ph' = ph + 1
             /\ high' = IF ~p.load THEN high
                        ELSE [a \in DOMAIN high |->
                                IF a \in p.paddr .. rest - 1 THEN Byte(p.offset + a - p.paddr)
                                ELSE IF a \in rest .. rest + Zeroed(p) - 1 THEN ZERO
                                ELSE high[a]]
             /\ UNCHANGED lpc
     /\ UNCHANGED <<vars, a20_vars>>

(* detect_memory, which stops when the BIOS gives no map.  The map that it *)
(* stores is chosen when the kernel looks at it.                           *)
detect_memory ==
  /\ lpc = "elf" /\ ph > Len(disc.segments)
  /\ \/ lpc' = "detected"
     \/ lpc' = "error"
  /\ UNCHANGED <<vars, a20_vars, ph, high>>

LoadInitrd ==
  /\ lpc = "detected"
  /\ lpc' = "initrd"
  /\ UNCHANGED disc
  /\ Start(initrd_path)
  /\ UNCHANGED <<a20_vars, ph, high>>

(* enter_protected_mode, and farewell!                                     *)
Farewell ==
  /\ lpc = "initrd" /\ ipc = "found"
  /\ lpc' = "kmain"
  /\ UNCHANGED <<vars, a20_vars, ph, high>>

Loader ==
  \/ TryA20 \/ Die \/ Find \/ NotFound \/ Headers
  \/ dispatch_elf_sections \/ detect_memory \/ LoadInitrd \/ Farewell

-----------------------------------------------------------------------------
(* What the loader can cope with: the line is on, both files are found and *)
(* have a size that it can load, and the segments are whole words, as      *)
(* kernel.ld makes them.                                                   *)
Bootable ==
  /\ gate!a20
  /\ \A k \in 1 .. 3 : \A p \in {kernel_path, initrd_path} :
       Visible(disc.dirs[k], p[k])
  /\ Fits(disc, disc.kernel) /\ Fits(disc, disc.initrd)
  /\ \A k \in DOMAIN disc.segments :
       disc.segments[k].filesz % Dword = 0 /\ disc.segments[k].memsz % Dword = 0

InPlace(p) ==
  \A n \in 0 .. p.memsz - 1 :
    high[p.paddr + n] =
      IF n < p.filesz THEN disc.kernel.extent * Sector + p.offset + n ELSE ZERO

Loaded == {disc.segments[k] : k \in {n \in DOMAIN disc.segments : disc.segments[n].load}}

(* The kernel starts with all of its segments in place, what the file does *)
(* not hold of them zeroed and nothing else above 1 MiB written, and with  *)
(* the whole initrd at 0x10000, though both files went through the same    *)
(* memory.                                                                 *)
ImageLoaded ==
  lpc = "kmain" /\ Bootable =>
    /\ \A p \in Loaded : InPlace(p)
    /\ \A a \in DOMAIN high :
         (\A p \in Loaded : a \notin p.paddr .. p.paddr + p.memsz - 1) => high[a] = OLD
    /\ IsLoaded(disc.initrd)

(* A machine with a fast A20 gate has its line turned on.                  *)
LineOn == "fast" \in hw => apc # "error" /\ (apc = "end" => gate!a20)

(* Such a machine has its line turned on, and a disc that the loader can   *)
(* cope with is booted: neither of its files goes unnoticed, no other one  *)
(* is taken for it, and the search does not stop short of it.              *)
Boots ==
  /\ LineOn
  /\ lpc \in {"kernel", "elf", "detected", "initrd", "wild"} /\ Bootable =>
       ipc # "error" /\ lpc # "wild"
=============================================================================
