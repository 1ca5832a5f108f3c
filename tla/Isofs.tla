-------------------------------- MODULE Isofs --------------------------------
(***************************************************************************)
(* Reading a file off the CD: boot/isofs.asm.                              *)
(*                                                                         *)
(* A disc is a number of sectors; the first ones hold the records of a     *)
(* directory each, the root's first.  A directory is assumed to fit in a   *)
(* sector, as load_directory does.  The records                            *)
(* "." and ".." are left out: no path matches them, and their size is not  *)
(* zero.  What is loaded is known by the sectors it came from.             *)
(***************************************************************************)
EXTENDS Integers, Sequences

CONSTANTS
  Shorter, \* pairs of names: the first is the beginning of the second
  Sector,  \* bytes of a sector, 2048
  Unit,    \* what a size is divided by to get a number of sectors, 512
  Wrap     \* 2^16

VARIABLES
  disc, \* the disc
  path, \* what is looked for
  seg,  \* the part of it that fname_ptr points to
  dir,  \* the directory at 0x8c00
  di,   \* its record that is looked at
  file, \* the sectors at 0x10000, one behind the other
  ipc   \* "find", then "found", or "error"

vars == <<disc, path, seg, dir, di, file, ipc>>

(* dx and cx are 16 bits wide.                                             *)
Low(n) == n % Wrap

(* How often a loop runs that tests its counter after the decrement.       *)
Times(n) == IF Low(n) = 0 THEN Wrap ELSE Low(n)

NoDisc == [sectors |-> 0, dirs |-> <<>>]
Init ==
  /\ disc = NoDisc
  /\ path = <<>> /\ seg = 1 /\ dir = <<>> /\ di = 1
  /\ file = <<>>
  /\ ipc = "found"

(* load_sectors, from a sector of the disc to 0x10000: a sector that is    *)
(* not there stops the loader.                                             *)
load_file(cx, dx) ==
  LET n == Times(dx)
  IN IF cx + n <= disc.sectors
     THEN /\ file' = [k \in 1 .. IF n > Len(file) THEN n ELSE Len(file) |->
                        IF k <= n THEN cx + k - 1 ELSE file[k]]
          /\ ipc' = "found"
     ELSE ipc' = "error" /\ UNCHANGED file

load_directory(cx) ==
  /\ dir' = disc.dirs[cx]
  /\ di' = 1

(* find_and_load_file, up to the loop: begin at the root directory.        *)
Start(p) ==
  /\ path' = p
  /\ seg' = 1
  /\ dir' = disc'.dirs[1]
  /\ di' = 1
  /\ ipc' = "find"
  /\ UNCHANGED file

-----------------------------------------------------------------------------
Record == dir[di]

(* The characters of a record's name, which for a file ends at the ';',    *)
(* are all compared and found equal.                                       *)
Matches == Record.name = path[seg] \/ <<Record.name, path[seg]>> \in Shorter

(* A directory's name is followed by a '/' in the path.                    *)
Inner == Record.dir /\ Record.name = path[seg] /\ seg < Len(path)

Descend ==
  /\ ipc = "find" /\ di <= Len(dir)
  /\ Matches /\ Inner
  /\ seg' = seg + 1
  /\ load_directory(Record.extent)
  /\ UNCHANGED <<disc, path, file, ipc>>

Found ==
  /\ ipc = "find" /\ di <= Len(dir)
  /\ Matches /\ ~Inner
  /\ load_file(Record.extent, Low(Record.size) \div Unit)
  /\ UNCHANGED <<disc, path, seg, dir, di>>

(* Mutant: the search ends one record early.                               *)
NextRecord_short ==
  /\ ipc = "find" /\ di <= Len(dir)
  /\ ~Matches
  /\ IF Low(Record.size) = 0 \/ di + 1 = Len(dir)
     THEN ipc' = "error" /\ UNCHANGED di
     ELSE di' = di + 1 /\ UNCHANGED ipc
  /\ UNCHANGED <<disc, path, seg, dir, file>>

(* The search gives up at a record whose size has a low half of zero: "see *)
(* if we're above the extent's length limit" looks at the record's own     *)
(* length.                                                                 *)
NextRecord ==
  /\ ipc = "find" /\ di <= Len(dir)
  /\ ~Matches
  /\ IF Low(Record.size) = 0
     THEN ipc' = "error" /\ UNCHANGED di
     ELSE di' = di + 1 /\ UNCHANGED ipc
  /\ UNCHANGED <<disc, path, seg, dir, file>>

(* Zeroes follow the last record: a record without a name, of size zero.   *)
EndOfDirectory ==
  /\ ipc = "find" /\ di > Len(dir)
  /\ ipc' = "error"
  /\ UNCHANGED <<disc, path, seg, dir, di, file>>

find_and_load_file == Descend \/ Found \/ NextRecord \/ EndOfDirectory

-----------------------------------------------------------------------------
(* The bytes of a file as numbers of bytes on the disc.                    *)
ByteAt(n) == file[n \div Sector + 1] * Sector + (n % Sector)
Holds(n) == n \div Sector + 1 \in DOMAIN file

(* The file f is at 0x10000, to its last byte.                             *)
IsLoaded(f) == \A n \in 0 .. f.size - 1 : Holds(n) /\ ByteAt(n) = f.extent * Sector + n

(* What find_and_load_file can cope with.  A file has at least a unit and  *)
(* less than 64 KiB, and the disc goes on behind it, since a sector is     *)
(* read for every unit.                                                    *)
Fits(d, f) ==
  /\ f.size \in Unit .. Wrap - 1
  /\ f.extent + f.size \div Unit <= d.sectors

(* In a directory, no record in front of the one for name hides it.        *)
Visible(entries, name) ==
  \E k \in DOMAIN entries :
    /\ entries[k].name = name
    /\ \A n \in 1 .. k - 1 :
         Low(entries[n].size) # 0 /\ <<entries[n].name, name>> \notin Shorter
=============================================================================
