-------------------------------- MODULE MCVm --------------------------------
(* A kernel process and two programs of two pages each, all of them in     *)
(* their files, buffers within a page and across the end of one, and       *)
(* memory that is zero, as an emulator's is.                               *)
EXTENDS Vm

MCFile == [s \in 2 .. 3 |-> [page |-> 4 * s, filesz |-> 2, memsz |-> 2]]
MCDevice == [s \in 2 .. 3 |-> 2 * Entries + s]
MCZeroRam == [p \in Pool |-> <<>>]
MCBuffers == [off : 0 .. 1, len : 1 .. 2, copy : 1 .. 2]
=============================================================================
