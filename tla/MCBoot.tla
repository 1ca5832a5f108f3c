------------------------------- MODULE MCBoot -------------------------------
(* Discs that differ in what lies in front of the boot directory and of    *)
(* the kernel, in the sizes of the files, in the room behind them, and in  *)
(* the kernel's segments.  Memory maps of up to three areas in order of    *)
(* address, with gaps, whose bases are those of words of two bytes.  MP    *)
(* tables with and without a bus and an entry that smp_init does not know. *)
EXTENDS Boot, FiniteSetsExt

Rec(n, d, e, s) == [name |-> n, dir |-> d, extent |-> e, size |-> s]
Seg(l, o, a, f, m) == [load |-> l, offset |-> o, paddr |-> a, filesz |-> f, memsz |-> m]

Up(n) == (n + Sector - 1) \div Sector

(* Sectors 1, 2 and 3 are the directories, then come the two files.        *)
Disc(before, inner, rsize, ksize, room, segments) ==
  LET initrd == Rec("INITRD.BIN", FALSE, 4, rsize)
      kernel == Rec("KERNEL.BIN", FALSE, 4 + Up(rsize), ksize)
  IN [sectors |-> 4 + Up(rsize) + Up(ksize) + room,
      dirs |-> <<Append(before, Rec("BOOT", TRUE, 2, Sector)),
                 <<Rec("BOOT.CAT", FALSE, 0, Sector), Rec("KERNEL", TRUE, 3, Sector),
                   Rec("LOADER", TRUE, 0, Sector)>>,
                 <<initrd>> \o inner \o <<kernel>>>>,
      initrd |-> initrd, kernel |-> kernel,
      segments |-> segments]

Text == Seg(TRUE, 2, 0, 4, 4)
Stack == Seg(FALSE, 0, 0, 0, 0)
Bss == Seg(TRUE, 4, 4, 2, 6)
Odd == Seg(TRUE, 3, 4, 3, 4)

MCDiscs ==
  {Disc(<<>>, <<>>, r, k, room, <<Text, Stack, Bss>>) :
     r \in {0, 1, 2, 15, 16, 18, 24}, k \in {6, 15, 16, 18, 24}, room \in {0, 9, 16}}
  \cup
  {Disc(b, n, 7, 10, 9, s) :
     b \in {<<>>, <<Rec("A", FALSE, 1, 0)>>, <<Rec("A", FALSE, 1, 3)>>,
            <<Rec("BOO", TRUE, 1, 8)>>},
     n \in {<<>>, <<Rec("JUNK", FALSE, 1, 16)>>, <<Rec("KERNEL", TRUE, 1, 8)>>},
     s \in {<<Text, Stack, Bss>>, <<Text, Odd>>}}
  \cup
  {[Disc(<<>>, <<>>, 7, 10, 9, <<Text, Stack, Bss>>) EXCEPT !.dirs[1] = <<>>]}

MCShorter == {<<"BOO", "BOOT">>, <<"KERNEL", "KERNEL.BIN">>}

Available == 1
Reserved == 2
Acpi == 3

Shapes == [gap : {0, 2}, len : {2, 4, 16}, type : {Available, Reserved, Acpi}]

MapOf(s) ==
  [k \in DOMAIN s |->
     [base |-> MapThenSumSet(LAMBDA n : s[n].gap + s[n].len, 1 .. k - 1) + s[k].gap,
      len |-> s[k].len, type |-> s[k].type]]

(* The memory of the kernel is there.                                      *)
Maps == {m \in {MapOf(s) : s \in UNION {[1 .. n -> Shapes] : n \in 1 .. 3}} :
           \E k \in DOMAIN m :
             /\ m[k].type = Available
             /\ m[k].base <= KernBase
             /\ KernBase + KernLen <= m[k].base + m[k].len}

(* Memory that follows memory in the table touches it.                     *)
Touching(m) ==
  \A k \in 1 .. Len(m) - 1 :
    m[k].type = m[k + 1].type /\ m[k].type # Reserved =>
      m[k].base + m[k].len = m[k + 1].base

MCBios == {m \in Maps : Touching(m)}

Cpu(c) == [type |-> "cpu", id |-> c]
Of(t) == [type |-> t, id |-> 0]

MCTables ==
  {<<Cpu(0), Cpu(1), Cpu(2), Cpu(3), Of("other")>>,
   <<Of("other"), Cpu(2), Of("unknown"), Cpu(1)>>,
   <<Cpu(0), Cpu(3), Cpu(1)>>}
=============================================================================
