-------------------------------- MODULE Heap --------------------------------
(***************************************************************************)
(* The kernel heap of kernel/heap.c: a list of blocks, each a header       *)
(* followed by its data, first fit, never merged.  The last block is the   *)
(* rest of the pool; an allocation from it cuts a new last block off.      *)
(* Addresses are offsets in the pool, in units of sizeof(uint32_t).        *)
(***************************************************************************)
EXTENDS Integers, Sequences, FiniteSets

CONSTANTS
  HeapSize,  \* CONFIG_KERNEL_HEAP_SIZE
  Header,    \* sizeof(struct block)
  Packet,    \* sizeof(struct msg_packet_queue), all that kalloc is asked for
  MaxLive,   \* bound: allocations alive at a time
  MaxBlocks, \* bound: blocks in the list
  Width      \* values of data_size: 2^32

ASSUME HeapAssumption ==
  /\ {HeapSize, Header, Packet, MaxLive, MaxBlocks, Width} \subseteq Nat
  /\ Packet > 0
  /\ HeapSize > Header
  /\ Header > 1
  /\ HeapSize < Width
  /\ Header + Packet < Width

VARIABLES
  blocks, \* the list, as a sequence of [addr, used, size]
  live,   \* the allocations in use: [addr, bytes]
  peak    \* the most there were at a time

heap_vars == <<blocks, live, peak>>

Block(addr, used, size) == [addr |-> addr, used |-> used, size |-> size]
data_size(n) == n % Width

(* heap_init: data_size is the pool less the header, but for the field     *)
(* data_size itself.                                                       *)
heap_init ==
  /\ blocks = <<Block(0, FALSE, HeapSize - (Header - 1))>>
  /\ live = {}
  /\ peak = 0

Suits(b, bytes) == ~b.used /\ data_size(b.size + Header) >= bytes

FirstFit(i, bytes) ==
  /\ Suits(blocks[i], bytes)
  /\ \A j \in 1 .. i - 1 : ~Suits(blocks[j], bytes)

(* Mutant: the new block's header overlaps the data.                       *)
Rest_overlaps(b, bytes) ==
  Block(b.addr + bytes, FALSE, data_size(b.size - (bytes + Header)))

(* The block cut off behind bytes of data of the last block b.             *)
Rest(b, bytes) ==
  Block(b.addr + Header + bytes, FALSE, data_size(b.size - (bytes + Header)))

(* Mutant: every block is split, also one that is used again.              *)
Allocate_splits(i, bytes) ==
  LET b == blocks[i]
  IN blocks' = SubSeq(blocks, 1, i - 1) \o <<Block(b.addr, TRUE, bytes), Rest(b, bytes)>>
               \o SubSeq(blocks, i + 1, Len(blocks))

Allocate(i, bytes) ==
  LET b == blocks[i]
      taken == [blocks EXCEPT ![i] = Block(b.addr, TRUE, bytes)]
  IN blocks' = IF i = Len(blocks) THEN Append(taken, Rest(b, bytes)) ELSE taken

(* The address that kalloc returns for block i.                            *)
Address(i) == blocks[i].addr + Header

(* kalloc, which takes block i: the first that suits.                      *)
kalloc(i, bytes) ==
  /\ Cardinality(live) < MaxLive
  /\ Len(blocks) < MaxBlocks
  /\ FirstFit(i, bytes)
  /\ Allocate(i, bytes)
  /\ live' = live \cup {[addr |-> Address(i), bytes |-> bytes]}
  /\ peak' = IF Cardinality(live') > peak THEN Cardinality(live') ELSE peak

(* kfree: the header in front of addr is marked unused.                    *)
kfree(a) ==
  /\ a \in live
  /\ blocks' = [i \in 1 .. Len(blocks) |->
                  IF blocks[i].addr + Header = a.addr
                  THEN [blocks[i] EXCEPT !.used = FALSE] ELSE blocks[i]]
  /\ live' = live \ {a}
  /\ UNCHANGED peak

HeapNext ==
  \/ \E i \in 1 .. Len(blocks) : kalloc(i, Packet)
  \/ \E a \in live : kfree(a)

HeapSpec == heap_init /\ [][HeapNext]_heap_vars
-----------------------------------------------------------------------------
Span(a, n) == a .. a + n - 1
Data(a) == Span(a.addr, a.bytes)
Headers == UNION {Span(blocks[i].addr, Header) : i \in 1 .. Len(blocks)}

(* What kalloc returns is the caller's alone until kfree: no other         *)
(* allocation and no header, on which the list depends, lies in it; and    *)
(* all of them lie in the pool.                                            *)
Disjoint ==
  /\ Headers \subseteq Span(0, HeapSize)
  /\ \A a \in live :
       /\ Data(a) \subseteq Span(0, HeapSize) \ Headers
       /\ \A b \in live : a # b => Data(a) \cap Data(b) = {}

(* Blocks are used again: the list never has more of them than there were  *)
(* allocations at a time, and the rest of the pool.  Without merging this  *)
(* is what keeps a kernel that runs for ever from using up its heap.       *)
BlocksReused == Len(blocks) <= peak + 1
=============================================================================
