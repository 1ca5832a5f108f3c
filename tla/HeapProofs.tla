----------------------------- MODULE HeapProofs -----------------------------
(***************************************************************************)
(* The kernel heap, for every size of pool, header and packet: first       *)
(* whatever is allocated and freed (HeapSpec), then for the packets on the *)
(* queues (PSpec).                                                         *)
(***************************************************************************)
EXTENDS Packets, FiniteSetTheorems, FunctionTheorems, TLAPS

(* Where block n is, and what kalloc returns for it.                       *)
At(n) == (n - 1) * (Header + Packet)
Cell(n) == [addr |-> At(n) + Header, bytes |-> Packet]

(* What the list holds.                                                    *)
BlockType == [addr : Nat, used : BOOLEAN, size : Int]

(* The list is packets in a row, in front of the rest of the pool, and the *)
(* blocks in use are those of the packets that are alive.                  *)
HeapInv ==
  /\ blocks \in Seq(BlockType)
  /\ Len(blocks) > 0
  /\ \A n \in 1 .. Len(blocks) : blocks[n].addr = At(n)
  /\ \A n \in 1 .. Len(blocks) - 1 : blocks[n].size = Packet
  /\ ~blocks[Len(blocks)].used
  /\ \A n \in 1 .. Len(blocks) : blocks[n].used <=> Cell(n) \in live
  /\ \A a \in live : \E n \in 1 .. Len(blocks) : a = Cell(n)
  /\ IsFiniteSet(live)
  /\ peak \in Nat
  /\ BlocksReused

(* The pool has room for the most packets there were at a time, and the    *)
(* header of the rest.                                                     *)
Roomy == peak * (Header + Packet) + Header <= HeapSize

-----------------------------------------------------------------------------
(* Blocks follow each other without overlap.                               *)
LEMMA AtFacts ==
  ASSUME NEW n \in Nat \ {0}
  PROVE  /\ At(n) \in Nat
         /\ At(n + 1) = At(n) + Header + Packet
         /\ \A m \in Nat \ {0} : n < m => At(n) + Header + Packet <= At(m)
<1>1. Header \in Nat /\ Packet \in Nat /\ Header + Packet \in Nat
  BY HeapAssumption
<1>2. PICK size \in Nat : size = Header + Packet
  BY <1>1
<1>3. \A m \in Nat \ {0} : At(m) = (m - 1) * size /\ At(m) \in Nat
  BY <1>2 DEF At
<1>4. At(n + 1) = At(n) + Header + Packet
  <2>1. n * size = (n - 1) * size + size
    BY <1>2
  <2> QED
    BY <1>1, <1>2, <1>3, <2>1
<1>5. ASSUME NEW m \in Nat \ {0}, n < m PROVE At(n) + Header + Packet <= At(m)
  <2>1. n * size <= (m - 1) * size
    BY <1>2, <1>5
  <2> QED
    BY <1>1, <1>2, <1>3, <1>4, <2>1
<1> QED
  BY <1>3, <1>4, <1>5

(* Different blocks are at different addresses.                            *)
LEMMA CellsDiffer ==
  ASSUME NEW m \in Nat \ {0}, NEW n \in Nat \ {0}, m # n
  PROVE  At(m) # At(n) /\ Cell(m).addr # Cell(n).addr /\ Cell(m) # Cell(n)
<1>1. Header \in Nat /\ Packet \in Nat /\ Packet > 0
  BY HeapAssumption
<1>2. At(m) \in Nat /\ At(n) \in Nat /\ At(m) # At(n)
  BY <1>1, AtFacts
<1> QED
  BY <1>1, <1>2 DEF Cell

(* A block that was freed suits the next packet.                           *)
LEMMA FreedSuits ==
  ASSUME HeapInv, NEW n \in 1 .. Len(blocks) - 1, ~Suits(blocks[n], Packet)
  PROVE  blocks[n].used
<1>1. blocks[n].size = Packet
  BY DEF HeapInv
<1>2. Packet + Header \in Nat /\ Packet + Header < Width /\ Width \in Nat
  BY HeapAssumption
<1>3. (Packet + Header) % Width = Packet + Header
  BY <1>2
<1> QED
  <2>1. data_size(blocks[n].size + Header) >= Packet
    BY <1>1, <1>3, HeapAssumption DEF data_size
  <2> QED
    BY <2>1 DEF Suits

(* A place in the list that is not the last.                               *)
LEMMA BelowLast ==
  ASSUME NEW l \in Nat, NEW n \in 1 .. l, n # l
  PROVE  n \in 1 .. l - 1
  OBVIOUS

(* When all blocks but the last are in use, there are as many packets.     *)
LEMMA AllUsed ==
  ASSUME HeapInv, \A n \in 1 .. Len(blocks) - 1 : blocks[n].used
  PROVE  Cardinality(live) = Len(blocks) - 1
<1> DEFINE N == Len(blocks) - 1
           f == [n \in 1 .. N |-> Cell(n)]
<1>1. N \in Nat /\ Len(blocks) \in Nat /\ Len(blocks) = N + 1
  BY DEF HeapInv
<1>2. \A n \in 1 .. N : Cell(n) \in live
  BY <1>1 DEF HeapInv
<1>3. \A a \in live : \E n \in 1 .. N : a = Cell(n)
  <2> SUFFICES ASSUME NEW a \in live PROVE \E n \in 1 .. N : a = Cell(n)
    OBVIOUS
  <2>1. PICK n \in 1 .. Len(blocks) : a = Cell(n)
    BY DEF HeapInv
  <2>2. n # Len(blocks)
    BY <1>1, <2>1, Zenon DEF HeapInv
  <2>3. n \in 1 .. N
    BY <1>1, <2>1, <2>2, BelowLast, Zenon
  <2> QED
    BY <2>1, <2>3
<1> HIDE DEF N
<1>4. f \in Bijection(1 .. N, live)
  <2>1. f \in [1 .. N -> live]
    BY <1>2
  <2>2. \A m, n \in 1 .. N : f[m] = f[n] => m = n
    BY <1>1, CellsDiffer
  <2>3. \A a \in live : \E n \in 1 .. N : f[n] = a
    BY <1>3
  <2> HIDE DEF f
  <2> QED
    BY <2>1, <2>2, <2>3, Fun_IsBij, Zenon
<1>5. ExistsBijection(1 .. N, live)
  BY <1>4 DEF ExistsBijection
<1>6. IsFiniteSet(1 .. N) /\ Cardinality(1 .. N) = N
  BY <1>1, FS_Interval
<1>7. Cardinality(live) = N
  BY <1>5, <1>6, FS_Bijection
<1> QED
  BY <1>7 DEF N

(* heap_init makes the whole pool one block.                               *)
LEMMA InitHeapInv == heap_init => HeapInv
<1> SUFFICES ASSUME heap_init PROVE HeapInv
  OBVIOUS
<1>1. At(1) = 0
  BY HeapAssumption DEF At
<1>2. blocks = <<[addr |-> 0, used |-> FALSE, size |-> HeapSize - (Header - 1)]>>
  BY DEF heap_init, Block
<1>3. HeapSize - (Header - 1) \in Int
  BY HeapAssumption
<1>4. IsFiniteSet(live)
  BY FS_EmptySet DEF heap_init
<1>5. /\ blocks \in Seq(BlockType) /\ Len(blocks) = 1
      /\ blocks[1].addr = At(1) /\ ~blocks[1].used
  BY <1>1, <1>2, <1>3 DEF BlockType
<1>6. live = {} /\ peak = 0
  BY DEF heap_init
<1> QED
  BY <1>4, <1>5, <1>6 DEF HeapInv, BlocksReused

(* kalloc takes a block that was freed, which is as large as a packet, or  *)
(* cuts one off the last when all the others are in use.                   *)
LEMMA KallocKeepsHeapInv ==
  ASSUME HeapInv, NEW i \in 1 .. Len(blocks), kalloc(i, Packet) PROVE HeapInv'
<1> DEFINE taken == [blocks EXCEPT ![i] = Block(At(i), TRUE, Packet)]
           rest == Rest(blocks[i], Packet)
<1>1. /\ Header \in Nat /\ Packet \in Nat /\ Packet > 0 /\ Width \in Nat \ {0}
      /\ Len(blocks) \in Nat \ {0}
      /\ blocks \in Seq(BlockType)
  BY HeapAssumption DEF HeapInv
<1>2. blocks[i].addr = At(i) /\ At(i) \in Nat /\ blocks[i].size \in Int
  <2>1. blocks[i] \in BlockType /\ i \in Nat \ {0}
    BY <1>1
  <2> QED
    BY <2>1, AtFacts, Zenon DEF HeapInv, BlockType
<1>3. /\ blocks' = IF i = Len(blocks) THEN Append(taken, rest) ELSE taken
      /\ live' = live \cup {Cell(i)}
      /\ peak' = IF Cardinality(live') > peak THEN Cardinality(live') ELSE peak
  BY <1>2 DEF kalloc, Allocate, Address, Cell
<1>4. taken \in Seq(BlockType) /\ Len(taken) = Len(blocks)
  <2>1. Block(At(i), TRUE, Packet) \in BlockType
    BY <1>1, <1>2 DEF Block, BlockType
  <2>2. blocks \in [1 .. Len(blocks) -> BlockType]
    BY <1>1
  <2>3. taken \in [1 .. Len(blocks) -> BlockType]
    BY <2>1, <2>2, Zenon
  <2> HIDE DEF taken
  <2> QED
    BY <1>1, <2>3
<1>5. /\ taken[i] = [addr |-> At(i), used |-> TRUE, size |-> Packet]
      /\ \A n \in 1 .. Len(blocks) \ {i} : taken[n] = blocks[n]
  BY <1>1 DEF Block
<1>6. /\ rest = [addr |-> At(i + 1), used |-> FALSE, size |-> rest.size]
      /\ rest \in BlockType
  <2>1. At(i + 1) = At(i) + Header + Packet /\ At(i + 1) \in Nat
    BY <1>1, AtFacts
  <2>2. blocks[i].size - (Packet + Header) \in Int
    BY <1>1, <1>2
  <2>3. data_size(blocks[i].size - (Packet + Header)) \in Int
    BY <1>1, <2>2 DEF data_size
  <2> QED
    BY <1>1, <1>2, <2>1, <2>3, Zenon DEF Rest, Block, BlockType
<1> HIDE DEF taken, rest
<1>7. IsFiniteSet(live') /\ Cardinality(live') \in Nat
  BY <1>3, FS_AddElement, FS_CardinalityType DEF HeapInv
<1>8. peak' \in Nat /\ peak' >= peak /\ peak' >= Cardinality(live')
  BY <1>3, <1>7 DEF HeapInv
<1>9. \A n \in Nat \ {0} : Cell(n) \in live' <=> n = i \/ Cell(n) \in live
  BY <1>1, <1>3, CellsDiffer
<1>10. ASSUME i = Len(blocks) PROVE HeapInv'
  <2> DEFINE L == Len(blocks)
  <2>1. /\ blocks' = Append(taken, rest)
        /\ blocks' \in Seq(BlockType)
        /\ Len(blocks') = L + 1
        /\ blocks'[L + 1] = rest
        /\ \A n \in 1 .. L : blocks'[n] = taken[n]
    BY <1>3, <1>4, <1>6, <1>10
  <2>2. \A n \in 1 .. L - 1 : blocks[n].used
    <3>1. \A n \in 1 .. L - 1 : ~Suits(blocks[n], Packet)
      BY <1>10 DEF kalloc, FirstFit
    <3> QED
      BY <3>1, FreedSuits
  <2>3. Cardinality(live) = L - 1
    BY <2>2, AllUsed
  <2>4. Cell(i) \notin live
    BY <1>10 DEF HeapInv
  <2>5. Cardinality(live') = L
    <3>1. IsFiniteSet(live)
      BY DEF HeapInv
    <3>2. Cardinality(live \cup {Cell(i)}) = Cardinality(live) + 1
      BY <2>4, <3>1, FS_AddElement
    <3> QED
      BY <1>1, <1>3, <2>3, <3>2
  <2>6. BlocksReused'
    BY <1>1, <1>8, <2>1, <2>5 DEF BlocksReused
  <2>7. Cell(L + 1) \notin live
    <3> SUFFICES ASSUME NEW n \in 1 .. L PROVE Cell(L + 1) # Cell(n)
      BY DEF HeapInv
    <3> QED
      BY <1>1, CellsDiffer
  <2>8. ASSUME NEW n \in 1 .. L + 1
        PROVE  /\ blocks'[n].addr = At(n)
               /\ n # L + 1 => blocks'[n].size = Packet
               /\ blocks'[n].used <=> Cell(n) \in live'
    <3>1. CASE n = L + 1
      BY <1>1, <1>6, <1>9, <1>10, <2>1, <2>7, <3>1
    <3>2. CASE n = L
      BY <1>1, <1>5, <1>9, <1>10, <2>1, <3>2
    <3>3. CASE n \in 1 .. L - 1
      <4>1. n \in 1 .. L /\ n \in Nat \ {0} /\ n # i /\ n # L + 1
        BY <1>1, <1>10, <3>3
      <4>2. blocks'[n] = blocks[n] /\ (Cell(n) \in live' <=> Cell(n) \in live)
        BY <1>5, <1>9, <2>1, <4>1
      <4> QED
        BY <3>3, <4>1, <4>2 DEF HeapInv
    <3> QED
      BY <1>1, <3>1, <3>2, <3>3
  <2>9. \A a \in live' : \E n \in 1 .. L + 1 : a = Cell(n)
    BY <1>1, <1>3, <1>10 DEF HeapInv
  <2>10. ~blocks'[Len(blocks')].used
    BY <1>6, <2>1
  <2>11. \A n \in 1 .. Len(blocks') - 1 : blocks'[n].size = Packet
    BY <1>1, <2>1, <2>8
  <2>12. Len(blocks') > 0
    BY <1>1, <2>1
  <2>13. \A n \in 1 .. Len(blocks') :
           blocks'[n].addr = At(n) /\ (blocks'[n].used <=> Cell(n) \in live')
    BY <2>1, <2>8, Zenon
  <2>14. \A a \in live' : \E n \in 1 .. Len(blocks') : a = Cell(n)
    BY <2>1, <2>9, Zenon
  <2> HIDE DEF L
  <2> QED
    BY <1>7, <1>8, <2>1, <2>6, <2>10, <2>11, <2>12, <2>13, <2>14, Zenon
    DEF HeapInv, At, Cell
<1>11. ASSUME i # Len(blocks) PROVE HeapInv'
  <2> DEFINE L == Len(blocks)
  <2>1. blocks' = taken /\ Len(blocks') = L /\ i \in 1 .. L - 1
    BY <1>1, <1>3, <1>4, <1>11
  <2>2. BlocksReused'
    BY <1>1, <1>8, <2>1 DEF HeapInv, BlocksReused
  <2>3. ASSUME NEW n \in 1 .. L
        PROVE  /\ blocks'[n].addr = At(n)
               /\ n # L => blocks'[n].size = Packet
               /\ blocks'[n].used <=> Cell(n) \in live'
    <3>1. CASE n = i
      BY <1>1, <1>5, <1>9, <2>1, <3>1
    <3>2. CASE n # i
      BY <1>1, <1>5, <1>9, <2>1, <3>2 DEF HeapInv
    <3> QED
      BY <3>1, <3>2
  <2>4. \A a \in live' : \E n \in 1 .. L : a = Cell(n)
    BY <1>3 DEF HeapInv
  <2>5. ~blocks'[L].used
    BY <1>1, <1>5, <2>1 DEF HeapInv
  <2>6. \A n \in 1 .. Len(blocks') - 1 : blocks'[n].size = Packet
    BY <1>1, <2>1, <2>3
  <2>7. /\ \A n \in 1 .. Len(blocks') :
             blocks'[n].addr = At(n) /\ (blocks'[n].used <=> Cell(n) \in live')
        /\ \A a \in live' : \E n \in 1 .. Len(blocks') : a = Cell(n)
        /\ Len(blocks') > 0 /\ ~blocks'[Len(blocks')].used
        /\ blocks' \in Seq(BlockType)
    BY <1>1, <1>4, <2>1, <2>3, <2>4, <2>5
  <2> QED
    BY <1>7, <1>8, <2>2, <2>6, <2>7, Zenon DEF HeapInv, At, Cell
<1> QED
  BY <1>10, <1>11

(* kfree finds the one header in front of the packet.                      *)
LEMMA KfreeKeepsHeapInv == ASSUME HeapInv, NEW a, kfree(a) PROVE HeapInv'
<1> DEFINE L == Len(blocks)
<1>1. /\ Header \in Nat /\ L \in Nat \ {0}
      /\ blocks \in Seq(BlockType)
  BY HeapAssumption DEF HeapInv
<1>2. PICK m \in 1 .. L : a = Cell(m)
  BY DEF HeapInv, kfree
<1>3. ASSUME NEW n \in 1 .. L
      PROVE  (blocks[n].addr + Header = a.addr) <=> n = m
  <2>1. blocks[n].addr = At(n) /\ a.addr = At(m) + Header /\ At(n) \in Nat /\ At(m) \in Nat
    <3>1. n \in Nat \ {0} /\ m \in Nat \ {0}
      BY <1>1
    <3> QED
      BY <1>2, <3>1, AtFacts DEF HeapInv, Cell
  <2> QED
    BY <1>1, <2>1, CellsDiffer
<1>4. /\ blocks' = [n \in 1 .. L |-> IF n = m THEN [blocks[n] EXCEPT !.used = FALSE]
                                    ELSE blocks[n]]
      /\ live' = live \ {a}
      /\ peak' = peak
  BY <1>3 DEF kfree
<1>5. \A n \in 1 .. L :
        blocks[n] \in BlockType /\ [blocks[n] EXCEPT !.used = FALSE] \in BlockType
  <2>1. \A n \in 1 .. L : blocks[n] \in BlockType
    BY <1>1
  <2> QED
    BY <2>1, Zenon DEF BlockType
<1>6. /\ blocks' \in Seq(BlockType)
      /\ Len(blocks') = L
  BY <1>1, <1>4, <1>5
<1>7. \A n \in 1 .. L : Cell(n) \in live' <=> n # m /\ Cell(n) \in live
  <2>1. m \in Nat \ {0} /\ \A n \in 1 .. L : n \in Nat \ {0}
    BY <1>1
  <2> QED
    BY <1>2, <1>4, <2>1, CellsDiffer
<1>8. ASSUME NEW n \in 1 .. L
      PROVE  /\ blocks'[n].addr = At(n)
             /\ n # L => blocks'[n].size = Packet
             /\ blocks'[n].used <=> Cell(n) \in live'
  <2>1. CASE n = m
    <3>1. blocks'[n] = [blocks[n] EXCEPT !.used = FALSE] /\ blocks[n] \in BlockType
      BY <1>4, <1>5, <2>1
    <3>2. /\ blocks'[n].addr = blocks[n].addr /\ blocks'[n].size = blocks[n].size
          /\ ~blocks'[n].used
      BY <3>1 DEF BlockType
    <3> QED
      BY <1>1, <1>7, <2>1, <3>2 DEF HeapInv
  <2>2. CASE n # m
    BY <1>1, <1>4, <1>7, <2>2 DEF HeapInv
  <2> QED
    BY <2>1, <2>2
<1>9. ~blocks'[L].used
  BY <1>1, <1>4, <1>5 DEF HeapInv
<1>10. IsFiniteSet(live')
  BY <1>4, FS_RemoveElement DEF HeapInv
<1>11. \A b \in live' : \E n \in 1 .. L : b = Cell(n)
  BY <1>4 DEF HeapInv
<1>12. BlocksReused'
  BY <1>4, <1>6 DEF HeapInv, BlocksReused
<1>13. /\ \A n \in 1 .. Len(blocks') :
             blocks'[n].addr = At(n) /\ (blocks'[n].used <=> Cell(n) \in live')
       /\ \A n \in 1 .. Len(blocks') - 1 : blocks'[n].size = Packet
       /\ \A b \in live' : \E n \in 1 .. Len(blocks') : b = Cell(n)
       /\ Len(blocks') > 0 /\ ~blocks'[Len(blocks')].used /\ peak' \in Nat
  BY <1>1, <1>4, <1>6, <1>8, <1>9, <1>11 DEF HeapInv
<1> QED
  BY <1>6, <1>10, <1>12, <1>13, Zenon DEF HeapInv, At, Cell

(* The invariant of the heap.                                              *)
LEMMA HeapInvariance == HeapSpec => []HeapInv
<1>1. HeapInv /\ [HeapNext]_heap_vars => HeapInv'
  <2> SUFFICES ASSUME HeapInv, [HeapNext]_heap_vars PROVE HeapInv'
    OBVIOUS
  <2>1. CASE UNCHANGED heap_vars
    BY <2>1 DEF heap_vars, HeapInv, BlocksReused
  <2>2. CASE HeapNext
    BY <2>2, KallocKeepsHeapInv, KfreeKeepsHeapInv DEF HeapNext
  <2> QED
    BY <2>1, <2>2
<1> QED
  BY <1>1, InitHeapInv, PTL DEF HeapSpec

(* Packets do not overlap.                                                 *)
LEMMA RoomyIsDisjoint == ASSUME HeapInv, Roomy PROVE Disjoint
<1> DEFINE L == Len(blocks)
<1>1. /\ Header \in Nat /\ Packet \in Nat /\ Packet > 0 /\ HeapSize \in Nat
      /\ L \in Nat \ {0} /\ peak \in Nat
  BY HeapAssumption DEF HeapInv
<1>2. At(L) + Header <= HeapSize
  <2>1. L - 1 <= peak
    BY <1>1 DEF HeapInv, BlocksReused
  <2>2. PICK size \in Nat : size = Header + Packet
    BY <1>1
  <2>3. (L - 1) * size <= peak * size
    BY <1>1, <2>1, <2>2
  <2> QED
    BY <1>1, <2>2, <2>3 DEF At, Roomy
<1>3. \A n \in 1 .. L : At(n) \in Nat /\ At(n) <= At(L) /\ blocks[n].addr = At(n)
  <2> SUFFICES ASSUME NEW n \in 1 .. L
               PROVE  At(n) \in Nat /\ At(n) <= At(L) /\ blocks[n].addr = At(n)
    OBVIOUS
  <2>1. n \in Nat \ {0} /\ (n = L \/ n < L)
    BY <1>1
  <2>2. At(n) \in Nat /\ At(L) \in Nat /\ (n < L => At(n) + Header + Packet <= At(L))
    BY <1>1, <2>1, AtFacts
  <2> QED
    BY <1>1, <2>1, <2>2 DEF HeapInv
<1>4. Headers \subseteq Span(0, HeapSize)
  <2> SUFFICES ASSUME NEW n \in 1 .. L, NEW x \in Span(blocks[n].addr, Header)
               PROVE  x \in Span(0, HeapSize)
    BY DEF Headers
  <2> QED
    BY <1>1, <1>2, <1>3 DEF Span
<1>5. ASSUME NEW a \in live
      PROVE  \E n \in 1 .. L - 1 : a = Cell(n)
  <2>1. PICK n \in 1 .. L : a = Cell(n)
    BY DEF HeapInv
  <2>2. n # L
    BY <1>1, <2>1 DEF HeapInv
  <2> QED
    BY <1>1, <2>1, <2>2
<1>6. \A n \in 1 .. L - 1 : Data(Cell(n)) = At(n) + Header .. At(n) + Header + Packet - 1
  BY <1>1, <1>3 DEF Data, Cell, Span
<1>7. ASSUME NEW n \in 1 .. L - 1, NEW x \in Data(Cell(n))
      PROVE  x \in Span(0, HeapSize) \ Headers
  <2>1. /\ x \in Nat /\ At(n) + Header <= x /\ x < At(n) + Header + Packet
        /\ n \in Nat \ {0} /\ At(n) \in Nat
    BY <1>1, <1>3, <1>6, <1>7
  <2>2. At(n) + Header + Packet <= At(L)
    BY <1>1, AtFacts
  <2>3. x \in Span(0, HeapSize)
    <3>1. At(L) \in Nat
      BY <1>1, <1>3
    <3>2. x < HeapSize
      BY <1>1, <1>2, <2>1, <2>2, <3>1
    <3> QED
      BY <1>1, <2>1, <3>2 DEF Span
  <2>4. ASSUME NEW m \in 1 .. L PROVE x \notin Span(blocks[m].addr, Header)
    <3>1. blocks[m].addr = At(m) /\ At(m) \in Nat /\ m \in Nat \ {0}
      BY <1>3
    <3>2. CASE m <= n
      <4>1. At(m) <= At(n)
        BY <1>1, <2>1, <3>1, <3>2, AtFacts
      <4> QED
        BY <1>1, <2>1, <3>1, <4>1 DEF Span
    <3>3. CASE n < m
      <4>1. At(n) + Header + Packet <= At(m)
        BY <2>1, <3>1, <3>3, AtFacts
      <4> QED
        BY <1>1, <2>1, <3>1, <4>1 DEF Span
    <3> QED
      BY <2>1, <3>1, <3>2, <3>3
  <2> QED
    BY <2>3, <2>4 DEF Headers
<1>8. ASSUME NEW m \in 1 .. L - 1, NEW n \in 1 .. L - 1, m < n
      PROVE  Data(Cell(m)) \cap Data(Cell(n)) = {}
  <2>1. At(m) + Header + Packet <= At(n) /\ At(m) \in Nat /\ At(n) \in Nat
    <3>1. m \in Nat \ {0} /\ n \in Nat \ {0}
      BY <1>1
    <3> QED
      BY <1>8, <3>1, AtFacts, Zenon
  <2> QED
    BY <1>1, <1>6, <2>1
<1>9. ASSUME NEW a \in live, NEW b \in live, a # b
      PROVE  Data(a) \cap Data(b) = {}
  <2>1. PICK m \in 1 .. L - 1 : a = Cell(m)
    BY <1>5
  <2>2. PICK n \in 1 .. L - 1 : b = Cell(n)
    BY <1>5
  <2>3. m < n \/ n < m
    BY <1>1, <1>9, <2>1, <2>2
  <2> QED
    BY <1>8, <2>1, <2>2, <2>3
<1> QED
  BY <1>4, <1>5, <1>7, <1>9 DEF Disjoint

-----------------------------------------------------------------------------
(* What the queues do with the heap: kalloc when a packet is inserted,     *)
(* kfree when it is removed, and nothing when packets move.                *)
LEMMA PacketsUseHeap == [PNext]_<<heap_vars, list_vars>> => [HeapNext]_heap_vars
<1> SUFFICES ASSUME [PNext]_<<heap_vars, list_vars>> PROVE [HeapNext]_heap_vars
  OBVIOUS
<1>1. ASSUME NEW a, kfree(a) PROVE HeapNext
  BY <1>1 DEF kfree, HeapNext
<1>2. ASSUME NEW h, NEW i \in 1 .. Len(blocks), Insert(h, i) PROVE HeapNext
  BY <1>2 DEF Insert, HeapNext
<1>3. ASSUME NEW h, RemoveFirst(h) PROVE HeapNext
  BY <1>1, <1>3 DEF RemoveFirst, Release
<1>4. ASSUME NEW h, NEW e, RemoveOther(h, e) PROVE HeapNext
  BY <1>1, <1>4 DEF RemoveOther, Release
<1>5. ASSUME NEW g, NEW h, Move(g, h) PROVE UNCHANGED heap_vars
  BY <1>5 DEF Move
<1> QED
  BY <1>2, <1>3, <1>4, <1>5 DEF PNext

(* The packets on the queues use the heap as HeapSpec lets anyone use it.  *)
THEOREM PacketsOnHeap == PSpec => HeapSpec
  BY PacketsUseHeap, PTL DEF PSpec, PInit, HeapSpec

(* The list never has more blocks than packets were alive at a time, and   *)
(* the last: kalloc finds what kfree gave back.                            *)
THEOREM Reuse == PSpec => []BlocksReused
<1>1. HeapInv => BlocksReused
  BY DEF HeapInv
<1> QED
  BY <1>1, HeapInvariance, PacketsOnHeap, PTL

(* As long as the pool has room for the most packets there were at a time, *)
(* no packet overlaps another one or a header, and all are in the pool.    *)
THEOREM PacketsApart == PSpec => [](Roomy => Disjoint)
<1>1. HeapInv => (Roomy => Disjoint)
  BY RoomyIsDisjoint
<1> QED
  BY <1>1, HeapInvariance, PacketsOnHeap, PTL
=============================================================================
