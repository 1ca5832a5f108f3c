------------------------------ MODULE PmProofs ------------------------------
(***************************************************************************)
(* The page allocator, for every number of words and of bits in a word,    *)
(* and every number of callers of pm_alloc.                                *)
(***************************************************************************)
EXTENDS Pm, TLAPS

(* The bitmap, and where each caller of pm_alloc is in it.                 *)
PmTypeOK ==
  /\ pm_bitmap \in [Words -> SUBSET Bits]
  /\ booting \in BOOLEAN
  /\ pc \in [Loaders -> {"out", "word", "bit", "load", "store"}]
  /\ idx \in [Loaders -> 0 .. NWords]
  /\ bit \in [Loaders -> Nat]
  /\ loaded \in [Loaders -> SUBSET Bits]
  /\ held \in [Callers -> SUBSET Nat]
  /\ raced \in BOOLEAN

(* The pages of boot are the first ones, without a gap; while it lasts     *)
(* they are the only ones given out.                                       *)
BootPrefix ==
  /\ \A p \in held["boot"] : Marked(p) /\ 0 .. p \subseteq held["boot"]
  /\ booting => /\ \A c \in Loaders : pc[c] = "out" /\ held[c] = {}
                /\ \A i \in Words : \A b \in pm_bitmap[i] : Page(i, b) \in held["boot"]

(* What pm_alloc has found and loaded may be stale, but where boot's pages *)
(* are it is not: the word is not all boot's, the page is none of boot's,  *)
(* and the value loaded has the bits of boot.                              *)
StaleButNotBoot ==
  \A c \in Loaders :
    /\ held[c] \cap held["boot"] = {}
    /\ pc[c] \in {"bit", "load", "store"} =>
         /\ idx[c] \in Words
         /\ \E b \in Bits : Page(idx[c], b) \notin held["boot"]
    /\ pc[c] \in {"load", "store"} => Page(idx[c], bit[c]) \notin held["boot"]
    /\ pc[c] = "store" =>
         \A b \in Bits : Page(idx[c], b) \in held["boot"] => b \in loaded[c]

(* Without a race one loader at a time is in pm_alloc, and what it has     *)
(* seen still holds.                                                       *)
Alone ==
  /\ \A c, d \in Loaders : c # d => pc[c] = "out" \/ pc[d] = "out"
  /\ \A c \in Loaders :
       /\ pc[c] \in {"out", "word"} => bit[c] = 0
       /\ pc[c] = "bit" => /\ pm_bitmap[idx[c]] # Bits
                           /\ 0 .. bit[c] - 1 \subseteq pm_bitmap[idx[c]]
       /\ pc[c] \in {"load", "store"} => bit[c] \in Bits \ pm_bitmap[idx[c]]
       /\ pc[c] = "store" => loaded[c] = pm_bitmap[idx[c]]

(* The inductive invariant.                                                *)
PmInv ==
  /\ PmTypeOK
  /\ BootPrefix
  /\ StaleButNotBoot
  /\ SerialIsSafe
  /\ ~raced => Alone

-----------------------------------------------------------------------------
(* A page is a word and a bit.                                             *)
LEMMA WordOfPage ==
  ASSUME NEW i \in Nat, NEW b \in Bits
  PROVE  /\ Page(i, b) \in Nat
         /\ Page(i, b) \div WordBits = i
         /\ Page(i, b) % WordBits = b
<1>1. WordBits \in Nat \ {0} /\ b \in 0 .. WordBits - 1
  BY PmAssumption DEF Bits
<1>2. i * WordBits \in Nat
  BY <1>1
<1>3. (i * WordBits + b) \div WordBits = i
  BY <1>1, <1>2
<1>4. (i * WordBits + b) % WordBits = b
  BY <1>1, <1>2
<1> QED
  BY <1>1, <1>2, <1>3, <1>4 DEF Page

(* Pages of an earlier word come first.                                    *)
LEMMA PageOrder ==
  ASSUME NEW i \in Nat, NEW j \in Nat, NEW b \in Nat, NEW d \in Bits, j < i
  PROVE  Page(j, d) < Page(i, b)
<1>1. WordBits \in Nat \ {0} /\ d \in 0 .. WordBits - 1
  BY PmAssumption DEF Bits
<1>2. (j + 1) * WordBits <= i * WordBits
  BY <1>1
<1>3. j * WordBits + WordBits <= i * WordBits
  BY <1>1, <1>2
<1> QED
  BY <1>1, <1>3 DEF Page

(* Every page has a word and a bit.                                        *)
LEMMA PageSplit ==
  ASSUME NEW p \in Nat
  PROVE  /\ p \div WordBits \in Nat
         /\ p % WordBits \in Bits
         /\ p = Page(p \div WordBits, p % WordBits)
<1>1. WordBits \in Nat \ {0}
  BY PmAssumption
<1> QED
  BY <1>1 DEF Page, Bits

(* A page is marked when its bit is set.                                   *)
LEMMA MarkedPage ==
  ASSUME NEW i \in Words, NEW b \in Bits
  PROVE  Marked(Page(i, b)) <=> b \in pm_bitmap[i]
<1>1. i \in Nat
  BY DEF Words
<1> QED
  BY <1>1, WordOfPage DEF Marked

-----------------------------------------------------------------------------
(* pm_init leaves every page free.                                         *)
LEMMA InitPmInv == Init => PmInv
<1> SUFFICES ASSUME Init PROVE PmInv
  OBVIOUS
<1> USE DEF Init
<1>1. PmTypeOK
  <2>1. 0 \in 0 .. NWords /\ 0 \in Nat
    BY PmAssumption
  <2> QED
    BY <2>1, Zenon DEF PmTypeOK
<1>2. held["boot"] = {} /\ \A c \in Callers : held[c] = {}
  BY DEF Callers
<1>3. BootPrefix
  BY <1>2 DEF BootPrefix, Callers
<1>4. StaleButNotBoot
  BY <1>2 DEF StaleButNotBoot, Callers
<1>5. SerialIsSafe
  BY <1>2 DEF SerialIsSafe
<1>6. Alone
  BY DEF Alone
<1> QED
  BY <1>1, <1>3, <1>4, <1>5, <1>6 DEF PmInv

(* What boot takes when it is given the bits of run in word i: its pages   *)
(* stay the first ones if the run closes up to them.                       *)
LEMMA BootTakes ==
  ASSUME PmInv, booting, UNCHANGED <<booting, pc, idx, bit, loaded, raced>>,
         NEW i \in Words, NEW run \in SUBSET Bits, run \cap pm_bitmap[i] = {},
         \A b \in run : \A q \in 0 .. Page(i, b) :
           q \in held["boot"] \/ \E d \in run : q = Page(i, d),
         Take("boot", i, run)
  PROVE  PmInv'
<1> DEFINE new == {Page(i, b) : b \in run}
<1>1. /\ pm_bitmap' = [pm_bitmap EXCEPT ![i] = @ \cup run]
      /\ held' = [held EXCEPT !["boot"] = @ \cup new]
  BY DEF Take
<1>2. i \in Nat /\ PmTypeOK /\ "boot" \in Callers /\ "boot" \notin Loaders
  BY PmAssumption DEF PmInv, Words, Callers
<1>3. new \in SUBSET Nat
  BY <1>2, WordOfPage
<1>4. held'["boot"] = held["boot"] \cup new /\ \A c \in Loaders : held'[c] = held[c]
  BY <1>1, <1>2 DEF PmTypeOK, Callers
<1>5. PmTypeOK'
  BY <1>1, <1>2, <1>3 DEF PmTypeOK
<1>6. \A p : Marked(p) => Marked(p)'
  BY <1>1, <1>2 DEF Marked, PmTypeOK
<1>7. \A p \in new : Marked(p)'
  <2> SUFFICES ASSUME NEW b \in run PROVE Marked(Page(i, b))'
    OBVIOUS
  <2>1. b \in pm_bitmap'[i] /\ b \in Bits
    BY <1>1, <1>2 DEF PmTypeOK
  <2> QED
    BY <1>2, <2>1, WordOfPage DEF Marked
<1>8. \A c \in Loaders : pc[c] = "out" /\ held[c] = {}
  BY DEF PmInv, BootPrefix
<1>9. BootPrefix'
  <2>1. ASSUME NEW p \in held'["boot"]
        PROVE  Marked(p)' /\ 0 .. p \subseteq held'["boot"]
    <3>1. CASE p \in held["boot"]
      BY <1>4, <1>6, <3>1 DEF PmInv, BootPrefix
    <3>2. CASE p \in new
      BY <1>4, <1>7, <3>2
    <3> QED
      BY <1>4, <2>1, <3>1, <3>2
  <2>2. \A c \in Loaders : pc'[c] = "out" /\ held'[c] = {}
    BY <1>4, <1>8
  <2>3. ASSUME NEW j \in Words, NEW b \in pm_bitmap'[j]
        PROVE  Page(j, b) \in held'["boot"]
    BY <1>1, <1>2, <1>4, <2>3 DEF PmInv, BootPrefix, PmTypeOK
  <2> QED
    BY <2>1, <2>2, <2>3 DEF BootPrefix
<1>10. StaleButNotBoot'
  BY <1>4, <1>8 DEF StaleButNotBoot
<1>11. SerialIsSafe'
  <2>1. \A c \in Callers : held'[c] # {} => c = "boot"
    BY <1>4, <1>8 DEF Callers
  <2> QED
    BY <1>9, <2>1 DEF SerialIsSafe, BootPrefix
<1>12. (~raced => Alone)'
  BY <1>8 DEF PmInv, Alone
<1> QED
  BY <1>5, <1>9, <1>10, <1>11, <1>12 DEF PmInv

(* While the kernel boots, a bit that is not set is that of a page behind  *)
(* those of boot: pm_alloc_cont, which takes the first, leaves no gap.     *)
LEMMA BootKeepsPmInv == PmInv /\ (BootHeap \/ BootAlloc) => PmInv'
<1> SUFFICES ASSUME PmInv, BootHeap \/ BootAlloc PROVE PmInv'
  OBVIOUS
<1>1. booting /\ UNCHANGED <<booting, pc, idx, bit, loaded, raced>>
  BY DEF BootHeap, BootAlloc
<1>2. WordBits \in Nat \ {0} /\ NWords \in Nat \ {0}
  BY PmAssumption
<1>3. CASE BootHeap
  <2>1. PICK n \in 1 .. WordBits : pm_alloc_cont(n)
    BY <1>3 DEF BootHeap
  <2>2. PICK i \in Words, b \in Bits :
          /\ Fits(i, b, n)
          /\ \A j \in Words, d \in Bits : Page(j, d) < Page(i, b) => ~Fits(j, d, n)
          /\ Take("boot", i, Run(b, n))
    BY <2>1 DEF pm_alloc_cont
  <2>3. 0 \in Words /\ 0 \in Bits /\ Fits(0, 0, n)
    BY <1>2, <1>3 DEF BootHeap, Fits, Run, Words, Bits
  <2>4. Page(0, 0) = 0
    BY <1>2 DEF Page
  <2>5. ~(0 < Page(i, b))
    BY <2>2, <2>3, <2>4
  <2>6. Page(i, b) = 0
    BY <2>5, WordOfPage DEF Words
  <2>7. i = 0 /\ b = 0
    BY <2>3, <2>4, <2>6, WordOfPage DEF Words
  <2>8. Run(b, n) = 0 .. n - 1 /\ Run(b, n) \in SUBSET Bits
        /\ Run(b, n) \cap pm_bitmap[i] = {}
    BY <2>2, <2>7 DEF Run, Fits
  <2>9. ASSUME NEW d \in Run(b, n), NEW q \in 0 .. Page(i, d)
        PROVE  \E e \in Run(b, n) : q = Page(i, e)
    <3>1. \A e \in Nat : Page(i, e) = e
      BY <1>2, <2>7 DEF Page
    <3> QED
      BY <2>8, <2>9, <3>1
  <2> QED
    BY <1>1, <2>2, <2>8, <2>9, BootTakes
<1>4. CASE BootAlloc
  <2>1. PICK i \in Words, b \in Bits :
          /\ Fits(i, b, 1)
          /\ \A j \in Words, d \in Bits : Page(j, d) < Page(i, b) => ~Fits(j, d, 1)
          /\ Take("boot", i, Run(b, 1))
    BY <1>4 DEF BootAlloc, pm_alloc_cont
  <2>2. \A d \in Bits : Run(d, 1) = {d}
    BY DEF Run, Bits
  <2>3. i \in Nat /\ b \in Nat
    BY DEF Words, Bits
  <2>4. ASSUME NEW q \in 0 .. Page(i, b), q # Page(i, b) PROVE q \in held["boot"]
    <3> DEFINE j == q \div WordBits
               d == q % WordBits
    <3>1. q \in Nat /\ q < Page(i, b)
      BY <2>3, <2>4, WordOfPage
    <3>2. j \in Nat /\ d \in Bits /\ q = Page(j, d)
      BY <3>1, PageSplit
    <3> HIDE DEF j, d
    <3>3. ~(i < j)
      BY <2>3, <3>1, <3>2, PageOrder, WordOfPage DEF Bits
    <3>4. j \in Words
      BY <1>2, <2>3, <3>2, <3>3 DEF Words
    <3>5. d \in pm_bitmap[j]
      BY <2>1, <2>2, <3>1, <3>2, <3>4 DEF Fits
    <3> QED
      BY <1>1, <3>2, <3>4, <3>5 DEF PmInv, BootPrefix
  <2>5. {b} \in SUBSET Bits /\ {b} \cap pm_bitmap[i] = {} /\ Take("boot", i, {b})
    BY <2>1, <2>2 DEF Fits
  <2> QED
    BY <1>1, <2>4, <2>5, BootTakes
<1> QED
  BY <1>3, <1>4

(* The end of boot changes no page.                                        *)
LEMMA BootDoneKeepsPmInv == PmInv /\ BootDone => PmInv'
<1> SUFFICES ASSUME PmInv, BootDone PROVE PmInv'
  OBVIOUS
<1>1. /\ booting' = FALSE
      /\ UNCHANGED <<pm_bitmap, pc, idx, bit, loaded, held, raced>>
  BY DEF BootDone
<1>2. PmTypeOK' /\ BootPrefix'
  BY <1>1, Zenon DEF PmInv, PmTypeOK, BootPrefix, Marked
<1>3. StaleButNotBoot'
  BY <1>1 DEF PmInv, StaleButNotBoot
<1>4. SerialIsSafe' /\ (~raced => Alone)'
  BY <1>1 DEF PmInv, SerialIsSafe, Alone, Marked
<1> QED
  BY <1>2, <1>3, <1>4 DEF PmInv

(* What a step of a loader that marks no page has to keep.                 *)
LEMMA SearchKeepsPmInv ==
  ASSUME PmInv, ~booting, NEW c \in Loaders,
         UNCHANGED <<pm_bitmap, held, booting>>, PmTypeOK',
         \A d \in Loaders \ {c} :
           pc'[d] = pc[d] /\ idx'[d] = idx[d] /\ bit'[d] = bit[d] /\ loaded'[d] = loaded[d],
         raced' = (raced \/ \E d \in Loaders \ {c} : pc[d] # "out"),
         pc'[c] \in {"bit", "load", "store"} =>
           /\ idx'[c] \in Words
           /\ \E b \in Bits : Page(idx'[c], b) \notin held["boot"],
         pc'[c] \in {"load", "store"} => Page(idx'[c], bit'[c]) \notin held["boot"],
         pc'[c] = "store" =>
           \A b \in Bits : Page(idx'[c], b) \in held["boot"] => b \in loaded'[c],
         ~raced =>
           /\ pc'[c] \in {"out", "word"} => bit'[c] = 0
           /\ pc'[c] = "bit" => /\ pm_bitmap[idx'[c]] # Bits
                                /\ 0 .. bit'[c] - 1 \subseteq pm_bitmap[idx'[c]]
           /\ pc'[c] \in {"load", "store"} => bit'[c] \in Bits \ pm_bitmap[idx'[c]]
           /\ pc'[c] = "store" => loaded'[c] = pm_bitmap[idx'[c]]
  PROVE  PmInv'
<1>1. BootPrefix' /\ SerialIsSafe'
  BY Zenon DEF PmInv, BootPrefix, SerialIsSafe, Marked
<1>2. StaleButNotBoot'
  <2> SUFFICES ASSUME NEW d \in Loaders PROVE StaleButNotBoot!(d)'
    BY DEF StaleButNotBoot
  <2>1. CASE d = c
    BY <2>1 DEF PmInv, StaleButNotBoot
  <2>2. CASE d # c
    BY <2>2 DEF PmInv, StaleButNotBoot
  <2> QED
    BY <2>1, <2>2
<1>3. ASSUME ~raced' PROVE Alone'
  <2>1. ~raced /\ \A d \in Loaders \ {c} : pc[d] = "out" /\ pc'[d] = "out"
    BY <1>3, Zenon
  <2>2. Alone
    BY <2>1 DEF PmInv
  <2>3. \A d \in Loaders \ {c} : bit'[d] = 0
    BY <2>1, <2>2 DEF Alone
  <2> QED
    BY <2>1, <2>3 DEF Alone
<1> QED
  BY <1>1, <1>2, <1>3 DEF PmInv

(* The bit that is found clear is that of a page behind boot's, also when  *)
(* it is one past the word.                                                *)
LEMMA ClearIsNotBoot ==
  ASSUME PmInv, NEW c \in Loaders, idx[c] \in Words, Clear(c)
  PROVE  Page(idx[c], bit[c]) \notin held["boot"]
<1>1. bit[c] \in Nat /\ idx[c] \in Nat /\ WordBits \in Nat \ {0}
  BY PmAssumption DEF PmInv, PmTypeOK, Words
<1>2. bit[c] % WordBits \in Bits /\ bit[c] % WordBits <= bit[c]
  <2>1. /\ bit[c] \div WordBits \in Nat /\ bit[c] % WordBits \in Bits
        /\ bit[c] = Page(bit[c] \div WordBits, bit[c] % WordBits)
    BY <1>1, PageSplit
  <2>2. (bit[c] \div WordBits) * WordBits \in Nat
    BY <1>1, <2>1
  <2> QED
    BY <1>1, <2>1, <2>2 DEF Page, Bits
<1>3. ~Marked(Page(idx[c], bit[c] % WordBits))
  BY <1>2, MarkedPage DEF Clear
<1>4. Page(idx[c], bit[c] % WordBits) \notin held["boot"]
  BY <1>3 DEF PmInv, BootPrefix
<1>5. Page(idx[c], bit[c] % WordBits) \in 0 .. Page(idx[c], bit[c])
  <2>1. idx[c] * WordBits \in Nat /\ bit[c] % WordBits \in Nat
    BY <1>1, <1>2 DEF Bits
  <2> QED
    BY <1>1, <1>2, <2>1 DEF Page
<1> QED
  BY <1>4, <1>5 DEF PmInv, BootPrefix

(* In a word that is not full, the bits that are all set end in it.        *)
LEMMA Unfilled ==
  ASSUME NEW n \in Nat, NEW word \in SUBSET Bits, word # Bits, 0 .. n - 1 \subseteq word
  PROVE  n < WordBits
<1> SUFFICES ASSUME n >= WordBits PROVE FALSE
  BY PmAssumption
<1>1. Bits \subseteq 0 .. n - 1
  BY PmAssumption DEF Bits
<1> QED
  BY <1>1, Zenon

(* The loops of pm_alloc up to the load of the word, one step at a time.   *)
LEMMA SearchingKeepsPmInv ==
  ASSUME PmInv, NEW c \in Loaders,
         Enter(c) \/ NextWord(c) \/ FoundWord(c) \/ Fail(c)
           \/ NextBit(c) \/ FoundBit(c) \/ Load(c)
  PROVE  PmInv'
<1>1. /\ NWords \in Nat \ {0} /\ WordBits \in Nat \ {0}
      /\ PmTypeOK /\ idx[c] \in 0 .. NWords /\ bit[c] \in Nat
  BY PmAssumption DEF PmInv, PmTypeOK
<1>2. /\ ~booting /\ UNCHANGED booting
      /\ raced' = (raced \/ \E d \in Loaders \ {c} : pc[d] # "out")
      /\ UNCHANGED <<pm_bitmap, held>>
      /\ \A d \in Loaders \ {c} : pc'[d] = pc[d]
  BY <1>1 DEF Enter, NextWord, FoundWord, Fail, NextBit, FoundBit, Load, Return, Goto, PmTypeOK
<1>3. CASE Enter(c)
  <2>1. pc[c] = "out" /\ pc'[c] = "word" /\ UNCHANGED <<idx, bit, loaded>>
    BY <1>1, <1>3 DEF Enter, Goto, PmTypeOK
  <2>2. PmTypeOK'
    BY <1>1, <1>2, <1>3 DEF Enter, Goto, PmTypeOK
  <2>3. ~raced => bit'[c] = 0
    BY <2>1 DEF PmInv, Alone
  <2> QED
    BY <1>2, <2>1, <2>2, <2>3, SearchKeepsPmInv
<1>4. CASE NextWord(c)
  <2>1. /\ pc[c] = "word" /\ pc'[c] = "word" /\ UNCHANGED <<bit, loaded>>
        /\ \A d \in Loaders \ {c} : idx'[d] = idx[d]
    BY <1>1, <1>4 DEF NextWord, Goto, PmTypeOK
  <2>2. PmTypeOK'
    <3>1. idx[c] + 1 \in 0 .. NWords
      BY <1>1, <1>4 DEF NextWord
    <3> QED
      BY <1>1, <1>2, <1>4, <3>1 DEF NextWord, Goto, PmTypeOK
  <2>3. ~raced => bit'[c] = 0
    BY <2>1 DEF PmInv, Alone
  <2> QED
    BY <1>2, <2>1, <2>2, <2>3, SearchKeepsPmInv
<1>5. CASE FoundWord(c)
  <2>1. pc[c] = "word" /\ pc'[c] = "bit" /\ UNCHANGED <<idx, bit, loaded>>
    BY <1>1, <1>5 DEF FoundWord, Goto, PmTypeOK
  <2>2. PmTypeOK'
    BY <1>1, <1>2, <1>5 DEF FoundWord, Goto, PmTypeOK
  <2>3. idx[c] \in Words /\ pm_bitmap[idx[c]] # Bits
    BY <1>1, <1>5 DEF FoundWord, Words
  <2>4. PICK b \in Bits : b \notin pm_bitmap[idx[c]]
    BY <1>1, <2>3, Zenon DEF PmTypeOK
  <2>5. Page(idx[c], b) \notin held["boot"]
    BY <2>3, <2>4, MarkedPage DEF PmInv, BootPrefix
  <2>6. ~raced => 0 .. bit'[c] - 1 \subseteq pm_bitmap[idx'[c]]
    BY <2>1, SMTT(30) DEF PmInv, Alone
  <2> QED
    BY <1>2, <2>1, <2>2, <2>3, <2>5, <2>6, SearchKeepsPmInv
<1>6. CASE Fail(c)
  <2>1. /\ pc'[c] = "out" /\ bit'[c] = 0
        /\ \A d \in Loaders \ {c} :
             idx'[d] = idx[d] /\ bit'[d] = bit[d] /\ loaded'[d] = loaded[d]
    BY <1>1, <1>6 DEF Fail, Return, Goto, PmTypeOK
  <2>2. PmTypeOK'
    BY <1>1, <1>2, <1>6 DEF Fail, Return, Goto, PmTypeOK
  <2> QED
    BY <1>2, <2>1, <2>2, SearchKeepsPmInv
<1>7. CASE NextBit(c)
  <2> DEFINE n == IF bit[c] + 1 = SpinBits THEN WordBits ELSE bit[c] + 1
  <2>1. /\ pc[c] = "bit" /\ pc'[c] = "bit" /\ bit'[c] = n /\ UNCHANGED <<idx, loaded>>
        /\ \A d \in Loaders \ {c} : bit'[d] = bit[d]
    BY <1>1, <1>7 DEF NextBit, Goto, PmTypeOK
  <2>2. n \in Nat
    BY <1>1
  <2>3. PmTypeOK'
    BY <1>1, <1>2, <1>7, <2>2 DEF NextBit, Goto, PmTypeOK
  <2>4. ASSUME ~raced
        PROVE  /\ pm_bitmap[idx'[c]] # Bits
               /\ 0 .. bit'[c] - 1 \subseteq pm_bitmap[idx'[c]]
    <3>1. pm_bitmap[idx[c]] # Bits /\ 0 .. bit[c] - 1 \subseteq pm_bitmap[idx[c]]
      BY <2>1, <2>4 DEF PmInv, Alone
    <3>2. idx[c] \in Words /\ pm_bitmap[idx[c]] \in SUBSET Bits
      BY <1>1, <2>1 DEF PmInv, StaleButNotBoot, PmTypeOK
    <3>3. bit[c] < WordBits
      BY <1>1, <3>1, <3>2, Unfilled, Zenon
    <3>4. bit[c] % WordBits = bit[c]
      BY <1>1, <3>3
    <3>5. bit[c] \in pm_bitmap[idx[c]]
      BY <1>7, <3>4 DEF NextBit, Clear
    <3>6. bit[c] + 1 # SpinBits \/ WordBits = bit[c] + 1
      BY <1>1, <3>3 DEF SpinBits
    <3>7. bit'[c] = bit[c] + 1
      BY <1>1, <2>1, <3>6
    <3>8. ASSUME NEW b \in 0 .. bit[c] PROVE b \in pm_bitmap[idx[c]]
      BY <1>1, <3>1, <3>5
    <3> QED
      BY <1>1, <2>1, <3>1, <3>7, <3>8, SMTT(30)
  <2>5. /\ idx[c] \in Words
        /\ \E b \in Bits : Page(idx[c], b) \notin held["boot"]
    BY <2>1 DEF PmInv, StaleButNotBoot
  <2> HIDE DEF n
  <2> QED
    BY <1>2, <2>1, <2>3, <2>4, <2>5, SearchKeepsPmInv
<1>8. CASE FoundBit(c)
  <2>1. pc[c] = "bit" /\ pc'[c] = "load" /\ UNCHANGED <<idx, bit, loaded>>
    BY <1>1, <1>8 DEF FoundBit, Goto, PmTypeOK
  <2>2. PmTypeOK'
    BY <1>1, <1>2, <1>8 DEF FoundBit, Goto, PmTypeOK
  <2>3. /\ idx[c] \in Words
        /\ \E b \in Bits : Page(idx[c], b) \notin held["boot"]
    BY <2>1 DEF PmInv, StaleButNotBoot
  <2>4. Page(idx[c], bit[c]) \notin held["boot"]
    BY <1>8, <2>3, ClearIsNotBoot DEF FoundBit
  <2>5. ASSUME ~raced PROVE bit'[c] \in Bits \ pm_bitmap[idx'[c]]
    <3>1. pm_bitmap[idx[c]] # Bits /\ 0 .. bit[c] - 1 \subseteq pm_bitmap[idx[c]]
      BY <2>1, <2>5 DEF PmInv, Alone
    <3>2. pm_bitmap[idx[c]] \in SUBSET Bits
      BY <1>1, <2>3 DEF PmTypeOK
    <3>3. bit[c] < WordBits
      BY <1>1, <3>1, <3>2, Unfilled, Zenon
    <3>4. bit[c] % WordBits = bit[c] /\ bit[c] \in Bits
      BY <1>1, <3>3 DEF Bits
    <3> QED
      BY <1>8, <2>1, <3>4 DEF FoundBit, Clear
  <2> QED
    BY <1>2, <2>1, <2>2, <2>3, <2>4, <2>5, SearchKeepsPmInv
<1>9. CASE Load(c)
  <2>1. /\ pc[c] = "load" /\ pc'[c] = "store" /\ UNCHANGED <<idx, bit>>
        /\ loaded'[c] = pm_bitmap[idx[c]]
        /\ \A d \in Loaders \ {c} : loaded'[d] = loaded[d]
    BY <1>1, <1>9 DEF Load, Goto, PmTypeOK
  <2>2. /\ idx[c] \in Words
        /\ \E b \in Bits : Page(idx[c], b) \notin held["boot"]
        /\ Page(idx[c], bit[c]) \notin held["boot"]
    BY <2>1, Zenon DEF PmInv, StaleButNotBoot
  <2>3. PmTypeOK'
    <3>1. pm_bitmap[idx[c]] \in SUBSET Bits
      BY <1>1, <2>2 DEF PmTypeOK
    <3> QED
      BY <1>1, <1>2, <1>9, <3>1 DEF Load, Goto, PmTypeOK
  <2>4. \A b \in Bits : Page(idx[c], b) \in held["boot"] => b \in loaded'[c]
    BY <2>1, <2>2, MarkedPage DEF PmInv, BootPrefix
  <2>5. ~raced => bit'[c] \in Bits \ pm_bitmap[idx'[c]] /\ loaded'[c] = pm_bitmap[idx'[c]]
    BY <2>1 DEF PmInv, Alone
  <2> QED
    BY <1>2, <2>1, <2>2, <2>3, <2>4, <2>5, SearchKeepsPmInv
<1> QED
  BY <1>3, <1>4, <1>5, <1>6, <1>7, <1>8, <1>9

(* The store writes back a word that may be stale: it has the bits of boot *)
(* and, when no calls overlapped, all those that are set.                  *)
LEMMA StoreKeepsPmInv == ASSUME PmInv, NEW c \in Loaders, Store(c) PROVE PmInv'
<1>1. /\ NWords \in Nat \ {0} /\ WordBits \in Nat \ {0}
      /\ PmTypeOK /\ idx[c] \in Words /\ bit[c] \in Nat
      /\ c \in Callers /\ "boot" \in Callers /\ c # "boot"
  BY PmAssumption DEF PmInv, PmTypeOK, StaleButNotBoot, Store, Return, Goto, Callers
<1>2. /\ ~booting /\ booting' = booting
      /\ raced' = (raced \/ \E d \in Loaders \ {c} : pc[d] # "out")
      /\ pc[c] = "store" /\ pc'[c] = "out" /\ bit'[c] = 0
      /\ \A d \in Loaders \ {c} :
           pc'[d] = pc[d] /\ idx'[d] = idx[d] /\ bit'[d] = bit[d] /\ loaded'[d] = loaded[d]
  BY <1>1 DEF Store, Return, Goto, PmTypeOK
<1>3. PICK b, p : b = bit[c] % WordBits /\ p = Page(idx[c], bit[c])
  OBVIOUS
<1>4. /\ pm_bitmap' = [pm_bitmap EXCEPT ![idx[c]] = loaded[c] \cup {b}]
      /\ held' = [held EXCEPT ![c] = @ \cup {p}]
  BY <1>3 DEF Store
<1>5. b \in Bits /\ p \in Nat /\ idx[c] \in Nat
  <2>1. idx[c] \in Nat
    BY <1>1 DEF Words
  <2>2. idx[c] * WordBits \in Nat
    BY <1>1, <2>1
  <2> QED
    BY <1>1, <1>3, <2>1, <2>2, PageSplit DEF Page
<1>6. PmTypeOK'
  <2>1. loaded[c] \cup {b} \in SUBSET Bits /\ held[c] \cup {p} \in SUBSET Nat
    BY <1>1, <1>5 DEF PmTypeOK
  <2>2. pm_bitmap' \in [Words -> SUBSET Bits] /\ held' \in [Callers -> SUBSET Nat]
    BY <1>1, <1>4, <2>1 DEF PmTypeOK
  <2>3. 0 \in 0 .. NWords /\ 0 \in Nat
    BY <1>1
  <2> QED
    BY <1>1, <1>2, <2>2, <2>3 DEF PmTypeOK, Store, Return, Goto
<1>7. held'["boot"] = held["boot"]
  BY <1>1, <1>4 DEF PmTypeOK
<1>8. p \notin held["boot"]
  BY <1>2, <1>3 DEF PmInv, StaleButNotBoot
<1>9. \A x \in held["boot"] : Marked(x)'
  <2> SUFFICES ASSUME NEW x \in held["boot"] PROVE Marked(x)'
    OBVIOUS
  <2>1. x \in Nat /\ Marked(x)
    BY <1>1 DEF PmInv, PmTypeOK, BootPrefix
  <2>2. x \div WordBits \in Words /\ x % WordBits \in pm_bitmap[x \div WordBits]
    BY <2>1 DEF Marked
  <2>3. x = Page(x \div WordBits, x % WordBits) /\ x % WordBits \in Bits
    BY <2>1, PageSplit
  <2>4. CASE x \div WordBits = idx[c]
    <3>1. x % WordBits \in loaded[c]
      BY <1>2, <2>3, <2>4 DEF PmInv, StaleButNotBoot
    <3> QED
      BY <1>1, <1>4, <2>2, <2>4, <3>1 DEF Marked, PmTypeOK
  <2>5. CASE x \div WordBits # idx[c]
    BY <1>1, <1>4, <2>2, <2>5 DEF Marked, PmTypeOK
  <2> QED
    BY <2>4, <2>5
<1>10. BootPrefix'
  BY <1>2, <1>7, <1>9 DEF PmInv, BootPrefix
<1>11. StaleButNotBoot'
  <2> SUFFICES ASSUME NEW d \in Loaders PROVE StaleButNotBoot!(d)'
    BY DEF StaleButNotBoot
  <2>1. held'[d] \cap held'["boot"] = {}
    <3>1. held'[d] \subseteq held[d] \cup {p}
      BY <1>1, <1>4 DEF PmTypeOK, Callers
    <3> QED
      BY <1>7, <1>8, <3>1 DEF PmInv, StaleButNotBoot
  <2>2. CASE d = c
    BY <1>2, <2>1, <2>2
  <2>3. CASE d # c
    BY <1>2, <1>7, <2>1, <2>3 DEF PmInv, StaleButNotBoot
  <2> QED
    BY <2>2, <2>3
<1>12. ASSUME ~raced'
       PROVE  SerialIsSafe' /\ Alone'
  <2>1. ~raced /\ \A d \in Loaders \ {c} : pc[d] = "out" /\ pc'[d] = "out"
    BY <1>2, <1>12, Zenon
  <2>2. Alone
    BY <2>1 DEF PmInv
  <2>3. bit[c] \in Bits \ pm_bitmap[idx[c]] /\ loaded[c] = pm_bitmap[idx[c]]
    BY <1>2, <2>2 DEF Alone
  <2>4. b = bit[c]
    BY <1>1, <1>3, <2>3 DEF Bits
  <2>5. ~Marked(p)
    BY <1>1, <1>3, <2>3, MarkedPage
  <2>6. Marked(p)'
    <3>1. p \div WordBits = idx[c] /\ p % WordBits = b
      BY <1>3, <1>5, <2>3, <2>4, WordOfPage
    <3>2. b \in pm_bitmap'[idx[c]]
      BY <1>1, <1>4 DEF PmTypeOK
    <3> QED
      BY <1>1, <3>1, <3>2 DEF Marked
  <2>7. \A x : Marked(x) => Marked(x)'
    BY <1>1, <1>4, <2>3 DEF Marked, PmTypeOK
  <2>8. /\ \A d \in Callers : \A x \in held[d] : Marked(x)
        /\ \A d, e \in Callers : d # e => held[d] \cap held[e] = {}
    BY <2>1 DEF PmInv, SerialIsSafe
  <2>9. held'[c] = held[c] \cup {p} /\ \A d \in Callers \ {c} : held'[d] = held[d]
    BY <1>1, <1>4 DEF PmTypeOK
  <2>10. \A d \in Callers : \A x \in held'[d] : Marked(x)'
    <3> SUFFICES ASSUME NEW d \in Callers, NEW x \in held'[d] PROVE Marked(x)'
      OBVIOUS
    <3>1. x = p \/ x \in held[d]
      BY <2>9
    <3> QED
      BY <2>6, <2>7, <2>8, <3>1
  <2>11. \A d \in Callers : p \notin held[d]
    BY <2>5, <2>8
  <2>12. \A d, e \in Callers : d # e => held'[d] \cap held'[e] = {}
    BY <2>8, <2>9, <2>11
  <2>13. SerialIsSafe'
    BY <2>10, <2>12 DEF SerialIsSafe
  <2>14. \A d \in Loaders \ {c} : bit'[d] = 0
    BY <1>2, <2>1, <2>2 DEF Alone
  <2> QED
    BY <1>2, <2>1, <2>13, <2>14 DEF Alone
<1>13. SerialIsSafe'
  BY <1>12 DEF SerialIsSafe
<1> QED
  BY <1>6, <1>10, <1>11, <1>12, <1>13 DEF PmInv

(* The invariant of the page allocator.                                    *)
LEMMA PmInvariance == Spec => []PmInv
<1>1. PmInv /\ [Next]_vars => PmInv'
  <2> SUFFICES ASSUME PmInv, [Next]_vars PROVE PmInv'
    OBVIOUS
  <2>1. CASE UNCHANGED vars
    BY <2>1, SMTT(30) DEF vars, PmInv, PmTypeOK, BootPrefix, StaleButNotBoot, SerialIsSafe, Alone, Marked
  <2>2. CASE Next
    BY <2>2, BootKeepsPmInv, BootDoneKeepsPmInv, SearchingKeepsPmInv, StoreKeepsPmInv
    DEF Next, pm_alloc
  <2> QED
    BY <2>1, <2>2
<1> QED
  BY <1>1, InitPmInv, PTL DEF Spec

(* The pages of boot are marked and boot's, in every state.                *)
THEOREM BootPagesSafe == Spec => []BootPagesKept
<1>1. PmInv => BootPagesKept
  BY DEF PmInv, BootPrefix, StaleButNotBoot, BootPagesKept
<1> QED
  BY <1>1, PmInvariance, PTL

(* As long as calls of pm_alloc do not overlap, pages have one owner.      *)
THEOREM SerialSafety == Spec => []SerialIsSafe
<1>1. PmInv => SerialIsSafe
  BY DEF PmInv
<1> QED
  BY <1>1, PmInvariance, PTL
=============================================================================
