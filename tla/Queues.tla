------------------------------- MODULE Queues -------------------------------
(***************************************************************************)
(* What the tail queues of include/queue.h promise: every head stands for  *)
(* a sequence of elements, and an element is on one queue at most.         *)
(***************************************************************************)
EXTENDS Naturals, Sequences

CONSTANTS Heads, Elems

VARIABLE q \* the sequence of each head

Contains(s, e) == \E i \in DOMAIN s : s[i] = e
Free(e) == \A h \in Heads : ~Contains(q[h], e)
Becomes(h, s) == q' = [q EXCEPT ![h] = s]

Init == q = [h \in Heads |-> <<>>]

Next ==
  \/ \E h \in Heads, e \in Elems :
       \/ Free(e) /\ Becomes(h, <<e>> \o q[h])
       \/ Free(e) /\ Becomes(h, Append(q[h], e))
       \/ Contains(q[h], e) /\ Becomes(h, SelectSeq(q[h], LAMBDA x : x # e))
       \/ \E i \in DOMAIN q[h] :
            Free(e) /\ Becomes(h, SubSeq(q[h], 1, i) \o <<e>> \o SubSeq(q[h], i + 1, Len(q[h])))
  \/ \E g, h \in Heads : g # h /\ q' = [q EXCEPT ![g] = q[g] \o q[h], ![h] = <<>>]
  \/ \E g, h \in Heads : q' = [q EXCEPT ![g] = q[h], ![h] = q[g]]

Spec == Init /\ [][Next]_q
=============================================================================
