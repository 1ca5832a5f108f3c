------------------------------- MODULE Stailq -------------------------------
(***************************************************************************)
(* The singly-linked tail queues of include/queue.h, which hold the        *)
(* packets of a process.                                                   *)
(*                                                                         *)
(* A pointer to a link is named by where the link lies: a head stands for  *)
(* &head->stqh_first, an element for &elm->stqe_next.                      *)
(***************************************************************************)
EXTENDS Naturals, Sequences, FiniteSets

CONSTANTS Heads, Elems, NULL

VARIABLES
  link,      \* stqh_first of a head, stqe_next of an element
  stqh_last  \* of a head: the link that an insertion at the tail writes

vars == <<link, stqh_last>>

STAILQ_FIRST(h) == link[h]
STAILQ_NEXT(e) == link[e]
STAILQ_EMPTY(h) == STAILQ_FIRST(h) = NULL

(* The elements that STAILQ_FOREACH visits, in order.                      *)
STAILQ_FOREACH(h) ==
  LET N == Cardinality(Elems)
      var[i \in 1 .. N + 1] ==
        LET before == IF i = 1 THEN h ELSE var[i - 1]
        IN IF before = NULL THEN NULL ELSE link[before]
  IN [i \in 1 .. Cardinality({i \in 1 .. N + 1 : var[i] # NULL}) |-> var[i]]

On(h, e) == \E i \in DOMAIN STAILQ_FOREACH(h) : STAILQ_FOREACH(h)[i] = e

(* STAILQ_INIT of every head.  The elements come from kalloc, which clears *)
(* nothing.                                                                *)
Init ==
  /\ \E old \in [Elems -> Elems \cup {NULL}] :
       link = [p \in Heads \cup Elems |-> IF p \in Heads THEN NULL ELSE old[p]]
  /\ stqh_last = [h \in Heads |-> h]

STAILQ_INSERT_TAIL(h, e) ==
  /\ link' = [link EXCEPT ![e] = NULL, ![stqh_last[h]] = e]
  /\ stqh_last' = [stqh_last EXCEPT ![h] = e]

STAILQ_INSERT_HEAD(h, e) ==
  /\ link' = [link EXCEPT ![e] = STAILQ_FIRST(h), ![h] = e]
  /\ stqh_last' = IF STAILQ_EMPTY(h) THEN [stqh_last EXCEPT ![h] = e] ELSE stqh_last

STAILQ_INSERT_AFTER(h, tqelm, e) ==
  /\ link' = [link EXCEPT ![e] = STAILQ_NEXT(tqelm), ![tqelm] = e]
  /\ stqh_last' = IF STAILQ_NEXT(tqelm) = NULL THEN [stqh_last EXCEPT ![h] = e] ELSE stqh_last

(* The element behind the link p of h is taken out, as STAILQ_REMOVE_HEAD  *)
(* and STAILQ_REMOVE_AFTER do.                                             *)
(* Mutant: stqh_last may stay in an element that is gone.                  *)
Unlink_stale(h, p) ==
  /\ link' = [link EXCEPT ![p] = STAILQ_NEXT(link[p])]
  /\ UNCHANGED stqh_last

Unlink(h, p) ==
  LET rest == STAILQ_NEXT(link[p])
  IN /\ link' = [link EXCEPT ![p] = rest]
     /\ stqh_last' = IF rest = NULL THEN [stqh_last EXCEPT ![h] = p] ELSE stqh_last

STAILQ_REMOVE_HEAD(h) == Unlink(h, h)

STAILQ_REMOVE_AFTER(h, e) == Unlink(h, e)

(* STAILQ_REMOVE looks for the element before e.                           *)
STAILQ_REMOVE(h, e) ==
  \/ STAILQ_FIRST(h) = e /\ STAILQ_REMOVE_HEAD(h)
  \/ \E curelm \in Elems :
       On(h, curelm) /\ STAILQ_NEXT(curelm) = e /\ STAILQ_REMOVE_AFTER(h, curelm)

STAILQ_CONCAT(g, h) ==
  /\ ~STAILQ_EMPTY(h)
  /\ link' = [link EXCEPT ![stqh_last[g]] = STAILQ_FIRST(h), ![h] = NULL]
  /\ stqh_last' = [stqh_last EXCEPT ![g] = stqh_last[h], ![h] = h]

STAILQ_SWAP(g, h) ==
  /\ link' = [link EXCEPT ![g] = STAILQ_FIRST(h), ![h] = STAILQ_FIRST(g)]
  /\ stqh_last' = [stqh_last EXCEPT
       ![g] = IF STAILQ_EMPTY(h) THEN g ELSE stqh_last[h],
       ![h] = IF STAILQ_EMPTY(g) THEN h ELSE stqh_last[g]]

-----------------------------------------------------------------------------
queues == INSTANCE Queues WITH q <- [h \in Heads |-> STAILQ_FOREACH(h)]

(* Through any sequence of operations the linked elements are the          *)
(* sequences that the queues stand for: none is lost, none is on two       *)
(* queues, and none follows itself.                                        *)
IsQueues == queues!Spec
=============================================================================
