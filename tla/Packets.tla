------------------------------- MODULE Packets -------------------------------
(***************************************************************************)
(* Packets on queues: blocks of the kernel heap (Heap) that are linked     *)
(* through their own memory (Stailq).                                      *)
(*                                                                         *)
(* The system calls allocate a packet and insert it at the tail of a       *)
(* queue, and unlink the head and free it.  The other operations of        *)
(* queue.h are let loose on the queues as well.                            *)
(***************************************************************************)
EXTENDS Heap

CONSTANTS Heads, NULL

VARIABLES link, stqh_last

(* Where packets lie when they are cut off one after the other.            *)
Elems == {Header + n * (Header + Packet) : n \in 0 .. MaxLive - 1}

q == INSTANCE Stailq

list_vars == <<link, stqh_last>>

PInit == heap_init /\ q!Init

(* kalloc a packet and insert it somewhere.                                *)
Insert(h, i) ==
  /\ kalloc(i, Packet)
  /\ \/ q!STAILQ_INSERT_TAIL(h, Address(i))
     \/ q!STAILQ_INSERT_HEAD(h, Address(i))
     \/ \E t \in Elems : q!On(h, t) /\ q!STAILQ_INSERT_AFTER(h, t, Address(i))

Release(e) == kfree([addr |-> e, bytes |-> Packet])

(* Mutant: the packet is freed and stays linked.                           *)
RemoveFirst_linked(h) ==
  /\ ~q!STAILQ_EMPTY(h)
  /\ Release(q!STAILQ_FIRST(h))
  /\ UNCHANGED list_vars

(* The end of syscall_rply_msg: unlink the packet at the head and free it. *)
RemoveFirst(h) ==
  /\ ~q!STAILQ_EMPTY(h)
  /\ Release(q!STAILQ_FIRST(h))
  /\ q!STAILQ_REMOVE_HEAD(h)

RemoveOther(h, e) ==
  /\ q!On(h, e)
  /\ \/ q!STAILQ_REMOVE(h, e) /\ Release(e)
     \/ /\ q!STAILQ_NEXT(e) # NULL
        /\ q!STAILQ_REMOVE_AFTER(h, e)
        /\ Release(q!STAILQ_NEXT(e))

Move(g, h) ==
  /\ g # h
  /\ q!STAILQ_CONCAT(g, h) \/ q!STAILQ_SWAP(g, h)
  /\ UNCHANGED heap_vars

PNext ==
  \/ \E h \in Heads, i \in 1 .. Len(blocks) : Insert(h, i)
  \/ \E h \in Heads : RemoveFirst(h)
  \/ \E h \in Heads, e \in Elems : RemoveOther(h, e)
  \/ \E g, h \in Heads : Move(g, h)

PSpec == PInit /\ [][PNext]_<<heap_vars, list_vars>>

-----------------------------------------------------------------------------
(* The packets in use are those on the queues: what is freed is on none of *)
(* them, and what is on none of them is freed, through any sequence of     *)
(* calls.                                                                  *)
LiveIsQueued ==
  {a.addr : a \in live} = {e \in Elems : \E h \in Heads : q!On(h, e)}

(* Through any sequence of operations the linked packets are the sequences *)
(* that the queues stand for, also when kalloc hands out a block again,    *)
(* which still has its old link: none is lost, none is on two queues, and  *)
(* none follows itself.                                                    *)
IsQueues == q!IsQueues
==============================================================================
