------------------------------- MODULE Window -------------------------------
(***************************************************************************)
(* The windows 0xdead0000, 0xbabe0000 and 0xcafe0000 through which the     *)
(* system calls of Ipc reach the memory of another process, and the TLB.   *)
(*                                                                         *)
(* unmap_page clears the page table entry and does not flush the page, so  *)
(* a translation once used stays until proc_schedule_after_irq loads cr3,  *)
(* which it does only when it really switches processes.  Each process's   *)
(* buffers and its msg_packet are on one page of its stack, named by the   *)
(* process.  The model stops at the first access that goes astray: from    *)
(* there on the memory is not that of Ipc.                                 *)
(***************************************************************************)
EXTENDS ClientServer

VARIABLES
  tlb,    \* page that the processor translates a window to, NULL for none
  astray  \* an access through a window reached another page than it should

Windows == {"dead", "babe", "cafe"}
w_vars == <<cs_vars, tlb, astray>>

Page(buf) == buf[1]

(* Windows that the call the current process is about to make uses, and    *)
(* the pages it means to reach.                                            *)
SendAccess(q) ==
  LET r == proc_find_by_pid(q)
  IN IF r # NULL /\ state[r] = "RECV_BLOCKED"
     THEN [dead |-> Page(Head(recv_queue[r]).rbuf), babe |-> r]
     ELSE <<>>

RecvAccess ==
  IF recv_queue[current_proc] # <<>>
  THEN [babe |-> Page(Head(recv_queue[current_proc]).sbuf)]
  ELSE <<>>

RplyAccess ==
  IF recv_queue[current_proc] # <<>>
  THEN [cafe |-> Page(Head(recv_queue[current_proc]).rbuf)]
  ELSE <<>>

(* Mutant: a switch between processes keeps the translations.              *)
Translate_kept(access) ==
  /\ astray' = \E w \in DOMAIN access : tlb[w] \notin {NULL, access[w]}
  /\ tlb' = [w \in Windows |->
               IF w \in DOMAIN access /\ tlb[w] = NULL THEN access[w] ELSE tlb[w]]

(* The accesses of a step, and the flush when it switches processes.       *)
Translate(access) ==
  /\ astray' = \E w \in DOMAIN access : tlb[w] \notin {NULL, access[w]}
  /\ tlb' = [w \in Windows |->
               IF current_proc' # current_proc THEN NULL
               ELSE IF w \in DOMAIN access /\ tlb[w] = NULL THEN access[w]
               ELSE tlb[w]]

Astep(A, access) == ~astray /\ A /\ Translate(access)

WInit == CSInit /\ tlb = [w \in Windows |-> NULL] /\ astray = FALSE

WBoot == Astep((Boot \/ Timer) /\ UNCHANGED answering, <<>>)

WServe(s) ==
  Astep(Serve(s), IF s \in answering THEN RplyAccess ELSE RecvAccess)

WAsk(c) ==
  /\ current_proc = c
  /\ UNCHANGED answering
  /\ \E q \in Servers, m \in Data : Astep(syscall_send_msg(q, m), SendAccess(q))

(* Clients and servers, each of which does only its part: CSNext with the  *)
(* accesses of its calls.                                                  *)
WNext ==
  \/ WBoot
  \/ \E s \in Servers : WServe(s)
  \/ \E c \in Clients : WAsk(c)

WSpec == WInit /\ [][WNext]_w_vars /\ CSFairness

(* Every access through a window reaches the page that was mapped there    *)
(* for it, although unmap_page flushes nothing: between two uses of a      *)
(* window by the same process another process has run.                     *)
WindowsHit == ~astray
=============================================================================
