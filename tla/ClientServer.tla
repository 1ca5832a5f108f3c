---------------------------- MODULE ClientServer ----------------------------
(***************************************************************************)
(* Programs that keep to the protocol of ipc.h, over the kernel of Ipc: a  *)
(* client only calls ipc_send, a server alternates ipc_recv and ipc_reply, *)
(* as msg_dispatcher does.  Their system then implements Rpc.              *)
(***************************************************************************)
EXTENDS Ipc

CONSTANTS Clients, Servers, Answer

ASSUME ClientServerAssumption ==
  /\ Clients \cup Servers = (0 .. NCreated - 1) \ {1}
  /\ Clients \cap Servers = {}
  /\ Servers \subseteq Receivers
  /\ Answer \in [Data -> Data]

VARIABLE answering \* servers that have come back from ipc_recv

(* while (1){ sender = ipc_recv(&msg, ...); ... ipc_reply(sender, ...); }  *)
Serve(s) ==
  /\ current_proc = s
  /\ IF s \in answering
     THEN /\ syscall_rply_msg(Answer[mem[recv_buf(s)]])
          /\ answering' = answering \ {s}
     ELSE /\ syscall_recv_msg
          /\ answering' = answering \cup {s}

(* ipc_send to some server, with some message.                             *)
Ask(c) ==
  /\ current_proc = c
  /\ \E s \in Servers, m \in Data : syscall_send_msg(s, m)
  /\ UNCHANGED answering

CSInit == Init /\ answering = {}

CSNext ==
  \/ (Boot \/ Timer) /\ UNCHANGED answering
  \/ \E s \in Servers : Serve(s)
  \/ \E c \in Clients : Ask(c)

cs_vars == <<vars, answering>>

(* A program that keeps getting the CPU goes on: a tick of the timer can   *)
(* delay it, but not in every quantum.                                     *)
CSFairness ==
  /\ WF_cs_vars(Timer /\ UNCHANGED answering)
  /\ WF_cs_vars(Boot /\ UNCHANGED answering)
  /\ \A s \in Servers : SF_cs_vars(Serve(s))

CSSpec == CSInit /\ [][CSNext]_cs_vars /\ CSFairness

-----------------------------------------------------------------------------
(* The packets queued for s, without its own placeholder, which is at the  *)
(* head when it is there.                                                  *)
Requests(s) ==
  LET queue == recv_queue[s]
  IN IF queue # <<>> /\ IsPlaceholder(Head(queue)) THEN Tail(queue) ELSE queue

(* The calls of Rpc: from whom, and what the sender's buffer holds.        *)
Calls(s) ==
  LET queue == Requests(s)
  IN [i \in 1 .. Len(queue) |->
        [client |-> proc_find_by_pid(queue[i].sender), message |-> mem[queue[i].sbuf]]]

rpc == INSTANCE Rpc WITH pending <- [s \in Servers |-> Calls(s)],
                         answer <- [c \in Clients |-> mem[recv_buf(c)]]

(* syscall_send_msg, syscall_recv_msg and syscall_rply_msg implement calls *)
(* with answers: no message is lost, doubled, overwritten or overtaken,    *)
(* whether it is copied by the sender (the receiver waits) or by the       *)
(* receiver (it does not), and the answer reaches the caller.              *)
RpcSpec == rpc!Spec

(* Every call is answered in the end.                                      *)
CallReturns ==
  \A c \in Clients : state[c] \in SenderBlocked ~> state[c] = "READY"
=============================================================================
