--------------------------------- MODULE Rpc ---------------------------------
(***************************************************************************)
(* What ipc.h promises to programs that keep to its protocol: a client     *)
(* calls ipc_send and gets the answer to its own message; a server answers *)
(* the calls made to it one at a time, in the order in which they came.    *)
(***************************************************************************)
EXTENDS Sequences, Integers

CONSTANTS Clients, Servers, Data,
          Answer  \* what a server computes from a message

VARIABLES
  pending, \* the calls made to each server, not yet answered
  answer   \* what each client's answer buffer holds

Waiting(c) ==
  \E s \in Servers : \E i \in 1 .. Len(pending[s]) : pending[s][i].client = c

Init ==
  /\ pending = [s \in Servers |-> <<>>]
  /\ answer \in [Clients -> Data]

(* ipc_send(s, m, ...) by c.                                               *)
Call(c, s, m) ==
  /\ ~Waiting(c)
  /\ pending' = [pending EXCEPT ![s] = Append(@, [client |-> c, message |-> m])]
  /\ UNCHANGED answer

(* s answers the call it has had longest.                                  *)
Reply(s) ==
  LET call == Head(pending[s])
  IN /\ pending[s] # <<>>
     /\ answer' = [answer EXCEPT ![call.client] = Answer[call.message]]
     /\ pending' = [pending EXCEPT ![s] = Tail(@)]

Next ==
  \/ \E c \in Clients, s \in Servers, m \in Data : Call(c, s, m)
  \/ \E s \in Servers : Reply(s)

Spec == Init /\ [][Next]_<<pending, answer>>
=============================================================================
