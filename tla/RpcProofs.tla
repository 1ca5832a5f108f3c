------------------------------ MODULE RpcProofs ------------------------------
(***************************************************************************)
(* For every number of clients and servers: the windows reach the pages    *)
(* they are mapped to, and the system calls implement Rpc.                 *)
(***************************************************************************)
EXTENDS Window, RpcInv

(* A translation outlives a call only when a server that has come back     *)
(* from ipc_recv runs on.                                                  *)
TlbInv ==
  /\ tlb \in [Windows -> Int]
  /\ tlb["dead"] = NULL
  /\ tlb["cafe"] = NULL
  /\ tlb["babe"] # NULL => current_proc \in answering

(* A process that blocks itself is switched away from.                     *)
LEMMA BlockSwitches ==
  ASSUME IInv', booted', state'[current_proc] \in Blocked
  PROVE  current_proc' # current_proc
  BY DEF IInv, RunningIsRunnable, Blocked, SenderBlocked

(* The client that ipc_reply wakes, or another process, is nearer to the   *)
(* cursor than the server itself, which was chosen last.                   *)
LEMMA ReplySwitches ==
  ASSUME CSInv, IInv', NEW s \in Servers, current_proc = s, s \in answering, NEW m \in Data,
         syscall_rply_msg(m)
  PROVE  current_proc' # s
<1>1. PICK c : c = recv_queue[s][1].sender
  OBVIOUS
<1>2. /\ Scheduled /\ booted /\ IsRequest(recv_queue[s][1], state)
      /\ state' = [state EXCEPT ![c] = "READY", ![s] = "READY"]
  BY <1>1, RplyEffect
<1>3. /\ c \in Slots /\ s \in Slots /\ c # s /\ idle = 1 /\ c # 1 /\ s # 1
      /\ state \in [Slots -> ProcState]
  BY <1>1, <1>2, Programs, ProgramCaller, ZenonT(40)
  DEF IsRequest, CSInv, IInv, TypeOK, ProcTypeOK
<1>4. Picks /\ booted' /\ idle' = idle /\ state'[c] = "READY"
  BY <1>2, <1>3 DEF Scheduled, Quiet, Picks, CSInv, SchedInv
<1>5. Next
  BY DEF Next, Syscall
<1> SUFFICES ASSUME current_proc' = s PROVE FALSE
  OBVIOUS
<1>6. Waits(c)'
  BY <1>3, <1>4 DEF Waits
<1>7. Distance(s) < Distance(c)
  BY <1>2, <1>3, <1>4, <1>5, <1>6, NearestChosen DEF CSInv
<1>8. cursor = s + 1
  BY <1>2, <1>3 DEF CSInv, SchedInv
<1> QED
  BY <1>3, <1>7, <1>8, ProcAssumption DEF Distance, Slots

(* The translations of each step, and that its accesses find none of       *)
(* another page.                                                           *)
LEMMA NextKeepsTlbInv ==
  ASSUME CSInv, CSInv', TlbInv, ~astray, WNext
  PROVE  TlbInv' /\ ~astray'
<1>1. ASSUME NEW access, Translate(access),
             \A w \in DOMAIN access : tlb[w] = NULL,
             current_proc' # current_proc \/ DOMAIN access = {},
             answering' = answering \/ current_proc' # current_proc
      PROVE  TlbInv' /\ ~astray'
  BY <1>1 DEF Translate, TlbInv, Windows, NULL
<1>2. CASE WBoot
  <2>1. answering' = answering /\ Translate(<<>>)
    BY <1>2 DEF WBoot, Astep
  <2> QED
    BY <1>1, <2>1
<1>3. ASSUME NEW s \in Servers, WServe(s), s \in answering
      PROVE  TlbInv' /\ ~astray'
  <2>1. Serve(s) /\ Translate(RplyAccess) /\ current_proc = s
    BY <1>3 DEF WServe, Astep, Serve
  <2>2. DOMAIN RplyAccess \subseteq {"cafe"}
    BY DEF RplyAccess
  <2>3. Answer[mem[recv_buf(s)]] \in Data /\ syscall_rply_msg(Answer[mem[recv_buf(s)]])
    <3>1. mem[recv_buf(s)] \in Data
      BY Programs, Buffers DEF CSInv, IInv, TypeOK
    <3> QED
      BY <1>3, <2>1, <3>1, ClientServerAssumption DEF Serve
  <2>4. current_proc' # current_proc
    BY <1>3, <2>1, <2>3, ReplySwitches DEF CSInv
  <2>5. \A w \in DOMAIN RplyAccess : tlb[w] = NULL
    BY <2>2 DEF TlbInv
  <2> QED
    BY <1>1, <2>1, <2>4, <2>5
<1>4. ASSUME NEW s \in Servers, WServe(s), s \notin answering
      PROVE  TlbInv' /\ ~astray'
  <2>1. /\ Serve(s) /\ Translate(RecvAccess) /\ current_proc = s
        /\ syscall_recv_msg /\ answering' = answering \cup {s}
    BY <1>4 DEF WServe, Astep, Serve
  <2>2. tlb["babe"] = NULL
    BY <1>4, <2>1 DEF TlbInv
  <2>3. s \in Slots /\ booted' /\ state \in [Slots -> ProcState]
    BY <1>4, <2>1, Programs, RecvEffect, Zenon
       DEF Scheduled, Quiet, CSInv, IInv, TypeOK, ProcTypeOK
  <2>4. CASE recv_queue[s] = <<>>
    <3>1. DOMAIN RecvAccess = {} /\ \A w \in DOMAIN RecvAccess : tlb[w] = NULL
      BY <2>1, <2>4 DEF RecvAccess
    <3>2. state'[s] = "RECV_BLOCKED"
      BY <1>4, <2>1, <2>3, <2>4, RecvEffect
    <3>3. current_proc' # current_proc
      BY <2>1, <2>3, <3>2, BlockSwitches DEF CSInv, Blocked
    <3> QED
      BY <1>1, <2>1, <3>1, <3>3
  <2>5. CASE recv_queue[s] # <<>>
    <3>1. PICK n : n = Page(Head(recv_queue[s]).sbuf)
      OBVIOUS
    <3>2. RecvAccess = [babe |-> n]
      BY <2>1, <2>5, <3>1 DEF RecvAccess
    <3>3. n \in Int
      <4>1. /\ Head(recv_queue[s]) = recv_queue[s][1] /\ 1 \in 1 .. Len(recv_queue[s])
        BY <2>3, <2>5 DEF CSInv, IInv, TypeOK
      <4>2. ~IsPlaceholder(recv_queue[s][1])
        <5>1. booted /\ state[s] # "RECV_BLOCKED"
          BY <1>4, <2>1, RecvEffect DEF CSInv, ServerInv
        <5> QED
          BY <4>1, <5>1 DEF CSInv, ServerInv
      <4>3. IsRequest(recv_queue[s][1], state)
        BY <2>3, <4>1, <4>2 DEF CSInv, RequestInv
      <4>4. n \in Slots
        <5>1. PICK d \in Clients : recv_queue[s][1].sbuf = send_buf(d)
          BY <4>3 DEF IsRequest
        <5>2. n = d
          BY <3>1, <4>1, <5>1 DEF Page, send_buf
        <5> QED
          BY <5>2, Programs
      <4> QED
        BY <4>4 DEF Slots
    <3>4. /\ ~astray'
          /\ tlb' = [w \in Windows |->
                       IF current_proc' # current_proc THEN NULL
                       ELSE IF w = "babe" THEN n
                       ELSE tlb[w]]
      BY <2>1, <2>2, <3>2 DEF Translate
    <3> QED
      BY <2>1, <3>3, <3>4 DEF TlbInv, Windows, NULL
  <2> QED
    BY <2>4, <2>5
<1>5. ASSUME NEW c \in Clients, WAsk(c)
      PROVE  TlbInv' /\ ~astray'
  <2>1. /\ current_proc = c /\ UNCHANGED answering
    BY <1>5 DEF WAsk
  <2>2. PICK q \in Servers, m \in Data : syscall_send_msg(q, m) /\ Translate(SendAccess(q))
    BY <1>5 DEF WAsk, Astep
  <2>3. \A w \in Windows : tlb[w] = NULL
    BY <2>1, Programs DEF TlbInv, Windows, CSInv
  <2>4. DOMAIN SendAccess(q) \subseteq Windows
    BY DEF SendAccess, Windows
  <2>5. booted' /\ state'[c] \in Blocked
    <3>1. c \in Slots /\ q \in Slots /\ c # q /\ state \in [Slots -> ProcState]
      BY Programs, Zenon DEF CSInv, IInv, TypeOK, ProcTypeOK
    <3> QED
      BY <2>1, <2>2, <3>1, AskEffect DEF Scheduled, Quiet, Blocked, SenderBlocked
  <2>6. current_proc' # current_proc
    BY <2>1, <2>5, BlockSwitches DEF CSInv
  <2> QED
    BY <1>1, <2>1, <2>2, <2>3, <2>4, <2>6
<1> QED
  BY <1>2, <1>3, <1>4, <1>5, Zenon DEF WNext

(* WNext is CSNext with the accesses of its calls.                         *)
LEMMA WindowSteps == WNext => CSNext
<1>1. WBoot => CSNext
  BY DEF WBoot, Astep, CSNext
<1>2. \A s \in Servers : WServe(s) => CSNext
  BY DEF WServe, Astep, CSNext
<1>3. \A c \in Clients : WAsk(c) => CSNext
  BY DEF WAsk, Astep, CSNext, Ask
<1> QED
  BY <1>1, <1>2, <1>3 DEF WNext

(* Every access through a window reaches the page mapped there for it.     *)
THEOREM WindowsSafe == WSpec => []WindowsHit
<1>1. WInit => CSInv /\ TlbInv /\ ~astray
  BY InitCSInv DEF WInit, TlbInv, Windows, NULL
<1>2. CSInv /\ TlbInv /\ ~astray /\ [WNext]_w_vars => (CSInv /\ TlbInv /\ ~astray)'
  <2> SUFFICES ASSUME CSInv, TlbInv, ~astray, [WNext]_w_vars
               PROVE  (CSInv /\ TlbInv /\ ~astray)'
    OBVIOUS
  <2>1. CSInv'
    BY WindowSteps, NextKeepsCSInv DEF w_vars
  <2>2. CASE WNext
    BY <2>1, <2>2, NextKeepsTlbInv
  <2>3. CASE UNCHANGED w_vars
    BY <2>1, <2>3 DEF TlbInv, w_vars, cs_vars, vars, proc_vars
  <2> QED
    BY <2>2, <2>3
<1>3. ~astray => WindowsHit
  BY DEF WindowsHit
<1> QED
  BY <1>1, <1>2, <1>3, PTL DEF WSpec

-----------------------------------------------------------------------------
(* The refinement of Rpc.                                                  *)

(* The calls that a queue of requests stands for, with the buffers m.      *)
CallsIn(queue, m) ==
  [i \in 1 .. Len(queue) |-> [client |-> queue[i].sender, message |-> m[queue[i].sbuf]]]

(* A queue of Rpc is the queue of a server, but for the placeholder of one *)
(* that waits.                                                             *)
LEMMA CallsQueued ==
  CSInv => \A s \in Servers :
             Calls(s) = IF state[s] = "RECV_BLOCKED" THEN <<>> ELSE CallsIn(recv_queue[s], mem)
<1> SUFFICES ASSUME CSInv, NEW s \in Servers
             PROVE  Calls(s) = IF state[s] = "RECV_BLOCKED" THEN <<>>
                               ELSE CallsIn(recv_queue[s], mem)
  OBVIOUS
<1>1. s \in Slots /\ recv_queue[s] \in Seq(Packet)
  BY Programs DEF CSInv, IInv, TypeOK
<1>2. CASE state[s] = "RECV_BLOCKED"
  <2>1. /\ Len(recv_queue[s]) = 1 /\ IsPlaceholder(recv_queue[s][1])
    BY <1>1, <1>2 DEF CSInv, IInv, ReceiverHasPlaceholder
  <2>2. /\ Head(recv_queue[s]) = recv_queue[s][1] /\ recv_queue[s] # <<>>
        /\ Len(Tail(recv_queue[s])) = 0
    BY <1>1, <2>1
  <2>3. Requests(s) = Tail(recv_queue[s])
    BY <2>1, <2>2 DEF Requests
  <2>4. Len(Requests(s)) = 0
    BY <2>2, <2>3
  <2>5. Calls(s) = <<>>
    BY <2>4 DEF Calls
  <2> QED
    BY <1>2, <2>5
<1>3. CASE state[s] # "RECV_BLOCKED"
  <2>1. \A i \in 1 .. Len(recv_queue[s]) : ~IsPlaceholder(recv_queue[s][i])
    BY <1>3 DEF CSInv, ServerInv
  <2>2. Requests(s) = recv_queue[s]
    <3>1. recv_queue[s] # <<>> =>
            1 \in 1 .. Len(recv_queue[s]) /\ Head(recv_queue[s]) = recv_queue[s][1]
      BY <1>1
    <3> QED
      BY <2>1, <3>1 DEF Requests
  <2>3. \A i \in 1 .. Len(recv_queue[s]) :
          proc_find_by_pid(recv_queue[s][i].sender) = recv_queue[s][i].sender
    <3> SUFFICES ASSUME NEW i \in 1 .. Len(recv_queue[s])
                 PROVE  proc_find_by_pid(recv_queue[s][i].sender) = recv_queue[s][i].sender
      OBVIOUS
    <3>1. booted
      <4>1. recv_queue[s] # <<>>
        BY <1>1
      <4> QED
        BY <1>1, <4>1 DEF CSInv, IInv, BootInv
    <3>2. recv_queue[s][i].sender \in 0 .. NCreated - 1
      BY <1>1 DEF CSInv, IInv, SendersExist, HasSender
    <3> QED
      BY <3>1, <3>2, ProgramCaller
  <2>4. Calls(s) = CallsIn(recv_queue[s], mem)
    BY <2>2, <2>3 DEF Calls, CallsIn
  <2> QED
    BY <1>3, <2>4
<1> QED
  BY <1>2, <1>3

(* The same after a step.                                                  *)
LEMMA CallsQueuedNext ==
  CSInv' => \A s \in Servers :
              Calls(s)' = IF state'[s] = "RECV_BLOCKED" THEN <<>>
                          ELSE CallsIn(recv_queue'[s], mem')
<1>1. (CSInv => \A s \in Servers :
             Calls(s) = IF state[s] = "RECV_BLOCKED" THEN <<>> ELSE CallsIn(recv_queue[s], mem))'
  BY CallsQueued, PTL
<1> QED
  BY <1>1

(* Append adds one element behind the others.                              *)
LEMMA AppendAsFunction ==
  ASSUME NEW V, NEW a \in Seq(V), NEW e \in V
  PROVE  Append(a, e) = [i \in 1 .. Len(a) + 1 |-> IF i = Len(a) + 1 THEN e ELSE a[i]]
<1>1. PICK b : b = Append(a, e)
  BY Zenon
<1>2. /\ b \in Seq(V) /\ Len(b) = Len(a) + 1 /\ Len(a) \in Nat
      /\ \A i \in 1 .. Len(a) : b[i] = a[i]
      /\ b[Len(a) + 1] = e
  BY <1>1, AppendProperties, LenProperties
<1>3. b \in [1 .. Len(a) + 1 -> V]
  BY <1>2, LenProperties
<1>4. \A i \in 1 .. Len(a) + 1 : b[i] = IF i = Len(a) + 1 THEN e ELSE a[i]
  BY <1>2
<1> QED
  BY <1>1, <1>3, <1>4, Zenon

(* Tail takes every element one place forward.                             *)
LEMMA TailAsFunction ==
  ASSUME NEW V, NEW a \in Seq(V), a # <<>>
  PROVE  Tail(a) = [i \in 1 .. Len(a) - 1 |-> a[i + 1]]
<1>1. PICK b : b = Tail(a)
  BY Zenon
<1>2. /\ b \in Seq(V) /\ Len(b) = Len(a) - 1
      /\ \A i \in 1 .. Len(b) : b[i] = a[i + 1]
  BY <1>1, HeadTailProperties
<1>3. b \in [1 .. Len(a) - 1 -> V]
  BY <1>2, LenProperties
<1> QED
  BY <1>1, <1>2, <1>3, Zenon

(* A packet queued is a call more.                                         *)
LEMMA CallsInAppend ==
  ASSUME NEW queue \in Seq(Packet), NEW p \in Packet, NEW m
  PROVE  CallsIn(Append(queue, p), m) =
           Append(CallsIn(queue, m), [client |-> p.sender, message |-> m[p.sbuf]])
<1>1. PICK n : n = Len(queue)
  OBVIOUS
<1>2. /\ n \in Nat /\ Len(Append(queue, p)) = n + 1 /\ Append(queue, p)[n + 1] = p
      /\ \A i \in 1 .. n : Append(queue, p)[i] = queue[i]
  BY <1>1
<1> DEFINE a == CallsIn(queue, m)
           b == CallsIn(Append(queue, p), m)
           e == [client |-> p.sender, message |-> m[p.sbuf]]
           V == {a[i] : i \in 1 .. n} \cup {e}
<1>3. a \in [1 .. n -> V]
  BY <1>1 DEF CallsIn
<1>4. a \in Seq(V) /\ Len(a) = n /\ e \in V
  <2> HIDE DEF V, a, e
  <2>1. a \in Seq(V)
    BY <1>2, <1>3, IsASeq
  <2>2. Len(a) = n
    BY <1>2, <1>3, <2>1, LenProperties
  <2> QED
    BY <2>1, <2>2 DEF V
<1>5. /\ b = [i \in 1 .. n + 1 |-> IF i = n + 1 THEN e ELSE a[i]]
  BY <1>1, <1>2 DEF CallsIn
<1>6. /\ Append(a, e) = [i \in 1 .. n + 1 |-> IF i = n + 1 THEN e ELSE a[i]]
  <2> HIDE DEF V, a, e, b
  <2> QED
    BY <1>4, AppendAsFunction
<1> QED
  BY <1>5, <1>6

(* A packet taken is the first call less.                                  *)
LEMMA CallsInTail ==
  ASSUME NEW queue \in Seq(Packet), queue # <<>>, NEW m
  PROVE  /\ CallsIn(queue, m) # <<>>
         /\ Head(CallsIn(queue, m)) = [client |-> queue[1].sender, message |-> m[queue[1].sbuf]]
         /\ CallsIn(Tail(queue), m) = Tail(CallsIn(queue, m))
<1>1. PICK n : n = Len(queue)
  OBVIOUS
<1>2. /\ n \in Nat /\ n >= 1 /\ Len(Tail(queue)) = n - 1
      /\ \A i \in 1 .. n - 1 : Tail(queue)[i] = queue[i + 1]
  BY <1>1
<1> DEFINE a == CallsIn(queue, m)
           V == {a[i] : i \in 1 .. n}
<1>3. a \in [1 .. n -> V]
  BY <1>1 DEF CallsIn
<1>4. a \in Seq(V) /\ Len(a) = n
  <2> HIDE DEF V, a
  <2>1. a \in Seq(V)
    BY <1>2, <1>3, IsASeq
  <2>2. Len(a) = n
    BY <1>2, <1>3, <2>1, LenProperties
  <2> QED
    BY <2>1, <2>2
<1>5. a[1] = [client |-> queue[1].sender, message |-> m[queue[1].sbuf]]
  BY <1>1, <1>2 DEF CallsIn
<1>6. CallsIn(Tail(queue), m) = [i \in 1 .. n - 1 |-> a[i + 1]]
  BY <1>1, <1>2 DEF CallsIn
<1>7. a # <<>> /\ Head(a) = a[1] /\ Tail(a) = [i \in 1 .. n - 1 |-> a[i + 1]]
  <2> HIDE DEF V, a
  <2>1. a # <<>> /\ Head(a) = a[1]
    BY <1>2, <1>4
  <2> QED
    BY <1>4, <2>1, TailAsFunction
<1> QED
  BY <1>5, <1>6, <1>7, Zenon

(* Buffers that nothing queued refers to do not matter.                    *)
LEMMA CallsInSame ==
  ASSUME NEW queue, NEW m, NEW n, \A i \in 1 .. Len(queue) : m[queue[i].sbuf] = n[queue[i].sbuf]
  PROVE  CallsIn(queue, m) = CallsIn(queue, n)
  BY DEF CallsIn

-----------------------------------------------------------------------------
(* What the refinement mapping gives the variables of Rpc.                 *)
Pending == [s \in Servers |-> Calls(s)]
Answers == [c \in Clients |-> mem[recv_buf(c)]]

(* The calls of a server whose queue and whose senders' buffers a step     *)
(* leaves alone.                                                           *)
LEMMA CallsKept ==
  ASSUME CSInv, CSInv', NEW s \in Servers, recv_queue'[s] = recv_queue[s],
         state'[s] = "RECV_BLOCKED" <=> state[s] = "RECV_BLOCKED",
         \A p \in Packet : IsRequest(p, state) => mem'[p.sbuf] = mem[p.sbuf]
  PROVE  Calls(s)' = Calls(s)
<1>1. CASE state[s] = "RECV_BLOCKED"
  BY <1>1, CallsQueued, CallsQueuedNext
<1>2. CASE state[s] # "RECV_BLOCKED"
  <2>1. ASSUME NEW i \in 1 .. Len(recv_queue[s])
        PROVE  mem'[recv_queue[s][i].sbuf] = mem[recv_queue[s][i].sbuf]
    <3>1. s \in Slots /\ recv_queue[s] \in Seq(Packet)
      BY Programs DEF CSInv, IInv, TypeOK
    <3>2. recv_queue[s][i] \in Packet
      BY <3>1
    <3>3. IsRequest(recv_queue[s][i], state)
      BY <1>2, <3>1 DEF CSInv, ServerInv, RequestInv
    <3> QED
      BY <3>2, <3>3
  <2>2. CallsIn(recv_queue[s], mem') = CallsIn(recv_queue[s], mem)
    BY <2>1, CallsInSame
  <2> QED
    BY <1>2, <2>2, CallsQueued, CallsQueuedNext
<1> QED
  BY <1>1, <1>2

(* Boot and the timer are no step of Rpc.                                  *)
LEMMA BootImplementsRpc ==
  ASSUME CSInv, CSInv', Boot \/ Timer PROVE UNCHANGED <<Pending, Answers>>
<1>1. /\ recv_queue' = recv_queue /\ mem' = mem
  BY DEF Boot, Timer, ipc_vars
<1>2. \A s \in Servers : state'[s] = "RECV_BLOCKED" <=> state[s] = "RECV_BLOCKED"
  <2>1. CASE Boot
    <3>1. ~booted \/ next_pid < NCreated
      BY <2>1 DEF Boot, Create, proc_kickoff_first_process
    <3>2. ~booted
      BY <3>1, ProcAssumption DEF CSInv, IInv, BootInv, NCreated
    <3>3. \A s \in Slots : state[s] \in {"UNUSED", "READY"} /\ recv_queue[s] = <<>>
      BY <3>2 DEF CSInv, IInv, BootInv
    <3>4. \A s \in Servers : state'[s] # "RECV_BLOCKED"
      <4>1. \A s \in Servers : Len(recv_queue'[s]) = 0
        BY <1>1, <3>3, Programs
      <4>2. ReceiverHasPlaceholder'
        BY DEF CSInv, IInv
      <4>3. \A s \in Slots : state'[s] = "RECV_BLOCKED" => Len(recv_queue'[s]) = 1
        BY <4>2 DEF ReceiverHasPlaceholder
      <4> QED
        BY <4>1, <4>3, Programs
    <3> QED
      BY <3>3, <3>4, Programs
  <2>2. CASE Timer
    <3>1. state' = [state EXCEPT ![current_proc] = "READY"] /\ booted
      BY <2>2, TimerEffect DEF Timer, timer_handler
    <3>2. state[current_proc] # "RECV_BLOCKED" /\ state \in [Slots -> ProcState]
      BY <3>1, ProgramCaller, Zenon DEF CSInv, IInv, TypeOK, ProcTypeOK
    <3> QED
      BY <3>1, <3>2, Programs
  <2> QED
    BY <2>1, <2>2
<1>3. \A s \in Servers : Calls(s)' = Calls(s)
  BY <1>1, <1>2, CallsKept
<1> QED
  BY <1>1, <1>3 DEF Pending, Answers

(* Nor is ipc_recv, which copies the message or leaves a placeholder.      *)
LEMMA RecvImplementsRpc ==
  ASSUME CSInv, CSInv', NEW s \in Servers, current_proc = s, s \notin answering,
         syscall_recv_msg
  PROVE  UNCHANGED <<Pending, Answers>>
<1>1. /\ s \in Slots /\ recv_buf(s) \in Buf /\ recv_queue[s] \in Seq(Packet)
      /\ state \in [Slots -> ProcState] /\ mem \in [Buf -> Data]
      /\ recv_queue \in [Slots -> Seq(Packet)]
  BY Programs, Buffers, Zenon DEF CSInv, IInv, TypeOK, ProcTypeOK
<1>2. state[s] # "RECV_BLOCKED"
  BY DEF CSInv, ServerInv
<1>3. /\ \A t \in Slots \ {s} : recv_queue'[t] = recv_queue[t] /\ state'[t] = state[t]
      /\ \A b \in Buf \ {recv_buf(s)} : mem'[b] = mem[b]
  BY <1>1, RecvEffect
<1>4. \A p \in Packet : IsRequest(p, state) => mem'[p.sbuf] = mem[p.sbuf]
  BY <1>3, Programs, Buffers, ZenonT(40) DEF IsRequest
<1>5. \A t \in Servers : t # s => Calls(t)' = Calls(t)
  BY <1>3, <1>4, Programs, CallsKept
<1>6. Calls(s)' = Calls(s)
  <2>1. CASE recv_queue[s] = <<>>
    <3>1. state'[s] = "RECV_BLOCKED"
      BY <1>1, <2>1, RecvEffect
    <3>2. CallsIn(recv_queue[s], mem) = <<>>
      BY <2>1 DEF CallsIn
    <3> QED
      BY <1>2, <3>1, <3>2, CallsQueued, CallsQueuedNext
  <2>2. CASE recv_queue[s] # <<>>
    <3>1. recv_queue'[s] = recv_queue[s] /\ state'[s] # "RECV_BLOCKED"
      BY <1>1, <2>2, RecvEffect
    <3> QED
      BY <1>2, <1>4, <3>1, CallsKept
  <2> QED
    BY <2>1, <2>2
<1>7. \A c \in Clients : mem'[recv_buf(c)] = mem[recv_buf(c)]
  BY <1>3, Programs, Buffers
<1> QED
  BY <1>5, <1>6, <1>7 DEF Pending, Answers

(* ipc_send is a call.                                                     *)
LEMMA AskImplementsRpc ==
  ASSUME CSInv, CSInv', NEW c \in Clients, current_proc = c, NEW s \in Servers,
         NEW m \in Data, syscall_send_msg(s, m)
  PROVE  rpc!Call(c, s, m)
<1>1. /\ s \in Slots /\ c \in Slots /\ c # s
      /\ recv_buf(s) \in Buf /\ send_buf(c) \in Buf /\ send_buf(c) # recv_buf(s)
  BY Programs, Buffers
<1>2. /\ recv_queue[s] \in Seq(Packet)
      /\ state \in [Slots -> ProcState] /\ mem \in [Buf -> Data]
      /\ recv_queue \in [Slots -> Seq(Packet)]
  BY <1>1, Zenon DEF CSInv, IInv, TypeOK, ProcTypeOK
<1>3. /\ \A t \in Slots \ {s} : recv_queue'[t] = recv_queue[t]
      /\ \A t \in Slots \ {c, s} : state'[t] = state[t]
      /\ state[c] \notin SenderBlocked /\ state'[s] = "READY"
      /\ \A b \in Buf \ {send_buf(c), recv_buf(s)} : mem'[b] = mem[b]
      /\ mem'[send_buf(c)] = m
  BY <1>1, <1>2, AskEffect DEF SenderBlocked
<1>4. \A p \in Packet : IsRequest(p, state) => mem'[p.sbuf] = mem[p.sbuf]
  <2> SUFFICES ASSUME NEW p \in Packet, IsRequest(p, state) PROVE mem'[p.sbuf] = mem[p.sbuf]
    OBVIOUS
  <2>1. p.sender \in Slots /\ p.sender # c /\ p.sbuf = send_buf(p.sender)
    BY <1>3, Programs DEF IsRequest
  <2> QED
    BY <1>3, <2>1, Buffers
<1>5. \A t \in Servers : t # s => Calls(t)' = Calls(t)
  BY <1>3, <1>4, Programs, CallsKept
<1>6. Calls(s)' = Append(Calls(s), [client |-> c, message |-> m])
  <2>1. /\ Req(c) \in Packet
        /\ [client |-> Req(c).sender, message |-> mem'[Req(c).sbuf]] =
             [client |-> c, message |-> m]
    BY <1>1, <1>3, Buffers, SMTT(30) DEF Req, Packet, Slots
  <2>2. Calls(s)' = CallsIn(recv_queue'[s], mem')
    BY <1>3, CallsQueuedNext
  <2>3. CASE state[s] = "RECV_BLOCKED"
    <3>1. recv_queue'[s] = <<Req(c)>>
      BY <1>1, <1>2, <2>3, AskEffect
    <3>2. CallsIn(<<Req(c)>>, mem') = <<[client |-> c, message |-> m]>>
      BY <2>1 DEF CallsIn
    <3>3. Calls(s) = <<>>
      BY <2>3, CallsQueued
    <3> QED
      BY <2>2, <3>1, <3>2, <3>3
  <2>4. CASE state[s] # "RECV_BLOCKED"
    <3>1. recv_queue'[s] = Append(recv_queue[s], Req(c))
      BY <1>1, <1>2, <2>4, AskEffect
    <3>2. ASSUME NEW i \in 1 .. Len(recv_queue[s])
          PROVE  mem'[recv_queue[s][i].sbuf] = mem[recv_queue[s][i].sbuf]
      <4>1. recv_queue[s][i] \in Packet
        BY <1>2
      <4>2. IsRequest(recv_queue[s][i], state)
        BY <1>1, <2>4 DEF CSInv, ServerInv, RequestInv
      <4> QED
        BY <1>4, <4>1, <4>2
    <3>3. CallsIn(recv_queue[s], mem') = CallsIn(recv_queue[s], mem)
      BY <3>2, CallsInSame
    <3>4. CallsIn(recv_queue'[s], mem') =
            Append(CallsIn(recv_queue[s], mem'), [client |-> c, message |-> m])
      BY <1>2, <2>1, <3>1, CallsInAppend, Zenon
    <3>5. Calls(s) = CallsIn(recv_queue[s], mem)
      BY <2>4, CallsQueued
    <3> QED
      BY <2>2, <3>3, <3>4, <3>5
  <2> QED
    BY <2>3, <2>4
<1>7. \A d \in Clients : mem'[recv_buf(d)] = mem[recv_buf(d)]
  BY <1>3, Programs, Buffers
<1>8. ASSUME NEW t \in Servers, NEW i \in 1 .. Len(Calls(t)) PROVE Calls(t)[i].client # c
  <2>1. t \in Slots /\ recv_queue[t] \in Seq(Packet)
    BY <1>2, Programs
  <2>2. state[t] # "RECV_BLOCKED" /\ Calls(t) = CallsIn(recv_queue[t], mem)
    <3>1. state[t] = "RECV_BLOCKED" => Len(Calls(t)) = 0
      BY CallsQueued
    <3> QED
      BY <1>8, <3>1, CallsQueued
  <2>3. i \in 1 .. Len(recv_queue[t]) /\ Calls(t)[i].client = recv_queue[t][i].sender
    <3>1. Len(CallsIn(recv_queue[t], mem)) = Len(recv_queue[t])
      BY <2>1 DEF CallsIn
    <3>2. i \in 1 .. Len(recv_queue[t])
      BY <1>8, <2>2, <3>1
    <3>3. CallsIn(recv_queue[t], mem)[i].client = recv_queue[t][i].sender
      BY <3>2 DEF CallsIn
    <3> QED
      BY <2>2, <3>2, <3>3
  <2>4. ~IsPlaceholder(recv_queue[t][i])
    BY <2>2, <2>3 DEF CSInv, ServerInv
  <2> QED
    BY <1>3, <2>1, <2>3, <2>4, RunnableHasNone
<1>9. Pending' = [Pending EXCEPT ![s] = Append(@, [client |-> c, message |-> m])]
  BY <1>5, <1>6, Zenon DEF Pending
<1>10. Answers' = Answers
  BY <1>7 DEF Answers
<1> QED
  BY <1>8, <1>9, <1>10 DEF rpc!Call, rpc!Waiting, Pending, Answers

(* ipc_reply answers the call that the server has had longest, with what   *)
(* it computes from the message of that call.                              *)
LEMMA RplyImplementsRpc ==
  ASSUME CSInv, CSInv', NEW s \in Servers, current_proc = s, s \in answering,
         syscall_rply_msg(Answer[mem[recv_buf(s)]])
  PROVE  rpc!Reply(s)
<1>1. PICK c : c = recv_queue[s][1].sender
  OBVIOUS
<1>2. PICK m : m = Answer[mem[recv_buf(s)]]
  OBVIOUS
<1>3. /\ recv_queue[s] # <<>> /\ IsRequest(recv_queue[s][1], state)
      /\ state[s] \in {"RUNNING", "READY"}
      /\ m = Answer[mem[send_buf(c)]]
      /\ recv_queue' = [recv_queue EXCEPT ![s] = Tail(@)]
      /\ mem' = [mem EXCEPT ![send_buf(s)] = m, ![recv_buf(c)] = m]
      /\ state' = [state EXCEPT ![c] = "READY", ![s] = "READY"]
  <2>1. syscall_rply_msg(m)
    BY <1>2
  <2>2. /\ recv_queue[s] # <<>> /\ IsRequest(recv_queue[s][1], state)
        /\ state[s] \in {"RUNNING", "READY"}
        /\ mem[recv_buf(s)] = mem[send_buf(c)]
        /\ recv_queue' = [recv_queue EXCEPT ![s] = Tail(@)]
        /\ mem' = [mem EXCEPT ![send_buf(s)] = m, ![recv_buf(c)] = m]
        /\ state' = [state EXCEPT ![c] = "READY", ![s] = "READY"]
    BY <1>1, <2>1, RplyEffect, Zenon
  <2> QED
    BY <1>2, <2>2, Zenon
<1>4. /\ s \in Slots /\ c \in Slots /\ c \in Clients /\ c \notin Servers
      /\ recv_queue[s][1].sbuf = send_buf(c)
      /\ send_buf(s) \in Buf /\ recv_buf(c) \in Buf /\ send_buf(s) # recv_buf(c)
  <2>1. s \in Slots /\ c \in Slots /\ c \in Clients /\ c \notin Servers
        /\ recv_queue[s][1].sbuf = send_buf(c)
    BY <1>1, <1>3, Programs, Zenon DEF IsRequest
  <2> QED
    BY <2>1, Buffers
<1>5. /\ recv_queue[s] \in Seq(Packet)
      /\ state \in [Slots -> ProcState] /\ mem \in [Buf -> Data]
      /\ recv_queue \in [Slots -> Seq(Packet)]
  BY <1>4, Zenon DEF CSInv, IInv, TypeOK, ProcTypeOK
<1>6. /\ \A t \in Slots \ {s} : recv_queue'[t] = recv_queue[t]
      /\ recv_queue'[s] = Tail(recv_queue[s])
      /\ \A t \in Slots \ {c, s} : state'[t] = state[t]
      /\ state'[s] = "READY"
      /\ \A b \in Buf \ {send_buf(s), recv_buf(c)} : mem'[b] = mem[b]
      /\ mem'[recv_buf(c)] = m
  BY <1>3, <1>4, <1>5
<1>7. \A p \in Packet : IsRequest(p, state) => mem'[p.sbuf] = mem[p.sbuf]
  <2> SUFFICES ASSUME NEW p \in Packet, IsRequest(p, state) PROVE mem'[p.sbuf] = mem[p.sbuf]
    OBVIOUS
  <2>1. p.sender \in Slots /\ p.sender # s /\ p.sbuf = send_buf(p.sender)
    BY Programs, Zenon DEF IsRequest
  <2> QED
    BY <1>6, <2>1, Buffers
<1>8. \A t \in Servers : t # s => Calls(t)' = Calls(t)
  BY <1>4, <1>6, <1>7, Programs, CallsKept
<1>9. Calls(s) = CallsIn(recv_queue[s], mem)
  BY <1>3, CallsQueued
<1>10. /\ Calls(s) # <<>> /\ Head(Calls(s)) = [client |-> c, message |-> mem[send_buf(c)]]
       /\ CallsIn(Tail(recv_queue[s]), mem) = Tail(Calls(s))
  BY <1>1, <1>3, <1>4, <1>5, <1>9, CallsInTail, Zenon
<1>11. Calls(s)' = Tail(Calls(s))
  <2>1. Calls(s)' = CallsIn(Tail(recv_queue[s]), mem')
    BY <1>6, CallsQueuedNext
  <2>2. ASSUME NEW i \in 1 .. Len(Tail(recv_queue[s]))
        PROVE  mem'[Tail(recv_queue[s])[i].sbuf] = mem[Tail(recv_queue[s])[i].sbuf]
    <3>1. /\ i + 1 \in 1 .. Len(recv_queue[s]) /\ Tail(recv_queue[s])[i] = recv_queue[s][i + 1]
          /\ recv_queue[s][i + 1] \in Packet
      BY <1>3, <1>5, SMTT(30)
    <3>2. IsRequest(recv_queue[s][i + 1], state)
      BY <1>3, <1>4, <3>1 DEF CSInv, ServerInv, RequestInv
    <3> QED
      BY <1>7, <3>1, <3>2
  <2>3. CallsIn(Tail(recv_queue[s]), mem') = CallsIn(Tail(recv_queue[s]), mem)
    BY <2>2, CallsInSame, Zenon
  <2> QED
    BY <1>10, <2>1, <2>3
<1>12. \A d \in Clients : d # c => mem'[recv_buf(d)] = mem[recv_buf(d)]
  BY <1>4, <1>6, Programs, Buffers
<1>13. Pending' = [Pending EXCEPT ![s] = Tail(@)]
  BY <1>8, <1>11, Zenon DEF Pending
<1>14. Answers' = [Answers EXCEPT ![c] = Answer[mem[send_buf(c)]]]
  <2>1. \A d \in Clients : mem'[recv_buf(d)] = IF d = c THEN Answer[mem[send_buf(c)]]
                                               ELSE mem[recv_buf(d)]
    BY <1>3, <1>6, <1>12, Zenon
  <2>2. Answers' = [d \in Clients |-> IF d = c THEN Answer[mem[send_buf(c)]] ELSE Answers[d]]
    BY <2>1 DEF Answers
  <2> QED
    BY <1>4, <2>2, Zenon DEF Answers
<1>15. /\ Pending[s] # <<>>
       /\ Head(Pending[s]).client = c /\ Head(Pending[s]).message = mem[send_buf(c)]
  BY <1>10 DEF Pending
<1>16. /\ Pending[s] # <<>>
       /\ Answers' = [Answers EXCEPT ![Head(Pending[s]).client] =
                        Answer[Head(Pending[s]).message]]
       /\ Pending' = [Pending EXCEPT ![s] = Tail(@)]
  BY <1>13, <1>14, <1>15, Zenon
<1> QED
  BY <1>16, Zenon DEF rpc!Reply, Pending, Answers

(* Every step of the programs is a call, an answer or nothing to Rpc.      *)
LEMMA NextImplementsRpc ==
  CSInv /\ CSInv' /\ [CSNext]_cs_vars => [rpc!Next]_<<Pending, Answers>>
<1> SUFFICES ASSUME CSInv, CSInv', [CSNext]_cs_vars
             PROVE  rpc!Next \/ UNCHANGED <<Pending, Answers>>
  OBVIOUS
<1>1. CASE (Boot \/ Timer) /\ UNCHANGED answering
  BY <1>1, BootImplementsRpc
<1>2. ASSUME NEW s \in Servers, Serve(s)
      PROVE  rpc!Next \/ UNCHANGED <<Pending, Answers>>
  <2>1. CASE s \in answering
    BY <1>2, <2>1, RplyImplementsRpc DEF Serve, rpc!Next
  <2>2. CASE s \notin answering
    BY <1>2, <2>2, RecvImplementsRpc DEF Serve
  <2> QED
    BY <2>1, <2>2
<1>3. ASSUME NEW c \in Clients, Ask(c) PROVE rpc!Next
  <2>1. PICK s \in Servers, m \in Data : syscall_send_msg(s, m) /\ current_proc = c
    BY <1>3 DEF Ask
  <2>2. rpc!Call(c, s, m)
    BY <2>1, AskImplementsRpc
  <2> QED
    BY <2>2 DEF rpc!Next
<1>4. CASE UNCHANGED cs_vars
  <2>1. \A s \in Servers : Calls(s)' = Calls(s)
    BY <1>4, SMTT(30) DEF cs_vars, vars, proc_vars, ipc_vars, Calls, Requests, proc_find_by_pid
  <2>2. mem' = mem
    BY <1>4 DEF cs_vars, vars, ipc_vars
  <2> QED
    BY <2>1, <2>2 DEF Pending, Answers
<1> QED
  BY <1>1, <1>2, <1>3, <1>4 DEF CSNext

(* Nobody has called anybody when the machine starts.                      *)
LEMMA InitImplementsRpc == CSInit => rpc!Init
<1> SUFFICES ASSUME CSInit PROVE rpc!Init
  OBVIOUS
<1>1. CSInv
  BY InitCSInv
<1>2. \A s \in Servers : Calls(s) = <<>>
  <2>1. \A s \in Servers : recv_queue[s] = <<>> /\ state[s] # "RECV_BLOCKED"
    BY Programs DEF CSInit, Init, proc_earlyinit
  <2>2. \A s \in Servers : CallsIn(recv_queue[s], mem) = <<>>
    BY <2>1 DEF CallsIn
  <2> QED
    BY <1>1, <2>1, <2>2, CallsQueued
<1>3. \A c \in Clients : mem[recv_buf(c)] \in Data
  BY <1>1, Programs, Buffers DEF CSInv, IInv, TypeOK
<1> QED
  BY <1>2, <1>3 DEF rpc!Init

(* The system calls implement calls with answers, for clients that send    *)
(* and servers that receive and answer in turn: no message is lost,        *)
(* doubled, overwritten or overtaken.                                      *)
THEOREM CallsImplementRpc == CSSpec => RpcSpec
<1>1. CSInit => CSInv /\ rpc!Init
  BY InitCSInv, InitImplementsRpc
<1>2. CSInv /\ [CSNext]_cs_vars => CSInv'
  BY NextKeepsCSInv
<1>3. CSInv /\ CSInv' /\ [CSNext]_cs_vars => [rpc!Next]_<<Pending, Answers>>
  BY NextImplementsRpc
<1> QED
  BY <1>1, <1>2, <1>3, PTL DEF CSSpec, RpcSpec, rpc!Spec, Pending, Answers

(* The same with the windows and the TLB.                                  *)
THEOREM WindowsImplementRpc == WSpec => RpcSpec
<1>1. WInit => CSInv /\ rpc!Init
  BY InitCSInv, InitImplementsRpc DEF WInit
<1>2. [WNext]_w_vars => [CSNext]_cs_vars
  BY WindowSteps DEF w_vars
<1>3. CSInv /\ [CSNext]_cs_vars => CSInv'
  BY NextKeepsCSInv
<1>4. CSInv /\ CSInv' /\ [CSNext]_cs_vars => [rpc!Next]_<<Pending, Answers>>
  BY NextImplementsRpc
<1> QED
  BY <1>1, <1>2, <1>3, <1>4, PTL DEF WSpec, RpcSpec, rpc!Spec, Pending, Answers
==============================================================================
