------------------------------- MODULE RpcInv -------------------------------
(***************************************************************************)
(* The invariant of ClientServer, for programs that keep to the protocol   *)
(* of ipc.h: what the servers' queues hold, and where the cursor of the    *)
(* scheduler is.  It holds initially and every step keeps it.              *)
(***************************************************************************)
EXTENDS ClientServer, IpcProofs

(* The scheduler, for programs that keep to the protocol: it is never      *)
(* turned off, and the cursor of find_next_proc is behind the process that *)
(* runs.                                                                   *)
SchedInv ==
  /\ ~panic
  /\ booted => scheduling_enabled
  /\ \A s \in Slots : state[s] = "RUNNING" => s = current_proc
  /\ booted /\ current_proc # idle => cursor = current_proc + 1

(* A server comes back from ipc_recv with a request at the head of its     *)
(* queue, whose message it has a copy of; it has a placeholder only while  *)
(* it waits for one.                                                       *)
ServerInv ==
  \A s \in Servers :
    /\ state[s] \notin SenderBlocked
    /\ \A i \in 1 .. Len(recv_queue[s]) :
         IsPlaceholder(recv_queue[s][i]) => state[s] = "RECV_BLOCKED"
    /\ s \in answering => recv_queue[s] # <<>>
    /\ s \in answering /\ state[s] # "RECV_BLOCKED" =>
         mem[recv_buf(s)] = mem[recv_queue[s][1].sbuf]
    /\ s \notin answering => state[s] # "RECV_BLOCKED"

(* Nobody else is sent anything.                                           *)
OthersInv ==
  \A s \in Slots \ Servers : recv_queue[s] = <<>> /\ state[s] # "RECV_BLOCKED"

(* A request is that of a client that is blocked.                          *)
IsRequest(p, st) ==
  /\ p.sender \in Clients
  /\ p.sbuf = send_buf(p.sender)
  /\ p.rbuf = recv_buf(p.sender)
  /\ st[p.sender] \in SenderBlocked

(* What is queued is a placeholder or such a request.                      *)
RequestInv ==
  \A r \in Slots : \A i \in 1 .. Len(recv_queue[r]) :
    IsPlaceholder(recv_queue[r][i]) \/ IsRequest(recv_queue[r][i], state)

(* A client has one request queued at most.                                *)
OnceInv ==
  \A r, t \in Slots : \A i \in 1 .. Len(recv_queue[r]), j \in 1 .. Len(recv_queue[t]) :
    /\ ~IsPlaceholder(recv_queue[r][i]) /\ ~IsPlaceholder(recv_queue[t][j])
    /\ recv_queue[r][i].sender = recv_queue[t][j].sender
    => r = t /\ i = j

(* The inductive invariant, over that of Ipc.                              *)
CSInv ==
  /\ IInv
  /\ answering \subseteq Servers
  /\ SchedInv
  /\ ServerInv
  /\ OthersInv
  /\ RequestInv
  /\ OnceInv

-----------------------------------------------------------------------------
(* Clients, servers and idle are the processes.                            *)
LEMMA Programs ==
  /\ Clients \subseteq Slots /\ Servers \subseteq Slots
  /\ Clients \subseteq 0 .. NCreated - 1 /\ Servers \subseteq 0 .. NCreated - 1
  /\ 1 \notin Clients /\ 1 \notin Servers
  /\ \A c \in Clients : c \notin Servers
  /\ Servers \subseteq Receivers
<1>1. 0 .. NCreated - 1 \subseteq Slots
  BY ProcAssumption DEF NCreated, Slots
<1> QED
  BY <1>1, ClientServerAssumption

(* What is sent, received and answered are messages.                       *)
LEMMA CallsOfIpc == ASSUME CSInv, CSNext PROVE Next
<1>1. CASE Boot \/ Timer
  BY <1>1 DEF Next
<1>2. ASSUME NEW s \in Servers, Serve(s) PROVE Next
  <2>1. recv_buf(s) \in Buf
    BY Programs DEF recv_buf, Buf
  <2>2. Answer[mem[recv_buf(s)]] \in Data
    BY <2>1, ClientServerAssumption DEF CSInv, IInv, TypeOK
  <2> QED
    BY <1>2, <2>2 DEF Serve, Next, Syscall
<1>3. ASSUME NEW c \in Clients, Ask(c) PROVE Next
  BY <1>3, Programs DEF Ask, Next, Syscall
<1> QED
  BY <1>1, <1>2, <1>3 DEF CSNext

(* What is known of a process that makes a call.                           *)
LEMMA ProgramCaller ==
  ASSUME CSInv, booted
  PROVE  /\ current_proc \in Slots /\ pid[current_proc] = current_proc
         /\ state[current_proc] \in {"RUNNING", "READY"}
         /\ idle = 1 /\ idle \in Slots /\ state[idle] \in {"RUNNING", "READY"}
         /\ \A p \in 0 .. NCreated - 1 : /\ proc_find_by_pid(p) = p
                                         /\ pid[p] = p
                                         /\ state[p] # "UNUSED"
<1>1. IInv
  BY DEF CSInv
<1>2. next_pid = NCreated /\ idle = 1 /\ PidIsSlot /\ ProcTypeOK
  BY <1>1, ProcAssumption DEF IInv, BootInv, NCreated, TypeOK
<1>3. \A p \in 0 .. NCreated - 1 : p \in Slots
  BY ProcAssumption DEF Slots, NCreated
<1>4. \A p \in 0 .. NCreated - 1 : pid[p] = p /\ state[p] # "UNUSED"
  BY <1>2, <1>3, ProcAssumption DEF PidIsSlot, NCreated
<1> QED
  BY <1>1, <1>2, <1>4, Caller, FindByPid

(* The scheduler, at the end of a call that leaves the states st behind.   *)
LEMMA Switch ==
  ASSUME CSInv, booted, NEW st \in [Slots -> ProcState],
         \A s \in Slots : st[s] = "RUNNING" => s = current_proc,
         proc_schedule_after_irq(st, TRUE), UNCHANGED <<idle, booted>>
  PROVE  /\ state' = [st EXCEPT ![current_proc] =
                        IF st[current_proc] \in Blocked THEN @ ELSE "READY"]
         /\ \A s \in Slots : state'[s] # "RUNNING"
         /\ booted' /\ current_proc' # idle' => cursor' = current_proc' + 1
<1> DEFINE st1 == [st EXCEPT ![current_proc] =
                     IF st[current_proc] \in Blocked THEN @ ELSE "READY"]
<1>1. /\ current_proc \in Slots /\ ProcTypeOK
      /\ proc_is_blocked(st, pid[current_proc]) <=> st[current_proc] \in Blocked
  <2>1. IInv /\ PidIsSlot /\ ProcTypeOK /\ next_pid = NCreated
    BY Caller DEF CSInv, IInv, TypeOK
  <2>2. current_proc \in Slots /\ pid[current_proc] = current_proc
        /\ current_proc \in 0 .. next_pid - 1
    BY <2>1, Caller
  <2> QED
    BY <2>1, <2>2, FindByPid DEF proc_is_blocked
<1>2. state' = st1
  BY <1>1 DEF proc_schedule_after_irq
<1>3. st1 \in [Slots -> ProcState]
  BY <1>1 DEF ProcState
<1>4. \A s \in Slots : st1[s] # "RUNNING"
  BY <1>1 DEF Blocked, SenderBlocked
<1>5. PICK k \in Slots \cup {NULL} :
        /\ find_next_proc(st1, "READY", k)
        /\ current_proc' = IF k = NULL THEN idle ELSE k
  BY <1>1, Zenon DEF proc_schedule_after_irq
<1> HIDE DEF st1
<1>6. k # NULL => cursor' = k + 1
  BY <1>1, <1>3, <1>5, FindNextProc DEF ProcState
<1>7. current_proc' # idle' => cursor' = current_proc' + 1
  BY <1>5, <1>6
<1> QED
  BY <1>2, <1>4, <1>7 DEF st1

-----------------------------------------------------------------------------
(* What the calls do, for programs that keep to the protocol.              *)

(* A step that neither panics nor makes a process.                         *)
Quiet == panic' = panic /\ UNCHANGED <<pid, next_pid, idle, booted>>
(* The packet of client c.                                                 *)
Req(c) == [sender |-> c, sbuf |-> send_buf(c), rbuf |-> recv_buf(c)]

(* Every step after boot leaves the scheduler as SchedInv has it.          *)
Scheduled ==
  /\ Quiet
  /\ scheduling_enabled'
  /\ \A s \in Slots : state'[s] # "RUNNING"
  /\ current_proc' # idle' => cursor' = current_proc' + 1

(* The timer makes the process that ran READY, and touches no message.     *)
LEMMA TimerEffect ==
  ASSUME CSInv, Timer
  PROVE  /\ Scheduled
         /\ UNCHANGED <<recv_queue, mem>>
         /\ state' = [state EXCEPT ![current_proc] = "READY"]
<1>1. /\ booted /\ Quiet /\ UNCHANGED <<recv_queue, mem, scheduling_enabled>>
      /\ proc_schedule_after_irq(state, scheduling_enabled)
  BY DEF Timer, timer_handler, ipc_vars, Quiet
<1>2. scheduling_enabled = TRUE
  BY <1>1 DEF CSInv, SchedInv, IInv, TypeOK, ProcTypeOK
<1>3. /\ state \in [Slots -> ProcState]
      /\ \A s \in Slots : state[s] = "RUNNING" => s = current_proc
  BY DEF CSInv, SchedInv, IInv, TypeOK, ProcTypeOK
<1>4. state[current_proc] \notin Blocked
  BY <1>1, ProgramCaller DEF Blocked, SenderBlocked
<1> QED
  BY <1>1, <1>2, <1>3, <1>4, Switch, Zenon DEF Scheduled, Quiet

(* ipc_send to a server: its placeholder becomes the request, or the       *)
(* request is queued; the client blocks either way.                        *)
LEMMA AskEffect ==
  ASSUME CSInv, NEW c \in Clients, current_proc = c, NEW s \in Servers, NEW m \in Data,
         syscall_send_msg(s, m)
  PROVE  /\ Scheduled /\ booted
         /\ state[c] \in {"RUNNING", "READY"}
         /\ \/ /\ state[s] = "RECV_BLOCKED"
               /\ recv_queue' = [recv_queue EXCEPT ![s] = <<Req(c)>>]
               /\ mem' = [mem EXCEPT ![send_buf(c)] = m, ![recv_buf(s)] = m]
               /\ state' = [state EXCEPT ![c] = "SEND_BLOCKED", ![s] = "READY"]
            \/ /\ state[s] = "READY"
               /\ recv_queue' = [recv_queue EXCEPT ![s] = Append(@, Req(c))]
               /\ mem' = [mem EXCEPT ![send_buf(c)] = m]
               /\ state' = [state EXCEPT ![c] = "REPLY_BLOCKED"]
<1>1. booted
  BY DEF syscall_send_msg, SendNoReceiver, SendToWaiting, SendToOther, Calling
<1>2. /\ c \in Slots /\ s \in Slots /\ c # s /\ pid[c] = c
      /\ state[c] \in {"RUNNING", "READY"} /\ state[s] # "UNUSED"
      /\ proc_find_by_pid(s) = s /\ s # NULL
  BY <1>1, Programs, ProgramCaller DEF NULL
<1>3. /\ state \in [Slots -> ProcState] /\ recv_queue \in [Slots -> Seq(Packet)]
      /\ \A t \in Slots : state[t] = "RUNNING" => t = c
  BY DEF CSInv, SchedInv, IInv, TypeOK, ProcTypeOK
<1>4. Request = Req(c)
  BY <1>2 DEF Request, Req
<1>5. CASE SendNoReceiver(s, m)
  BY <1>2, <1>5 DEF SendNoReceiver
<1>6. CASE SendToWaiting(s, m)
  <2> DEFINE st == [state EXCEPT ![c] = "SEND_BLOCKED", ![s] = "READY"]
  <2>1. /\ state[s] = "RECV_BLOCKED"
        /\ recv_queue' = [recv_queue EXCEPT ![s][1] = Req(c)]
        /\ mem' = [mem EXCEPT ![send_buf(c)] = m, ![Head(recv_queue[s]).rbuf] = m]
        /\ EnableAndSchedule(Wake([state EXCEPT ![c] = "SEND_BLOCKED"], s))
        /\ UNCHANGED panic
    BY <1>2, <1>4, <1>6 DEF SendToWaiting
  <2>2. Len(recv_queue[s]) = 1 /\ recv_queue[s][1].rbuf = recv_buf(s)
    BY <1>2, <2>1 DEF CSInv, IInv, ReceiverHasPlaceholder
  <2>3. Head(recv_queue[s]) = recv_queue[s][1]
    BY <1>2, <1>3, <2>2
  <2>4. recv_queue' = [recv_queue EXCEPT ![s] = <<Req(c)>>]
    <3>1. [recv_queue[s] EXCEPT ![1] = Req(c)] = <<Req(c)>>
      BY <1>2, <1>3, <2>2
    <3> QED
      BY <2>1, <3>1, Zenon
  <2>5. Wake([state EXCEPT ![c] = "SEND_BLOCKED"], s) = st
    BY DEF Wake
  <2>6. /\ st \in [Slots -> ProcState] /\ st[c] = "SEND_BLOCKED"
        /\ \A t \in Slots : st[t] = "RUNNING" => t = c
    BY <1>2, <1>3, Zenon DEF ProcState, Blocked, SenderBlocked
  <2>7. /\ proc_schedule_after_irq(st, TRUE) /\ scheduling_enabled' = TRUE
        /\ UNCHANGED <<pid, next_pid, idle, booted>>
    BY <2>1, <2>5, Zenon DEF EnableAndSchedule
  <2>8. [st EXCEPT ![c] = IF st[c] \in Blocked THEN @ ELSE "READY"] = st
    BY <1>2, <2>6, Zenon DEF Blocked, SenderBlocked
  <2> HIDE DEF st
  <2>9. /\ state' = st /\ \A t \in Slots : state'[t] # "RUNNING"
        /\ current_proc' # idle' => cursor' = current_proc' + 1
    BY <1>1, <2>6, <2>7, <2>8, Switch, Zenon
  <2>10. Scheduled
    BY <2>1, <2>7, <2>9 DEF Scheduled, Quiet
  <2> QED
    BY <1>1, <1>2, <2>1, <2>2, <2>3, <2>4, <2>9, <2>10, Zenon DEF st
<1>7. CASE SendToOther(s, m)
  <2> DEFINE st == [state EXCEPT ![c] = "REPLY_BLOCKED"]
  <2>1. /\ state[s] # "RECV_BLOCKED"
        /\ recv_queue' = [recv_queue EXCEPT ![s] = Append(@, Req(c))]
        /\ mem' = [mem EXCEPT ![send_buf(c)] = m]
        /\ EnableAndSchedule(IF state[s] = "READY" THEN st ELSE state)
        /\ UNCHANGED panic
    BY <1>2, <1>4, <1>7 DEF SendToOther, Enqueue
  <2>2. state[s] = "READY"
    <3>1. state[s] \notin SenderBlocked /\ state[s] # "RUNNING"
      BY <1>2, <1>3 DEF CSInv, ServerInv
    <3> QED
      BY <1>2, <1>3, <2>1, <3>1 DEF ProcState, Blocked
  <2>3. /\ st \in [Slots -> ProcState] /\ st[c] = "REPLY_BLOCKED"
        /\ \A t \in Slots : st[t] = "RUNNING" => t = c
    BY <1>2, <1>3 DEF ProcState, Blocked, SenderBlocked
  <2>4. /\ proc_schedule_after_irq(st, TRUE) /\ scheduling_enabled' = TRUE
        /\ UNCHANGED <<pid, next_pid, idle, booted>>
    BY <2>1, <2>2, Zenon DEF EnableAndSchedule
  <2>5. [st EXCEPT ![c] = IF st[c] \in Blocked THEN @ ELSE "READY"] = st
    BY <1>2, <2>3, Zenon DEF Blocked, SenderBlocked
  <2> HIDE DEF st
  <2>6. /\ state' = st /\ \A t \in Slots : state'[t] # "RUNNING"
        /\ current_proc' # idle' => cursor' = current_proc' + 1
    BY <1>1, <2>3, <2>4, <2>5, Switch, Zenon
  <2>7. Scheduled
    BY <2>1, <2>4, <2>6 DEF Scheduled, Quiet
  <2> QED
    BY <1>1, <1>2, <2>1, <2>2, <2>6, <2>7 DEF st
<1> QED
  BY <1>5, <1>6, <1>7 DEF syscall_send_msg

(* ipc_recv of a server that has answered: it waits, or has the first      *)
(* request copied.                                                         *)
LEMMA RecvEffect ==
  ASSUME CSInv, NEW s \in Servers, current_proc = s, s \notin answering, syscall_recv_msg
  PROVE  /\ Scheduled /\ booted
         /\ \/ /\ recv_queue[s] = <<>>
               /\ recv_queue' =
                    [recv_queue EXCEPT
                       ![s] = <<[sender |-> 0, sbuf |-> NoBuf, rbuf |-> recv_buf(s)]>>]
               /\ mem' = mem
               /\ state' = [state EXCEPT ![s] = "RECV_BLOCKED"]
            \/ /\ recv_queue[s] # <<>>
               /\ recv_queue' = recv_queue
               /\ mem' = [mem EXCEPT ![recv_buf(s)] = mem[recv_queue[s][1].sbuf]]
               /\ state' = [state EXCEPT ![s] = "READY"]
<1>1. booted
  BY DEF syscall_recv_msg, RecvBlock, RecvQueued, RecvFault, Calling
<1>2. s \in Slots /\ state[s] \in {"RUNNING", "READY"}
  BY <1>1, Programs, ProgramCaller
<1>3. /\ state \in [Slots -> ProcState] /\ recv_queue \in [Slots -> Seq(Packet)]
      /\ \A t \in Slots : state[t] = "RUNNING" => t = s
  BY DEF CSInv, SchedInv, IInv, TypeOK, ProcTypeOK
<1>4. CASE RecvBlock
  <2> DEFINE st == [state EXCEPT ![s] = "RECV_BLOCKED"]
             ph == [sender |-> 0, sbuf |-> NoBuf, rbuf |-> recv_buf(s)]
  <2>1. /\ recv_queue[s] = <<>>
        /\ recv_queue' = [recv_queue EXCEPT ![s] = Append(@, ph)]
        /\ EnableAndSchedule(st)
        /\ UNCHANGED <<mem, panic>>
    BY <1>4 DEF RecvBlock, Enqueue
  <2>2. recv_queue' = [recv_queue EXCEPT ![s] = <<ph>>]
    <3>1. Append(recv_queue[s], ph) = <<ph>>
      BY <2>1
    <3> QED
      BY <2>1, <3>1
  <2>3. /\ st \in [Slots -> ProcState] /\ st[s] = "RECV_BLOCKED"
        /\ \A t \in Slots : st[t] = "RUNNING" => t = s
    BY <1>2, <1>3 DEF ProcState, Blocked
  <2>4. /\ proc_schedule_after_irq(st, TRUE) /\ scheduling_enabled' = TRUE
        /\ UNCHANGED <<pid, next_pid, idle, booted>>
    BY <2>1, Zenon DEF EnableAndSchedule
  <2>5. [st EXCEPT ![s] = IF st[s] \in Blocked THEN @ ELSE "READY"] = st
    BY <1>2, <2>3, Zenon DEF Blocked
  <2> HIDE DEF st, ph
  <2>6. /\ state' = st /\ \A t \in Slots : state'[t] # "RUNNING"
        /\ current_proc' # idle' => cursor' = current_proc' + 1
    BY <1>1, <2>3, <2>4, <2>5, Switch, Zenon
  <2>7. Scheduled
    BY <2>1, <2>4, <2>6 DEF Scheduled, Quiet
  <2> QED
    BY <1>1, <2>1, <2>2, <2>6, <2>7 DEF st, ph
<1>5. CASE RecvQueued
  <2>1. /\ recv_queue[s] # <<>>
        /\ mem' = [mem EXCEPT ![recv_buf(s)] = mem[Head(recv_queue[s]).sbuf]]
        /\ EnableAndSchedule(state)
        /\ UNCHANGED <<recv_queue, panic>>
    BY <1>5 DEF RecvQueued
  <2>2. Head(recv_queue[s]) = recv_queue[s][1]
    BY <1>2, <1>3, <2>1
  <2>3. /\ proc_schedule_after_irq(state, TRUE) /\ scheduling_enabled' = TRUE
        /\ UNCHANGED <<pid, next_pid, idle, booted>>
    BY <2>1, Zenon DEF EnableAndSchedule
  <2>4. state[s] \notin Blocked
    BY <1>2 DEF Blocked, SenderBlocked
  <2>5. /\ state' = [state EXCEPT ![s] = "READY"] /\ \A t \in Slots : state'[t] # "RUNNING"
        /\ current_proc' # idle' => cursor' = current_proc' + 1
    BY <1>1, <1>3, <2>3, <2>4, Switch, Zenon
  <2>6. Scheduled
    BY <2>1, <2>3, <2>5 DEF Scheduled, Quiet
  <2> QED
    BY <1>1, <2>1, <2>2, <2>5, <2>6
<1>6. CASE RecvFault
  <2>1. recv_queue[s] # <<>> /\ IsPlaceholder(Head(recv_queue[s]))
    BY <1>6 DEF RecvFault
  <2>2. 1 \in 1 .. Len(recv_queue[s]) /\ Head(recv_queue[s]) = recv_queue[s][1]
    BY <1>2, <1>3, <2>1
  <2>3. state[s] = "RECV_BLOCKED"
    BY <2>1, <2>2 DEF CSInv, ServerInv
  <2> QED
    BY <1>2, <2>3
<1> QED
  BY <1>4, <1>5, <1>6 DEF syscall_recv_msg

(* The packet that is answered is the request of a blocked client.         *)
LEMMA RplyEffect ==
  ASSUME CSInv, NEW s \in Servers, current_proc = s, s \in answering, NEW m,
         syscall_rply_msg(m)
  PROVE  LET p == recv_queue[s][1]
             c == recv_queue[s][1].sender
         IN /\ Scheduled /\ booted
            /\ recv_queue[s] # <<>> /\ ~IsPlaceholder(p) /\ IsRequest(p, state)
            /\ state[s] \in {"RUNNING", "READY"}
            /\ mem[recv_buf(s)] = mem[send_buf(c)]
            /\ recv_queue' = [recv_queue EXCEPT ![s] = Tail(@)]
            /\ mem' = [mem EXCEPT ![send_buf(s)] = m, ![recv_buf(c)] = m]
            /\ state' = [state EXCEPT ![c] = "READY", ![s] = "READY"]
<1> DEFINE p == recv_queue[s][1]
           c == recv_queue[s][1].sender
           st == [state EXCEPT ![c] = "READY"]
<1>1. booted
  BY DEF syscall_rply_msg, Calling
<1>2. s \in Slots /\ state[s] \in {"RUNNING", "READY"}
  BY <1>1, Programs, ProgramCaller
<1>3. /\ state \in [Slots -> ProcState] /\ recv_queue \in [Slots -> Seq(Packet)]
      /\ \A t \in Slots : state[t] = "RUNNING" => t = s
  BY DEF CSInv, SchedInv, IInv, TypeOK, ProcTypeOK
<1>4. recv_queue[s] # <<>> /\ mem[recv_buf(s)] = mem[p.sbuf]
  BY <1>2 DEF CSInv, ServerInv
<1>5. 1 \in 1 .. Len(recv_queue[s]) /\ Head(recv_queue[s]) = p
  BY <1>2, <1>3, <1>4
<1>6. ~IsPlaceholder(p)
  BY <1>2, <1>5 DEF CSInv, ServerInv
<1>7. IsRequest(p, state)
  BY <1>2, <1>5, <1>6 DEF CSInv, RequestInv
<1>8. c \in Clients /\ p.sbuf = send_buf(c) /\ p.rbuf = recv_buf(c) /\ c # s
  BY <1>7, Programs DEF IsRequest
<1>9. c \in Slots /\ proc_find_by_pid(c) = c
  BY <1>1, <1>8, Programs, ProgramCaller, Zenon
<1>10. /\ mem' = [mem EXCEPT ![send_buf(s)] = m, ![recv_buf(c)] = m]
       /\ recv_queue' = [recv_queue EXCEPT ![s] = Tail(@)]
       /\ EnableAndSchedule(st)
       /\ UNCHANGED panic
  BY <1>4, <1>5, <1>8, <1>9, Zenon DEF syscall_rply_msg, Dequeue, Wake
<1>11. /\ st \in [Slots -> ProcState] /\ st[s] \in {"RUNNING", "READY"}
       /\ \A t \in Slots : st[t] = "RUNNING" => t = s
  BY <1>2, <1>3, <1>8, <1>9 DEF ProcState
<1>12. /\ proc_schedule_after_irq(st, TRUE) /\ scheduling_enabled' = TRUE
       /\ UNCHANGED <<pid, next_pid, idle, booted>>
  BY <1>10, Zenon DEF EnableAndSchedule
<1>13. [st EXCEPT ![s] = IF st[s] \in Blocked THEN @ ELSE "READY"]
         = [state EXCEPT ![c] = "READY", ![s] = "READY"]
  BY <1>2, <1>3, <1>11, Zenon DEF Blocked, SenderBlocked
<1> HIDE DEF st
<1>14. /\ state' = [state EXCEPT ![c] = "READY", ![s] = "READY"]
       /\ \A t \in Slots : state'[t] # "RUNNING"
       /\ current_proc' # idle' => cursor' = current_proc' + 1
  BY <1>1, <1>11, <1>12, <1>13, Switch, Zenon
<1>15. Scheduled
  BY <1>10, <1>12, <1>14, Zenon DEF Scheduled, Quiet
<1> QED
  BY <1>1, <1>2, <1>4, <1>6, <1>7, <1>8, <1>10, <1>14, <1>15

-----------------------------------------------------------------------------
(* A buffer is one process's, for one direction.                           *)
LEMMA Buffers ==
  /\ \A a, b : send_buf(a) # recv_buf(b)
  /\ \A a, b : send_buf(a) = send_buf(b) => a = b
  /\ \A a, b : recv_buf(a) = recv_buf(b) => a = b
  /\ \A a \in Slots : send_buf(a) \in Buf /\ recv_buf(a) \in Buf
  /\ \A a \in Slots : send_buf(a) # NoBuf
  BY DEF send_buf, recv_buf, Buf, NoBuf

(* What a server that has come back from ipc_recv finds in its queue.      *)
LEMMA HeadIsRequest ==
  ASSUME CSInv, NEW s \in Servers, s \in answering, state[s] # "RECV_BLOCKED"
  PROVE  /\ 1 \in 1 .. Len(recv_queue[s])
         /\ ~IsPlaceholder(recv_queue[s][1]) /\ IsRequest(recv_queue[s][1], state)
<1>1. recv_queue[s] \in Seq(Packet) /\ recv_queue[s] # <<>> /\ s \in Slots
  BY Programs DEF CSInv, IInv, TypeOK, ServerInv
<1>2. 1 \in 1 .. Len(recv_queue[s])
  BY <1>1
<1>3. ~IsPlaceholder(recv_queue[s][1])
  BY <1>2 DEF CSInv, ServerInv
<1> QED
  BY <1>1, <1>2, <1>3 DEF CSInv, RequestInv

(* No request is queued of a process that is not blocked.                  *)
LEMMA RunnableHasNone ==
  ASSUME CSInv, NEW c, state[c] \notin SenderBlocked,
         NEW r \in Slots, NEW i \in 1 .. Len(recv_queue[r]), ~IsPlaceholder(recv_queue[r][i])
  PROVE  recv_queue[r][i].sender # c
  BY DEF CSInv, RequestInv, IsRequest

(* What every call leaves of the scheduler is its part of the invariant.   *)
LEMMA SchedKept == ASSUME SchedInv, Scheduled PROVE SchedInv'
  BY DEF SchedInv, Scheduled, Quiet

(* IRQ 0 keeps the invariant.                                              *)
LEMMA TimerKeepsCSInv ==
  ASSUME CSInv, IInv', Timer, UNCHANGED answering PROVE CSInv'
<1>1. /\ Scheduled /\ UNCHANGED <<recv_queue, mem>>
      /\ state' = [state EXCEPT ![current_proc] = "READY"]
  BY TimerEffect
<1>2. /\ booted /\ current_proc \in Slots
      /\ state[current_proc] \notin Blocked /\ state \in [Slots -> ProcState]
  BY ProgramCaller, Zenon
  DEF Timer, timer_handler, Blocked, SenderBlocked, CSInv, IInv, TypeOK, ProcTypeOK
<1>3. \A s \in Slots : /\ state'[s] \in Blocked <=> state[s] \in Blocked
                       /\ state[s] \in Blocked => state'[s] = state[s]
  BY <1>1, <1>2 DEF Blocked, SenderBlocked
<1>4. \A s \in Slots : /\ state'[s] = "RECV_BLOCKED" <=> state[s] = "RECV_BLOCKED"
                       /\ state'[s] \in SenderBlocked <=> state[s] \in SenderBlocked
  BY <1>3 DEF Blocked, SenderBlocked
<1>5. SchedInv'
  BY <1>1, SchedKept DEF CSInv
<1>6. ServerInv' /\ OthersInv'
  BY <1>1, <1>4, Programs, Zenon DEF CSInv, ServerInv, OthersInv
<1>7. RequestInv'
  BY <1>1, <1>4, Programs, Zenon DEF CSInv, RequestInv, IsRequest
<1>8. OnceInv'
  BY <1>1 DEF CSInv, OnceInv
<1> QED
  BY <1>5, <1>6, <1>7, <1>8 DEF CSInv

(* syscall_send_msg keeps it: the client has no other request queued, for  *)
(* it would be blocked, so its buffer is nobody's message but this one's.  *)
LEMMA AskKeepsCSInv ==
  ASSUME CSInv, IInv', NEW c \in Clients, current_proc = c, NEW s \in Servers, NEW m \in Data,
         syscall_send_msg(s, m), UNCHANGED answering
  PROVE  CSInv'
<1> DEFINE L == Len(recv_queue'[s])
<1>1. /\ Scheduled /\ state[c] \in {"RUNNING", "READY"}
      /\ c \in Slots /\ s \in Slots /\ c # s /\ c \notin Servers
      /\ state \in [Slots -> ProcState] /\ recv_queue \in [Slots -> Seq(Packet)]
      /\ mem \in [Buf -> Data]
      /\ send_buf(c) \in Buf /\ recv_buf(s) \in Buf /\ send_buf(c) # recv_buf(s)
  <2>1. /\ Scheduled /\ state[c] \in {"RUNNING", "READY"}
    BY AskEffect
  <2>2. c \in Slots /\ s \in Slots /\ c # s /\ c \notin Servers
    BY Programs
  <2>3. send_buf(c) \in Buf /\ recv_buf(s) \in Buf /\ send_buf(c) # recv_buf(s)
    BY <2>2, Buffers
  <2>4. /\ state \in [Slots -> ProcState] /\ recv_queue \in [Slots -> Seq(Packet)]
        /\ mem \in [Buf -> Data]
    BY Zenon DEF CSInv, IInv, TypeOK, ProcTypeOK
  <2> QED
    BY <2>1, <2>2, <2>3, <2>4
<1>2. /\ \A t \in Slots \ {s} : recv_queue'[t] = recv_queue[t]
      /\ L \in Nat \ {0} /\ recv_queue'[s][L] = Req(c)
      /\ \A i \in 1 .. L - 1 : /\ i \in 1 .. Len(recv_queue[s])
                               /\ recv_queue'[s][i] = recv_queue[s][i]
                               /\ ~IsPlaceholder(recv_queue[s][i])
      /\ \A t \in Slots \ {c, s} : state'[t] = state[t]
      /\ state'[c] \in SenderBlocked /\ state'[s] = "READY"
      /\ \A b \in Buf \ {send_buf(c), recv_buf(s)} : mem'[b] = mem[b]
      /\ mem'[send_buf(c)] = m
      /\ \/ L = 1 /\ mem'[recv_buf(s)] = m
         \/ /\ state[s] = "READY" /\ mem'[recv_buf(s)] = mem[recv_buf(s)]
            /\ L = Len(recv_queue[s]) + 1
  <2>1. CASE /\ state[s] = "RECV_BLOCKED"
             /\ recv_queue' = [recv_queue EXCEPT ![s] = <<Req(c)>>]
             /\ mem' = [mem EXCEPT ![send_buf(c)] = m, ![recv_buf(s)] = m]
             /\ state' = [state EXCEPT ![c] = "SEND_BLOCKED", ![s] = "READY"]
    <3>1. recv_queue'[s] = <<Req(c)>> /\ L = 1
      BY <1>1, <2>1
    <3> QED
      BY <1>1, <2>1, <3>1 DEF SenderBlocked
  <2>2. CASE /\ state[s] = "READY"
             /\ recv_queue' = [recv_queue EXCEPT ![s] = Append(@, Req(c))]
             /\ mem' = [mem EXCEPT ![send_buf(c)] = m]
             /\ state' = [state EXCEPT ![c] = "REPLY_BLOCKED"]
    <3>1. /\ recv_queue'[s] = Append(recv_queue[s], Req(c))
          /\ \A t \in Slots \ {s} : recv_queue'[t] = recv_queue[t]
      BY <1>1, <2>2
    <3>2. /\ L = Len(recv_queue[s]) + 1 /\ L \in Nat \ {0} /\ recv_queue'[s][L] = Req(c)
          /\ \A i \in 1 .. L - 1 : /\ i \in 1 .. Len(recv_queue[s])
                                   /\ recv_queue'[s][i] = recv_queue[s][i]
      BY <1>1, <3>1
    <3>3. \A i \in 1 .. L - 1 : ~IsPlaceholder(recv_queue[s][i])
      BY <2>2, <3>2 DEF CSInv, ServerInv
    <3> HIDE DEF L
    <3> QED
      BY <1>1, <2>2, <3>1, <3>2, <3>3 DEF SenderBlocked
  <2> HIDE DEF L
  <2>3. \/ /\ state[s] = "RECV_BLOCKED"
           /\ recv_queue' = [recv_queue EXCEPT ![s] = <<Req(c)>>]
           /\ mem' = [mem EXCEPT ![send_buf(c)] = m, ![recv_buf(s)] = m]
           /\ state' = [state EXCEPT ![c] = "SEND_BLOCKED", ![s] = "READY"]
        \/ /\ state[s] = "READY"
           /\ recv_queue' = [recv_queue EXCEPT ![s] = Append(@, Req(c))]
           /\ mem' = [mem EXCEPT ![send_buf(c)] = m]
           /\ state' = [state EXCEPT ![c] = "REPLY_BLOCKED"]
    BY AskEffect, Zenon
  <2> QED
    BY <2>1, <2>2, <2>3, Zenon
<1> HIDE DEF L
<1>3. ~IsPlaceholder(Req(c)) /\ Req(c).sender = c
  BY <1>1, Buffers DEF IsPlaceholder, Req
<1>4. state[c] \notin SenderBlocked
  BY <1>1 DEF SenderBlocked
<1>5. ASSUME NEW p, IsRequest(p, state)
      PROVE  IsRequest(p, state') /\ p.sender # c /\ mem'[p.sbuf] = mem[p.sbuf]
  <2>1. p.sender \in Clients /\ p.sender # c /\ p.sender # s /\ p.sender \in Slots
    BY <1>4, <1>5, Programs, Zenon DEF IsRequest
  <2>2. p.sbuf = send_buf(p.sender) /\ p.sbuf \in Buf \ {send_buf(c), recv_buf(s)}
    BY <1>5, <2>1, Buffers DEF IsRequest
  <2> QED
    BY <1>2, <1>5, <2>1, <2>2 DEF IsRequest
<1>6. IsRequest(Req(c), state')
  BY <1>2 DEF IsRequest, Req
<1>7. SchedInv'
  BY <1>1, SchedKept DEF CSInv
<1>8. OthersInv'
  BY <1>1, <1>2 DEF CSInv, OthersInv, SenderBlocked
<1>9. RequestInv'
  <2> SUFFICES ASSUME NEW r \in Slots, NEW i \in 1 .. Len(recv_queue'[r])
               PROVE  IsPlaceholder(recv_queue'[r][i]) \/ IsRequest(recv_queue'[r][i], state')
    BY DEF RequestInv
  <2>1. CASE r # s
    BY <1>2, <1>5, <2>1 DEF CSInv, RequestInv
  <2>2. CASE r = s /\ i = L
    BY <1>2, <1>6, <2>2
  <2>3. CASE r = s /\ i # L
    <3>1. i \in 1 .. L - 1
      BY <1>2, <2>3 DEF L
    <3>2. IsRequest(recv_queue[s][i], state)
      BY <1>1, <1>2, <3>1 DEF CSInv, RequestInv
    <3> QED
      BY <1>2, <1>5, <2>3, <3>1, <3>2
  <2> QED
    BY <2>1, <2>2, <2>3
<1>10. OnceInv'
  <2> SUFFICES ASSUME NEW r \in Slots, NEW t \in Slots,
                      NEW i \in 1 .. Len(recv_queue'[r]), NEW j \in 1 .. Len(recv_queue'[t]),
                      ~IsPlaceholder(recv_queue'[r][i]), ~IsPlaceholder(recv_queue'[t][j]),
                      recv_queue'[r][i].sender = recv_queue'[t][j].sender
               PROVE  r = t /\ i = j
    BY DEF OnceInv
  <2>1. ASSUME NEW x \in Slots, NEW k \in 1 .. Len(recv_queue'[x]),
               ~IsPlaceholder(recv_queue'[x][k])
        PROVE  \/ x = s /\ k = L /\ recv_queue'[x][k].sender = c
               \/ /\ k \in 1 .. Len(recv_queue[x]) /\ recv_queue'[x][k] = recv_queue[x][k]
                  /\ recv_queue'[x][k].sender # c
    <3>1. CASE x # s
      BY <1>2, <1>4, <2>1, <3>1, RunnableHasNone
    <3>2. CASE x = s /\ k = L
      BY <1>2, <1>3, <3>2
    <3>3. CASE x = s /\ k # L
      <4>1. k \in 1 .. L - 1
        BY <1>2, <2>1, <3>3 DEF L
      <4> QED
        BY <1>1, <1>2, <1>4, <3>3, <4>1, RunnableHasNone
    <3> QED
      BY <3>1, <3>2, <3>3
  <2>2. CASE recv_queue'[r][i].sender = c
    <3>1. r = s /\ i = L
      BY <2>1, <2>2
    <3>2. t = s /\ j = L
      BY <2>1, <2>2, Zenon
    <3> QED
      BY <3>1, <3>2
  <2>3. CASE recv_queue'[r][i].sender # c
    <3>1. /\ i \in 1 .. Len(recv_queue[r]) /\ recv_queue'[r][i] = recv_queue[r][i]
          /\ j \in 1 .. Len(recv_queue[t]) /\ recv_queue'[t][j] = recv_queue[t][j]
      BY <2>1, <2>3
    <3> QED
      BY <3>1 DEF CSInv, OnceInv
  <2> QED
    BY <2>2, <2>3
<1>11. ServerInv'
  <2> SUFFICES ASSUME NEW t \in Servers PROVE ServerInv!(t)'
    BY DEF ServerInv
  <2>1. CASE t # s
    <3>1. /\ state'[t] = state[t] /\ recv_queue'[t] = recv_queue[t]
          /\ mem'[recv_buf(t)] = mem[recv_buf(t)]
      BY <1>1, <1>2, <2>1, Programs, Buffers
    <3>2. t \in answering /\ state[t] # "RECV_BLOCKED" =>
            mem'[recv_queue[t][1].sbuf] = mem[recv_queue[t][1].sbuf]
      BY <1>5, HeadIsRequest
    <3> QED
      BY <3>1, <3>2 DEF CSInv, ServerInv
  <2>2. CASE t = s
    <3>1. state'[s] \notin SenderBlocked /\ state'[s] # "RECV_BLOCKED"
      BY <1>2 DEF SenderBlocked
    <3>2. \A i \in 1 .. L : ~IsPlaceholder(recv_queue'[s][i])
      BY <1>2, <1>3
    <3>3. L \in Nat \ {0}
      BY <1>2, Zenon
    <3>4. recv_queue'[s] # <<>>
      BY <3>3 DEF L
    <3>5. s \in answering => mem'[recv_buf(s)] = mem'[recv_queue'[s][1].sbuf]
      <4>1. CASE L = 1 /\ mem'[recv_buf(s)] = m
        BY <1>2, <4>1 DEF Req
      <4>2. CASE /\ state[s] = "READY" /\ mem'[recv_buf(s)] = mem[recv_buf(s)]
                 /\ L = Len(recv_queue[s]) + 1 /\ s \in answering
        <5>1. 1 \in 1 .. Len(recv_queue[s]) /\ IsRequest(recv_queue[s][1], state)
          BY <4>2, HeadIsRequest
        <5>2. 1 \in 1 .. L - 1
          BY <3>3, <4>2, <5>1
        <5>3. mem'[recv_queue'[s][1].sbuf] = mem[recv_queue[s][1].sbuf]
          BY <1>2, <1>5, <5>1, <5>2
        <5> QED
          BY <4>2, <5>3 DEF CSInv, ServerInv
      <4> QED
        BY <1>2, <4>1, <4>2
    <3> QED
      BY <2>2, <3>1, <3>2, <3>4, <3>5 DEF L
  <2> QED
    BY <2>1, <2>2
<1> QED
  BY <1>7, <1>8, <1>9, <1>10, <1>11 DEF CSInv

(* syscall_recv_msg keeps it.                                              *)
LEMMA RecvKeepsCSInv ==
  ASSUME CSInv, IInv', NEW s \in Servers, current_proc = s, s \notin answering,
         syscall_recv_msg, answering' = answering \cup {s}
  PROVE  CSInv'
<1> DEFINE ph == [sender |-> 0, sbuf |-> NoBuf, rbuf |-> recv_buf(s)]
<1>1. /\ Scheduled /\ booted /\ s \in Slots
      /\ state \in [Slots -> ProcState] /\ recv_queue \in [Slots -> Seq(Packet)]
      /\ mem \in [Buf -> Data] /\ recv_buf(s) \in Buf
  BY RecvEffect, Programs, Buffers DEF CSInv, IInv, TypeOK, ProcTypeOK
<1>2. state[s] \in {"RUNNING", "READY"}
  BY <1>1, ProgramCaller
<1>3. SchedInv'
  BY <1>1, SchedKept DEF CSInv
<1>4. CASE /\ recv_queue[s] = <<>>
           /\ recv_queue' = [recv_queue EXCEPT ![s] = <<ph>>]
           /\ mem' = mem
           /\ state' = [state EXCEPT ![s] = "RECV_BLOCKED"]
  <2>1. /\ recv_queue'[s] = <<ph>> /\ Len(recv_queue'[s]) = 1 /\ recv_queue'[s][1] = ph
        /\ IsPlaceholder(ph) /\ recv_queue'[s] # <<>>
        /\ \A t \in Slots \ {s} : recv_queue'[t] = recv_queue[t] /\ state'[t] = state[t]
        /\ state'[s] = "RECV_BLOCKED"
    BY <1>1, <1>4 DEF IsPlaceholder
  <2> HIDE DEF ph
  <2>2. \A i \in 1 .. Len(recv_queue'[s]) : IsPlaceholder(recv_queue'[s][i])
    BY <2>1
  <2>3. ServerInv'
    <3> SUFFICES ASSUME NEW t \in Servers PROVE ServerInv!(t)'
      BY DEF ServerInv
    <3>1. CASE t = s
      BY <2>1, <3>1 DEF SenderBlocked
    <3>2. CASE t # s
      BY <1>4, <2>1, <3>2, Programs DEF CSInv, ServerInv
    <3> QED
      BY <3>1, <3>2
  <2>4. OthersInv'
    BY <2>1 DEF CSInv, OthersInv
  <2>5. \A p : IsRequest(p, state) => IsRequest(p, state')
    BY <1>2, <2>1, Programs, Zenon DEF IsRequest
  <2>6. RequestInv'
    BY <2>1, <2>2, <2>5 DEF CSInv, RequestInv
  <2>7. OnceInv'
    BY <2>1, <2>2, SMTT(30) DEF CSInv, OnceInv
  <2> QED
    BY <1>3, <2>3, <2>4, <2>6, <2>7 DEF CSInv
<1>5. CASE /\ recv_queue[s] # <<>>
           /\ recv_queue' = recv_queue
           /\ mem' = [mem EXCEPT ![recv_buf(s)] = mem[recv_queue[s][1].sbuf]]
           /\ state' = [state EXCEPT ![s] = "READY"]
  <2>1. /\ \A t \in Slots \ {s} : state'[t] = state[t]
        /\ state'[s] = "READY"
        /\ mem'[recv_buf(s)] = mem[recv_queue[s][1].sbuf]
        /\ \A b \in Buf \ {recv_buf(s)} : mem'[b] = mem[b]
    BY <1>1, <1>5
  <2>2. ASSUME NEW p, IsRequest(p, state)
        PROVE  IsRequest(p, state') /\ mem'[p.sbuf] = mem[p.sbuf]
    <3>1. p.sender \in Slots /\ p.sender # s
      BY <2>2, Programs, Zenon DEF IsRequest
    <3>2. p.sbuf \in Buf \ {recv_buf(s)}
      BY <2>2, <3>1, Buffers DEF IsRequest
    <3> QED
      BY <2>1, <2>2, <3>1, <3>2 DEF IsRequest
  <2>3. IsRequest(recv_queue[s][1], state)
    <3>1. 1 \in 1 .. Len(recv_queue[s])
      BY <1>1, <1>5
    <3>2. ~IsPlaceholder(recv_queue[s][1])
      BY <1>2, <3>1 DEF CSInv, ServerInv
    <3> QED
      BY <1>1, <3>1, <3>2 DEF CSInv, RequestInv
  <2>4. ServerInv'
    <3> SUFFICES ASSUME NEW t \in Servers PROVE ServerInv!(t)'
      BY DEF ServerInv
    <3>1. CASE t = s
      <4>1. mem'[recv_buf(s)] = mem'[recv_queue'[s][1].sbuf]
        BY <1>5, <2>1, <2>2, <2>3
      <4>2. \A i \in 1 .. Len(recv_queue[s]) : ~IsPlaceholder(recv_queue[s][i])
        BY <1>2 DEF CSInv, ServerInv
      <4> QED
        BY <1>5, <2>1, <3>1, <4>1, <4>2 DEF SenderBlocked
    <3>2. CASE t # s
      <4>1. state'[t] = state[t] /\ mem'[recv_buf(t)] = mem[recv_buf(t)]
        BY <2>1, <3>2, Programs, Buffers
      <4>2. t \in answering /\ state[t] # "RECV_BLOCKED" =>
              mem'[recv_queue[t][1].sbuf] = mem[recv_queue[t][1].sbuf]
        BY <2>2, HeadIsRequest
      <4> QED
        BY <1>5, <3>2, <4>1, <4>2 DEF CSInv, ServerInv
    <3> QED
      BY <3>1, <3>2
  <2>5. OthersInv'
    BY <1>5, <2>1 DEF CSInv, OthersInv
  <2>6. RequestInv'
    BY <1>5, <2>2, Zenon DEF CSInv, RequestInv
  <2>7. OnceInv'
    BY <1>5 DEF CSInv, OnceInv
  <2> QED
    BY <1>3, <2>4, <2>5, <2>6, <2>7 DEF CSInv
<1> QED
  BY <1>4, <1>5, RecvEffect

(* syscall_rply_msg keeps it: the request it takes is the only one of the  *)
(* client it wakes, so every other request is still of a blocked client.   *)
LEMMA RplyKeepsCSInv ==
  ASSUME CSInv, IInv', NEW s \in Servers, current_proc = s, s \in answering, NEW m,
         syscall_rply_msg(m), answering' = answering \ {s}
  PROVE  CSInv'
<1>1. PICK c : c = recv_queue[s][1].sender
  OBVIOUS
<1>2. /\ Scheduled /\ booted
      /\ recv_queue[s] # <<>> /\ ~IsPlaceholder(recv_queue[s][1]) /\ IsRequest(recv_queue[s][1], state)
      /\ state[s] \in {"RUNNING", "READY"}
      /\ recv_queue' = [recv_queue EXCEPT ![s] = Tail(@)]
      /\ mem' = [mem EXCEPT ![send_buf(s)] = m, ![recv_buf(c)] = m]
      /\ state' = [state EXCEPT ![c] = "READY", ![s] = "READY"]
  BY <1>1, RplyEffect
<1>3. /\ s \in Slots /\ c \in Slots /\ c \in Clients /\ c # s /\ c \notin Servers
      /\ state \in [Slots -> ProcState] /\ recv_queue \in [Slots -> Seq(Packet)]
      /\ mem \in [Buf -> Data]
      /\ send_buf(s) \in Buf /\ recv_buf(c) \in Buf
  <2>1. s \in Slots /\ c \in Slots /\ c \in Clients /\ c # s /\ c \notin Servers
    BY <1>1, <1>2, Programs, Zenon DEF IsRequest
  <2>2. send_buf(s) \in Buf /\ recv_buf(c) \in Buf
    BY <2>1, Buffers
  <2>3. /\ state \in [Slots -> ProcState] /\ recv_queue \in [Slots -> Seq(Packet)]
        /\ mem \in [Buf -> Data]
    BY Zenon DEF CSInv, IInv, TypeOK, ProcTypeOK
  <2> QED
    BY <2>1, <2>2, <2>3
<1>4. 1 \in 1 .. Len(recv_queue[s])
  BY <1>2, <1>3
<1>5. /\ \A t \in Slots \ {s} : recv_queue'[t] = recv_queue[t]
      /\ recv_queue'[s] = Tail(recv_queue[s])
      /\ \A i \in 1 .. Len(recv_queue'[s]) : /\ i + 1 \in 1 .. Len(recv_queue[s])
                                             /\ recv_queue'[s][i] = recv_queue[s][i + 1]
      /\ \A t \in Slots \ {c, s} : state'[t] = state[t]
      /\ state'[c] = "READY" /\ state'[s] = "READY"
      /\ \A b \in Buf \ {send_buf(s), recv_buf(c)} : mem'[b] = mem[b]
  BY <1>2, <1>3
<1>6. ASSUME NEW r \in Slots, NEW i \in 1 .. Len(recv_queue'[r]),
             ~IsPlaceholder(recv_queue'[r][i])
      PROVE  /\ recv_queue'[r][i].sender # c
             /\ \E j \in 1 .. Len(recv_queue[r]) :
                  recv_queue'[r][i] = recv_queue[r][j] /\ j = IF r = s THEN i + 1 ELSE i
  <2>1. CASE r # s
    <3>1. recv_queue'[r] = recv_queue[r] /\ i \in 1 .. Len(recv_queue[r])
      BY <1>5, <1>6, <2>1
    <3>2. recv_queue[r][i].sender # c
      BY <1>1, <1>2, <1>3, <1>4, <1>6, <2>1, <3>1 DEF CSInv, OnceInv
    <3> QED
      BY <2>1, <3>1, <3>2
  <2>2. CASE r = s
    <3>1. i + 1 \in 1 .. Len(recv_queue[s]) /\ recv_queue'[s][i] = recv_queue[s][i + 1]
      BY <1>5, <1>6, <2>2, Zenon
    <3>2. i \in Nat /\ i >= 1 /\ i + 1 # 1
      BY <1>6
    <3>3. recv_queue[s][i + 1].sender # c
      BY <1>1, <1>2, <1>3, <1>4, <1>6, <2>2, <3>1, <3>2, ZenonT(40) DEF CSInv, OnceInv
    <3> QED
      BY <2>2, <3>1, <3>3
  <2> QED
    BY <2>1, <2>2
<1>7. ASSUME NEW p, IsRequest(p, state), p.sender # c
      PROVE  IsRequest(p, state') /\ mem'[p.sbuf] = mem[p.sbuf]
  <2>1. p.sender \in Clients /\ p.sender # s /\ p.sender \in Slots
    BY <1>7, Programs, Zenon DEF IsRequest
  <2>2. p.sbuf = send_buf(p.sender) /\ p.sbuf \in Buf \ {send_buf(s), recv_buf(c)}
    BY <1>7, <2>1, Buffers DEF IsRequest
  <2> QED
    BY <1>5, <1>7, <2>1, <2>2 DEF IsRequest
<1>8. SchedInv'
  BY <1>2, SchedKept DEF CSInv
<1>9. OthersInv'
  BY <1>3, <1>5 DEF CSInv, OthersInv
<1>10. RequestInv'
  <2> SUFFICES ASSUME NEW r \in Slots, NEW i \in 1 .. Len(recv_queue'[r]),
                      ~IsPlaceholder(recv_queue'[r][i])
               PROVE  IsRequest(recv_queue'[r][i], state')
    BY DEF RequestInv
  <2>1. IsRequest(recv_queue'[r][i], state) /\ recv_queue'[r][i].sender # c
    BY <1>6 DEF CSInv, RequestInv
  <2> QED
    BY <1>7, <2>1
<1>11. OnceInv'
  <2> SUFFICES ASSUME NEW r \in Slots, NEW t \in Slots,
                      NEW i \in 1 .. Len(recv_queue'[r]), NEW j \in 1 .. Len(recv_queue'[t]),
                      ~IsPlaceholder(recv_queue'[r][i]), ~IsPlaceholder(recv_queue'[t][j]),
                      recv_queue'[r][i].sender = recv_queue'[t][j].sender
               PROVE  r = t /\ i = j
    BY DEF OnceInv
  <2>1. PICK k \in 1 .. Len(recv_queue[r]) :
          recv_queue'[r][i] = recv_queue[r][k] /\ k = IF r = s THEN i + 1 ELSE i
    BY <1>6
  <2>2. PICK l \in 1 .. Len(recv_queue[t]) :
          recv_queue'[t][j] = recv_queue[t][l] /\ l = IF t = s THEN j + 1 ELSE j
    BY <1>6
  <2>3. r = t /\ k = l
    BY <2>1, <2>2, SMTT(30) DEF CSInv, OnceInv
  <2> QED
    BY <2>1, <2>2, <2>3
<1>12. ServerInv'
  <2> SUFFICES ASSUME NEW t \in Servers PROVE ServerInv!(t)'
    BY DEF ServerInv
  <2>1. CASE t = s
    <3>1. \A i \in 1 .. Len(recv_queue'[s]) : ~IsPlaceholder(recv_queue'[s][i])
      <4>1. \A i \in 1 .. Len(recv_queue[s]) : ~IsPlaceholder(recv_queue[s][i])
        BY <1>2 DEF CSInv, ServerInv
      <4> QED
        BY <1>5, <4>1
    <3> QED
      BY <1>5, <2>1, <3>1, Zenon DEF SenderBlocked
  <2>2. CASE t # s
    <3>1. /\ t \in Slots \ {c, s} /\ state'[t] = state[t] /\ recv_queue'[t] = recv_queue[t]
          /\ mem'[recv_buf(t)] = mem[recv_buf(t)]
      BY <1>3, <1>5, <2>2, Programs, Buffers
    <3>2. ASSUME t \in answering, state[t] # "RECV_BLOCKED"
          PROVE  mem'[recv_queue[t][1].sbuf] = mem[recv_queue[t][1].sbuf]
      <4>1. 1 \in 1 .. Len(recv_queue[t]) /\ ~IsPlaceholder(recv_queue[t][1])
            /\ IsRequest(recv_queue[t][1], state)
        BY <3>2, HeadIsRequest
      <4>2. recv_queue[t][1].sender # c
        <5>1. 1 \in 1 .. Len(recv_queue'[t]) /\ ~IsPlaceholder(recv_queue'[t][1])
          BY <3>1, <4>1, Zenon
        <5>2. recv_queue'[t][1].sender # c
          BY <1>6, <3>1, <5>1, Zenon
        <5> QED
          BY <3>1, <5>2, Zenon
      <4> QED
        BY <1>7, <4>1, <4>2
    <3> QED
      BY <2>2, <3>1, <3>2 DEF CSInv, ServerInv
  <2> QED
    BY <2>1, <2>2
<1> QED
  BY <1>8, <1>9, <1>10, <1>11, <1>12 DEF CSInv

(* Nothing is queued and nobody is blocked when the machine starts.        *)
LEMMA InitCSInv == CSInit => CSInv
<1> SUFFICES ASSUME CSInit PROVE CSInv
  OBVIOUS
<1>1. IInv
  BY InitIInv DEF CSInit
<1>2. /\ ~panic /\ ~booted /\ answering = {}
      /\ \A s \in Slots : state[s] = "UNUSED" /\ recv_queue[s] = <<>> /\ Len(recv_queue[s]) = 0
  BY DEF CSInit, Init, proc_earlyinit
<1>3. SchedInv /\ OthersInv
  BY <1>2 DEF SchedInv, OthersInv
<1>4. \A s \in Slots : state[s] = "UNUSED" /\ 1 .. Len(recv_queue[s]) = {}
  BY <1>2
<1>5. ServerInv
  <2>1. \A s \in Servers : s \in Slots /\ s \notin answering
    BY <1>2, Programs, Zenon
  <2> QED
    BY <1>4, <2>1 DEF ServerInv, SenderBlocked
<1>6. RequestInv /\ OnceInv
  BY <1>4, Zenon DEF RequestInv, OnceInv
<1> QED
  BY <1>1, <1>2, <1>3, <1>5, <1>6 DEF CSInv

(* Before kick-off nothing is queued; it makes one process RUNNING, the    *)
(* one just before the cursor.                                             *)
LEMMA BootKeepsCSInv ==
  ASSUME CSInv, IInv', Boot, UNCHANGED answering PROVE CSInv'
<1>1. /\ ~booted /\ answering = {} /\ ~panic' /\ recv_queue' = recv_queue
      /\ \A s \in Slots : /\ state[s] \in {"UNUSED", "READY"}
                          /\ recv_queue[s] = <<>> /\ Len(recv_queue[s]) = 0
  <2>1. ~booted
    <3>1. booted => next_pid = NCreated
      BY DEF CSInv, IInv, BootInv
    <3>2. next_pid < NCreated \/ ~booted
      BY DEF Boot, Create, proc_kickoff_first_process
    <3> QED
      BY <3>1, <3>2, ProcAssumption DEF NCreated
  <2>2. \A s \in Slots : /\ state[s] \in {"UNUSED", "READY"}
                         /\ recv_queue[s] = <<>> /\ Len(recv_queue[s]) = 0
    BY <2>1 DEF CSInv, IInv, BootInv
  <2>3. answering = {}
    BY <2>2, Programs DEF CSInv, ServerInv
  <2>4. ~panic' /\ recv_queue' = recv_queue
    BY DEF Boot, ipc_vars, CSInv, SchedInv
  <2> QED
    BY <2>1, <2>2, <2>3, <2>4
<1>2. SchedInv' /\ \A s \in Slots : state'[s] \in {"UNUSED", "READY", "RUNNING"}
  <2>1. state \in [Slots -> ProcState] /\ current_proc = next_pid - 1 /\ cursor = next_pid
        /\ next_pid \in 0 .. NCreated
    BY <1>1 DEF CSInv, IInv, TypeOK, ProcTypeOK, BootInv
  <2>2. CASE \E k \in Slots : Create(k)
    <3>1. PICK k \in Slots : state' = [state EXCEPT ![k] = "READY"] /\ booted' = booted
      BY <2>2 DEF Create, proc_new
    <3>2. \A s \in Slots : state'[s] \in {"UNUSED", "READY"}
      BY <1>1, <2>1, <3>1
    <3> QED
      BY <1>1, <3>1, <3>2 DEF SchedInv
  <2>3. CASE proc_kickoff_first_process
    <3>1. /\ state' = [state EXCEPT ![current_proc] = "RUNNING"] /\ scheduling_enabled'
          /\ cursor' = cursor /\ current_proc' = current_proc
      BY <2>3 DEF proc_kickoff_first_process
    <3>2. \A s \in Slots : /\ state'[s] \in {"UNUSED", "READY", "RUNNING"}
                           /\ state'[s] = "RUNNING" => s = current_proc
      BY <1>1, <2>1, <3>1
    <3>3. cursor' = current_proc' + 1
      BY <2>1, <3>1
    <3> QED
      BY <1>1, <3>1, <3>2, <3>3 DEF SchedInv
  <2> QED
    BY <2>2, <2>3 DEF Boot
<1>3. \A s \in Slots : recv_queue'[s] = <<>> /\ 1 .. Len(recv_queue'[s]) = {}
  BY <1>1
<1>4. ServerInv'
  <2>1. \A s \in Servers : s \in Slots /\ s \notin answering'
    BY <1>1, Programs, Zenon
  <2> QED
    BY <1>2, <1>3, <2>1 DEF ServerInv, SenderBlocked
<1>5. OthersInv'
  BY <1>2, <1>3 DEF OthersInv
<1>6. RequestInv' /\ OnceInv'
  BY <1>3, Zenon DEF RequestInv, OnceInv
<1> QED
  BY <1>1, <1>2, <1>4, <1>5, <1>6 DEF CSInv

(* CSInv is inductive.                                                     *)
LEMMA NextKeepsCSInv == CSInv /\ [CSNext]_cs_vars => CSInv'
<1> SUFFICES ASSUME CSInv, [CSNext]_cs_vars PROVE CSInv'
  OBVIOUS
<1>1. CASE CSNext
  <2>1. IInv'
    BY <1>1, CallsOfIpc, NextKeepsIInv DEF CSInv
  <2>2. CASE (Boot \/ Timer) /\ UNCHANGED answering
    BY <2>1, <2>2, BootKeepsCSInv, TimerKeepsCSInv
  <2>3. ASSUME NEW s \in Servers, Serve(s) PROVE CSInv'
    BY <2>1, <2>3, RecvKeepsCSInv, RplyKeepsCSInv, Zenon DEF Serve
  <2>4. ASSUME NEW c \in Clients, Ask(c) PROVE CSInv'
    BY <2>1, <2>4, AskKeepsCSInv, Zenon DEF Ask
  <2> QED
    BY <1>1, <2>2, <2>3, <2>4, Zenon DEF CSNext
<1>2. CASE UNCHANGED cs_vars
  <2>1. IInv'
    BY <1>2, NextKeepsIInv DEF cs_vars, CSInv
  <2>2. /\ state' = state /\ recv_queue' = recv_queue /\ mem' = mem /\ panic' = panic
        /\ booted' = booted /\ scheduling_enabled' = scheduling_enabled
        /\ current_proc' = current_proc /\ cursor' = cursor /\ idle' = idle
        /\ answering' = answering
    BY <1>2 DEF cs_vars, vars, proc_vars, ipc_vars
  <2>3. SchedInv' /\ OthersInv'
    BY <2>2 DEF CSInv, SchedInv, OthersInv
  <2>4. OnceInv'
    <3>1. recv_queue' = recv_queue
      BY <2>2
    <3>2. OnceInv
      BY DEF CSInv
    <3> QED
      BY <3>1, <3>2 DEF OnceInv
  <2>5. ServerInv'
    BY <2>2 DEF CSInv, ServerInv
  <2>6. RequestInv'
    BY <2>2 DEF CSInv, RequestInv
  <2> QED
    BY <2>1, <2>2, <2>3, <2>4, <2>5, <2>6 DEF CSInv
<1> QED
  BY <1>1, <1>2
=============================================================================
