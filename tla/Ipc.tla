--------------------------------- MODULE Ipc ---------------------------------
(***************************************************************************)
(* Message passing between processes: the three system calls of            *)
(* kernel/syscall.c as libipc issues them, over the scheduler of Proc.     *)
(*                                                                         *)
(* The system call gates are interrupt gates, so a handler runs to its     *)
(* nested int 0x7f without being interrupted: one call, with the           *)
(* scheduling at its end, is one step.  The programs are arbitrary: the    *)
(* current process may issue any call, or none and be preempted.           *)
(*                                                                         *)
(* A packet of recv_queue holds pointers to buffers of the processes, as   *)
(* in the code; mem is what the buffers contain.  Buffers are one for      *)
(* sending and one for receiving per process.                              *)
(***************************************************************************)
EXTENDS Proc, Sequences

CONSTANTS
  Data,      \* contents of a buffer
  Receivers, \* pids that programs pass to ipc_send
  MaxPackets \* bound: packets the kernel heap holds, 16 KiB in the code

ASSUME IpcAssumption ==
  /\ Data # {}
  /\ Receivers \subseteq Nat
  /\ MaxPackets \in Nat

VARIABLES
  recv_queue, \* procs[s].recv_queue
  allocated,  \* blocks that kalloc has given out and kfree not taken back
  mem,        \* the buffers
  from,       \* msg.sender of the last msg_packet passed to ipc_recv
  panic       \* screen_of_death has halted the machine

ipc_vars == <<recv_queue, allocated, mem, from, panic>>
vars == <<proc_vars, ipc_vars>>

send_buf(s) == <<s, "send">>
recv_buf(s) == <<s, "recv">>
NoBuf == <<NULL, "none">>
Buf == Slots \X {"send", "recv"}
Packet == [sender : Int, sbuf : Buf \cup {NoBuf}, rbuf : Buf]

(* The packet of a process that waits in ipc_recv: libipc zeroes its       *)
(* sender, and there is nothing to send yet.                               *)
IsPlaceholder(p) == p.sbuf = NoBuf

(* Buffers that nobody has written yet hold something.                     *)
Init ==
  /\ proc_earlyinit
  /\ recv_queue = [s \in Slots |-> <<>>]
  /\ allocated = 0
  /\ \E d \in Data : mem = [b \in Buf |-> d]
  /\ from = [s \in Slots |-> 0]
  /\ panic = FALSE

Boot ==
  /\ \/ \E k \in Slots : Create(k)
     \/ proc_kickoff_first_process
  /\ UNCHANGED ipc_vars

Timer ==
  /\ ~panic
  /\ timer_handler
  /\ UNCHANGED ipc_vars

(* A user of the system calls is running; idle makes none.                 *)
Calling == booted /\ ~panic /\ current_proc # idle

(* Mutant: the process is not made ready.                                  *)
Wake_lost(st, p) == st

(* Give p CPU time again.                                                  *)
Wake(st, p) == [st EXCEPT ![p] = "READY"]

(* Mutant: scheduling is not enabled again.                                *)
EnableAndSchedule_disabled(st) ==
  /\ UNCHANGED scheduling_enabled
  /\ proc_schedule_after_irq(st, FALSE)
  /\ UNCHANGED <<pid, next_pid, idle, booted>>

(* proc_enable_scheduling and proc_schedule_without_irq, the end of a call *)
(* that leaves the states st behind.                                       *)
EnableAndSchedule(st) ==
  /\ scheduling_enabled' = TRUE
  /\ proc_schedule_after_irq(st, TRUE)
  /\ UNCHANGED <<pid, next_pid, idle, booted>>

-----------------------------------------------------------------------------
(* ipc_send(q, ...) with message m.                                        *)

(* Mutant: the buffer for the answer is not recorded.                      *)
Request_no_recv_buf == [sender |-> pid[current_proc],
                        sbuf |-> send_buf(current_proc),
                        rbuf |-> NoBuf]

Request == [sender |-> pid[current_proc],
            sbuf |-> send_buf(current_proc),
            rbuf |-> recv_buf(current_proc)]

(* Mutant: the packet goes to the head of the queue.                       *)
Enqueue_head(r, p) ==
  /\ allocated < MaxPackets
  /\ allocated' = allocated + 1
  /\ recv_queue' = [recv_queue EXCEPT ![r] = <<p>> \o @]

(* kalloc a packet, which succeeds while the heap has room, and queue it.  *)
Enqueue(r, p) ==
  /\ allocated < MaxPackets
  /\ allocated' = allocated + 1
  /\ recv_queue' = [recv_queue EXCEPT ![r] = Append(@, p)]

(* No process has the pid: the handler returns with scheduling still       *)
(* disabled.                                                               *)
SendNoReceiver(q, m) ==
  /\ Calling
  /\ proc_find_by_pid(q) = NULL
  /\ scheduling_enabled' = FALSE
  /\ mem' = [mem EXCEPT ![send_buf(current_proc)] = m]
  /\ UNCHANGED <<state, pid, next_pid, cursor, idle, current_proc, booted,
                 recv_queue, allocated, from, panic>>

(* The receiver waits in ipc_recv: its placeholder becomes this packet and *)
(* the message is copied to where it wants it.                             *)
SendToWaiting(q, m) ==
  LET r == proc_find_by_pid(q)
      head == Head(recv_queue[r])
  IN /\ Calling
     /\ r # NULL
     /\ state[r] = "RECV_BLOCKED"
     /\ recv_queue' = [recv_queue EXCEPT ![r][1] = Request]
     /\ mem' = [mem EXCEPT ![send_buf(current_proc)] = m, ![head.rbuf] = m]
     /\ from' = [from EXCEPT ![r] = pid[current_proc]]
     /\ EnableAndSchedule(
          Wake([state EXCEPT ![current_proc] = "SEND_BLOCKED"], r))
     /\ UNCHANGED <<allocated, panic>>

(* Otherwise the packet is queued.  The sender blocks when the receiver is *)
(* READY, and in the default case of the switch it does not.               *)
SendToOther(q, m) ==
  LET r == proc_find_by_pid(q)
  IN /\ Calling
     /\ r # NULL
     /\ state[r] # "RECV_BLOCKED"
     /\ Enqueue(r, Request)
     /\ mem' = [mem EXCEPT ![send_buf(current_proc)] = m]
     /\ EnableAndSchedule(IF state[r] = "READY"
                          THEN [state EXCEPT ![current_proc] = "REPLY_BLOCKED"]
                          ELSE state)
     /\ UNCHANGED <<from, panic>>

syscall_send_msg(q, m) ==
  SendNoReceiver(q, m) \/ SendToWaiting(q, m) \/ SendToOther(q, m)

-----------------------------------------------------------------------------
(* ipc_recv().                                                             *)

(* Nothing is queued: leave a placeholder and block.                       *)
RecvBlock ==
  /\ Calling
  /\ recv_queue[current_proc] = <<>>
  /\ Enqueue(current_proc, [sender |-> 0, sbuf |-> NoBuf,
                            rbuf |-> recv_buf(current_proc)])
  /\ from' = [from EXCEPT ![current_proc] = 0]
  /\ EnableAndSchedule([state EXCEPT ![current_proc] = "RECV_BLOCKED"])
  /\ UNCHANGED <<mem, panic>>

(* A message is queued: copy it from its sender's buffer and leave it at   *)
(* the head, for ipc_reply.                                                *)
RecvQueued ==
  LET head == Head(recv_queue[current_proc])
  IN /\ Calling
     /\ recv_queue[current_proc] # <<>>
     /\ ~IsPlaceholder(head)
     /\ mem' = [mem EXCEPT ![recv_buf(current_proc)] = mem[head.sbuf]]
     /\ from' = [from EXCEPT ![current_proc] = head.sender]
     /\ EnableAndSchedule(state)
     /\ UNCHANGED <<recv_queue, allocated, panic>>

(* A placeholder is at the head: map_pages maps none of its zero bytes and *)
(* the copy from 0xbabe0000 faults inside the kernel.                      *)
RecvFault ==
  /\ Calling
  /\ recv_queue[current_proc] # <<>>
  /\ IsPlaceholder(Head(recv_queue[current_proc]))
  /\ panic' = TRUE
  /\ UNCHANGED <<proc_vars, recv_queue, allocated, mem, from>>

syscall_recv_msg == RecvBlock \/ RecvQueued \/ RecvFault

-----------------------------------------------------------------------------
(* Mutant: the packet stays queued.                                        *)
Dequeue_kept == UNCHANGED <<recv_queue, allocated>>

(* Unlink the packet at the head and kfree it.                             *)
Dequeue ==
  /\ recv_queue' = [recv_queue EXCEPT ![current_proc] = Tail(@)]
  /\ allocated' = allocated - 1

(* ipc_reply(..., m): the answer goes to the sender of the packet at the   *)
(* head, whichever sender the caller names.                                *)
syscall_rply_msg(m) ==
  LET head == Head(recv_queue[current_proc])
      sender == proc_find_by_pid(head.sender)
      buf == [mem EXCEPT ![send_buf(current_proc)] = m]
  IN /\ Calling
     /\ IF recv_queue[current_proc] = <<>>
        THEN /\ mem' = buf
             /\ UNCHANGED <<recv_queue, allocated>>
             /\ EnableAndSchedule(state)
        ELSE /\ mem' = [buf EXCEPT ![head.rbuf] = m]
             /\ Dequeue
             /\ EnableAndSchedule(Wake(state, sender))
     /\ UNCHANGED <<from, panic>>

-----------------------------------------------------------------------------
Syscall ==
  \/ \E q \in Receivers, m \in Data : syscall_send_msg(q, m)
  \/ syscall_recv_msg
  \/ \E m \in Data : syscall_rply_msg(m)

Next == Boot \/ Timer \/ Syscall

(* The timer keeps ticking, and boot code runs to its end.                 *)
Spec == Init /\ [][Next]_vars /\ WF_vars(Timer) /\ WF_vars(Boot)

-----------------------------------------------------------------------------
TypeOK ==
  /\ ProcTypeOK
  /\ recv_queue \in [Slots -> Seq(Packet)]
  /\ allocated \in Int
  /\ mem \in [Buf -> Data]
  /\ from \in [Slots -> Int]
  /\ panic \in BOOLEAN

(* proc_find_by_pid, by which every handler reaches another process, finds *)
(* the process of that pid in the slot of the same number, and no unused   *)
(* slot: the cursor that find_next_proc keeps across calls never makes     *)
(* proc_new skip a slot.                                                   *)
PidIsSlot ==
  \A s \in Slots : IF s < next_pid THEN pid[s] = s /\ state[s] # "UNUSED"
                                   ELSE pid[s] = -1 /\ state[s] = "UNUSED"

(* The scheduler never leaves a blocked process running, although handlers *)
(* block the current process before they call it, and it can always fall   *)
(* back to idle.                                                           *)
RunningIsRunnable ==
  booted => {state[current_proc], state[idle]} \subseteq {"RUNNING", "READY"}

(* A process that waits in ipc_recv has its own placeholder, and only it,  *)
(* in its queue.  syscall_send_msg dereferences the head of that queue     *)
(* behind a "TODO add a check that the queue is really non-empty".         *)
ReceiverHasPlaceholder ==
  \A s \in Slots :
    state[s] = "RECV_BLOCKED" =>
      /\ Len(recv_queue[s]) = 1
      /\ IsPlaceholder(recv_queue[s][1])
      /\ recv_queue[s][1].rbuf = recv_buf(s)

Queued(s) ==
  \E r \in Slots : \E i \in 1 .. Len(recv_queue[r]) :
    ~IsPlaceholder(recv_queue[r][i]) /\ recv_queue[r][i].sender = pid[s]

(* No sender is forgotten: while a process is blocked in ipc_send, some    *)
(* queue holds its packet, so the reply to it can still wake it.           *)
BlockedSenderIsQueued ==
  \A s \in Slots : state[s] \in SenderBlocked => Queued(s)

(* A reply takes the packet at the head of a queue that r replies from.    *)
Takes(r) ==
  recv_queue[r] # <<>> /\ recv_queue' = [recv_queue EXCEPT ![r] = Tail(@)]

(* A packet of s is answered.                                              *)
Consumes(s) ==
  \E r \in Slots : /\ Takes(r)
                   /\ ~IsPlaceholder(Head(recv_queue[r]))
                   /\ Head(recv_queue[r]).sender = pid[s]

(* A placeholder that no message has filled is answered.                   *)
ConsumesPlaceholder ==
  \E r \in Slots : Takes(r) /\ IsPlaceholder(Head(recv_queue[r]))

(* Only the reply to one of its packets releases a process blocked in      *)
(* ipc_send: neither the scheduler nor a message for it does.  The one     *)
(* exception is the process with pid 0, the pid in an unfilled placeholder:*)
(* a process that a late reply released from ipc_recv has its placeholder  *)
(* still, and when it replies to that, syscall_rply_msg releases the       *)
(* kernel process, whatever that waits for.                                *)
ReleaseConsumesPacket ==
  [][\A s \in Slots :
       state[s] \in SenderBlocked /\ state'[s] \notin Blocked =>
         Consumes(s) \/ (pid[s] = 0 /\ ConsumesPlaceholder)]_vars

(* Preemptive, round-robin multitasking: a READY process gets the CPU,     *)
(* unless the kernel faults or a message to nobody turns scheduling off    *)
(* first.                                                                  *)
ReadyRuns ==
  \A s \in Slots :
    (booted /\ state[s] = "READY" /\ s # idle) ~>
      (current_proc = s \/ panic \/ ~scheduling_enabled)
=============================================================================
