------------------------------ MODULE IpcProofs ------------------------------
(***************************************************************************)
(* The safety of Ipc for every number of processes, every set of pids and  *)
(* every heap size, whatever the programs do, and the order in which the   *)
(* scheduler serves them.                                                  *)
(***************************************************************************)
EXTENDS RoundRobin, SequenceTheorems, TLAPS

(* How far boot has come: the slots are filled in order, the cursor of     *)
(* find_next_proc follows them, and nothing blocks before kick-off.        *)
BootInv ==
  /\ idle = IF next_pid >= 2 THEN 1 ELSE NULL
  /\ booted => /\ next_pid = NCreated
               /\ current_proc \in 0 .. next_pid - 1
  /\ ~booted => /\ cursor = next_pid
                /\ current_proc = next_pid - 1
                /\ \A s \in Slots : state[s] \in {"UNUSED", "READY"}
                /\ recv_queue = [s \in Slots |-> <<>>]

(* A packet carries the pid of a process, a placeholder that of the kernel *)
(* process.                                                                *)
HasSender(p) ==
  p.sender \in 0 .. NCreated - 1 /\ (IsPlaceholder(p) => p.sender = 0)

SendersExist ==
  \A r \in Slots : \A i \in 1 .. Len(recv_queue[r]) : HasSender(recv_queue[r][i])

(* The inductive invariant: the properties, how far boot has come, and that*)
(* packets come from processes, so that a reply wakes one.                 *)
IInv ==
  /\ TypeOK
  /\ PidIsSlot
  /\ BootInv
  /\ SendersExist
  /\ RunningIsRunnable
  /\ ReceiverHasPlaceholder
  /\ BlockedSenderIsQueued

-----------------------------------------------------------------------------
(* What find_next_proc returns.                                            *)
LEMMA FindNextProc ==
  ASSUME ProcTypeOK, NEW st \in [Slots -> ProcState], NEW s \in ProcState,
         NEW k, find_next_proc(st, s, k)
  PROVE  /\ cursor' \in 0 .. NPROCS
         /\ k # NULL => k \in Slots /\ k # idle /\ st[k] = s /\ cursor' = k + 1
<1>1. \A n \in 0 .. NPROCS - 1 : Visited(n) \in Slots
  BY ProcAssumption DEF Visited, Slots, ProcTypeOK
<1>2. cursor % NPROCS \in 0 .. NPROCS
  BY ProcAssumption DEF ProcTypeOK
<1> QED
  BY <1>1, <1>2, ProcAssumption
  DEF find_next_proc, FirstCandidate, Candidate, Slots

(* proc_find_by_pid finds process p in slot p.                             *)
LEMMA FindByPid ==
  ASSUME ProcTypeOK, PidIsSlot, NEW p \in 0 .. next_pid - 1
  PROVE  proc_find_by_pid(p) = p
<1>1. p \in Slots
  BY ProcAssumption DEF ProcTypeOK, Slots, NCreated
<1>2. pid[p] = p
  BY <1>1 DEF PidIsSlot, ProcTypeOK
<1>3. \A s \in Slots : pid[s] = p => s = p
  BY <1>1 DEF PidIsSlot, ProcTypeOK, Slots, NCreated
<1>4. \A s \in Slots : (pid[s] = p /\ \A t \in Slots : pid[t] = p => s <= t) <=> s = p
  BY <1>1, <1>2, <1>3 DEF Slots
<1> QED
  BY <1>1, <1>2, <1>4, Zenon DEF proc_find_by_pid

(* A pid that finds a process is the pid of a process.                     *)
LEMMA FoundIsProcess ==
  ASSUME ProcTypeOK, PidIsSlot, NEW q \in Nat, proc_find_by_pid(q) # NULL
  PROVE  q \in 0 .. next_pid - 1 /\ proc_find_by_pid(q) = q
<1>1. PICK s \in Slots : pid[s] = q
  BY DEF proc_find_by_pid
<1>2. q \in 0 .. next_pid - 1
  BY <1>1, ProcAssumption DEF PidIsSlot, ProcTypeOK, Slots, NCreated
<1> QED
  BY <1>2, FindByPid

(* The scheduler changes the state of an unblocked current process to      *)
(* READY and no other state, and it runs a process that is not blocked.    *)
LEMMA Scheduling ==
  ASSUME ProcTypeOK, PidIsSlot, BootInv, booted,
         NEW st \in [Slots -> ProcState],
         \A s \in Slots : st[s] = "UNUSED" <=> state[s] = "UNUSED",
         st[idle] \in {"RUNNING", "READY"},
         NEW enabled \in BOOLEAN,
         enabled \/ st[current_proc] \notin Blocked,
         proc_schedule_after_irq(st, enabled)
  PROVE  /\ state' \in [Slots -> ProcState]
         /\ \A s \in Slots : /\ st[s] \in Blocked => state'[s] = st[s]
                             /\ state'[s] \in Blocked => state'[s] = st[s]
                             /\ state'[s] = "UNUSED" <=> st[s] = "UNUSED"
         /\ cursor' \in 0 .. NPROCS
         /\ current_proc' \in 0 .. next_pid - 1
         /\ {state'[current_proc'], state'[idle]} \subseteq {"RUNNING", "READY"}
<1>1. /\ current_proc \in Slots
      /\ current_proc \in 0 .. next_pid - 1
      /\ pid[current_proc] = current_proc
      /\ idle = 1
      /\ idle \in Slots
      /\ idle \in 0 .. next_pid - 1
      /\ \A s \in Slots : s \in 0 .. next_pid - 1 <=> state[s] # "UNUSED"
  BY ProcAssumption DEF ProcTypeOK, PidIsSlot, BootInv, Slots, NCreated, NULL
<1>2. proc_is_blocked(st, pid[current_proc]) <=> st[current_proc] \in Blocked
  BY <1>1, FindByPid DEF proc_is_blocked
<1>3. CASE ~enabled
  BY <1>1, <1>3 DEF proc_schedule_after_irq, ProcTypeOK, ProcState, Blocked, SenderBlocked
<1>4. CASE enabled
  <2> DEFINE st1 == [st EXCEPT ![current_proc] =
                       IF st[current_proc] \in Blocked THEN @ ELSE "READY"]
  <2>1. st1 \in [Slots -> ProcState]
    BY <1>1 DEF ProcState
  <2>2. \A s \in Slots : /\ st[s] \in Blocked => st1[s] = st[s]
                         /\ st1[s] \in Blocked => st1[s] = st[s]
                         /\ st1[s] = "UNUSED" <=> st[s] = "UNUSED"
    BY <1>1 DEF ProcState, Blocked, SenderBlocked
  <2>3. st1[idle] \in {"RUNNING", "READY"}
    BY <1>1 DEF Blocked, SenderBlocked
  <2>4. state' = st1
    BY <1>2, <1>4 DEF proc_schedule_after_irq
  <2>5. PICK k \in Slots \cup {NULL} :
          /\ find_next_proc(st1, "READY", k)
          /\ current_proc' = IF k = NULL THEN idle ELSE k
    BY <1>2, <1>4, Zenon DEF proc_schedule_after_irq
  <2> HIDE DEF st1
  <2>6. /\ cursor' \in 0 .. NPROCS
        /\ k # NULL => k \in Slots /\ k # idle /\ st1[k] = "READY"
    BY <2>1, <2>5, FindNextProc DEF ProcState
  <2>7. current_proc' \in 0 .. next_pid - 1 /\ st1[current_proc'] \in {"RUNNING", "READY"}
    BY <1>1, <2>1, <2>2, <2>3, <2>5, <2>6
  <2> QED
    BY <2>1, <2>2, <2>3, <2>4, <2>6, <2>7
<1> QED
  BY <1>3, <1>4

-----------------------------------------------------------------------------
(* The cleared process table satisfies the invariant.                      *)
LEMMA InitIInv == Init => IInv
<1> SUFFICES ASSUME Init PROVE IInv
  OBVIOUS
<1>1. TypeOK
  <2>1. ProcTypeOK
    <3>1. scheduling_enabled \in BOOLEAN /\ booted \in BOOLEAN
      BY Zenon DEF Init, proc_earlyinit
    <3>2. /\ state \in [Slots -> ProcState]
          /\ pid \in [Slots -> Int]
      BY DEF Init, proc_earlyinit, ProcState
    <3>3. /\ next_pid \in 0 .. NCreated
          /\ cursor \in 0 .. NPROCS
          /\ idle \in Slots \cup {NULL}
          /\ current_proc \in Slots \cup {NULL}
      BY ProcAssumption DEF Init, proc_earlyinit, NCreated
    <3> QED
      BY <3>1, <3>2, <3>3 DEF ProcTypeOK
  <2>2. recv_queue \in [Slots -> Seq(Packet)]
    BY DEF Init
  <2>3. panic \in BOOLEAN
    BY Zenon DEF Init
  <2>4. allocated \in Int /\ mem \in [Buf -> Data] /\ from \in [Slots -> Int]
    BY DEF Init
  <2> QED
    BY <2>1, <2>2, <2>3, <2>4 DEF TypeOK
<1>2. PidIsSlot /\ BootInv
  BY DEF Init, proc_earlyinit, PidIsSlot, BootInv, Slots, NULL
<1>3. SendersExist /\ RunningIsRunnable
  BY DEF Init, proc_earlyinit, SendersExist, RunningIsRunnable
<1>4. ReceiverHasPlaceholder /\ BlockedSenderIsQueued
  BY DEF Init, proc_earlyinit, ReceiverHasPlaceholder, BlockedSenderIsQueued,
     SenderBlocked
<1> QED
  BY <1>1, <1>2, <1>3, <1>4 DEF IInv

(* proc_new fills the slots in order: the cursor stands on the first       *)
(* unused one.                                                             *)
LEMMA CreateInOrder ==
  ASSUME ProcTypeOK, PidIsSlot, BootInv, ~booted, NEW k \in Slots, Create(k)
  PROVE  k = next_pid /\ cursor' = next_pid + 1
<1>1. next_pid \in Slots /\ state[next_pid] = "UNUSED" /\ next_pid # idle
  BY ProcAssumption
  DEF Create, ProcTypeOK, PidIsSlot, BootInv, Slots, NCreated, NULL
<1>2. Visited(0) = next_pid
  <2>1. cursor = next_pid /\ next_pid \in Nat /\ NPROCS \in Nat /\ next_pid < NPROCS
    BY <1>1, ProcAssumption DEF BootInv, Slots
  <2>2. (next_pid + 0) % NPROCS = next_pid
    BY <2>1
  <2> QED
    BY <2>1, <2>2 DEF Visited
<1>3. Candidate(state, "UNUSED", Visited(0))
  BY <1>1, <1>2 DEF Candidate
<1>4. PICK n \in 0 .. NPROCS - 1 : /\ FirstCandidate(state, "UNUSED", n)
                                   /\ k = Visited(n)
                                   /\ cursor' = k + 1
  BY <1>3, ProcAssumption
  DEF Create, proc_new, find_next_proc, NoCandidate, Slots, NULL
<1>5. n = 0
  BY <1>3, <1>4, ProcAssumption DEF FirstCandidate
<1> QED
  BY <1>2, <1>4, <1>5

(* proc_new and proc_kickoff_first_process preserve the invariant.         *)
LEMMA BootKeepsIInv == IInv /\ Boot => IInv'
<1> SUFFICES ASSUME IInv, Boot PROVE IInv'
  OBVIOUS
<1>1. CASE \E k \in Slots : Create(k)
  <2>1. PICK k \in Slots : Create(k)
    BY <1>1
  <2>2. ~booted
    BY <2>1, ProcAssumption DEF IInv, BootInv, Create, NCreated
  <2>3. k = next_pid /\ cursor' = next_pid + 1
    BY <2>1, <2>2, CreateInOrder DEF IInv, TypeOK
  <2>4. /\ TypeOK'
        /\ PidIsSlot'
        /\ BootInv'
    <3>1. ProcTypeOK'
      BY <2>1, <2>3, ProcAssumption
      DEF IInv, Create, proc_new, TypeOK, ProcTypeOK, Slots, ProcState, NCreated
    <3>2. TypeOK'
      BY <3>1 DEF IInv, Boot, TypeOK, ipc_vars
    <3>3. PidIsSlot'
      BY <2>1, <2>3
      DEF IInv, Create, proc_new, TypeOK, ProcTypeOK, PidIsSlot, Slots
    <3>4. idle' = IF next_pid' >= 2 THEN 1 ELSE NULL
      <4>1. next_pid \in Nat /\ idle = IF next_pid >= 2 THEN 1 ELSE NULL
        BY ProcAssumption DEF IInv, BootInv, TypeOK, ProcTypeOK, NCreated
      <4>2. /\ next_pid' = next_pid + 1
            /\ idle' = IF next_pid = 1 THEN next_pid ELSE idle
        BY <2>1, <2>3 DEF Create, proc_new
      <4> QED
        BY <4>1, <4>2 DEF NULL
    <3>5. /\ ~booted'
          /\ cursor' = next_pid'
          /\ current_proc' = next_pid' - 1
      BY <2>1, <2>2, <2>3, ProcAssumption
      DEF IInv, TypeOK, ProcTypeOK, Create, proc_new, NCreated
    <3>6. \A s \in Slots : state'[s] \in {"UNUSED", "READY"}
      BY <2>1, <2>2 DEF IInv, BootInv, TypeOK, ProcTypeOK, Create, proc_new
    <3>7. recv_queue' = [s \in Slots |-> <<>>]
      BY <2>2 DEF IInv, BootInv, Boot, ipc_vars
    <3>8. BootInv'
      BY <3>4, <3>5, <3>6, <3>7 DEF BootInv
    <3> QED
      BY <3>2, <3>3, <3>8
  <2>5. SendersExist' /\ RunningIsRunnable'
    BY <2>1, <2>2 DEF IInv, Boot, Create, proc_new, SendersExist, BootInv,
       RunningIsRunnable, ipc_vars
  <2>6. \A s \in Slots : state'[s] \in {"UNUSED", "READY"}
    BY <2>2, <2>4, <2>1 DEF BootInv, Create, proc_new
  <2>7. ReceiverHasPlaceholder' /\ BlockedSenderIsQueued'
    BY <2>6 DEF ReceiverHasPlaceholder, BlockedSenderIsQueued, SenderBlocked
  <2> QED
    BY <2>4, <2>5, <2>7 DEF IInv
<1>2. CASE proc_kickoff_first_process
  <2>1. current_proc \in Slots /\ current_proc = NCreated - 1 /\ idle = 1 /\ idle \in Slots
    BY <1>2, ProcAssumption
    DEF IInv, BootInv, proc_kickoff_first_process, Slots, NCreated, NULL
  <2>2. /\ TypeOK'
        /\ PidIsSlot'
        /\ BootInv'
    <3>1. TypeOK'
      BY <1>2, <2>1 DEF IInv, Boot, proc_kickoff_first_process, TypeOK,
         ProcTypeOK, ipc_vars, ProcState
    <3>2. PidIsSlot'
      BY <1>2, <2>1 DEF IInv, proc_kickoff_first_process, TypeOK, ProcTypeOK,
         PidIsSlot, Slots, NCreated
    <3>3. BootInv'
      BY <1>2, <2>1, ProcAssumption
      DEF IInv, proc_kickoff_first_process, BootInv, NCreated
    <3> QED
      BY <3>1, <3>2, <3>3
  <2>3. \A s \in Slots : state'[s] \in {"UNUSED", "READY", "RUNNING"}
    BY <1>2, <2>1 DEF IInv, BootInv, TypeOK, ProcTypeOK, proc_kickoff_first_process
  <2>4. SendersExist'
    BY DEF IInv, Boot, SendersExist, ipc_vars
  <2>5. RunningIsRunnable'
    BY <1>2, <2>1, <2>2, <2>3, ProcAssumption
    DEF RunningIsRunnable, BootInv, PidIsSlot, Slots, NCreated,
        proc_kickoff_first_process
  <2>6. ReceiverHasPlaceholder' /\ BlockedSenderIsQueued'
    BY <2>3 DEF ReceiverHasPlaceholder, BlockedSenderIsQueued, SenderBlocked
  <2> QED
    BY <2>2, <2>4, <2>5, <2>6 DEF IInv
<1> QED
  BY <1>1, <1>2 DEF Boot

-----------------------------------------------------------------------------
(* What a handler has to establish, on the states st and the queues it     *)
(* leaves to the scheduler, for the invariant to hold after the switch.    *)
LEMMA SwitchKeepsIInv ==
  ASSUME IInv, booted,
         NEW st \in [Slots -> ProcState],
         \A s \in Slots : st[s] = "UNUSED" <=> state[s] = "UNUSED",
         st[idle] \in {"RUNNING", "READY"},
         NEW enabled \in BOOLEAN,
         enabled \/ st[current_proc] \notin Blocked,
         proc_schedule_after_irq(st, enabled),
         UNCHANGED <<pid, next_pid, idle, booted>>,
         scheduling_enabled' \in BOOLEAN,
         recv_queue' \in [Slots -> Seq(Packet)],
         allocated' \in Int,
         mem' \in [Buf -> Data],
         from' \in [Slots -> Int],
         panic' \in BOOLEAN,
         SendersExist',
         \A s \in Slots : st[s] = "RECV_BLOCKED" =>
           /\ Len(recv_queue'[s]) = 1
           /\ IsPlaceholder(recv_queue'[s][1])
           /\ recv_queue'[s][1].rbuf = recv_buf(s),
         \A s \in Slots : st[s] \in SenderBlocked => Queued(s)'
  PROVE  IInv'
<1>1. /\ state' \in [Slots -> ProcState]
      /\ \A s \in Slots : /\ state'[s] \in Blocked => state'[s] = st[s]
                          /\ state'[s] = "UNUSED" <=> st[s] = "UNUSED"
      /\ cursor' \in 0 .. NPROCS
      /\ current_proc' \in 0 .. next_pid - 1
      /\ {state'[current_proc'], state'[idle]} \subseteq {"RUNNING", "READY"}
  BY Scheduling, Zenon DEF IInv, TypeOK
<1>2. current_proc' \in Slots
  BY <1>1, ProcAssumption DEF IInv, TypeOK, ProcTypeOK, Slots, NCreated
<1>3. TypeOK'
  BY <1>1, <1>2, Zenon DEF IInv, TypeOK, ProcTypeOK
<1>4. PidIsSlot'
  BY <1>1 DEF IInv, PidIsSlot
<1>5. BootInv'
  BY <1>1 DEF IInv, BootInv
<1>6. RunningIsRunnable'
  BY <1>1 DEF RunningIsRunnable
<1>7. ReceiverHasPlaceholder'
  BY <1>1 DEF ReceiverHasPlaceholder, Blocked
<1>8. BlockedSenderIsQueued'
  BY <1>1 DEF BlockedSenderIsQueued, Blocked
<1> QED
  BY <1>3, <1>4, <1>5, <1>6, <1>7, <1>8 DEF IInv

(* The process that issues a call is not blocked, nor is it idle.          *)
LEMMA Caller ==
  ASSUME IInv, booted
  PROVE  /\ current_proc \in Slots
         /\ current_proc \in 0 .. NCreated - 1
         /\ pid[current_proc] = current_proc
         /\ state[current_proc] \in {"RUNNING", "READY"}
         /\ idle \in Slots
         /\ state[idle] \in {"RUNNING", "READY"}
         /\ next_pid = NCreated
<1>1. next_pid = NCreated /\ current_proc \in 0 .. NCreated - 1 /\ idle = 1
  BY ProcAssumption DEF IInv, BootInv, NCreated
<1>2. current_proc \in Slots /\ idle \in Slots
  BY <1>1, ProcAssumption DEF Slots, NCreated
<1> QED
  BY <1>1, <1>2, ProcAssumption DEF IInv, RunningIsRunnable, PidIsSlot, NCreated

(* So does preemption by timer_handler,                                    *)
LEMMA TimerKeepsIInv == IInv /\ Timer => IInv'
<1> SUFFICES ASSUME IInv, Timer PROVE IInv'
  OBVIOUS
<1>1. booted
  BY DEF Timer, timer_handler
<1>2. state[current_proc] \notin Blocked
  BY <1>1, Caller DEF Blocked, SenderBlocked
<1>3. /\ state \in [Slots -> ProcState]
      /\ scheduling_enabled \in BOOLEAN
      /\ proc_schedule_after_irq(state, scheduling_enabled)
      /\ UNCHANGED <<pid, next_pid, idle, booted, scheduling_enabled>>
      /\ UNCHANGED <<recv_queue, allocated, mem, from, panic>>
  BY DEF IInv, TypeOK, ProcTypeOK, Timer, timer_handler, ipc_vars
<1>4. SendersExist'
  BY <1>3 DEF IInv, SendersExist
<1>5. \A s \in Slots : Queued(s) => Queued(s)'
  BY <1>3 DEF Queued
<1>6. \A s \in Slots : state[s] = "RECV_BLOCKED" =>
        /\ Len(recv_queue'[s]) = 1
        /\ IsPlaceholder(recv_queue'[s][1])
        /\ recv_queue'[s][1].rbuf = recv_buf(s)
  BY <1>3 DEF IInv, ReceiverHasPlaceholder
<1>7. /\ scheduling_enabled' \in BOOLEAN
      /\ recv_queue' \in [Slots -> Seq(Packet)]
      /\ allocated' \in Int
      /\ mem' \in [Buf -> Data]
      /\ from' \in [Slots -> Int]
      /\ panic' \in BOOLEAN
  BY <1>3 DEF IInv, TypeOK
<1>8. \A s \in Slots : state[s] \in SenderBlocked => Queued(s)'
  BY <1>5 DEF IInv, BlockedSenderIsQueued
<1> QED
  BY <1>1, <1>2, <1>3, <1>4, <1>6, <1>7, <1>8, Caller, SwitchKeepsIInv, Zenon

-----------------------------------------------------------------------------
(* syscall_send_msg to a pid that nobody has,                              *)
LEMMA SendNoReceiverKeepsIInv ==
  ASSUME IInv, NEW q \in Receivers, NEW m \in Data, SendNoReceiver(q, m)
  PROVE  IInv'
<1>1. send_buf(current_proc) \in Buf
  BY Caller DEF SendNoReceiver, Calling, send_buf, Buf
<1>2. scheduling_enabled' \in BOOLEAN
  BY Zenon DEF SendNoReceiver
<1>3. TypeOK'
  BY <1>1, <1>2 DEF IInv, TypeOK, ProcTypeOK, SendNoReceiver
<1>4. PidIsSlot' /\ BootInv' /\ SendersExist'
  BY DEF IInv, PidIsSlot, BootInv, SendersExist, SendNoReceiver
<1>5. RunningIsRunnable' /\ ReceiverHasPlaceholder'
  BY DEF IInv, RunningIsRunnable, ReceiverHasPlaceholder, SendNoReceiver
<1>6. BlockedSenderIsQueued'
  BY DEF IInv, BlockedSenderIsQueued, Queued, SendNoReceiver
<1> QED
  BY <1>3, <1>4, <1>5, <1>6 DEF IInv

(* The packet that ipc_send makes.                                         *)
LEMMA RequestType ==
  ASSUME IInv, booted
  PROVE  /\ Request \in Packet
         /\ ~IsPlaceholder(Request)
         /\ Request.sender = pid[current_proc]
         /\ HasSender(Request)
         /\ send_buf(current_proc) \in Buf
         /\ recv_buf(current_proc) \in Buf
<1>1. send_buf(current_proc) \in Buf /\ recv_buf(current_proc) \in Buf
  BY Caller DEF send_buf, recv_buf, Buf
<1>2. send_buf(current_proc) # NoBuf
  BY DEF send_buf, NoBuf
<1>3. pid[current_proc] \in Int
  BY Caller DEF Slots
<1> QED
  BY <1>1, <1>2, <1>3, Caller DEF Request, Packet, IsPlaceholder, HasSender

(* to a process that waits in ipc_recv, whose placeholder is overwritten,  *)
LEMMA SendToWaitingKeepsIInv ==
  ASSUME IInv, NEW q \in Receivers, NEW m \in Data, SendToWaiting(q, m)
  PROVE  IInv'
<1> DEFINE r == proc_find_by_pid(q)
           st == Wake([state EXCEPT ![current_proc] = "SEND_BLOCKED"], r)
<1>1. booted /\ Calling /\ state[r] = "RECV_BLOCKED" /\ current_proc # idle
  BY DEF SendToWaiting, Calling
<1>2. r = q /\ r \in Slots
  BY FoundIsProcess, IpcAssumption, ProcAssumption, <1>1
  DEF SendToWaiting, IInv, TypeOK, ProcTypeOK, Slots, NCreated
<1>3. r # current_proc /\ r # idle
  BY <1>1, Caller
<1>4. Len(recv_queue[r]) = 1
  BY <1>1, <1>2 DEF IInv, ReceiverHasPlaceholder
<1>5. /\ recv_queue \in [Slots -> Seq(Packet)]
      /\ state \in [Slots -> ProcState]
      /\ mem \in [Buf -> Data]
      /\ from \in [Slots -> Int]
  BY DEF IInv, TypeOK, ProcTypeOK
<1>6. /\ recv_queue' = [recv_queue EXCEPT ![r][1] = Request]
      /\ recv_queue' = [recv_queue EXCEPT ![r] = [recv_queue[r] EXCEPT ![1] = Request]]
  BY <1>2, <1>5 DEF SendToWaiting
<1>7. [recv_queue[r] EXCEPT ![1] = Request] \in Seq(Packet)
  <2>1. Request \in Packet /\ recv_queue[r] \in Seq(Packet) /\ 1 \in 1 .. Len(recv_queue[r])
    BY <1>1, <1>2, <1>4, <1>5, RequestType
  <2> QED
    BY <2>1, ExceptSeq
<1>8. /\ recv_queue' \in [Slots -> Seq(Packet)]
      /\ \A s \in Slots : Len(recv_queue'[s]) = Len(recv_queue[s])
      /\ \A s \in Slots : s # r => recv_queue'[s] = recv_queue[s]
      /\ recv_queue'[r][1] = Request
  BY <1>2, <1>4, <1>5, <1>6, <1>7
<1>9. /\ Head(recv_queue[r]) \in Packet
      /\ Head(recv_queue[r]).rbuf \in Buf
  <2>1. recv_queue[r] \in Seq(Packet)
    BY <1>2, <1>5
  <2>2. Len(<<>>) = 0
    OBVIOUS
  <2>3. recv_queue[r] # <<>>
    BY <1>4, <2>2
  <2>4. Head(recv_queue[r]) \in Packet
    BY <2>1, <2>3, HeadTailProperties
  <2> QED
    BY <2>4 DEF Packet
<1>10. mem' \in [Buf -> Data] /\ from' \in [Slots -> Int]
  <2>1. /\ mem' = [mem EXCEPT ![send_buf(current_proc)] = m,
                            ![Head(recv_queue[r]).rbuf] = m]
        /\ from' = [from EXCEPT ![r] = pid[current_proc]]
    BY DEF SendToWaiting
  <2>2. pid[current_proc] \in Int
    BY <1>1, Caller DEF Slots
  <2> QED
    BY <1>5, <2>1, <2>2, Zenon
<1>11. /\ allocated' \in Int
       /\ panic' \in BOOLEAN
  BY DEF IInv, TypeOK, SendToWaiting
<1>12. SendersExist'
  <2> SUFFICES ASSUME NEW t \in Slots, NEW i \in 1 .. Len(recv_queue'[t])
               PROVE  HasSender(recv_queue'[t][i])
    BY DEF SendersExist
  <2>1. CASE t # r
    BY <1>8, <2>1 DEF IInv, SendersExist
  <2>2. CASE t = r
    <3>1. Len(recv_queue'[t]) = 1
      BY <1>4, <1>8, <2>2, Zenon
    <3>2. i = 1
      BY <3>1
    <3> QED
      BY <1>1, <1>8, <2>2, <3>2, RequestType, Zenon
  <2> QED
    BY <2>1, <2>2
<1>13. /\ st \in [Slots -> ProcState]
       /\ \A s \in Slots : s \notin {r, current_proc} => st[s] = state[s]
       /\ st[r] = "READY"
       /\ st[current_proc] = "SEND_BLOCKED"
  BY <1>1, <1>2, <1>3, <1>5, Caller, Zenon
  DEF Wake, ProcState, Blocked, SenderBlocked
<1>14. /\ scheduling_enabled' = TRUE
       /\ proc_schedule_after_irq(st, TRUE)
       /\ UNCHANGED <<pid, next_pid, idle, booted>>
  BY Zenon DEF SendToWaiting, EnableAndSchedule
<1> HIDE DEF st
<1>15. /\ \A s \in Slots : st[s] = "UNUSED" <=> state[s] = "UNUSED"
       /\ st[idle] \in {"RUNNING", "READY"}
  BY <1>1, <1>3, <1>13, Caller
<1>16. \A s \in Slots : st[s] = "RECV_BLOCKED" =>
         /\ Len(recv_queue'[s]) = 1
         /\ IsPlaceholder(recv_queue'[s][1])
         /\ recv_queue'[s][1].rbuf = recv_buf(s)
  BY <1>8, <1>13 DEF IInv, ReceiverHasPlaceholder
<1>17. \A s \in Slots : st[s] \in SenderBlocked => Queued(s)'
  <2> SUFFICES ASSUME NEW s \in Slots, st[s] \in SenderBlocked PROVE Queued(s)'
    OBVIOUS
  <2>1. CASE s = current_proc
    <3>1. /\ ~IsPlaceholder(recv_queue'[r][1])
          /\ recv_queue'[r][1].sender = pid'[s]
          /\ 1 \in 1 .. Len(recv_queue'[r])
      BY <1>1, <1>2, <1>4, <1>8, <1>14, <2>1, RequestType
    <3> QED
      BY <1>2, <3>1 DEF Queued
  <2>2. CASE s # current_proc
    <3>1. Queued(s)
      BY <1>13, <2>2 DEF IInv, BlockedSenderIsQueued, SenderBlocked
    <3>2. PICK t \in Slots : \E i \in 1 .. Len(recv_queue[t]) :
            ~IsPlaceholder(recv_queue[t][i]) /\ recv_queue[t][i].sender = pid[s]
      BY <3>1 DEF Queued
    <3>3. t # r
      BY <1>1, <1>2, <1>4, <3>2, SMTT(30) DEF IInv, ReceiverHasPlaceholder
    <3> QED
      BY <1>8, <1>14, <3>2, <3>3 DEF Queued
  <2> QED
    BY <2>1, <2>2
<1> HIDE DEF r
<1> QED
  BY Zenon, <1>1, <1>8, <1>10, <1>11, <1>12, <1>13, <1>14, <1>15, <1>16, <1>17,
     SwitchKeepsIInv

(* Appending a packet keeps every queue's other packets in place.          *)
LEMMA Appending ==
  ASSUME IInv, NEW r \in Slots, NEW p \in Packet, HasSender(p),
         Enqueue(r, p)
  PROVE  /\ recv_queue' \in [Slots -> Seq(Packet)]
         /\ allocated' \in Int
         /\ \A s \in Slots : s # r => recv_queue'[s] = recv_queue[s]
         /\ Len(recv_queue'[r]) = Len(recv_queue[r]) + 1
         /\ \A i \in 1 .. Len(recv_queue[r]) : recv_queue'[r][i] = recv_queue[r][i]
         /\ recv_queue'[r][Len(recv_queue[r]) + 1] = p
         /\ SendersExist'
         /\ \A s \in Slots : Queued(s) /\ pid' = pid => Queued(s)'
<1>1. /\ recv_queue \in [Slots -> Seq(Packet)]
      /\ recv_queue[r] \in Seq(Packet)
      /\ Len(recv_queue[r]) \in Nat
  BY LenProperties DEF IInv, TypeOK
<1>2. recv_queue' = [recv_queue EXCEPT ![r] = Append(recv_queue[r], p)]
  BY DEF Enqueue
<1>3. /\ recv_queue' \in [Slots -> Seq(Packet)]
      /\ \A s \in Slots : s # r => recv_queue'[s] = recv_queue[s]
      /\ recv_queue'[r] = Append(recv_queue[r], p)
  BY <1>1, <1>2, AppendProperties
<1>4. /\ Len(recv_queue'[r]) = Len(recv_queue[r]) + 1
      /\ \A i \in 1 .. Len(recv_queue[r]) : recv_queue'[r][i] = recv_queue[r][i]
      /\ recv_queue'[r][Len(recv_queue[r]) + 1] = p
  BY <1>1, <1>3, AppendProperties
<1>5. allocated' \in Int
  BY DEF IInv, TypeOK, Enqueue
<1>6. SendersExist'
  <2> SUFFICES ASSUME NEW t \in Slots, NEW i \in 1 .. Len(recv_queue'[t])
               PROVE  HasSender(recv_queue'[t][i])
    BY DEF SendersExist
  <2>1. CASE t # r
    BY <1>3, <2>1 DEF IInv, SendersExist
  <2>2. CASE t = r /\ i \in 1 .. Len(recv_queue[r])
    BY <1>4, <2>2 DEF IInv, SendersExist
  <2>3. CASE t = r /\ i = Len(recv_queue[r]) + 1
    BY <1>4, <2>3
  <2> QED
    BY <1>1, <1>4, <2>1, <2>2, <2>3
<1>7. ASSUME NEW s \in Slots, Queued(s), pid' = pid PROVE Queued(s)'
  <2>1. PICK t \in Slots : \E i \in 1 .. Len(recv_queue[t]) :
          ~IsPlaceholder(recv_queue[t][i]) /\ recv_queue[t][i].sender = pid[s]
    BY <1>7 DEF Queued
  <2>2. PICK i \in 1 .. Len(recv_queue[t]) :
          ~IsPlaceholder(recv_queue[t][i]) /\ recv_queue[t][i].sender = pid[s]
    BY <2>1
  <2>3. i \in 1 .. Len(recv_queue'[t]) /\ recv_queue'[t][i] = recv_queue[t][i]
    <3>1. CASE t = r
      BY <1>1, <1>4, <3>1
    <3>2. CASE t # r
      BY <1>3, <3>2
    <3> QED
      BY <3>1, <3>2
  <2> QED
    BY <1>7, <2>2, <2>3 DEF Queued
<1> QED
  BY <1>3, <1>4, <1>5, <1>6, <1>7

(* and to any other process, to whose queue the packet is appended;        *)
LEMMA SendToOtherKeepsIInv ==
  ASSUME IInv, NEW q \in Receivers, NEW m \in Data, SendToOther(q, m)
  PROVE  IInv'
<1> DEFINE r == proc_find_by_pid(q)
           st == IF state[r] = "READY"
                 THEN [state EXCEPT ![current_proc] = "REPLY_BLOCKED"]
                 ELSE state
<1>1. booted /\ state[r] # "RECV_BLOCKED" /\ current_proc # idle
  BY DEF SendToOther, Calling
<1>2. r = q /\ r \in Slots
  BY FoundIsProcess, IpcAssumption, ProcAssumption
  DEF SendToOther, IInv, TypeOK, ProcTypeOK, Slots, NCreated
<1>3. /\ scheduling_enabled' = TRUE
      /\ proc_schedule_after_irq(st, TRUE)
      /\ UNCHANGED <<pid, next_pid, idle, booted>>
      /\ Enqueue(r, Request)
  BY Zenon DEF SendToOther, EnableAndSchedule
<1>4. /\ st \in [Slots -> ProcState]
      /\ \A s \in Slots : s # current_proc => st[s] = state[s]
      /\ st[current_proc] \in {"RUNNING", "READY", "REPLY_BLOCKED"}
  BY <1>1, Caller DEF IInv, TypeOK, ProcTypeOK, ProcState, Blocked, SenderBlocked
<1> HIDE DEF r, st
<1>5. /\ recv_queue' \in [Slots -> Seq(Packet)]
      /\ allocated' \in Int
      /\ \A s \in Slots : s # r => recv_queue'[s] = recv_queue[s]
      /\ Len(recv_queue'[r]) = Len(recv_queue[r]) + 1
      /\ recv_queue'[r][Len(recv_queue[r]) + 1] = Request
      /\ SendersExist'
      /\ \A s \in Slots : Queued(s) => Queued(s)'
  BY <1>1, <1>2, <1>3, RequestType, Appending
<1>6. mem' \in [Buf -> Data]
  BY <1>1, RequestType DEF IInv, TypeOK, SendToOther
<1>7. from' \in [Slots -> Int] /\ panic' \in BOOLEAN
  BY DEF IInv, TypeOK, SendToOther
<1>8. /\ \A s \in Slots : st[s] = "UNUSED" <=> state[s] = "UNUSED"
      /\ st[idle] \in {"RUNNING", "READY"}
  BY <1>1, <1>4, Caller
<1>9. \A s \in Slots : st[s] = "RECV_BLOCKED" =>
        /\ Len(recv_queue'[s]) = 1
        /\ IsPlaceholder(recv_queue'[s][1])
        /\ recv_queue'[s][1].rbuf = recv_buf(s)
  BY <1>1, <1>4, <1>5 DEF IInv, ReceiverHasPlaceholder
<1>10. \A s \in Slots : st[s] \in SenderBlocked => Queued(s)'
  <2> SUFFICES ASSUME NEW s \in Slots, st[s] \in SenderBlocked PROVE Queued(s)'
    OBVIOUS
  <2>1. CASE s = current_proc
    <3>1. Len(recv_queue[r]) \in Nat
      BY <1>2, LenProperties DEF IInv, TypeOK
    <3>2. Len(recv_queue[r]) + 1 \in 1 .. Len(recv_queue'[r])
      BY <1>5, <3>1
    <3>3. ~IsPlaceholder(Request) /\ Request.sender = pid[s] /\ pid' = pid
      BY <1>1, <1>3, <2>1, RequestType
    <3>4. /\ ~IsPlaceholder(recv_queue'[r][Len(recv_queue[r]) + 1])
          /\ recv_queue'[r][Len(recv_queue[r]) + 1].sender = pid'[s]
      BY <1>5, <3>3
    <3> QED
      BY <1>2, <3>2, <3>4 DEF Queued
  <2>2. CASE s # current_proc
    BY <1>4, <1>5, <2>2 DEF IInv, BlockedSenderIsQueued
  <2> QED
    BY <2>1, <2>2
<1> QED
  BY <1>1, <1>3, <1>4, <1>5, <1>6, <1>7, <1>8, <1>9, <1>10, SwitchKeepsIInv, Zenon
-----------------------------------------------------------------------------

(* syscall_recv_msg with an empty queue,                                   *)
LEMMA RecvBlockKeepsIInv == IInv /\ RecvBlock => IInv'
<1> SUFFICES ASSUME IInv, RecvBlock PROVE IInv'
  OBVIOUS
<1> DEFINE p == [sender |-> 0, sbuf |-> NoBuf, rbuf |-> recv_buf(current_proc)]
           st == [state EXCEPT ![current_proc] = "RECV_BLOCKED"]
<1>1. booted /\ current_proc # idle /\ recv_queue[current_proc] = <<>>
  BY DEF RecvBlock, Calling
<1>2. /\ scheduling_enabled' = TRUE
      /\ proc_schedule_after_irq(st, TRUE)
      /\ UNCHANGED <<pid, next_pid, idle, booted>>
      /\ Enqueue(current_proc, p)
  BY DEF RecvBlock, EnableAndSchedule
<1>3. /\ p \in Packet
      /\ HasSender(p)
      /\ IsPlaceholder(p)
      /\ p.rbuf = recv_buf(current_proc)
  BY <1>1, RequestType, ProcAssumption DEF Packet, NCreated, IsPlaceholder, HasSender
<1>4. /\ st \in [Slots -> ProcState]
      /\ \A s \in Slots : s # current_proc => st[s] = state[s]
      /\ st[current_proc] = "RECV_BLOCKED"
  BY <1>1, Caller DEF IInv, TypeOK, ProcTypeOK, ProcState, Blocked
<1> HIDE DEF p, st
<1>5. /\ recv_queue' \in [Slots -> Seq(Packet)]
      /\ allocated' \in Int
      /\ \A s \in Slots : s # current_proc => recv_queue'[s] = recv_queue[s]
      /\ Len(recv_queue'[current_proc]) = Len(recv_queue[current_proc]) + 1
      /\ recv_queue'[current_proc][Len(recv_queue[current_proc]) + 1] = p
      /\ SendersExist'
      /\ \A s \in Slots : Queued(s) => Queued(s)'
  BY <1>1, <1>2, <1>3, Caller, Appending
<1>6. Len(recv_queue[current_proc]) = 0
  BY <1>1
<1>7. from' \in [Slots -> Int] /\ mem' \in [Buf -> Data] /\ panic' \in BOOLEAN
  <2>1. from' = [from EXCEPT ![current_proc] = 0] /\ UNCHANGED <<mem, panic>>
    BY DEF RecvBlock
  <2>2. from \in [Slots -> Int] /\ mem \in [Buf -> Data] /\ panic \in BOOLEAN
    BY DEF IInv, TypeOK
  <2>3. from' \in [Slots -> Int]
    BY <1>1, <2>1, <2>2, Caller
  <2> QED
    BY <2>1, <2>2, <2>3
<1>8. /\ \A s \in Slots : st[s] = "UNUSED" <=> state[s] = "UNUSED"
      /\ st[idle] \in {"RUNNING", "READY"}
  BY <1>1, <1>4, Caller
<1>9. \A s \in Slots : st[s] = "RECV_BLOCKED" =>
        /\ Len(recv_queue'[s]) = 1
        /\ IsPlaceholder(recv_queue'[s][1])
        /\ recv_queue'[s][1].rbuf = recv_buf(s)
  BY <1>3, <1>4, <1>5, <1>6 DEF IInv, ReceiverHasPlaceholder
<1>10. \A s \in Slots : st[s] \in SenderBlocked => Queued(s)'
  BY <1>4, <1>5 DEF IInv, BlockedSenderIsQueued, SenderBlocked
<1> QED
  BY <1>1, <1>2, <1>4, <1>5, <1>7, <1>8, <1>9, <1>10, SwitchKeepsIInv, Zenon

(* A call that changes neither states nor queues before it schedules.      *)
LEMMA QuietCallKeepsIInv ==
  ASSUME IInv, booted, EnableAndSchedule(state),
         UNCHANGED <<recv_queue, allocated, panic>>,
         mem' \in [Buf -> Data], from' \in [Slots -> Int]
  PROVE  IInv'
<1>1. state[current_proc] \notin Blocked /\ state[idle] \in {"RUNNING", "READY"}
  BY Caller DEF Blocked, SenderBlocked
<1>2. /\ state \in [Slots -> ProcState]
      /\ scheduling_enabled' = TRUE
      /\ proc_schedule_after_irq(state, TRUE)
      /\ UNCHANGED <<pid, next_pid, idle, booted>>
  BY DEF IInv, TypeOK, ProcTypeOK, EnableAndSchedule
<1>3. SendersExist'
  BY DEF IInv, SendersExist
<1>4. /\ recv_queue' \in [Slots -> Seq(Packet)]
      /\ allocated' \in Int
      /\ panic' \in BOOLEAN
  BY DEF IInv, TypeOK
<1>5. \A s \in Slots : state[s] = "RECV_BLOCKED" =>
        /\ Len(recv_queue'[s]) = 1
        /\ IsPlaceholder(recv_queue'[s][1])
        /\ recv_queue'[s][1].rbuf = recv_buf(s)
  BY DEF IInv, ReceiverHasPlaceholder
<1>6. \A s \in Slots : state[s] \in SenderBlocked => Queued(s)'
  BY <1>2 DEF IInv, BlockedSenderIsQueued, Queued
<1> QED
  BY <1>1, <1>2, <1>3, <1>4, <1>5, <1>6, SwitchKeepsIInv, Zenon

(* with a message at the head of the queue,                                *)
LEMMA RecvQueuedKeepsIInv == IInv /\ RecvQueued => IInv'
<1> SUFFICES ASSUME IInv, RecvQueued PROVE IInv'
  OBVIOUS
<1> DEFINE head == Head(recv_queue[current_proc])
<1>1. booted /\ recv_queue[current_proc] # <<>> /\ head.sbuf # NoBuf
  BY DEF RecvQueued, Calling, IsPlaceholder
<1>2. recv_queue[current_proc] \in Seq(Packet)
  BY <1>1, Caller DEF IInv, TypeOK
<1>3. head \in Packet
  BY <1>1, <1>2, HeadTailProperties
<1>4. head.sbuf \in Buf /\ head.sender \in Int
  BY <1>1, <1>3 DEF Packet
<1>5. mem' \in [Buf -> Data] /\ from' \in [Slots -> Int]
  BY <1>1, <1>4, RequestType, Caller DEF IInv, TypeOK, RecvQueued
<1> QED
  BY <1>1, <1>5, QuietCallKeepsIInv DEF RecvQueued

(* and with a placeholder there, which faults.                             *)
LEMMA RecvFaultKeepsIInv == IInv /\ RecvFault => IInv'
<1> SUFFICES ASSUME IInv, RecvFault PROVE IInv'
  OBVIOUS
<1>1. panic' \in BOOLEAN
  BY DEF RecvFault
<1>2. TypeOK'
  BY <1>1 DEF IInv, TypeOK, ProcTypeOK, RecvFault, proc_vars
<1>3. PidIsSlot' /\ BootInv' /\ SendersExist'
  BY DEF IInv, PidIsSlot, BootInv, SendersExist, RecvFault, proc_vars
<1>4. RunningIsRunnable' /\ ReceiverHasPlaceholder'
  BY DEF IInv, RunningIsRunnable, ReceiverHasPlaceholder, RecvFault, proc_vars
<1>5. BlockedSenderIsQueued'
  BY DEF IInv, BlockedSenderIsQueued, Queued, RecvFault, proc_vars
<1> QED
  BY <1>2, <1>3, <1>4, <1>5 DEF IInv

-----------------------------------------------------------------------------
(* ipc_reply takes a packet that was queued, and wakes its sender.         *)
LEMMA RplyMsgKeepsIInv ==
  ASSUME IInv, NEW m \in Data, syscall_rply_msg(m)
  PROVE  IInv'
<1> DEFINE c == current_proc
           queue == recv_queue[c]
           buf == [mem EXCEPT ![send_buf(c)] = m]
<1>1. booted /\ current_proc # idle /\ UNCHANGED <<from, panic>>
  BY DEF syscall_rply_msg, Calling
<1>2. /\ recv_queue \in [Slots -> Seq(Packet)]
      /\ queue \in Seq(Packet)
      /\ state \in [Slots -> ProcState]
      /\ buf \in [Buf -> Data]
      /\ from' \in [Slots -> Int]
      /\ panic' \in BOOLEAN
  BY <1>1, Caller, RequestType DEF IInv, TypeOK, ProcTypeOK
<1>3. CASE queue = <<>>
  BY <1>1, <1>2, <1>3, QuietCallKeepsIInv DEF syscall_rply_msg
<1>4. CASE queue # <<>>
  <2> DEFINE head == Head(queue)
             sender == proc_find_by_pid(head.sender)
             st == Wake(state, sender)
             tl == Tail(queue)
  <2>1. /\ mem' = [buf EXCEPT ![head.rbuf] = m]
        /\ recv_queue' = [recv_queue EXCEPT ![c] = tl]
        /\ allocated' = allocated - 1
        /\ scheduling_enabled' = TRUE
        /\ proc_schedule_after_irq(st, TRUE)
        /\ UNCHANGED <<pid, next_pid, idle, booted>>
    BY <1>4 DEF syscall_rply_msg, Dequeue, EnableAndSchedule
  <2>2. /\ head \in Packet
        /\ tl \in Seq(Packet)
        /\ Len(tl) = Len(queue) - 1
        /\ \A i \in 1 .. Len(tl) : tl[i] = queue[i + 1]
    BY <1>2, <1>4, HeadTailProperties
  <2>3. Len(queue) \in Nat /\ Len(queue) > 0 /\ head = queue[1]
    BY <1>2, <1>4
  <2>4. head.sender \in 0 .. NCreated - 1
    BY <1>1, <2>3, Caller DEF IInv, SendersExist, HasSender
  <2>5. sender = head.sender /\ sender \in Slots /\ pid[sender] = sender
    <3>1. sender = head.sender
      BY <1>1, <2>4, Caller, FindByPid DEF IInv, TypeOK
    <3>2. sender \in Slots
      BY <2>4, <3>1, ProcAssumption DEF Slots, NCreated
    <3>3. pid[sender] = sender
      BY <1>1, <2>4, <3>1, <3>2, Caller, ProcAssumption DEF IInv, PidIsSlot, NCreated
    <3> QED
      BY <3>1, <3>2, <3>3
  <2>6. /\ st \in [Slots -> ProcState]
        /\ \A s \in Slots : s # sender => st[s] = state[s]
        /\ st[sender] = "READY"
        /\ state[sender] # "UNUSED"
    <3>1. state[sender] # "UNUSED"
      BY <1>1, <2>4, <2>5, Caller, ProcAssumption DEF IInv, PidIsSlot, NCreated
    <3>2. st = [state EXCEPT ![sender] = "READY"] /\ "READY" \in ProcState
      BY DEF Wake, ProcState
    <3> QED
      BY <1>2, <2>5, <3>1, <3>2, Zenon
  <2>7. recv_queue' \in [Slots -> Seq(Packet)]
    BY <1>2, <2>1, <2>2, Zenon
  <2>8. /\ \A s \in Slots : s # c => recv_queue'[s] = recv_queue[s]
        /\ recv_queue'[c] = tl
    BY <1>1, <1>2, <2>1, Caller
  <2> HIDE DEF st, tl
  <2>9. mem' \in [Buf -> Data] /\ allocated' \in Int
    <3>1. mem' = [buf EXCEPT ![head.rbuf] = m] /\ buf \in [Buf -> Data]
      BY <1>2, <2>1
    <3>2. mem' \in [Buf -> Data]
      <4> HIDE DEF buf, head
      <4> QED
        BY <3>1
    <3>3. allocated' \in Int
      BY <2>1 DEF IInv, TypeOK
    <3> QED
      BY <3>2, <3>3
  <2>10. SendersExist'
    <3> SUFFICES ASSUME NEW t \in Slots, NEW i \in 1 .. Len(recv_queue'[t])
                 PROVE  HasSender(recv_queue'[t][i])
      BY DEF SendersExist
    <3>1. CASE t # c
      BY <2>8, <3>1 DEF IInv, SendersExist
    <3>2. CASE t = c
      <4>1. i + 1 \in 1 .. Len(queue) /\ recv_queue'[t][i] = queue[i + 1]
        BY <2>2, <2>3, <2>8, <3>2
      <4> QED
        BY <1>1, <4>1, Caller DEF IInv, SendersExist
    <3> QED
      BY <3>1, <3>2
  <2>11. /\ \A s \in Slots : st[s] = "UNUSED" <=> state[s] = "UNUSED"
         /\ st[idle] \in {"RUNNING", "READY"}
    BY <1>1, <2>5, <2>6, Caller
  <2>12. \A s \in Slots : st[s] = "RECV_BLOCKED" =>
           /\ Len(recv_queue'[s]) = 1
           /\ IsPlaceholder(recv_queue'[s][1])
           /\ recv_queue'[s][1].rbuf = recv_buf(s)
    <3>1. \A s \in Slots : st[s] = "RECV_BLOCKED" => s # c /\ state[s] = "RECV_BLOCKED"
      BY <1>1, <2>6, Caller
    <3> QED
      BY <2>8, <3>1 DEF IInv, ReceiverHasPlaceholder
  <2>13. \A s \in Slots : st[s] \in SenderBlocked => Queued(s)'
    <3> SUFFICES ASSUME NEW s \in Slots, st[s] \in SenderBlocked PROVE Queued(s)'
      OBVIOUS
    <3>1. s # sender /\ Queued(s)
      BY <2>6 DEF IInv, BlockedSenderIsQueued, SenderBlocked
    <3>2. PICK t \in Slots : \E i \in 1 .. Len(recv_queue[t]) :
            ~IsPlaceholder(recv_queue[t][i]) /\ recv_queue[t][i].sender = pid[s]
      BY <3>1 DEF Queued
    <3>3. PICK i \in 1 .. Len(recv_queue[t]) :
            ~IsPlaceholder(recv_queue[t][i]) /\ recv_queue[t][i].sender = pid[s]
      BY <3>2
    <3>4. CASE t # c
      BY <2>1, <2>8, <3>2, <3>4, SMTT(30) DEF Queued
    <3>5. CASE t = c
      <4>1. pid[s] # sender
        BY <2>4, <2>5, <3>1, ProcAssumption, SMTT(30) DEF IInv, PidIsSlot, NCreated, Slots
      <4>2. i # 1
        BY <2>3, <2>5, <3>3, <3>5, <4>1
      <4>3. i - 1 \in 1 .. Len(recv_queue'[t]) /\ recv_queue'[t][i - 1] = recv_queue[t][i]
        BY <2>2, <2>3, <2>8, <3>5, <4>2
      <4> QED
        BY <2>1, <3>3, <4>3 DEF Queued
    <3> QED
      BY <3>4, <3>5
  <2> QED
    BY <1>1, <1>2, <2>1, <2>6, <2>7, <2>9, <2>10, <2>11, <2>12, <2>13, SwitchKeepsIInv, Zenon
<1> QED
  BY <1>3, <1>4

-----------------------------------------------------------------------------
(* Every step preserves the invariant.                                     *)
LEMMA NextKeepsIInv == IInv /\ [Next]_vars => IInv'
<1> SUFFICES ASSUME IInv, [Next]_vars PROVE IInv'
  OBVIOUS
<1>1. CASE Boot
  BY <1>1, BootKeepsIInv
<1>2. CASE Timer
  BY <1>2, TimerKeepsIInv
<1>3. CASE \E q \in Receivers, m \in Data : syscall_send_msg(q, m)
  BY <1>3, SendNoReceiverKeepsIInv, SendToWaitingKeepsIInv, SendToOtherKeepsIInv
  DEF syscall_send_msg
<1>4. CASE syscall_recv_msg
  BY <1>4, RecvBlockKeepsIInv, RecvQueuedKeepsIInv, RecvFaultKeepsIInv
  DEF syscall_recv_msg
<1>5. CASE \E m \in Data : syscall_rply_msg(m)
  BY <1>5, RplyMsgKeepsIInv
<1>6. CASE UNCHANGED vars
  <2>1. UNCHANGED proc_vars /\ UNCHANGED ipc_vars
    BY <1>6 DEF vars
  <2>2. TypeOK' /\ PidIsSlot' /\ BootInv' /\ RunningIsRunnable'
    BY <2>1 DEF IInv, TypeOK, ProcTypeOK, PidIsSlot, BootInv, RunningIsRunnable,
                proc_vars, ipc_vars
  <2>3. SendersExist' /\ ReceiverHasPlaceholder' /\ BlockedSenderIsQueued'
    BY <2>1 DEF IInv, SendersExist, ReceiverHasPlaceholder, BlockedSenderIsQueued,
                Queued, proc_vars, ipc_vars
  <2> QED
    BY <2>2, <2>3 DEF IInv
<1> QED
  BY <1>1, <1>2, <1>3, <1>4, <1>5, <1>6 DEF Next, Syscall

(* The invariant holds in every reachable state of the kernel, whatever the*)
(* programs call.                                                          *)
THEOREM Invariance == Spec => []IInv
  BY InitIInv, NextKeepsIInv, PTL DEF Spec

(* Type correctness.                                                       *)
THEOREM TypeCorrect == Spec => []TypeOK
  BY Invariance, PTL DEF IInv

(* proc_find_by_pid reaches the process with the pid, and no unused slot.  *)
THEOREM PidsCorrect == Spec => []PidIsSlot
  BY Invariance, PTL DEF IInv

(* proc_schedule_after_irq never leaves a blocked process on the CPU.      *)
THEOREM SchedulerSafe == Spec => []RunningIsRunnable
  BY Invariance, PTL DEF IInv

(* The head that syscall_send_msg dereferences unchecked exists, and is    *)
(* the receiver's placeholder.                                             *)
THEOREM ReceiversWait == Spec => []ReceiverHasPlaceholder
  BY Invariance, PTL DEF IInv

(* No sender stays blocked in ipc_send without a packet in some queue.     *)
THEOREM SendersRemembered == Spec => []BlockedSenderIsQueued
  BY Invariance, PTL DEF IInv

-----------------------------------------------------------------------------
(* A handler that leaves every blocked sender blocked releases none.       *)
LEMMA SwitchReleasesNone ==
  ASSUME IInv, booted,
         NEW st \in [Slots -> ProcState],
         \A s \in Slots : st[s] = "UNUSED" <=> state[s] = "UNUSED",
         st[idle] \in {"RUNNING", "READY"},
         proc_schedule_after_irq(st, TRUE),
         NEW s \in Slots, st[s] \in Blocked
  PROVE  state'[s] \in Blocked
<1> QED
  BY Scheduling, Zenon DEF IInv, TypeOK

(* ipc_send releases no blocked sender.                                    *)
LEMMA SendReleasesNone ==
  ASSUME IInv, NEW q \in Receivers, NEW m \in Data, syscall_send_msg(q, m),
         NEW s \in Slots, state[s] \in SenderBlocked
  PROVE  state'[s] \in Blocked
<1> DEFINE r == proc_find_by_pid(q)
<1>1. CASE SendNoReceiver(q, m)
  BY <1>1 DEF SendNoReceiver, Blocked
<1>2. CASE SendToWaiting(q, m)
  <2> DEFINE st == Wake([state EXCEPT ![current_proc] = "SEND_BLOCKED"], r)
  <2>1. /\ booted
        /\ current_proc # idle
        /\ state[r] = "RECV_BLOCKED"
        /\ proc_schedule_after_irq(st, TRUE)
    BY <1>2, Zenon DEF SendToWaiting, Calling, EnableAndSchedule
  <2>2. r # current_proc /\ r # idle /\ s # r /\ s # current_proc
    BY <2>1, Caller DEF SenderBlocked
  <2>3. /\ st \in [Slots -> ProcState]
        /\ \A t \in Slots : st[t] = "UNUSED" <=> state[t] = "UNUSED"
        /\ st[idle] \in {"RUNNING", "READY"}
        /\ st[s] = state[s]
    BY <2>1, <2>2, Caller, Zenon
    DEF IInv, TypeOK, ProcTypeOK, Wake, ProcState, Blocked, SenderBlocked
  <2> HIDE DEF st
  <2> QED
    BY <2>1, <2>3, SwitchReleasesNone, Zenon DEF Blocked
<1>3. CASE SendToOther(q, m)
  <2> DEFINE st == IF state[r] = "READY"
                   THEN [state EXCEPT ![current_proc] = "REPLY_BLOCKED"]
                   ELSE state
  <2>1. booted /\ current_proc # idle /\ proc_schedule_after_irq(st, TRUE)
    BY <1>3, Zenon DEF SendToOther, Calling, EnableAndSchedule
  <2>2. s # current_proc
    BY <2>1, Caller DEF SenderBlocked
  <2>3. /\ st \in [Slots -> ProcState]
        /\ \A t \in Slots : st[t] = "UNUSED" <=> state[t] = "UNUSED"
        /\ st[idle] \in {"RUNNING", "READY"}
        /\ st[s] = state[s]
    BY <2>1, <2>2, Caller DEF IInv, TypeOK, ProcTypeOK, ProcState, Blocked, SenderBlocked
  <2> HIDE DEF st
  <2> QED
    BY <2>1, <2>3, SwitchReleasesNone, Zenon DEF Blocked
<1> QED
  BY <1>1, <1>2, <1>3 DEF syscall_send_msg

(* Nor does a call that only schedules.                                    *)
LEMMA QuietCallReleasesNone ==
  ASSUME IInv, booted, EnableAndSchedule(state),
         NEW s \in Slots, state[s] \in SenderBlocked
  PROVE  state'[s] \in Blocked
<1>1. state \in [Slots -> ProcState] /\ proc_schedule_after_irq(state, TRUE)
  BY Zenon DEF IInv, TypeOK, ProcTypeOK, EnableAndSchedule
<1> QED
  BY <1>1, Caller, SwitchReleasesNone, Zenon DEF Blocked

(* ipc_recv releases none.                                                 *)
LEMMA RecvReleasesNone ==
  ASSUME IInv, syscall_recv_msg, NEW s \in Slots, state[s] \in SenderBlocked
  PROVE  state'[s] \in Blocked
<1>1. CASE RecvBlock
  <2> DEFINE st == [state EXCEPT ![current_proc] = "RECV_BLOCKED"]
  <2>1. booted /\ current_proc # idle /\ proc_schedule_after_irq(st, TRUE)
    BY <1>1, Zenon DEF RecvBlock, Calling, EnableAndSchedule
  <2>2. s # current_proc
    BY <2>1, Caller DEF SenderBlocked
  <2>3. /\ st \in [Slots -> ProcState]
        /\ \A t \in Slots : st[t] = "UNUSED" <=> state[t] = "UNUSED"
        /\ st[idle] \in {"RUNNING", "READY"}
        /\ st[s] = state[s]
    BY <2>1, <2>2, Caller DEF IInv, TypeOK, ProcTypeOK, ProcState, Blocked
  <2> HIDE DEF st
  <2> QED
    BY <2>1, <2>3, SwitchReleasesNone, Zenon DEF Blocked
<1>2. CASE RecvQueued
  BY <1>2, QuietCallReleasesNone DEF RecvQueued, Calling
<1>3. CASE RecvFault
  BY <1>3 DEF RecvFault, proc_vars, Blocked
<1> QED
  BY <1>1, <1>2, <1>3 DEF syscall_recv_msg

(* ipc_reply releases the sender of the packet that it takes off the queue:*)
(* a placeholder has that of the kernel process.                           *)
LEMMA RplyConsumes ==
  ASSUME IInv, NEW m \in Data, syscall_rply_msg(m),
         NEW s \in Slots, state[s] \in SenderBlocked, state'[s] \notin Blocked
  PROVE  Consumes(s) \/ (pid[s] = 0 /\ ConsumesPlaceholder)
<1> DEFINE queue == recv_queue[current_proc]
           sender == proc_find_by_pid(Head(queue).sender)
           st == Wake(state, sender)
<1>1. booted /\ current_proc # idle
  BY DEF syscall_rply_msg, Calling
<1>2. queue # <<>>
  BY <1>1, QuietCallReleasesNone DEF syscall_rply_msg
<1>3. /\ recv_queue' = [recv_queue EXCEPT ![current_proc] = Tail(@)]
      /\ proc_schedule_after_irq(st, TRUE)
  BY <1>2 DEF syscall_rply_msg, Dequeue, EnableAndSchedule
<1>4. HasSender(Head(queue))
  <2>1. queue \in Seq(Packet)
    BY <1>1, Caller DEF IInv, TypeOK
  <2>2. 1 \in 1 .. Len(queue) /\ Head(queue) = queue[1]
    BY <1>2, <2>1
  <2> QED
    BY <1>1, <2>2, Caller DEF IInv, SendersExist
<1>5. sender = Head(queue).sender
  BY <1>1, <1>4, Caller, FindByPid DEF IInv, TypeOK, HasSender
<1>6. /\ sender \in Slots
      /\ pid[sender] = sender
      /\ state[sender] # "UNUSED"
  <2>1. sender \in Slots /\ sender < NCreated
    BY <1>4, <1>5, ProcAssumption DEF Slots, NCreated, HasSender
  <2> QED
    BY <1>1, <2>1, Caller DEF IInv, PidIsSlot
<1>7. /\ st \in [Slots -> ProcState]
      /\ \A t \in Slots : st[t] = "UNUSED" <=> state[t] = "UNUSED"
      /\ st[idle] \in {"RUNNING", "READY"}
      /\ s # sender => st[s] = state[s]
  BY <1>1, <1>6, Caller, Zenon DEF IInv, TypeOK, ProcTypeOK, Wake, ProcState
<1> HIDE DEF st
<1>8. s = sender
  BY <1>1, <1>3, <1>7, SwitchReleasesNone, Zenon DEF Blocked
<1>9. current_proc \in Slots /\ Takes(current_proc)
  BY <1>1, <1>2, <1>3, Caller, Zenon DEF Takes
<1>10. CASE ~IsPlaceholder(Head(queue))
  BY <1>5, <1>6, <1>8, <1>9, <1>10, Zenon DEF Consumes
<1>11. CASE IsPlaceholder(Head(queue))
  <2>1. pid[s] = 0
    BY <1>4, <1>5, <1>6, <1>8, <1>11, Zenon DEF HasSender
  <2> QED
    BY <1>9, <1>11, <2>1, Zenon DEF ConsumesPlaceholder
<1> QED
  BY <1>10, <1>11

(* No step releases a blocked sender without taking one of its packets, or *)
(* a placeholder for the kernel process.                                   *)
LEMMA NextConsumes ==
  ASSUME IInv, [Next]_vars,
         NEW s \in Slots, state[s] \in SenderBlocked, state'[s] \notin Blocked
  PROVE  Consumes(s) \/ (pid[s] = 0 /\ ConsumesPlaceholder)
<1>1. CASE Boot
  <2>1. ~booted
    BY <1>1, ProcAssumption
    DEF IInv, BootInv, Boot, Create, proc_kickoff_first_process, NCreated
  <2> QED
    BY <2>1 DEF IInv, BootInv, SenderBlocked
<1>2. CASE Timer
  <2>1. /\ booted
        /\ state \in [Slots -> ProcState]
        /\ scheduling_enabled \in BOOLEAN
        /\ proc_schedule_after_irq(state, scheduling_enabled)
    BY <1>2 DEF Timer, timer_handler, IInv, TypeOK, ProcTypeOK
  <2>2. state[current_proc] \notin Blocked
    BY <2>1, Caller DEF Blocked, SenderBlocked
  <2> QED
    BY <2>1, <2>2, Caller, Scheduling DEF IInv, TypeOK, Blocked
<1>3. CASE \E q \in Receivers, m \in Data : syscall_send_msg(q, m)
  BY <1>3, SendReleasesNone
<1>4. CASE syscall_recv_msg
  BY <1>4, RecvReleasesNone
<1>5. CASE \E m \in Data : syscall_rply_msg(m)
  BY <1>5, RplyConsumes
<1>6. CASE UNCHANGED vars
  BY <1>6 DEF vars, proc_vars, Blocked
<1> QED
  BY <1>1, <1>2, <1>3, <1>4, <1>5, <1>6 DEF Next, Syscall

(* Only the reply to one of its packets releases a process blocked in      *)
(* ipc_send; the kernel process is released by the reply to a placeholder, *)
(* too.                                                                    *)
THEOREM ReleasesCorrect == Spec => ReleaseConsumesPacket
<1>1. IInv /\ [Next]_vars =>
        [\A s \in Slots :
           state[s] \in SenderBlocked /\ state'[s] \notin Blocked =>
             Consumes(s) \/ (pid[s] = 0 /\ ConsumesPlaceholder)]_vars
  BY NextConsumes
<1> QED
  BY <1>1, Invariance, PTL DEF Spec, ReleaseConsumesPacket

-----------------------------------------------------------------------------
(* How many slots find_next_proc looks at before slot s.                   *)
Distance(s) == IF cursor <= s THEN s - cursor ELSE s - cursor + NPROCS

(* The strengthening of NoOvertaking: whoever was served while s waits is  *)
(* farther from the cursor than s.                                         *)
RRInv ==
  /\ served \in [Slots -> SUBSET Slots]
  /\ \A s \in Slots : ~Waits(s) => served[s] = {}
  /\ \A s \in Slots : \A t \in served[s] : Distance(s) < Distance(t)

(* find_next_proc looks at every slot once, in the order of the distance.  *)
LEMMA VisitedOnce ==
  ASSUME ProcTypeOK
  PROVE  /\ \A s \in Slots : /\ Distance(s) \in 0 .. NPROCS - 1
                             /\ Visited(Distance(s)) = s
         /\ \A n \in 0 .. NPROCS - 1 : /\ Visited(n) \in Slots
                                       /\ Distance(Visited(n)) = n
<1>1. NPROCS \in Nat \ {0} /\ cursor \in 0 .. NPROCS
  BY ProcAssumption DEF ProcTypeOK
<1>2. \A x \in 0 .. NPROCS - 1 : x % NPROCS = x
  BY <1>1
<1>3. \A x \in NPROCS .. 2 * NPROCS - 1 : x % NPROCS = x - NPROCS
  BY <1>1
<1>4. \A n \in 0 .. NPROCS - 1 :
        Visited(n) = IF cursor + n < NPROCS THEN cursor + n ELSE cursor + n - NPROCS
  BY <1>1, <1>2, <1>3 DEF Visited
<1> QED
  BY <1>1, <1>4 DEF Distance, Slots

(* A step of the booted kernel either chooses among the READY processes it *)
(* leaves behind, or leaves the scheduler alone.                           *)
LEMMA StepChooses ==
  ASSUME IInv, booted, Next
  PROVE  /\ UNCHANGED <<idle, booted>>
         /\ IF Picks
            THEN \E k \in Slots \cup {NULL} :
                   /\ find_next_proc(state', "READY", k)
                   /\ current_proc' = IF k = NULL THEN idle ELSE k
            ELSE UNCHANGED <<state, cursor, current_proc>>
<1> DEFINE Chooses == \E k \in Slots \cup {NULL} :
                        /\ find_next_proc(state', "READY", k)
                        /\ current_proc' = IF k = NULL THEN idle ELSE k
<1>1. ASSUME NEW st, NEW enabled, proc_schedule_after_irq(st, enabled)
      PROVE  IF enabled THEN Chooses
             ELSE state' = st /\ UNCHANGED <<cursor, current_proc>>
  BY <1>1 DEF proc_schedule_after_irq
<1>2. ASSUME NEW st, EnableAndSchedule(st)
      PROVE  Chooses /\ scheduling_enabled' /\ UNCHANGED <<idle, booted>>
  BY <1>1, <1>2 DEF EnableAndSchedule
<1> HIDE DEF Chooses
<1>3. CASE Boot
  BY <1>3, ProcAssumption
  DEF IInv, BootInv, Boot, Create, proc_kickoff_first_process, NCreated
<1>4. CASE Timer
  <2>1. /\ ~panic /\ panic' = panic
        /\ scheduling_enabled \in BOOLEAN /\ scheduling_enabled' = scheduling_enabled
        /\ proc_schedule_after_irq(state, scheduling_enabled)
        /\ UNCHANGED <<idle, booted>>
    BY <1>4 DEF Timer, timer_handler, ipc_vars, IInv, TypeOK, ProcTypeOK
  <2> QED
    BY <1>1, <2>1 DEF Picks, Chooses
<1>5. ASSUME NEW q \in Receivers, NEW m \in Data, syscall_send_msg(q, m)
      PROVE  \/ Picks /\ Chooses /\ UNCHANGED <<idle, booted>>
             \/ ~Picks /\ UNCHANGED <<idle, booted, state, cursor, current_proc>>
  <2>1. CASE SendNoReceiver(q, m)
    BY <2>1 DEF SendNoReceiver, Picks
  <2>2. CASE SendToWaiting(q, m)
    BY <1>2, <2>2, Zenon DEF SendToWaiting, Calling, Picks
  <2>3. CASE SendToOther(q, m)
    BY <1>2, <2>3, Zenon DEF SendToOther, Calling, Picks
  <2> QED
    BY <1>5, <2>1, <2>2, <2>3, Zenon DEF syscall_send_msg
<1>6. CASE syscall_recv_msg
  <2>1. CASE RecvBlock
    BY <1>2, <2>1, Zenon DEF RecvBlock, Calling, Picks, Chooses
  <2>2. CASE RecvQueued
    BY <1>2, <2>2 DEF RecvQueued, Calling, Picks, Chooses
  <2>3. CASE RecvFault
    BY <2>3 DEF RecvFault, proc_vars, Picks
  <2> QED
    BY <1>6, <2>1, <2>2, <2>3, Zenon DEF syscall_recv_msg
<1>7. ASSUME NEW m \in Data, syscall_rply_msg(m)
      PROVE  Picks /\ Chooses /\ UNCHANGED <<idle, booted>>
  BY <1>2, <1>7, Zenon DEF syscall_rply_msg, Calling, Picks
<1> QED
  BY <1>3, <1>4, <1>5, <1>6, <1>7, Zenon DEF Next, Syscall, Chooses

(* The process chosen is nearer than one that goes on waiting, and the     *)
(* cursor moves just behind it.                                            *)
LEMMA NearestChosen ==
  ASSUME IInv, IInv', booted, Next, Picks, NEW s \in Slots, Waits(s)'
  PROVE  /\ current_proc' \in Slots
         /\ Distance(current_proc') < Distance(s)
         /\ cursor' = current_proc' + 1
<1>1. ProcTypeOK /\ ProcTypeOK' /\ UNCHANGED idle
  BY StepChooses DEF IInv, TypeOK
<1>2. PICK k \in Slots \cup {NULL} :
        /\ find_next_proc(state', "READY", k)
        /\ current_proc' = IF k = NULL THEN idle ELSE k
  BY StepChooses
<1>3. Candidate(state', "READY", s) /\ s # current_proc'
  BY <1>1 DEF Waits, Candidate
<1>4. ~NoCandidate(state', "READY")
  BY <1>1, <1>3, VisitedOnce DEF NoCandidate
<1>5. PICK n \in 0 .. NPROCS - 1 : /\ FirstCandidate(state', "READY", n)
                                   /\ k = Visited(n)
                                   /\ cursor' = k + 1
  BY <1>2, <1>4 DEF find_next_proc
<1>6. k \in Slots /\ current_proc' = k /\ Distance(k) = n
  BY <1>1, <1>2, <1>5, VisitedOnce, ProcAssumption DEF Slots, NULL
<1>7. ~(Distance(s) < n)
  BY <1>1, <1>3, <1>5, VisitedOnce DEF FirstCandidate
<1>8. Distance(s) # n
  BY <1>1, <1>3, <1>5, <1>6, VisitedOnce
<1>9. Distance(s) \in 0 .. NPROCS - 1
  BY <1>1, VisitedOnce
<1> QED
  BY <1>5, <1>6, <1>7, <1>8, <1>9

(* Every step keeps the order of those who wait and those who were served. *)
LEMMA NextKeepsRRInv == IInv /\ IInv' /\ RRInv /\ RRNext => RRInv'
<1> SUFFICES ASSUME IInv, IInv', RRInv, RRNext PROVE RRInv'
  OBVIOUS
<1>1. ProcTypeOK /\ ProcTypeOK' /\ Next
  BY DEF IInv, TypeOK, RRNext
<1>2. \A s \in Slots :
        served'[s] = IF ~Waits(s)' THEN {}
                     ELSE served[s] \cup IF Picks THEN {current_proc'} ELSE {}
  BY DEF RRNext
<1>3. Picks => current_proc' \in Slots
  <2>1. Picks => booted'
    BY <1>1, StepChooses DEF Picks
  <2>2. booted' => current_proc' # NULL
    <3>1. booted' => current_proc' \in 0 .. next_pid' - 1
      BY Zenon DEF IInv, BootInv
    <3> QED
      BY <3>1 DEF NULL
  <2> QED
    BY <1>1, <2>1, <2>2 DEF ProcTypeOK
<1>4. served' \in [Slots -> SUBSET Slots]
  BY <1>2, <1>3 DEF RRInv, RRNext
<1>5. ASSUME NEW s \in Slots, NEW t \in served'[s]
      PROVE  Distance(s)' < Distance(t)'
  <2>1. Waits(s)' /\ t \in Slots
    BY <1>2, <1>4, <1>5
  <2>2. t \in served[s] => Distance(s) < Distance(t)
    BY DEF RRInv
  <2>3. CASE ~booted
    BY <1>2, <1>5, <2>1, <2>3 DEF Waits, Picks, RRInv
  <2>4. CASE booted /\ ~Picks
    <3>1. cursor' = cursor /\ t \in served[s]
      BY <1>1, <1>2, <1>5, <2>1, <2>4, StepChooses
    <3> QED
      BY <2>2, <3>1 DEF Distance
  <2>5. CASE booted /\ Picks
    <3> DEFINE k == current_proc'
    <3>1. k \in Slots /\ Distance(k) < Distance(s) /\ cursor' = k + 1
      BY <1>1, <2>1, <2>5, NearestChosen
    <3>2. t = k \/ t \in served[s]
      BY <1>2, <1>5, <2>1, <2>5
    <3> HIDE DEF k
    <3>3. NPROCS \in Nat /\ cursor \in 0 .. NPROCS
      BY <1>1, ProcAssumption DEF ProcTypeOK
    <3> QED
      BY <2>1, <2>2, <3>1, <3>2, <3>3 DEF Distance, Slots
  <2> QED
    BY <2>3, <2>4, <2>5 DEF Picks
<1> QED
  BY <1>2, <1>4, <1>5 DEF RRInv

(* While a READY process waits, no other process is given the CPU twice,   *)
(* however many processes there are and whatever they call.                *)
THEOREM RoundRobinFair == RRSpec => NoOvertaking
<1>1. RRInit => IInv /\ RRInv
  BY InitIInv DEF RRInit, RRInv
<1>2. IInv /\ [RRNext]_<<vars, served>> => IInv'
  BY NextKeepsIInv DEF RRNext
<1>3. IInv /\ IInv' /\ RRInv /\ [RRNext]_<<vars, served>> => RRInv'
  <2>1. CASE RRNext
    BY <2>1, NextKeepsRRInv
  <2>2. CASE UNCHANGED <<vars, served>>
    BY <2>2 DEF RRInv, Waits, Distance, vars, proc_vars
  <2> QED
    BY <2>1, <2>2
<1>4. IInv /\ IInv' /\ RRInv /\ [RRNext]_<<vars, served>> =>
        [\A s \in Slots :
           Waits(s) /\ Waits(s)' /\ Picks => current_proc' \notin served[s]]_vars
  <2> SUFFICES ASSUME IInv, IInv', RRInv, Next, NEW s \in Slots,
                      Waits(s), Waits(s)', Picks, current_proc' \in served[s]
               PROVE  FALSE
    BY DEF RRNext
  <2>1. booted /\ ProcTypeOK
    BY DEF Waits, IInv, TypeOK
  <2>2. current_proc' \in Slots /\ Distance(current_proc') < Distance(s)
    BY <2>1, NearestChosen
  <2>3. Distance(s) < Distance(current_proc')
    BY DEF RRInv
  <2>4. Distance(s) \in Int /\ Distance(current_proc') \in Int
    BY <2>1, <2>2, VisitedOnce
  <2> QED
    BY <2>2, <2>3, <2>4
<1> QED
  BY <1>1, <1>2, <1>3, <1>4, PTL DEF RRSpec, NoOvertaking
=============================================================================
