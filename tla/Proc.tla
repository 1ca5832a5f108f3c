-------------------------------- MODULE Proc --------------------------------
(***************************************************************************)
(* The process table and the scheduler of kernel/proc.c.                   *)
(*                                                                         *)
(* A process is named by its slot in procs[NPROCS].  Boot runs with        *)
(* interrupts off: proc_earlyinit makes the "kernel" and "idle" processes, *)
(* kmain makes the NEssential processes of the initrd, and                 *)
(* proc_kickoff_first_process turns scheduling on.  From then on the       *)
(* scheduler runs inside interrupt gates only, so one call of              *)
(* proc_schedule_after_irq is one step.                                    *)
(***************************************************************************)
EXTENDS Integers

CONSTANTS
  NPROCS,     \* slots of the process table
  NEssential  \* processes loaded from the initrd

ASSUME ProcAssumption ==
  /\ NPROCS \in Nat
  /\ NEssential \in Nat
  /\ NEssential > 0
  /\ NEssential + 2 <= NPROCS

VARIABLES
  state,              \* procs[s].state
  pid,                \* procs[s].pid, -1 in an unused slot
  next_pid,           \* the pid proc_new hands out next
  cursor,             \* the static i of find_next_proc
  idle,               \* slot of the idle process, NULL before it exists
  current_proc,       \* slot of the current process, NULL before any exists
  scheduling_enabled, \* cleared by proc_disable_scheduling
  booted              \* proc_kickoff_first_process has run

proc_vars == <<state, pid, next_pid, cursor, idle, current_proc,
               scheduling_enabled, booted>>

NULL == -1
Slots == 0 .. NPROCS - 1
SenderBlocked == {"SEND_BLOCKED", "REPLY_BLOCKED"}
Blocked == SenderBlocked \cup {"RECV_BLOCKED"}
ProcState == {"UNUSED", "RUNNING", "READY"} \cup Blocked

(* How many processes there are once the system is up.                     *)
NCreated == NEssential + 2

-----------------------------------------------------------------------------
(* Mutant: the search starts from slot 0 every time.                       *)
Visited_from_0(n) == n

(* The n-th slot find_next_proc looks at.                                  *)
Visited(n) == (cursor + n) % NPROCS

(* A slot that find_next_proc returns for state s: never idle's.           *)
Candidate(st, s, k) == k # idle /\ st[k] = s

(* The first candidate is the n-th slot visited.                           *)
FirstCandidate(st, s, n) ==
  /\ Candidate(st, s, Visited(n))
  /\ \A m \in 0 .. n - 1 : ~Candidate(st, s, Visited(m))

NoCandidate(st, s) == \A n \in 0 .. NPROCS - 1 : ~Candidate(st, s, Visited(n))

(* Mutant: the cursor is moved twice.                                      *)
find_next_proc_skips(st, s, k) ==
  \/ \E n \in 0 .. NPROCS - 1 :
        /\ FirstCandidate(st, s, n)
        /\ k = Visited(n)
        /\ cursor' = (k + 2) % NPROCS
  \/ /\ NoCandidate(st, s)
     /\ k = NULL
     /\ cursor' = cursor

(* Mutant: the cursor stays on the slot returned.                          *)
find_next_proc_stays(st, s, k) ==
  \/ \E n \in 0 .. NPROCS - 1 :
        /\ FirstCandidate(st, s, n)
        /\ k = Visited(n)
        /\ cursor' = k
  \/ /\ NoCandidate(st, s)
     /\ k = NULL
     /\ cursor' = cursor

(* find_next_proc: round robin from the cursor, which is left just behind  *)
(* the slot returned, or back where it was when every slot was visited.    *)
find_next_proc(st, s, k) ==
  \/ \E n \in 0 .. NPROCS - 1 :
        /\ FirstCandidate(st, s, n)
        /\ k = Visited(n)
        /\ cursor' = k + 1
  \/ /\ NoCandidate(st, s)
     /\ k = NULL
     /\ cursor' = cursor % NPROCS

(* The first slot that carries pid p, or NULL.                             *)
proc_find_by_pid(p) ==
  IF \E s \in Slots : pid[s] = p
  THEN CHOOSE s \in Slots : pid[s] = p /\ \A t \in Slots : pid[t] = p => s <= t
  ELSE NULL

proc_is_blocked(st, p) == st[proc_find_by_pid(p)] \in Blocked

-----------------------------------------------------------------------------
(* Boot.                                                                   *)

proc_earlyinit ==
  /\ state = [s \in Slots |-> "UNUSED"]
  /\ pid = [s \in Slots |-> -1]
  /\ next_pid = 0
  /\ cursor = 0
  /\ idle = NULL
  /\ current_proc = NULL
  /\ scheduling_enabled = FALSE
  /\ booted = FALSE

(* proc_new, which leaves the new process current.                         *)
proc_new(k) ==
  /\ find_next_proc(state, "UNUSED", k)
  /\ k # NULL
  /\ pid' = [pid EXCEPT ![k] = next_pid]
  /\ next_pid' = next_pid + 1
  /\ state' = [state EXCEPT ![k] = "READY"]
  /\ current_proc' = k
  /\ UNCHANGED <<scheduling_enabled, booted>>

(* The kernel process, then idle, then the processes of the initrd.        *)
Create(k) ==
  /\ next_pid < NCreated
  /\ proc_new(k)
  /\ idle' = IF next_pid = 1 THEN k ELSE idle

(* The process created last runs first, and it alone is ever RUNNING.      *)
proc_kickoff_first_process ==
  /\ next_pid = NCreated
  /\ ~booted
  /\ state' = [state EXCEPT ![current_proc] = "RUNNING"]
  /\ scheduling_enabled' = TRUE
  /\ booted' = TRUE
  /\ UNCHANGED <<pid, next_pid, cursor, idle, current_proc>>

-----------------------------------------------------------------------------
(* Preempt or block the current process and pick the next one.  st is the  *)
(* table of states the caller leaves behind, enabled its                   *)
(* scheduling_enabled.                                                     *)
proc_schedule_after_irq(st, enabled) ==
  LET st1 == [st EXCEPT ![current_proc] =
                IF proc_is_blocked(st, pid[current_proc]) THEN @ ELSE "READY"]
  IN IF ~enabled
     THEN state' = st /\ UNCHANGED <<current_proc, cursor>>
     ELSE /\ state' = st1
          /\ \E k \in Slots \cup {NULL} :
                /\ find_next_proc(st1, "READY", k)
                /\ current_proc' = IF k = NULL THEN idle ELSE k

(* IRQ 0.  Interrupts are on whenever a process runs outside a gate.       *)
timer_handler ==
  /\ booted
  /\ proc_schedule_after_irq(state, scheduling_enabled)
  /\ UNCHANGED <<pid, next_pid, idle, scheduling_enabled, booted>>

ProcTypeOK ==
  /\ state \in [Slots -> ProcState]
  /\ pid \in [Slots -> Int]
  /\ next_pid \in 0 .. NCreated
  /\ cursor \in 0 .. NPROCS
  /\ idle \in Slots \cup {NULL}
  /\ current_proc \in Slots \cup {NULL}
  /\ scheduling_enabled \in BOOLEAN
  /\ booted \in BOOLEAN
=============================================================================
