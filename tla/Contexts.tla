------------------------------ MODULE Contexts ------------------------------
(***************************************************************************)
(* What multitasking promises: every process has an execution of its own,  *)
(* which only goes on while it runs.  It is loaded, then runs its code,    *)
(* and is in a system call now and then.                                   *)
(***************************************************************************)
CONSTANT Procs

VARIABLES
  running, \* the process that has the CPU
  where    \* where each process is

Init == where = [p \in Procs |-> "none"]

(* A process is created.                                                   *)
New(p) ==
  /\ where[p] = "none"
  /\ where' = [where EXCEPT ![p] = "load"]

Switch == running' \in Procs /\ UNCHANGED where

(* The running process goes on.                                            *)
GoOn(from, to) ==
  /\ where[running] = from
  /\ where' = [where EXCEPT ![running] = to]
  /\ UNCHANGED running

Next ==
  \/ \E p \in Procs : New(p)
  \/ Switch
  \/ GoOn("load", "code") \/ GoOn("code", "syscall") \/ GoOn("syscall", "code")

Spec == Init /\ [][Next]_<<running, where>>
=============================================================================
