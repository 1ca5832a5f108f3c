------------------------------ MODULE RoundRobin ------------------------------
(***************************************************************************)
(* How fair the scheduler is to the users of Ipc.  The history variable    *)
(* served records, for every process that is READY and waits for the CPU,  *)
(* which processes have been given it in the meantime.                     *)
(***************************************************************************)
EXTENDS Ipc

VARIABLE served

Waits(s) == booted /\ state[s] = "READY" /\ s \notin {current_proc, idle}

(* A step in which proc_schedule_after_irq chooses a process.              *)
Picks == booted /\ ~panic' /\ scheduling_enabled'

RRInit == Init /\ served = [s \in Slots |-> {}]

RRNext ==
  /\ Next
  /\ served' = [s \in Slots |->
                  IF ~Waits(s)' THEN {}
                  ELSE served[s] \cup IF Picks THEN {current_proc'} ELSE {}]

RRSpec ==
  RRInit /\ [][RRNext]_<<vars, served>> /\ WF_vars(Timer) /\ WF_vars(Boot)

(* Round robin: while a READY process waits, no other process is given the *)
(* CPU twice.  The cursor of find_next_proc never passes the slot of a     *)
(* waiting process, whatever is blocked and released meanwhile.            *)
NoOvertaking ==
  [][\A s \in Slots :
       Waits(s) /\ Waits(s)' /\ Picks => current_proc' \notin served[s]]_vars
===============================================================================
