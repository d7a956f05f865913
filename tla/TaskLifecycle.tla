---------------------------- MODULE TaskLifecycle ----------------------------
(***************************************************************************)
(* What the task runtime promises its callers: a task, once created, moves *)
(* one row of the state machine at a time, as if commands on it were       *)
(* executed one after the other, and a terminal task never moves again.    *)
(* TaskRuntime, with its separate read and write, implements this.         *)
(***************************************************************************)
EXTENDS TaskState

CONSTANT Tasks

VARIABLE status

Absent == "absent"

LifecycleInit == status = [t \in Tasks |-> Absent]

Create(t) ==
  /\ status[t] = Absent
  /\ status' = [status EXCEPT ![t] = "created"]

Move(t) ==
  \E r \in Transitions :
    /\ r.from = status[t]
    /\ status' = [status EXCEPT ![t] = r.to]

LifecycleNext == \E t \in Tasks : Create(t) \/ Move(t)

LifecycleSpec == LifecycleInit /\ [][LifecycleNext]_status
=============================================================================
