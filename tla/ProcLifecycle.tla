---------------------------- MODULE ProcLifecycle ----------------------------
(***************************************************************************)
(* What the process table promises: the state diagram in the comment above *)
(* enum proc_state (include/proc/proc.h), together with who may perform    *)
(* each transition.  RUNNABLE -> ZOMBIE ("killed") is in the comment, but  *)
(* the kernel has no kill, so it is not part of the promise.               *)
(***************************************************************************)
EXTENDS Naturals

CONSTANTS NPROC,   \* number of slots of procs[]
          NULL     \* the null pointer

VARIABLES state,   \* procs[p].state
          parent   \* procs[p].parent

Slots == 1..NPROC
proczero == 1

vars == <<state, parent>>

(***************************************************************************)
(* The boot processor has made proczero, every other slot is UNUSED.       *)
(***************************************************************************)
Init ==
    /\ state = [p \in Slots |-> IF p = proczero THEN "RUNNABLE" ELSE "UNUSED"]
    /\ parent = [p \in Slots |-> NULL]

Move(p, from, to) ==
    /\ state[p] = from
    /\ state' = [state EXCEPT ![p] = to]

\* A running process makes a child.
Fork(p, q) ==
    /\ state[p] = "RUNNING"
    /\ Move(q, "UNUSED", "RUNNABLE")
    /\ parent' = [parent EXCEPT ![q] = p]

Dispatch(p) == Move(p, "RUNNABLE", "RUNNING") /\ UNCHANGED parent
Preempt(p)  == Move(p, "RUNNING", "RUNNABLE") /\ UNCHANGED parent
Block(p)    == Move(p, "RUNNING", "SLEEPING") /\ UNCHANGED parent

\* A process is woken by a running one.
Wake(p, q) ==
    /\ state[p] = "RUNNING"
    /\ Move(q, "SLEEPING", "RUNNABLE")
    /\ UNCHANGED parent

\* A process that exits leaves no child behind and wakes at most its parent
\* or, if it was handed to proczero while it was exiting, whoever now has the
\* slot of the parent it had before.
Exit(p) ==
    /\ p # proczero
    /\ state[p] = "RUNNING"
    /\ \A q \in Slots : parent[q] # p
    /\ \/ state' = [state EXCEPT ![p] = "ZOMBIE"]
       \/ \E q \in Slots : /\ state[q] = "SLEEPING"
                           /\ parent[p] \in {q, proczero}
                           /\ state' = [state EXCEPT ![p] = "ZOMBIE", ![q] = "RUNNABLE"]
    /\ UNCHANGED parent

\* proczero takes over a child of a process that is exiting.
Adopt(p, q) ==
    /\ state[p] = "RUNNING"
    /\ parent[q] = p
    /\ parent' = [parent EXCEPT ![q] = proczero]
    /\ UNCHANGED state

\* A zombie is reclaimed by its own parent, and by nobody else.
Reap(p, q) ==
    /\ state[p] = "RUNNING"
    /\ parent[q] = p
    /\ Move(q, "ZOMBIE", "UNUSED")
    /\ parent' = [parent EXCEPT ![q] = NULL]

Next ==
    \/ \E p \in Slots : Dispatch(p) \/ Preempt(p) \/ Block(p) \/ Exit(p)
    \/ \E p, q \in Slots : Fork(p, q) \/ Wake(p, q) \/ Adopt(p, q) \/ Reap(p, q)

Spec == Init /\ [][Next]_vars
=============================================================================
