---------------------------- MODULE WaitChannel ----------------------------
(***************************************************************************)
(* proc_sleep and proc_wakeup (kernel/proc/proc.c) as the rest of the      *)
(* kernel uses them: a process sleeps on a channel under a spin lock of    *)
(* the caller, and whoever changes what it waits for holds that lock while *)
(* waking the channel.  The caller's lock, and the steps of the calls,     *)
(* belong to the module that extends this one.                             *)
(*                                                                         *)
(* The scheduler is reduced to Dispatch; that a process which has switched *)
(* away is off its stack once p->lk is free is what module Proc shows.     *)
(***************************************************************************)
EXTENDS Naturals

CONSTANTS NPROC,   \* number of slots of procs[]
          NULL     \* the null pointer

Slots == 1..NPROC

VARIABLES state,        \* procs[p].state
          sleep_space,  \* procs[p].sleep_space
          lk,           \* procs[p].lk is held by p, on its way to proc_sched
          pc,           \* the next step of a process
          idx           \* the loop variable of its proc_wakeup

wvars == <<state, sleep_space, lk>>

\* The processes in S exist and run, the other slots are UNUSED.
WaitInit(S) ==
    /\ state = [p \in Slots |-> IF p \in S THEN "RUNNING" ELSE "UNUSED"]
    /\ sleep_space = [p \in Slots |-> NULL]
    /\ lk = [p \in Slots |-> FALSE]

Running(p) == state[p] = "RUNNING" /\ ~ lk[p]
At(p, l) == Running(p) /\ pc[p] = l
Goto(p, l) == pc' = [pc EXCEPT ![p] = l]

\* The first half of proc_sleep: the own lock is taken, and the caller then
\* gives up the lock it came with.
SleepEnter(p) ==
    /\ Running(p)
    /\ lk' = [lk EXCEPT ![p] = TRUE]
    /\ UNCHANGED <<state, sleep_space>>

\* The second half: SLEEPING on ch, and proc_sched hands the own lock to the
\* scheduler, which releases it.
SleepSwitch(p, ch) ==
    /\ lk[p]
    /\ state' = [state EXCEPT ![p] = "SLEEPING"]
    /\ sleep_space' = [sleep_space EXCEPT ![p] = ch]
    /\ lk' = [lk EXCEPT ![p] = FALSE]

\* Mutant: the own lock is not looked at.
WakeSlotUnlocked(q, ch) ==
    /\ state' = IF state[q] = "SLEEPING" /\ sleep_space[q] = ch
                THEN [state EXCEPT ![q] = "RUNNABLE"]
                ELSE state
    /\ UNCHANGED <<sleep_space, lk>>

\* One round of the loop of proc_wakeup(ch): slot q, under its lock.
WakeSlot(q, ch) ==
    /\ ~ lk[q]
    /\ state' = IF state[q] = "SLEEPING" /\ sleep_space[q] = ch
                THEN [state EXCEPT ![q] = "RUNNABLE"]
                ELSE state
    /\ UNCHANGED <<sleep_space, lk>>

\* The scheduler picks p, which returns from proc_sched into proc_sleep and
\* goes on to take the caller's lock again, or starts in fork_return.
Dispatch(p) ==
    /\ state[p] = "RUNNABLE"
    /\ state' = [state EXCEPT ![p] = "RUNNING"]
    /\ sleep_space' = [sleep_space EXCEPT ![p] = NULL]
    /\ UNCHANGED lk
=============================================================================
