----------------------------- MODULE SleepLock -----------------------------
(***************************************************************************)
(* kernel/lib/sleeplock.c: one sleep lock and the processes that acquire   *)
(* and release it.  The fields are guarded by the spin lock inside it;     *)
(* waiters sleep on the address of the lock.                               *)
(***************************************************************************)
EXTENDS WaitChannel

ASSUME SleepLockAssumption == NPROC \in Nat \ {0} /\ NULL \notin Nat

VARIABLES spin,    \* lk->lk: the process holding the spin lock, or NULL
          locked,  \* lk->locked
          pid      \* lk->pid: the process (slot) that holds the lock, or NULL

lockvars == <<wvars, spin, locked, pid, pc, idx>>

\* The channel: waiters sleep on the lock itself.  Any value but NULL.
lkaddr == 0

LockLabels == {"idle", "acquire", "test", "sleep", "held", "wake"}

LockTypeOK ==
    /\ state \in [Slots -> {"RUNNABLE", "RUNNING", "SLEEPING"}]
    /\ sleep_space \in [Slots -> {lkaddr, NULL}]
    /\ lk \in [Slots -> BOOLEAN]
    /\ spin \in Slots \cup {NULL}
    /\ locked \in BOOLEAN
    /\ pid \in Slots \cup {NULL}
    /\ pc \in [Slots -> LockLabels]
    /\ idx \in [Slots -> 1..(NPROC + 1)]

\* sleeplock_init, with every process running and outside.
LockInit ==
    /\ WaitInit(Slots)
    /\ spin = NULL
    /\ locked = FALSE
    /\ pid = NULL
    /\ pc = [p \in Slots |-> "idle"]
    /\ idx = [p \in Slots |-> 1]

\* Mutant: the condition is tested once, with if instead of while.
AcquireSpinIf(p) ==
    /\ spin = NULL
    /\ \/ /\ At(p, "acquire")
          /\ spin' = p
          /\ Goto(p, "test")
          /\ UNCHANGED <<locked, pid>>
       \/ /\ At(p, "sleep")
          /\ locked' = TRUE
          /\ pid' = p
          /\ Goto(p, "held")
          /\ UNCHANGED spin
    /\ UNCHANGED <<wvars, idx>>

-----------------------------------------------------------------------------
(***************************************************************************)
(* sleeplock_acquire.                                                      *)
(***************************************************************************)
\* A process wants the lock.
Enter(p) ==
    /\ At(p, "idle")
    /\ Goto(p, "acquire")
    /\ UNCHANGED <<wvars, spin, locked, pid, idx>>

\* The inner spin lock is taken, on entry or at the end of proc_sleep.
AcquireSpin(p) ==
    /\ At(p, "acquire") \/ At(p, "sleep")
    /\ spin = NULL
    /\ spin' = p
    /\ Goto(p, "test")
    /\ UNCHANGED <<wvars, locked, pid, idx>>

\* locked: proc_sleep(lk, &lk->lk), first half ...
AcquireSleep(p) ==
    /\ pc[p] = "test"
    /\ locked
    /\ SleepEnter(p)
    /\ spin' = NULL
    /\ Goto(p, "sleep")
    /\ UNCHANGED <<locked, pid, idx>>

\* ... and second half.
LockSleep(p) ==
    /\ pc[p] = "sleep"
    /\ SleepSwitch(p, lkaddr)
    /\ UNCHANGED <<spin, locked, pid, pc, idx>>

LockDispatch(p) ==
    /\ Dispatch(p)
    /\ UNCHANGED <<spin, locked, pid, pc, idx>>

sleeplock_acquire(p) ==
    /\ At(p, "test")
    /\ ~ locked
    /\ locked' = TRUE
    /\ pid' = p
    /\ spin' = NULL
    /\ Goto(p, "held")
    /\ UNCHANGED <<wvars, idx>>

-----------------------------------------------------------------------------
(***************************************************************************)
(* sleeplock_release.                                                      *)
(***************************************************************************)
\* Mutant: proc_wakeup is not called.
ReleaseSilent(p) ==
    /\ At(p, "held")
    /\ spin = NULL
    /\ spin' = p
    /\ locked' = FALSE
    /\ pid' = NULL
    /\ idx' = [idx EXCEPT ![p] = NPROC + 1]
    /\ Goto(p, "wake")
    /\ UNCHANGED wvars

Release(p) ==
    /\ At(p, "held")
    /\ spin = NULL
    /\ spin' = p
    /\ locked' = FALSE
    /\ pid' = NULL
    /\ idx' = [idx EXCEPT ![p] = 1]
    /\ Goto(p, "wake")
    /\ UNCHANGED wvars

LockWakeup(p) ==
    /\ At(p, "wake")
    /\ idx[p] <= NPROC
    /\ WakeSlot(idx[p], lkaddr)
    /\ idx' = [idx EXCEPT ![p] = @ + 1]
    /\ UNCHANGED <<spin, locked, pid, pc>>

sleeplock_release(p) ==
    /\ At(p, "wake")
    /\ idx[p] > NPROC
    /\ spin' = NULL
    /\ Goto(p, "idle")
    /\ UNCHANGED <<wvars, locked, pid, idx>>

\* What sleeplock_holding answers to p.
sleeplock_holding(p) == locked /\ pid = p

-----------------------------------------------------------------------------
LockKernel(p) ==
    \/ AcquireSpin(p) \/ AcquireSleep(p) \/ LockSleep(p) \/ LockDispatch(p)
    \/ sleeplock_acquire(p) \/ Release(p) \/ LockWakeup(p) \/ sleeplock_release(p)

LockNext == \E p \in Slots : Enter(p) \/ LockKernel(p)

LockSpec == LockInit /\ [][LockNext]_lockvars

\* A process that wants, waits for or holds the lock keeps running, and the
\* spin lock is won eventually by who keeps asking for it.
LockFairness ==
    \A p \in Slots : WF_lockvars(LockKernel(p)) /\ SF_lockvars(AcquireSpin(p) \/ Release(p))

LockFairSpec == LockSpec /\ LockFairness

-----------------------------------------------------------------------------
(***************************************************************************)
(* Properties.                                                             *)
(***************************************************************************)
\* A process between sleeplock_acquire and sleeplock_release is the one that
\* sleeplock_holding confirms, as the assertions of buf_write, buf_release
\* and inode_unlock require; with the single field pid, this is mutual
\* exclusion.
HolderConfirmed ==
    \A p \in Slots : pc[p] = "held" <=> sleeplock_holding(p)

\* Whenever the inner spin lock is free, a process sleeps on the lock only
\* while somebody holds it: a release between the test and the sleep is not
\* missed.
NoLostRelease ==
    spin = NULL => \A p \in Slots : state[p] = "SLEEPING" => locked

\* The sleep lock is the mutex of module Mutex.
Holding == INSTANCE Mutex WITH Procs <- Slots, holder <- pid
MutexSpec == Holding!Spec

\* The lock is never idle while it is wanted: somebody who waits gets it.
\* Which of the waiters it is, the code leaves to the scheduler.
Progress ==
    (\E p \in Slots : pc[p] \in {"acquire", "test", "sleep"})
        ~> (\E p \in Slots : pc[p] = "held")
=============================================================================
