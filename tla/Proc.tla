-------------------------------- MODULE Proc --------------------------------
(***************************************************************************)
(* kernel/proc/proc.c on several processors: the table procs[], the spin   *)
(* lock of each slot, the HRRN scheduler loop of each processor, fork,     *)
(* wait, exit, reparenting and preemption by the timer.                    *)
(*                                                                         *)
(* A step is what one processor does between two acquisitions of a slot's  *)
(* lock, or one unlocked access to procs[].  Response ratios are left open *)
(* (any RUNNABLE candidate may win, or none), so are pids, exit codes and  *)
(* the open files of a process.                                            *)
(***************************************************************************)
EXTENDS Naturals

CONSTANTS CPUs,    \* the processors (NCPU)
          NPROC,   \* number of slots of procs[]
          NULL     \* the null pointer, and "no processor"

Slots == 1..NPROC
proczero == 1

ASSUME ProcAssumption ==
    /\ NPROC \in Nat \ {0}
    /\ NULL \notin CPUs
    /\ NULL \notin Nat

VARIABLES
    \* the process table
    state,        \* procs[p].state
    parent,       \* procs[p].parent
    sleep_space,  \* procs[p].sleep_space: the slot waited on, or NULL
    lk,           \* procs[p].lk: the processor holding it, or NULL
    ctx,          \* procs[p].ctx: where swtch resumes p
    \* kernel-stack locals of the process in slot p
    pc,           \* the next step of p's system call
    idx,          \* the loop variable of proc_alloc, proc_wait, proc_reparent
    have_kids,    \* proc_wait's have_kids
    par,          \* proc_exit's parent
    \* processors
    cpc,          \* what the processor does
    proc,         \* mycpu()->proc
    next_p,       \* proc_scheduler's next_p
    sidx,         \* proc_scheduler's idx
    found,        \* proc_scheduler's found
    origin        \* mycpu()->origin: interrupts were on before push_off

tvars == <<state, parent, sleep_space>>
kvars == <<pc, idx, have_kids, par>>
svars == <<proc, next_p, sidx, found>>
vars == <<tvars, lk, ctx, kvars, cpc, svars, origin>>

States == {"UNUSED", "RUNNABLE", "RUNNING", "SLEEPING", "ZOMBIE"}

\* "frame" is no context of the process: swtch has stored a frame of a
\* scheduler's stack in it (WindowYield).
Contexts == {"none", "fork_return", "yield", "sleep", "frame"}

\* Places of a system call at which the process holds no lock of procs[].
Interruptible == {"user", "alloc", "wait", "exit", "exit_self", "exit_parent"}
Labels == Interruptible \cup {"fork", "scan", "child", "exit_lock", "reparent", "adopt"}

\* What a processor does: scan procs[], run a process, leave it through
\* proc_sched, come back from swtch, clear mycpu()->proc, spin in panic.
CpuLabels == {"scan", "run", "sched", "ret", "clear", "panic"}

TypeOK ==
    /\ state \in [Slots -> States]
    /\ parent \in [Slots -> Slots \cup {NULL}]
    /\ sleep_space \in [Slots -> Slots \cup {NULL}]
    /\ lk \in [Slots -> CPUs \cup {NULL}]
    /\ ctx \in [Slots -> Contexts]
    /\ pc \in [Slots -> Labels]
    /\ idx \in [Slots -> 1..(NPROC + 1)]
    /\ have_kids \in [Slots -> BOOLEAN]
    /\ par \in [Slots -> Slots \cup {NULL}]
    /\ cpc \in [CPUs -> CpuLabels]
    /\ proc \in [CPUs -> Slots \cup {NULL}]
    /\ next_p \in [CPUs -> Slots \cup {NULL}]
    /\ sidx \in [CPUs -> 1..(NPROC + 1)]
    /\ found \in [CPUs -> BOOLEAN]
    /\ origin \in [CPUs -> BOOLEAN]

(***************************************************************************)
(* main and proc_make_first: proczero is RUNNABLE and will start in        *)
(* fork_return, and every processor enters proc_scheduler.                 *)
(***************************************************************************)
Init ==
    /\ state = [p \in Slots |-> IF p = proczero THEN "RUNNABLE" ELSE "UNUSED"]
    /\ parent = [p \in Slots |-> NULL]
    /\ sleep_space = [p \in Slots |-> NULL]
    /\ lk = [p \in Slots |-> NULL]
    /\ ctx = [p \in Slots |-> IF p = proczero THEN "fork_return" ELSE "none"]
    /\ pc = [p \in Slots |-> "user"]
    /\ idx = [p \in Slots |-> 1]
    /\ have_kids = [p \in Slots |-> FALSE]
    /\ par = [p \in Slots |-> NULL]
    /\ cpc = [c \in CPUs |-> "scan"]
    /\ proc = [c \in CPUs |-> NULL]
    /\ next_p = [c \in CPUs |-> NULL]
    /\ sidx = [c \in CPUs |-> 1]
    /\ found = [c \in CPUs |-> FALSE]
    /\ origin = [c \in CPUs |-> TRUE]

\* c executes on the kernel stack (or in the user program) of p.
Executes(c, p) == cpc[c] \in {"run", "sched"} /\ proc[c] = p

\* Process p, running on c, is about to do step l.
At(c, p, l) == cpc[c] = "run" /\ proc[c] = p /\ pc[p] = l

Goto(p, l) == pc' = [pc EXCEPT ![p] = l]

\* The system call of p is over and its locals are gone.
Return(p) ==
    /\ pc' = [pc EXCEPT ![p] = "user"]
    /\ idx' = [idx EXCEPT ![p] = 1]
    /\ have_kids' = [have_kids EXCEPT ![p] = FALSE]
    /\ par' = [par EXCEPT ![p] = NULL]

-----------------------------------------------------------------------------
(***************************************************************************)
(* proc_scheduler.  The scan goes up through the slots, and the lock of    *)
(* the best candidate so far stays held while later locks are taken.       *)
(***************************************************************************)
ScanSkip(c) ==
    /\ cpc[c] = "scan"
    /\ sidx[c] <= NPROC
    /\ lk[sidx[c]] = NULL
    /\ state[sidx[c]] # "RUNNABLE"
    /\ sidx' = [sidx EXCEPT ![c] = @ + 1]
    /\ UNCHANGED <<tvars, lk, ctx, kvars, cpc, proc, next_p, found, origin>>

\* max_weight < get_weight(p): the slot becomes the candidate.
ScanKeep(c) ==
    /\ cpc[c] = "scan"
    /\ sidx[c] <= NPROC
    /\ lk[sidx[c]] = NULL
    /\ state[sidx[c]] = "RUNNABLE"
    /\ lk' = [p \in Slots |-> IF p = sidx[c] THEN c
                              ELSE IF p = next_p[c] THEN NULL ELSE lk[p]]
    /\ next_p' = [next_p EXCEPT ![c] = sidx[c]]
    /\ sidx' = [sidx EXCEPT ![c] = @ + 1]
    /\ found' = [found EXCEPT ![c] = TRUE]
    /\ UNCHANGED <<tvars, ctx, kvars, cpc, proc, origin>>

\* The candidate already kept has at least this weight, or the weight is 0
\* (total_wait_time is unsigned, and ticks may be older than
\* begin_runnable_time): then there may be no candidate at all.
ScanPass(c) ==
    /\ cpc[c] = "scan"
    /\ sidx[c] <= NPROC
    /\ lk[sidx[c]] = NULL
    /\ state[sidx[c]] = "RUNNABLE"
    /\ sidx' = [sidx EXCEPT ![c] = @ + 1]
    /\ found' = [found EXCEPT ![c] = TRUE]
    /\ UNCHANGED <<tvars, lk, ctx, kvars, cpc, proc, next_p, origin>>

\* Mutant: the next round counts the slots from zero.
ScanIdleFromZero(c) ==
    /\ cpc[c] = "scan"
    /\ sidx[c] > NPROC
    /\ ~found[c]
    /\ sidx' = [sidx EXCEPT ![c] = 0]
    /\ UNCHANGED <<tvars, lk, ctx, kvars, cpc, proc, next_p, found, origin>>

\* found == 0: wfi, then the loop starts again.
ScanIdle(c) ==
    /\ cpc[c] = "scan"
    /\ sidx[c] > NPROC
    /\ ~found[c]
    /\ sidx' = [sidx EXCEPT ![c] = 1]
    /\ UNCHANGED <<tvars, lk, ctx, kvars, cpc, proc, next_p, found, origin>>

\* swtch to next_p.  Where it resumes depends on how it left: fork_return and
\* proc_yield release the lock, proc_sleep on the own lock keeps it, and
\* proc_wait then starts its next round.
Switch(c) ==
    /\ cpc[c] = "scan"
    /\ sidx[c] > NPROC
    /\ found[c]
    /\ next_p[c] # NULL
    /\ LET p == next_p[c] IN
       /\ state' = [state EXCEPT ![p] = "RUNNING"]
       /\ proc' = [proc EXCEPT ![c] = p]
       /\ cpc' = [cpc EXCEPT ![c] = "run"]
       /\ ctx' = [ctx EXCEPT ![p] = "none"]
       /\ IF ctx[p] = "sleep"
          THEN /\ sleep_space' = [sleep_space EXCEPT ![p] = NULL]
               /\ UNCHANGED lk
          ELSE /\ lk' = [lk EXCEPT ![p] = NULL]
               /\ UNCHANGED sleep_space
    /\ sidx' = [sidx EXCEPT ![c] = 1]
    /\ UNCHANGED <<parent, kvars, next_p, found, origin>>

\* proc_sched: swtch back to the scheduler's context, the lock stays held.
SchedAway(c) ==
    /\ cpc[c] = "sched"
    /\ cpc' = [cpc EXCEPT ![c] = "ret"]
    /\ UNCHANGED <<tvars, lk, ctx, kvars, svars, origin>>

\* Back in proc_scheduler: only now is the lock of the process released ...
SchedRelease(c) ==
    /\ cpc[c] = "ret"
    /\ lk' = [lk EXCEPT ![next_p[c]] = NULL]
    /\ cpc' = [cpc EXCEPT ![c] = "clear"]
    /\ UNCHANGED <<tvars, ctx, kvars, svars, origin>>

\* ... and mycpu()->proc is cleared after that.
SchedClear(c) ==
    /\ cpc[c] = "clear"
    /\ proc' = [proc EXCEPT ![c] = NULL]
    /\ next_p' = [next_p EXCEPT ![c] = NULL]
    /\ cpc' = [cpc EXCEPT ![c] = "scan"]
    /\ found' = [found EXCEPT ![c] = FALSE]
    /\ origin' = [origin EXCEPT ![c] = TRUE]
    /\ UNCHANGED <<tvars, lk, ctx, kvars, sidx>>

\* Leave the processor with a saved context k, interrupts having been i.
\* The caller holds lk[p] and has set the state.
proc_sched(c, p, k, i) ==
    /\ cpc' = [cpc EXCEPT ![c] = "sched"]
    /\ ctx' = [ctx EXCEPT ![p] = k]
    /\ origin' = [origin EXCEPT ![c] = i]

-----------------------------------------------------------------------------
(***************************************************************************)
(* timer_interrupt_handler and proc_yield: in user mode, or in a system    *)
(* call wherever no spin lock is held.                                     *)
(***************************************************************************)
\* Mutant: the lock is not taken before proc_sched.
proc_yield_unlocked(c, p) ==
    /\ cpc[c] = "run" /\ proc[c] = p
    /\ pc[p] \in Interruptible
    /\ state[p] = "RUNNING"
    /\ state' = [state EXCEPT ![p] = "RUNNABLE"]
    /\ proc_sched(c, p, "yield", FALSE)
    /\ UNCHANGED <<parent, sleep_space, lk, kvars, svars>>

proc_yield(c, p) ==
    /\ cpc[c] = "run" /\ proc[c] = p
    /\ pc[p] \in Interruptible
    /\ state[p] = "RUNNING"
    /\ lk[p] = NULL
    /\ lk' = [lk EXCEPT ![p] = c]
    /\ state' = [state EXCEPT ![p] = "RUNNABLE"]
    /\ proc_sched(c, p, "yield", FALSE)
    /\ UNCHANGED <<parent, sleep_space, kvars, svars>>

-----------------------------------------------------------------------------
(***************************************************************************)
(* proc_fork and proc_alloc.                                               *)
(***************************************************************************)
SysFork(c, p) ==
    /\ At(c, p, "user")
    /\ Goto(p, "alloc")
    /\ UNCHANGED <<tvars, lk, ctx, idx, have_kids, par, cpc, svars, origin>>

AllocSkip(c, p) ==
    /\ At(c, p, "alloc")
    /\ idx[p] <= NPROC
    /\ lk[idx[p]] = NULL
    /\ state[idx[p]] # "UNUSED"
    /\ idx' = [idx EXCEPT ![p] = @ + 1]
    /\ UNCHANGED <<tvars, lk, ctx, pc, have_kids, par, cpc, svars, origin>>

\* The lock of the UNUSED slot stays held while the child is being made.
proc_alloc(c, p) ==
    /\ At(c, p, "alloc")
    /\ idx[p] <= NPROC
    /\ lk[idx[p]] = NULL
    /\ state[idx[p]] = "UNUSED"
    /\ lk' = [lk EXCEPT ![idx[p]] = c]
    /\ ctx' = [ctx EXCEPT ![idx[p]] = "fork_return"]
    /\ Goto(p, "fork")
    /\ UNCHANGED <<tvars, idx, have_kids, par, cpc, svars, origin>>

proc_fork(c, p) ==
    /\ At(c, p, "fork")
    /\ state' = [state EXCEPT ![idx[p]] = "RUNNABLE"]
    /\ parent' = [parent EXCEPT ![idx[p]] = p]
    /\ lk' = [lk EXCEPT ![idx[p]] = NULL]
    /\ Return(p)
    /\ UNCHANGED <<sleep_space, ctx, cpc, svars, origin>>

-----------------------------------------------------------------------------
(***************************************************************************)
(* proc_wait.  The parent fields are read without a lock; the caller's own *)
(* lock is held from before the first read until proc_sched.               *)
(***************************************************************************)
SysWait(c, p) ==
    /\ At(c, p, "user")
    /\ Goto(p, "wait")
    /\ UNCHANGED <<tvars, lk, ctx, idx, have_kids, par, cpc, svars, origin>>

\* Mutant: the caller's own lock is not taken.
WaitUnlocked(c, p) ==
    /\ At(c, p, "wait")
    /\ Goto(p, "scan")
    /\ UNCHANGED <<tvars, lk, ctx, idx, have_kids, par, cpc, svars, origin>>

WaitLock(c, p) ==
    /\ At(c, p, "wait")
    /\ lk[p] = NULL
    /\ lk' = [lk EXCEPT ![p] = c]
    /\ Goto(p, "scan")
    /\ UNCHANGED <<tvars, ctx, idx, have_kids, par, cpc, svars, origin>>

WaitNotKid(c, p) ==
    /\ At(c, p, "scan")
    /\ idx[p] <= NPROC
    /\ parent[idx[p]] # p
    /\ idx' = [idx EXCEPT ![p] = @ + 1]
    /\ UNCHANGED <<tvars, lk, ctx, pc, have_kids, par, cpc, svars, origin>>

WaitKid(c, p) ==
    /\ At(c, p, "scan")
    /\ idx[p] <= NPROC
    /\ parent[idx[p]] = p
    /\ have_kids' = [have_kids EXCEPT ![p] = TRUE]
    /\ Goto(p, "child")
    /\ UNCHANGED <<tvars, lk, ctx, idx, par, cpc, svars, origin>>

WaitSkip(c, p) ==
    /\ At(c, p, "child")
    /\ lk[idx[p]] = NULL
    /\ state[idx[p]] # "ZOMBIE"
    /\ idx' = [idx EXCEPT ![p] = @ + 1]
    /\ Goto(p, "scan")
    /\ UNCHANGED <<tvars, lk, ctx, have_kids, par, cpc, svars, origin>>

\* Mutant: the child is freed whatever its state.
WaitReapAny(c, p) ==
    /\ At(c, p, "child")
    /\ lk[idx[p]] = NULL
    /\ state' = [state EXCEPT ![idx[p]] = "UNUSED"]
    /\ parent' = [parent EXCEPT ![idx[p]] = NULL]
    /\ sleep_space' = [sleep_space EXCEPT ![idx[p]] = NULL]
    /\ ctx' = [ctx EXCEPT ![idx[p]] = "none"]
    /\ lk' = [lk EXCEPT ![p] = NULL]
    /\ Return(p)
    /\ UNCHANGED <<cpc, svars, origin>>

\* proc_free of a zombie child; both locks are released.  The files it has
\* open are closed on the way (Files); PanicReap is the case in which that
\* cannot be done under these locks.
WaitReap(c, p) ==
    /\ At(c, p, "child")
    /\ lk[idx[p]] = NULL
    /\ state[idx[p]] = "ZOMBIE"
    /\ state' = [state EXCEPT ![idx[p]] = "UNUSED"]
    /\ parent' = [parent EXCEPT ![idx[p]] = NULL]
    /\ sleep_space' = [sleep_space EXCEPT ![idx[p]] = NULL]
    /\ ctx' = [ctx EXCEPT ![idx[p]] = "none"]
    /\ lk' = [lk EXCEPT ![p] = NULL]
    /\ Return(p)
    /\ UNCHANGED <<cpc, svars, origin>>

\* return -1, without spinlock_release.
WaitNoKids(c, p) ==
    /\ At(c, p, "scan")
    /\ idx[p] > NPROC
    /\ ~have_kids[p]
    /\ Return(p)
    /\ UNCHANGED <<tvars, lk, ctx, cpc, svars, origin>>

\* proc_sleep(myproc(), &myproc()->lk)
WaitSleep(c, p) ==
    /\ At(c, p, "scan")
    /\ idx[p] > NPROC
    /\ have_kids[p]
    /\ sleep_space' = [sleep_space EXCEPT ![p] = p]
    /\ state' = [state EXCEPT ![p] = "SLEEPING"]
    /\ idx' = [idx EXCEPT ![p] = 1]
    /\ have_kids' = [have_kids EXCEPT ![p] = FALSE]
    /\ proc_sched(c, p, "sleep", TRUE)
    /\ UNCHANGED <<parent, lk, pc, par, svars>>

-----------------------------------------------------------------------------
(***************************************************************************)
(* proc_exit, proc_reparent and proc_wakeup_one.                           *)
(***************************************************************************)
\* The states after proc_wakeup_one(q): q wakes if it sleeps in proc_wait.
proc_wakeup_one(q) ==
    IF state[q] = "SLEEPING" /\ sleep_space[q] = q
    THEN [state EXCEPT ![q] = "RUNNABLE"]
    ELSE state

SysExit(c, p) ==
    /\ At(c, p, "user")
    /\ p # proczero
    /\ Goto(p, "exit")
    /\ UNCHANGED <<tvars, lk, ctx, idx, have_kids, par, cpc, svars, origin>>

ExitWakeZero(c, p) ==
    /\ At(c, p, "exit")
    /\ lk[proczero] = NULL
    /\ state' = proc_wakeup_one(proczero)
    /\ Goto(p, "exit_self")
    /\ UNCHANGED <<parent, sleep_space, lk, ctx, idx, have_kids, par, cpc, svars, origin>>

ExitGetParent(c, p) ==
    /\ At(c, p, "exit_self")
    /\ lk[p] = NULL
    /\ par' = [par EXCEPT ![p] = parent[p]]
    /\ Goto(p, "exit_parent")
    /\ UNCHANGED <<tvars, lk, ctx, idx, have_kids, cpc, svars, origin>>

ExitLockParent(c, p) ==
    /\ At(c, p, "exit_parent")
    /\ lk[par[p]] = NULL
    /\ lk' = [lk EXCEPT ![par[p]] = c]
    /\ Goto(p, "exit_lock")
    /\ UNCHANGED <<tvars, ctx, idx, have_kids, par, cpc, svars, origin>>

\* Mutant: proc_reparent is not called.
ExitNoReparent(c, p) ==
    /\ At(c, p, "exit_lock")
    /\ lk[p] = NULL
    /\ lk' = [lk EXCEPT ![p] = c]
    /\ idx' = [idx EXCEPT ![p] = NPROC + 1]
    /\ Goto(p, "reparent")
    /\ UNCHANGED <<tvars, ctx, have_kids, par, cpc, svars, origin>>

ExitLockSelf(c, p) ==
    /\ At(c, p, "exit_lock")
    /\ lk[p] = NULL
    /\ lk' = [lk EXCEPT ![p] = c]
    /\ Goto(p, "reparent")
    /\ UNCHANGED <<tvars, ctx, idx, have_kids, par, cpc, svars, origin>>

ReparentNotKid(c, p) ==
    /\ At(c, p, "reparent")
    /\ idx[p] <= NPROC
    /\ parent[idx[p]] # p
    /\ idx' = [idx EXCEPT ![p] = @ + 1]
    /\ UNCHANGED <<tvars, lk, ctx, pc, have_kids, par, cpc, svars, origin>>

ReparentKid(c, p) ==
    /\ At(c, p, "reparent")
    /\ idx[p] <= NPROC
    /\ parent[idx[p]] = p
    /\ Goto(p, "adopt")
    /\ UNCHANGED <<tvars, lk, ctx, idx, have_kids, par, cpc, svars, origin>>

ReparentAdopt(c, p) ==
    /\ At(c, p, "adopt")
    /\ lk[idx[p]] = NULL
    /\ parent' = [parent EXCEPT ![idx[p]] = proczero]
    /\ idx' = [idx EXCEPT ![p] = @ + 1]
    /\ Goto(p, "reparent")
    /\ UNCHANGED <<state, sleep_space, lk, ctx, have_kids, par, cpc, svars, origin>>

\* Mutant: the own lock is released before proc_sched too.
proc_exit_unlocked(c, p) ==
    /\ At(c, p, "reparent")
    /\ idx[p] > NPROC
    /\ state' = [proc_wakeup_one(par[p]) EXCEPT ![p] = "ZOMBIE"]
    /\ lk' = [lk EXCEPT ![par[p]] = NULL, ![p] = NULL]
    /\ Return(p)
    /\ proc_sched(c, p, "none", TRUE)
    /\ UNCHANGED <<parent, sleep_space, svars>>

\* The parent's lock is released, the own one goes to the scheduler.
proc_exit(c, p) ==
    /\ At(c, p, "reparent")
    /\ idx[p] > NPROC
    /\ state' = [proc_wakeup_one(par[p]) EXCEPT ![p] = "ZOMBIE"]
    /\ lk' = [lk EXCEPT ![par[p]] = NULL]
    /\ Return(p)
    /\ proc_sched(c, p, "none", TRUE)
    /\ UNCHANGED <<parent, sleep_space, svars>>

-----------------------------------------------------------------------------
(***************************************************************************)
(* Assertions.  A processor whose assertion fails spins in panic() and     *)
(* keeps the locks it holds.                                               *)
(***************************************************************************)
\* The slot whose lock c acquires next, or NULL.
Wants(c) ==
    LET p == proc[c] IN
    CASE cpc[c] = "scan" /\ sidx[c] <= NPROC -> sidx[c]
      [] cpc[c] = "run" /\ pc[p] = "alloc" /\ idx[p] <= NPROC -> idx[p]
      [] cpc[c] = "run" /\ pc[p] \in {"child", "adopt"} -> idx[p]
      [] cpc[c] = "run" /\ pc[p] \in {"wait", "exit_self", "exit_lock"} -> p
      [] cpc[c] = "run" /\ pc[p] = "exit" -> proczero
      [] cpc[c] = "run" /\ pc[p] = "exit_parent" -> par[p]
      [] OTHER -> NULL

\* spinlock_acquire: "reacquiring lock", from the kernel or, through
\* proc_yield, from a timer interrupt in user mode.
Reacquires(c) ==
    \/ \E q \in Slots : Wants(c) = q /\ lk[q] = c
    \/ \E p \in Slots : At(c, p, "user") /\ lk[p] = c

PanicReacquire(c) ==
    /\ Reacquires(c)
    /\ cpc' = [cpc EXCEPT ![c] = "panic"]
    /\ UNCHANGED <<tvars, lk, ctx, kvars, svars, origin>>

\* proc_alloc: "no proc available"; proc_exit: "proczero exited!".
PanicProc(c, p) ==
    /\ \/ At(c, p, "alloc") /\ idx[p] > NPROC
       \/ At(c, p, "user") /\ p = proczero
    /\ cpc' = [cpc EXCEPT ![c] = "panic"]
    /\ UNCHANGED <<tvars, lk, ctx, kvars, svars, origin>>

\* found == 1 without a candidate: the scheduler reads next_p->state through
\* the null pointer, a page fault in the kernel.
PanicNoCandidate(c) ==
    /\ cpc[c] = "scan"
    /\ sidx[c] > NPROC
    /\ found[c]
    /\ next_p[c] = NULL
    /\ cpc' = [cpc EXCEPT ![c] = "panic"]
    /\ UNCHANGED <<tvars, lk, ctx, kvars, svars, origin>>

\* proc_free's file_close, called under the locks of the caller and of the
\* child: the last close of a pipe's end calls proc_wakeup, the last close
\* of an unlinked file sleeps for the disk, and both acquire the caller's
\* lock again.  The fields of the slot are cleared by then, ctx is not.
PanicReap(c, p) ==
    /\ At(c, p, "child")
    /\ lk[idx[p]] = NULL
    /\ state[idx[p]] = "ZOMBIE"
    /\ state' = [state EXCEPT ![idx[p]] = "UNUSED"]
    /\ parent' = [parent EXCEPT ![idx[p]] = NULL]
    /\ sleep_space' = [sleep_space EXCEPT ![idx[p]] = NULL]
    /\ lk' = [lk EXCEPT ![idx[p]] = c]
    /\ cpc' = [cpc EXCEPT ![c] = "panic"]
    /\ UNCHANGED <<ctx, kvars, svars, origin>>

-----------------------------------------------------------------------------
Scheduler(c) ==
    \/ ScanSkip(c) \/ ScanKeep(c) \/ ScanPass(c) \/ ScanIdle(c)
    \/ PanicNoCandidate(c)
    \/ Switch(c) \/ SchedAway(c) \/ SchedRelease(c) \/ SchedClear(c)

Process(c, p) ==
    \/ proc_yield(c, p)
    \/ SysFork(c, p) \/ AllocSkip(c, p) \/ proc_alloc(c, p) \/ proc_fork(c, p)
    \/ SysWait(c, p) \/ WaitLock(c, p) \/ WaitNotKid(c, p) \/ WaitKid(c, p)
    \/ WaitSkip(c, p) \/ WaitReap(c, p) \/ WaitNoKids(c, p) \/ WaitSleep(c, p)
    \/ SysExit(c, p) \/ ExitWakeZero(c, p) \/ ExitGetParent(c, p)
    \/ ExitLockParent(c, p) \/ ExitLockSelf(c, p)
    \/ ReparentNotKid(c, p) \/ ReparentKid(c, p) \/ ReparentAdopt(c, p)
    \/ proc_exit(c, p)
    \/ PanicProc(c, p) \/ PanicReap(c, p)

Next ==
    \E c \in CPUs :
       \/ Scheduler(c)
       \/ PanicReacquire(c)
       \/ \E p \in Slots : Process(c, p)

Spec == Init /\ [][Next]_vars

(***************************************************************************)
(* The same kernel when a timer interrupt reaches the processor between    *)
(* the release of the lock and the clearing of mycpu()->proc.  Interrupts  *)
(* are on there if they were on when the process called proc_sched.        *)
(* timer_interrupt_handler finds a stale mycpu()->proc and, if that        *)
(* process runs again somewhere, yields in its name.  The handler is on    *)
(* the scheduler's stack, so the context swtch stores in that process is a *)
(* frame of this stack, which the scheduler, resumed from its own saved    *)
(* context, goes on to overwrite.  What a later swtch to the frame does is *)
(* undefined: the model ends here.                                         *)
(***************************************************************************)
WindowYield(c, p) ==
    /\ cpc[c] = "clear"
    /\ origin[c]
    /\ proc[c] = p
    /\ state[p] = "RUNNING"
    /\ lk[p] = NULL
    /\ lk' = [lk EXCEPT ![p] = c]
    /\ state' = [state EXCEPT ![p] = "RUNNABLE"]
    /\ ctx' = [ctx EXCEPT ![p] = "frame"]
    /\ cpc' = [cpc EXCEPT ![c] = "ret"]
    /\ origin' = [origin EXCEPT ![c] = FALSE]
    /\ UNCHANGED <<parent, sleep_space, kvars, svars>>

WindowNext ==
    /\ \A p \in Slots : ctx[p] # "frame"
    /\ Next \/ \E c \in CPUs, p \in Slots : WindowYield(c, p)

WindowSpec == Init /\ [][WindowNext]_vars

-----------------------------------------------------------------------------
(***************************************************************************)
(* Properties.                                                             *)
(***************************************************************************)

\* Two processors never execute on the kernel stack of the same process:
\* the handing over of p->lk through swtch keeps a process that is leaving
\* from being picked up before it is off its stack.
OneCpu ==
    \A c, d \in CPUs, p \in Slots : Executes(c, p) /\ Executes(d, p) => c = d

\* What a processor executes is RUNNING, or is on its way out through
\* proc_sched under that processor's own hold of its lock: nobody else takes
\* the processor away from a process, or puts it up for dispatch, while it
\* runs.
RunningOrLeaving ==
    \A c \in CPUs, p \in Slots :
        Executes(c, p) => state[p] = "RUNNING" \/ lk[p] = c

\* A slot is reclaimed, or given to a new process, only once nobody executes
\* on its kernel stack: proc_free by the parent waits for the exiting
\* process's own swtch.
FreedOffStack ==
    \A c \in CPUs, p \in Slots : Executes(c, p) => state[p] # "UNUSED"

\* While a process is in proc_wait's sleep, none of its children is an
\* unreaped zombie: the exit of a child is never lost.  proczero is left
\* out, since proc_reparent hands zombies over to it without waking it.
NoLostExit ==
    \A p, q \in Slots :
        /\ p # proczero
        /\ state[p] = "SLEEPING"
        /\ state[q] = "ZOMBIE"
        => parent[q] # p

\* proczero can take in every process that exits ("first wake it up"): when
\* nobody is inside proc_exit any more, proczero does not sleep in proc_wait
\* on top of an unreaped zombie child.
ProczeroInformed ==
    \A q \in Slots :
        /\ \A p \in Slots : pc[p] \in {"user", "alloc", "fork", "wait", "scan", "child"}
        /\ state[proczero] = "SLEEPING"
        /\ state[q] = "ZOMBIE"
        => parent[q] # proczero

\* A process always has a parent that can still wait for it: the parent of
\* a slot in use is in use itself and is not a zombie.
ParentAlive ==
    \A p \in Slots :
        parent[p] # NULL => state[parent[p]] \notin {"UNUSED", "ZOMBIE"}

\* The table follows the state diagram of include/proc/proc.h.
Lifecycle == INSTANCE ProcLifecycle
LifecycleSpec == Lifecycle!Spec

\* Taking a child's lock inside proc_wait and proc_reparent cannot deadlock
\* ("placed inside the if to prevent deadlock"): no scheduler waits for a
\* lock held there while holding the lock wanted there.
ChildLockNoDeadlock ==
    \A c, d \in CPUs, p, q, r \in Slots :
        ~ (/\ cpc[c] = "scan" /\ Wants(c) = p /\ lk[p] = d
           /\ At(d, r, "child") \/ At(d, r, "adopt")
           /\ Wants(d) = q /\ lk[q] = c)
=============================================================================
