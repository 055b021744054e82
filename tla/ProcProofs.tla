----------------------------- MODULE ProcProofs -----------------------------
(***************************************************************************)
(* For any number of processors and slots: IInv is an inductive invariant  *)
(* of Proc, hence no kernel stack is shared, no slot is freed under its    *)
(* user, no exit is lost to a waiting parent, and the process table        *)
(* implements ProcLifecycle.  One lemma per action of Next shows that the  *)
(* action preserves IInv.                                                  *)
(***************************************************************************)
EXTENDS Proc, TLAPS

(***************************************************************************)
(* The inductive invariant: which processor holds which lock at each step, *)
(* and what the holder may rely on.                                        *)
(***************************************************************************)
\* A scanning processor holds the lock of its candidate, which is RUNNABLE.
CandidateInv ==
    \A c \in CPUs :
        cpc[c] = "scan" /\ next_p[c] # NULL =>
            /\ lk[next_p[c]] = c
            /\ state[next_p[c]] = "RUNNABLE"

\* A process that runs is RUNNING, and on this processor only.
RunInv ==
    /\ \A c \in CPUs :
        cpc[c] = "run" =>
            /\ proc[c] \in Slots
            /\ next_p[c] = proc[c]
            /\ state[proc[c]] = "RUNNING"
    /\ \A c, d \in CPUs :
        cpc[c] = "run" /\ cpc[d] = "run" /\ proc[c] = proc[d] => c = d

\* A process that leaves its processor is covered by its lock until the
\* scheduler's context releases it.
LeaveInv ==
    \A c \in CPUs :
        cpc[c] \in {"sched", "ret"} =>
            /\ proc[c] \in Slots
            /\ next_p[c] = proc[c]
            /\ lk[proc[c]] = c
            /\ state[proc[c]] \in {"RUNNABLE", "SLEEPING", "ZOMBIE"}

\* The locks a running process holds at each step of its system call.
HeldInv ==
    \A c \in CPUs, p \in Slots :
        /\ At(c, p, "scan") => lk[p] = c
        /\ At(c, p, "child") => /\ lk[p] = c
                                /\ idx[p] \in Slots
                                /\ parent[idx[p]] = p
        /\ At(c, p, "fork") => /\ idx[p] \in Slots
                               /\ lk[idx[p]] = c
                               /\ state[idx[p]] = "UNUSED"
        /\ At(c, p, "exit_lock") => lk[par[p]] = c
        /\ At(c, p, "reparent") => lk[par[p]] = c /\ lk[p] = c
        /\ At(c, p, "adopt") => /\ lk[par[p]] = c
                                /\ lk[p] = c
                                /\ idx[p] \in Slots
                                /\ parent[idx[p]] = p

\* Where a process that is off its processor will resume; loops start at the
\* first slot.
ResumeInv ==
    \A p \in Slots :
        /\ ctx[p] = "sleep" => /\ pc[p] = "scan"
                               /\ idx[p] = 1
                               /\ state[p] \in {"RUNNABLE", "SLEEPING"}
        /\ pc[p] \in (Interruptible \ {"alloc"}) \cup {"exit_lock"} => idx[p] = 1
        /\ ctx[p] # "sleep" /\ state[p] \in {"RUNNABLE", "SLEEPING"} => pc[p] \in Interruptible
        /\ state[p] \in {"UNUSED", "ZOMBIE"} => pc[p] = "user"
        /\ state[p] = "SLEEPING" => ctx[p] = "sleep" /\ sleep_space[p] = p

ExitLabels == {"exit", "exit_self", "exit_parent", "exit_lock", "reparent", "adopt"}

\* An exiting process is not proczero; the parent it has read is its parent
\* or has meanwhile handed it to proczero; the slots it has passed in
\* proc_reparent are not its children any more.
ExitInv ==
    \A p \in Slots :
        /\ pc[p] \in ExitLabels => p # proczero
        /\ pc[p] \in {"exit_parent", "exit_lock", "reparent", "adopt"} =>
              /\ par[p] \in Slots
              /\ par[p] # p
              /\ par[p] = parent[p] \/ parent[p] = proczero
        /\ pc[p] \in {"reparent", "adopt"} =>
              \A q \in Slots : q < idx[p] => parent[q] # p

\* Every slot in use but proczero has a parent, another slot that is alive.
FamilyInv ==
    /\ state[proczero] \in {"RUNNABLE", "RUNNING", "SLEEPING"}
    /\ parent[proczero] = NULL
    /\ \A p \in Slots :
        /\ parent[p] # p
        /\ p # proczero /\ state[p] # "UNUSED" => parent[p] \in Slots
        /\ state[p] = "UNUSED" => parent[p] = NULL

\* The slots proc_wait has passed hold no zombie child of the caller.
WaitInv ==
    \A c \in CPUs, p, q \in Slots :
        /\ At(c, p, "scan") \/ At(c, p, "child")
        /\ p # proczero
        /\ q < idx[p]
        /\ parent[q] = p
        => state[q] # "ZOMBIE"

IInv ==
    /\ TypeOK
    /\ CandidateInv
    /\ RunInv
    /\ LeaveInv
    /\ HeldInv
    /\ ResumeInv
    /\ ExitInv
    /\ FamilyInv
    /\ ParentAlive
    /\ WaitInv
    /\ NoLostExit

-----------------------------------------------------------------------------
\* The scheduler passes a slot that is not RUNNABLE.
LEMMA ScanSkip_Step ==
    ASSUME IInv, NEW c \in CPUs, ScanSkip(c)
    PROVE  IInv'
<1> USE ProcAssumption DEF IInv, ScanSkip, At, Goto, Return, tvars, kvars, svars, Slots, proczero
<1>1. TypeOK'
  BY DEF TypeOK, States, Contexts, Labels, Interruptible, CpuLabels
<1>2. CandidateInv' /\ RunInv' /\ LeaveInv'
  BY DEF TypeOK, CandidateInv, RunInv, LeaveInv, HeldInv, ExitInv
<1>3. HeldInv'
  BY DEF TypeOK, CandidateInv, RunInv, LeaveInv, HeldInv, ResumeInv, ExitInv, FamilyInv
<1>4. ResumeInv' /\ ExitInv'
  BY DEF TypeOK, CandidateInv, RunInv, LeaveInv, HeldInv, ResumeInv, ExitInv, FamilyInv, Interruptible, ExitLabels
<1>5. FamilyInv' /\ ParentAlive'
  BY DEF TypeOK, CandidateInv, RunInv, HeldInv, ExitInv, FamilyInv, ParentAlive
<1>6. WaitInv'
  BY DEF TypeOK, RunInv, HeldInv, ResumeInv, ExitInv, FamilyInv, WaitInv, Interruptible
<1>7. NoLostExit'
  BY DEF TypeOK, CandidateInv, RunInv, HeldInv, ResumeInv, ExitInv, FamilyInv, WaitInv, NoLostExit, Interruptible
<1> QED
  BY <1>1, <1>2, <1>3, <1>4, <1>5, <1>6, <1>7

\* It takes a better candidate and gives up the one it held.
LEMMA ScanKeep_Step ==
    ASSUME IInv, NEW c \in CPUs, ScanKeep(c)
    PROVE  IInv'
<1> USE ProcAssumption DEF IInv, ScanKeep, At, Goto, Return, tvars, kvars, svars, Slots, proczero
<1>a. ASSUME NEW d \in CPUs \ {c}, NEW q \in Slots, lk[q] = d
      PROVE  lk'[q] = d
  <2>1. q # sidx[c]
    BY <1>a
  <2>2. q # next_p[c]
    BY <1>a DEF CandidateInv
  <2> QED
    BY <1>a, <2>1, <2>2
<1>1. TypeOK'
  BY DEF TypeOK, States, Contexts, Labels, Interruptible, CpuLabels
<1>2. CandidateInv' /\ RunInv' /\ LeaveInv'
  BY DEF TypeOK, CandidateInv, RunInv, LeaveInv, HeldInv, ExitInv
<1>3. HeldInv'
  <2>1. cpc[c] = "scan" /\ UNCHANGED <<state, parent, pc, idx, par, cpc, proc>>
    OBVIOUS
  <2> SUFFICES ASSUME NEW d \in CPUs, NEW q \in Slots, cpc[d] = "run", proc[d] = q
               PROVE  HeldInv!(d, q)'
    BY <2>1 DEF HeldInv
  <2>2. \A r \in Slots : lk[r] = d => lk'[r] = d
    BY <1>a, <2>1
  <2> HIDE DEF ScanKeep
  <2> QED
    BY <2>1, <2>2 DEF HeldInv, ExitInv
<1>4. ResumeInv' /\ ExitInv'
  BY DEF TypeOK, CandidateInv, RunInv, LeaveInv, HeldInv, ResumeInv, ExitInv, FamilyInv, Interruptible, ExitLabels
<1>5. FamilyInv' /\ ParentAlive'
  BY DEF TypeOK, CandidateInv, RunInv, HeldInv, ExitInv, FamilyInv, ParentAlive
<1>6. WaitInv'
  BY DEF TypeOK, RunInv, HeldInv, ResumeInv, ExitInv, FamilyInv, WaitInv, Interruptible
<1>7. NoLostExit'
  BY DEF TypeOK, CandidateInv, RunInv, HeldInv, ResumeInv, ExitInv, FamilyInv, WaitInv, NoLostExit, Interruptible
<1> QED
  BY <1>1, <1>2, <1>3, <1>4, <1>5, <1>6, <1>7

\* It keeps the candidate it has.
LEMMA ScanPass_Step ==
    ASSUME IInv, NEW c \in CPUs, ScanPass(c)
    PROVE  IInv'
<1> USE ProcAssumption DEF IInv, ScanPass, At, Goto, Return, tvars, kvars, svars, Slots, proczero
<1>1. TypeOK'
  BY SMTT(30) DEF TypeOK, States, Contexts, Labels, Interruptible, CpuLabels
<1>2. CandidateInv' /\ RunInv' /\ LeaveInv'
  BY DEF TypeOK, CandidateInv, RunInv, LeaveInv, HeldInv, ExitInv
<1>3. HeldInv'
  BY DEF TypeOK, CandidateInv, RunInv, LeaveInv, HeldInv, ResumeInv, ExitInv, FamilyInv
<1>4. ResumeInv' /\ ExitInv'
  BY DEF TypeOK, CandidateInv, RunInv, LeaveInv, HeldInv, ResumeInv, ExitInv, FamilyInv, Interruptible, ExitLabels
<1>5. FamilyInv' /\ ParentAlive'
  BY DEF TypeOK, CandidateInv, RunInv, HeldInv, ExitInv, FamilyInv, ParentAlive
<1>6. WaitInv'
  BY DEF TypeOK, RunInv, HeldInv, ResumeInv, ExitInv, FamilyInv, WaitInv, Interruptible
<1>7. NoLostExit'
  BY DEF TypeOK, CandidateInv, RunInv, HeldInv, ResumeInv, ExitInv, FamilyInv, WaitInv, NoLostExit, Interruptible
<1> QED
  BY <1>1, <1>2, <1>3, <1>4, <1>5, <1>6, <1>7

\* It found nothing to run.
LEMMA ScanIdle_Step ==
    ASSUME IInv, NEW c \in CPUs, ScanIdle(c)
    PROVE  IInv'
<1> USE ProcAssumption DEF IInv, ScanIdle, At, Goto, Return, tvars, kvars, svars, Slots, proczero
<1>1. TypeOK'
  BY DEF TypeOK, States, Contexts, Labels, Interruptible, CpuLabels
<1>2. CandidateInv' /\ RunInv' /\ LeaveInv'
  BY DEF TypeOK, CandidateInv, RunInv, LeaveInv, HeldInv, ExitInv
<1>3. HeldInv'
  BY DEF TypeOK, CandidateInv, RunInv, LeaveInv, HeldInv, ResumeInv, ExitInv, FamilyInv
<1>4. ResumeInv' /\ ExitInv'
  BY DEF TypeOK, CandidateInv, RunInv, LeaveInv, HeldInv, ResumeInv, ExitInv, FamilyInv, Interruptible, ExitLabels
<1>5. FamilyInv' /\ ParentAlive'
  BY DEF TypeOK, CandidateInv, RunInv, HeldInv, ExitInv, FamilyInv, ParentAlive
<1>6. WaitInv'
  BY DEF TypeOK, RunInv, HeldInv, ResumeInv, ExitInv, FamilyInv, WaitInv, Interruptible
<1>7. NoLostExit'
  BY DEF TypeOK, CandidateInv, RunInv, HeldInv, ResumeInv, ExitInv, FamilyInv, WaitInv, NoLostExit, Interruptible
<1> QED
  BY <1>1, <1>2, <1>3, <1>4, <1>5, <1>6, <1>7

\* The candidate, whose lock is held, goes on where it left.
LEMMA Switch_Step ==
    ASSUME IInv, NEW c \in CPUs, Switch(c)
    PROVE  IInv'
<1> USE ProcAssumption DEF IInv, Switch, At, Goto, Return, tvars, kvars, svars, Slots, proczero
<1>a. /\ next_p[c] \in Slots /\ lk[next_p[c]] = c /\ proc'[c] = next_p[c]
      /\ ctx[next_p[c]] = "sleep" => idx[next_p[c]] = 1
  BY DEF TypeOK, CandidateInv, ResumeInv
<1>b. \/ pc'[next_p[c]] = "scan" /\ lk'[next_p[c]] = c
      \/ pc'[next_p[c]] \in Interruptible
  BY <1>a DEF TypeOK, CandidateInv, ResumeInv
<1>c. \A d \in CPUs \ {c}, q \in Slots : lk[q] = d => lk'[q] = d
  BY DEF TypeOK, CandidateInv
<1>1. TypeOK'
  <2>1. state' \in [Slots -> States] /\ ctx' \in [Slots -> Contexts]
    BY <1>a DEF TypeOK, States, Contexts
  <2>2. /\ lk' \in [Slots -> CPUs \cup {NULL}]
        /\ sleep_space' \in [Slots -> Slots \cup {NULL}]
    BY <1>a DEF TypeOK
  <2>3. /\ cpc' \in [CPUs -> CpuLabels]
        /\ proc' \in [CPUs -> Slots \cup {NULL}]
        /\ sidx' \in [CPUs -> 1..(NPROC + 1)]
        /\ UNCHANGED <<parent, pc, idx, have_kids, par, next_p, found, origin>>
    BY <1>a DEF TypeOK, CpuLabels
  <2> HIDE DEF Switch
  <2> QED
    BY <2>1, <2>2, <2>3 DEF TypeOK
<1>2. CandidateInv' /\ RunInv' /\ LeaveInv'
  BY DEF TypeOK, CandidateInv, RunInv, LeaveInv, HeldInv, ExitInv
<1>3. HeldInv'
  <2> SUFFICES ASSUME NEW d \in CPUs, NEW q \in Slots
               PROVE  HeldInv!(d, q)'
    BY DEF HeldInv
  <2>1. CASE d = c
    BY <1>a, <1>b, <2>1 DEF TypeOK, Interruptible
  <2>2. CASE d # c
    <3>1. cpc'[d] = cpc[d] /\ proc'[d] = proc[d]
      BY <2>2 DEF TypeOK
    <3> QED
      BY <1>c, <2>2, <3>1, SMTT(30) DEF TypeOK, HeldInv, ExitInv, CandidateInv
  <2> QED
    BY <2>1, <2>2
<1>4. ResumeInv' /\ ExitInv'
  BY DEF TypeOK, CandidateInv, RunInv, LeaveInv, HeldInv, ResumeInv, ExitInv, FamilyInv, Interruptible, ExitLabels
<1>5. FamilyInv' /\ ParentAlive'
  BY DEF TypeOK, CandidateInv, RunInv, HeldInv, ExitInv, FamilyInv, ParentAlive
<1>6. WaitInv'
  <2>1. pc[next_p[c]] \in {"scan", "child"} => idx[next_p[c]] = 1
    BY <1>a DEF CandidateInv, ResumeInv, Interruptible
  <2> SUFFICES ASSUME NEW d \in CPUs, NEW q \in Slots, NEW r \in Slots
               PROVE  WaitInv!(d, q, r)'
    BY DEF WaitInv
  <2>2. CASE d = c
    BY <1>a, <2>1, <2>2 DEF TypeOK
  <2>3. CASE d # c
    BY <1>a, <2>3 DEF TypeOK, WaitInv
  <2> QED
    BY <2>2, <2>3
<1>7. NoLostExit'
  BY DEF TypeOK, CandidateInv, RunInv, HeldInv, ResumeInv, ExitInv, FamilyInv, WaitInv, NoLostExit, Interruptible
<1> QED
  BY <1>1, <1>2, <1>3, <1>4, <1>5, <1>6, <1>7

\* swtch to the scheduler's context.
LEMMA SchedAway_Step ==
    ASSUME IInv, NEW c \in CPUs, SchedAway(c)
    PROVE  IInv'
<1> USE ProcAssumption DEF IInv, SchedAway, At, Goto, Return, tvars, kvars, svars, Slots, proczero
<1>1. TypeOK'
  BY DEF TypeOK, States, Contexts, Labels, Interruptible, CpuLabels
<1>2. CandidateInv' /\ RunInv' /\ LeaveInv'
  BY DEF TypeOK, CandidateInv, RunInv, LeaveInv, HeldInv, ExitInv
<1>3. HeldInv'
  BY DEF TypeOK, CandidateInv, RunInv, LeaveInv, HeldInv, ResumeInv, ExitInv, FamilyInv
<1>4. ResumeInv' /\ ExitInv'
  BY DEF TypeOK, CandidateInv, RunInv, LeaveInv, HeldInv, ResumeInv, ExitInv, FamilyInv, Interruptible, ExitLabels
<1>5. FamilyInv' /\ ParentAlive'
  BY DEF TypeOK, CandidateInv, RunInv, HeldInv, ExitInv, FamilyInv, ParentAlive
<1>6. WaitInv'
  BY DEF TypeOK, RunInv, HeldInv, ResumeInv, ExitInv, FamilyInv, WaitInv, Interruptible
<1>7. NoLostExit'
  BY DEF TypeOK, CandidateInv, RunInv, HeldInv, ResumeInv, ExitInv, FamilyInv, WaitInv, NoLostExit, Interruptible
<1> QED
  BY <1>1, <1>2, <1>3, <1>4, <1>5, <1>6, <1>7

\* The scheduler's context releases the lock of the process that left.
LEMMA SchedRelease_Step ==
    ASSUME IInv, NEW c \in CPUs, SchedRelease(c)
    PROVE  IInv'
<1> USE ProcAssumption DEF IInv, SchedRelease, At, Goto, Return, tvars, kvars, svars, Slots, proczero
<1>1. TypeOK'
  BY DEF TypeOK, States, Contexts, Labels, Interruptible, CpuLabels
<1>2. CandidateInv' /\ RunInv' /\ LeaveInv'
  BY DEF TypeOK, CandidateInv, RunInv, LeaveInv, HeldInv, ExitInv
<1>3. HeldInv'
  BY DEF TypeOK, CandidateInv, RunInv, LeaveInv, HeldInv, ResumeInv, ExitInv, FamilyInv
<1>4. ResumeInv' /\ ExitInv'
  BY DEF TypeOK, CandidateInv, RunInv, LeaveInv, HeldInv, ResumeInv, ExitInv, FamilyInv, Interruptible, ExitLabels
<1>5. FamilyInv' /\ ParentAlive'
  BY DEF TypeOK, CandidateInv, RunInv, HeldInv, ExitInv, FamilyInv, ParentAlive
<1>6. WaitInv'
  BY DEF TypeOK, RunInv, HeldInv, ResumeInv, ExitInv, FamilyInv, WaitInv, Interruptible
<1>7. NoLostExit'
  BY DEF TypeOK, CandidateInv, RunInv, HeldInv, ResumeInv, ExitInv, FamilyInv, WaitInv, NoLostExit, Interruptible
<1> QED
  BY <1>1, <1>2, <1>3, <1>4, <1>5, <1>6, <1>7

\* mycpu()->proc is cleared.
LEMMA SchedClear_Step ==
    ASSUME IInv, NEW c \in CPUs, SchedClear(c)
    PROVE  IInv'
<1> USE ProcAssumption DEF IInv, SchedClear, At, Goto, Return, tvars, kvars, svars, Slots, proczero
<1>1. TypeOK'
  BY DEF TypeOK, States, Contexts, Labels, Interruptible, CpuLabels
<1>2. CandidateInv' /\ RunInv' /\ LeaveInv'
  BY DEF TypeOK, CandidateInv, RunInv, LeaveInv, HeldInv, ExitInv
<1>3. HeldInv'
  BY DEF TypeOK, CandidateInv, RunInv, LeaveInv, HeldInv, ResumeInv, ExitInv, FamilyInv
<1>4. ResumeInv' /\ ExitInv'
  BY DEF TypeOK, CandidateInv, RunInv, LeaveInv, HeldInv, ResumeInv, ExitInv, FamilyInv, Interruptible, ExitLabels
<1>5. FamilyInv' /\ ParentAlive'
  BY DEF TypeOK, CandidateInv, RunInv, HeldInv, ExitInv, FamilyInv, ParentAlive
<1>6. WaitInv'
  BY DEF TypeOK, RunInv, HeldInv, ResumeInv, ExitInv, FamilyInv, WaitInv, Interruptible
<1>7. NoLostExit'
  BY DEF TypeOK, CandidateInv, RunInv, HeldInv, ResumeInv, ExitInv, FamilyInv, WaitInv, NoLostExit, Interruptible
<1> QED
  BY <1>1, <1>2, <1>3, <1>4, <1>5, <1>6, <1>7

\* A failed assertion of spinlock_acquire stops the processor.
LEMMA PanicReacquire_Step ==
    ASSUME IInv, NEW c \in CPUs, PanicReacquire(c)
    PROVE  IInv'
<1> USE ProcAssumption DEF IInv, PanicReacquire, At, Goto, Return, tvars, kvars, svars, Slots, proczero
<1>1. TypeOK'
  BY DEF TypeOK, States, Contexts, Labels, Interruptible, CpuLabels
<1>2. CandidateInv' /\ RunInv' /\ LeaveInv'
  BY DEF TypeOK, CandidateInv, RunInv, LeaveInv, HeldInv, ExitInv
<1>3. HeldInv'
  BY DEF TypeOK, CandidateInv, RunInv, LeaveInv, HeldInv, ResumeInv, ExitInv, FamilyInv
<1>4. ResumeInv' /\ ExitInv'
  BY DEF TypeOK, CandidateInv, RunInv, LeaveInv, HeldInv, ResumeInv, ExitInv, FamilyInv, Interruptible, ExitLabels
<1>5. FamilyInv' /\ ParentAlive'
  BY DEF TypeOK, CandidateInv, RunInv, HeldInv, ExitInv, FamilyInv, ParentAlive
<1>6. WaitInv'
  BY DEF TypeOK, RunInv, HeldInv, ResumeInv, ExitInv, FamilyInv, WaitInv, Interruptible
<1>7. NoLostExit'
  BY DEF TypeOK, CandidateInv, RunInv, HeldInv, ResumeInv, ExitInv, FamilyInv, WaitInv, NoLostExit, Interruptible
<1> QED
  BY <1>1, <1>2, <1>3, <1>4, <1>5, <1>6, <1>7

\* A scheduler without a candidate stops the processor.
LEMMA PanicNoCandidate_Step ==
    ASSUME IInv, NEW c \in CPUs, PanicNoCandidate(c)
    PROVE  IInv'
<1> USE ProcAssumption DEF IInv, PanicNoCandidate, At, Goto, Return, tvars, kvars, svars, Slots, proczero
<1>1. TypeOK'
  BY DEF TypeOK, States, Contexts, Labels, Interruptible, CpuLabels
<1>2. CandidateInv' /\ RunInv' /\ LeaveInv'
  BY DEF TypeOK, CandidateInv, RunInv, LeaveInv, HeldInv, ExitInv
<1>3. HeldInv'
  BY DEF TypeOK, CandidateInv, RunInv, LeaveInv, HeldInv, ResumeInv, ExitInv, FamilyInv
<1>4. ResumeInv' /\ ExitInv'
  BY DEF TypeOK, CandidateInv, RunInv, LeaveInv, HeldInv, ResumeInv, ExitInv, FamilyInv, Interruptible, ExitLabels
<1>5. FamilyInv' /\ ParentAlive'
  BY DEF TypeOK, CandidateInv, RunInv, HeldInv, ExitInv, FamilyInv, ParentAlive
<1>6. WaitInv'
  BY DEF TypeOK, RunInv, HeldInv, ResumeInv, ExitInv, FamilyInv, WaitInv, Interruptible
<1>7. NoLostExit'
  BY DEF TypeOK, CandidateInv, RunInv, HeldInv, ResumeInv, ExitInv, FamilyInv, WaitInv, NoLostExit, Interruptible
<1> QED
  BY <1>1, <1>2, <1>3, <1>4, <1>5, <1>6, <1>7

\* A preempted process is RUNNABLE under its lock.
LEMMA proc_yield_Step ==
    ASSUME IInv, NEW c \in CPUs, NEW p \in Slots, proc_yield(c, p)
    PROVE  IInv'
<1> USE ProcAssumption DEF IInv, proc_yield, proc_sched, At, Goto, Return, tvars, kvars, svars, Slots, proczero
<1>1. TypeOK'
  BY DEF TypeOK, States, Contexts, Labels, Interruptible, CpuLabels
<1>2. CandidateInv' /\ RunInv' /\ LeaveInv'
  BY DEF TypeOK, CandidateInv, RunInv, LeaveInv, HeldInv, ExitInv
<1>3. HeldInv'
  BY DEF TypeOK, CandidateInv, RunInv, LeaveInv, HeldInv, ResumeInv, ExitInv, FamilyInv
<1>4. ResumeInv' /\ ExitInv'
  BY DEF TypeOK, CandidateInv, RunInv, LeaveInv, HeldInv, ResumeInv, ExitInv, FamilyInv, Interruptible, ExitLabels
<1>5. FamilyInv' /\ ParentAlive'
  BY DEF TypeOK, CandidateInv, RunInv, HeldInv, ExitInv, FamilyInv, ParentAlive
<1>6. WaitInv'
  BY DEF TypeOK, RunInv, HeldInv, ResumeInv, ExitInv, FamilyInv, WaitInv, Interruptible
<1>7. NoLostExit'
  BY DEF TypeOK, CandidateInv, RunInv, HeldInv, ResumeInv, ExitInv, FamilyInv, WaitInv, NoLostExit, Interruptible
<1> QED
  BY <1>1, <1>2, <1>3, <1>4, <1>5, <1>6, <1>7

\* fork starts with the first slot.
LEMMA SysFork_Step ==
    ASSUME IInv, NEW c \in CPUs, NEW p \in Slots, SysFork(c, p)
    PROVE  IInv'
<1> USE ProcAssumption DEF IInv, SysFork, At, Goto, Return, tvars, kvars, svars, Slots, proczero
<1>1. TypeOK'
  BY DEF TypeOK, States, Contexts, Labels, Interruptible, CpuLabels
<1>2. CandidateInv' /\ RunInv' /\ LeaveInv'
  BY DEF TypeOK, CandidateInv, RunInv, LeaveInv, HeldInv, ExitInv
<1>3. HeldInv'
  BY DEF TypeOK, CandidateInv, RunInv, LeaveInv, HeldInv, ResumeInv, ExitInv, FamilyInv
<1>4. ResumeInv' /\ ExitInv'
  BY DEF TypeOK, CandidateInv, RunInv, LeaveInv, HeldInv, ResumeInv, ExitInv, FamilyInv, Interruptible, ExitLabels
<1>5. FamilyInv' /\ ParentAlive'
  BY DEF TypeOK, CandidateInv, RunInv, HeldInv, ExitInv, FamilyInv, ParentAlive
<1>6. WaitInv'
  BY DEF TypeOK, RunInv, HeldInv, ResumeInv, ExitInv, FamilyInv, WaitInv, Interruptible
<1>7. NoLostExit'
  BY DEF TypeOK, CandidateInv, RunInv, HeldInv, ResumeInv, ExitInv, FamilyInv, WaitInv, NoLostExit, Interruptible
<1> QED
  BY <1>1, <1>2, <1>3, <1>4, <1>5, <1>6, <1>7

\* proc_alloc passes a slot in use.
LEMMA AllocSkip_Step ==
    ASSUME IInv, NEW c \in CPUs, NEW p \in Slots, AllocSkip(c, p)
    PROVE  IInv'
<1> USE ProcAssumption DEF IInv, AllocSkip, At, Goto, Return, tvars, kvars, svars, Slots, proczero
<1>a. /\ idx[p] + 1 \in 1..(NPROC + 1)
      /\ idx' = [idx EXCEPT ![p] = idx[p] + 1]
      /\ UNCHANGED <<tvars, lk, ctx, pc, have_kids, par, cpc, svars, origin>>
  BY DEF TypeOK
<1>1. TypeOK'
  <2> HIDE DEF AllocSkip
  <2> QED
    BY <1>a DEF TypeOK, States, Contexts, Labels, Interruptible, CpuLabels
<1>2. CandidateInv' /\ RunInv' /\ LeaveInv'
  BY DEF TypeOK, CandidateInv, RunInv, LeaveInv, HeldInv, ExitInv
<1>3. HeldInv'
  BY DEF TypeOK, CandidateInv, RunInv, LeaveInv, HeldInv, ResumeInv, ExitInv, FamilyInv
<1>4. ResumeInv' /\ ExitInv'
  BY DEF TypeOK, CandidateInv, RunInv, LeaveInv, HeldInv, ResumeInv, ExitInv, FamilyInv, Interruptible, ExitLabels
<1>5. FamilyInv' /\ ParentAlive'
  BY DEF TypeOK, CandidateInv, RunInv, HeldInv, ExitInv, FamilyInv, ParentAlive
<1>6. WaitInv'
  BY DEF TypeOK, RunInv, HeldInv, ResumeInv, ExitInv, FamilyInv, WaitInv, Interruptible
<1>7. NoLostExit'
  BY DEF TypeOK, CandidateInv, RunInv, HeldInv, ResumeInv, ExitInv, FamilyInv, WaitInv, NoLostExit, Interruptible
<1> QED
  BY <1>1, <1>2, <1>3, <1>4, <1>5, <1>6, <1>7

\* proc_alloc keeps the lock of an UNUSED slot.
LEMMA proc_alloc_Step ==
    ASSUME IInv, NEW c \in CPUs, NEW p \in Slots, proc_alloc(c, p)
    PROVE  IInv'
<1> USE ProcAssumption DEF IInv, proc_alloc, At, Goto, Return, tvars, kvars, svars, Slots, proczero
<1>1. TypeOK'
  BY DEF TypeOK, States, Contexts, Labels, Interruptible, CpuLabels
<1>2. CandidateInv' /\ RunInv' /\ LeaveInv'
  BY DEF TypeOK, CandidateInv, RunInv, LeaveInv, HeldInv, ExitInv
<1>3. HeldInv'
  BY SMTT(30) DEF TypeOK, CandidateInv, RunInv, LeaveInv, HeldInv, ResumeInv, ExitInv, FamilyInv
<1>4. ResumeInv' /\ ExitInv'
  BY DEF TypeOK, CandidateInv, RunInv, LeaveInv, HeldInv, ResumeInv, ExitInv, FamilyInv, Interruptible, ExitLabels
<1>5. FamilyInv' /\ ParentAlive'
  BY DEF TypeOK, CandidateInv, RunInv, HeldInv, ExitInv, FamilyInv, ParentAlive
<1>6. WaitInv'
  BY DEF TypeOK, RunInv, HeldInv, ResumeInv, ExitInv, FamilyInv, WaitInv, Interruptible
<1>7. NoLostExit'
  BY DEF TypeOK, CandidateInv, RunInv, HeldInv, ResumeInv, ExitInv, FamilyInv, WaitInv, NoLostExit, Interruptible
<1> QED
  BY <1>1, <1>2, <1>3, <1>4, <1>5, <1>6, <1>7

\* The child becomes RUNNABLE with its parent set, then is unlocked.
LEMMA proc_fork_Step ==
    ASSUME IInv, NEW c \in CPUs, NEW p \in Slots, proc_fork(c, p)
    PROVE  IInv'
<1> USE ProcAssumption DEF IInv, proc_fork, At, Goto, Return, tvars, kvars, svars, Slots, proczero
<1>a. idx[p] \in 1..NPROC
  BY DEF HeldInv
<1>1. TypeOK'
  BY <1>a, SMTT(30) DEF TypeOK, States, Contexts, Labels, Interruptible, CpuLabels
<1>2. CandidateInv' /\ RunInv' /\ LeaveInv'
  BY DEF TypeOK, CandidateInv, RunInv, LeaveInv, HeldInv, ExitInv
<1>3. HeldInv'
  BY SMTT(30) DEF TypeOK, CandidateInv, RunInv, LeaveInv, HeldInv, ResumeInv, ExitInv, FamilyInv
<1>4. ResumeInv' /\ ExitInv'
  BY DEF TypeOK, CandidateInv, RunInv, LeaveInv, HeldInv, ResumeInv, ExitInv, FamilyInv, Interruptible, ExitLabels
<1>5. FamilyInv' /\ ParentAlive'
  BY DEF TypeOK, CandidateInv, RunInv, HeldInv, ExitInv, FamilyInv, ParentAlive
<1>6. WaitInv'
  BY DEF TypeOK, RunInv, HeldInv, ResumeInv, ExitInv, FamilyInv, WaitInv, Interruptible
<1>7. NoLostExit'
  BY DEF TypeOK, CandidateInv, RunInv, HeldInv, ResumeInv, ExitInv, FamilyInv, WaitInv, NoLostExit, Interruptible
<1> QED
  BY <1>1, <1>2, <1>3, <1>4, <1>5, <1>6, <1>7

\* wait is called.
LEMMA SysWait_Step ==
    ASSUME IInv, NEW c \in CPUs, NEW p \in Slots, SysWait(c, p)
    PROVE  IInv'
<1> USE ProcAssumption DEF IInv, SysWait, At, Goto, Return, tvars, kvars, svars, Slots, proczero
<1>1. TypeOK'
  BY DEF TypeOK, States, Contexts, Labels, Interruptible, CpuLabels
<1>2. CandidateInv' /\ RunInv' /\ LeaveInv'
  BY DEF TypeOK, CandidateInv, RunInv, LeaveInv, HeldInv, ExitInv
<1>3. HeldInv'
  BY DEF TypeOK, CandidateInv, RunInv, LeaveInv, HeldInv, ResumeInv, ExitInv, FamilyInv
<1>4. ResumeInv' /\ ExitInv'
  BY DEF TypeOK, CandidateInv, RunInv, LeaveInv, HeldInv, ResumeInv, ExitInv, FamilyInv, Interruptible, ExitLabels
<1>5. FamilyInv' /\ ParentAlive'
  BY DEF TypeOK, CandidateInv, RunInv, HeldInv, ExitInv, FamilyInv, ParentAlive
<1>6. WaitInv'
  BY DEF TypeOK, RunInv, HeldInv, ResumeInv, ExitInv, FamilyInv, WaitInv, Interruptible
<1>7. NoLostExit'
  BY DEF TypeOK, CandidateInv, RunInv, HeldInv, ResumeInv, ExitInv, FamilyInv, WaitInv, NoLostExit, Interruptible
<1> QED
  BY <1>1, <1>2, <1>3, <1>4, <1>5, <1>6, <1>7

\* proc_wait takes the caller's lock.
LEMMA WaitLock_Step ==
    ASSUME IInv, NEW c \in CPUs, NEW p \in Slots, WaitLock(c, p)
    PROVE  IInv'
<1> USE ProcAssumption DEF IInv, WaitLock, At, Goto, Return, tvars, kvars, svars, Slots, proczero
<1>a. idx[p] = 1
  BY DEF ResumeInv, Interruptible
<1>1. TypeOK'
  BY DEF TypeOK, States, Contexts, Labels, Interruptible, CpuLabels
<1>2. CandidateInv' /\ RunInv' /\ LeaveInv'
  BY DEF TypeOK, CandidateInv, RunInv, LeaveInv, HeldInv, ExitInv
<1>3. HeldInv'
  BY DEF TypeOK, CandidateInv, RunInv, LeaveInv, HeldInv, ResumeInv, ExitInv, FamilyInv
<1>4. ResumeInv' /\ ExitInv'
  BY DEF TypeOK, CandidateInv, RunInv, LeaveInv, HeldInv, ResumeInv, ExitInv, FamilyInv, Interruptible, ExitLabels
<1>5. FamilyInv' /\ ParentAlive'
  BY DEF TypeOK, CandidateInv, RunInv, HeldInv, ExitInv, FamilyInv, ParentAlive
<1>6. WaitInv'
  BY <1>a DEF TypeOK, WaitInv
<1>7. NoLostExit'
  BY DEF TypeOK, CandidateInv, RunInv, HeldInv, ResumeInv, ExitInv, FamilyInv, WaitInv, NoLostExit, Interruptible
<1> QED
  BY <1>1, <1>2, <1>3, <1>4, <1>5, <1>6, <1>7

\* proc_wait passes a slot that is not a child.
LEMMA WaitNotKid_Step ==
    ASSUME IInv, NEW c \in CPUs, NEW p \in Slots, WaitNotKid(c, p)
    PROVE  IInv'
<1> USE ProcAssumption DEF IInv, WaitNotKid, At, Goto, Return, tvars, kvars, svars, Slots, proczero
<1>a. /\ idx[p] + 1 \in 1..(NPROC + 1)
      /\ idx' = [idx EXCEPT ![p] = idx[p] + 1]
      /\ UNCHANGED <<tvars, lk, ctx, pc, have_kids, par, cpc, svars, origin>>
  BY DEF TypeOK
<1>b. state[p] = "RUNNING" /\ pc[p] = "scan"
  BY DEF RunInv
<1>1. TypeOK'
  <2> HIDE DEF WaitNotKid
  <2> QED
    BY <1>a DEF TypeOK, States, Contexts, Labels, Interruptible, CpuLabels
<1>2. CandidateInv' /\ RunInv' /\ LeaveInv'
  BY DEF TypeOK, CandidateInv, RunInv, LeaveInv, HeldInv, ExitInv
<1>3. HeldInv'
  BY SMTT(30) DEF TypeOK, CandidateInv, RunInv, LeaveInv, HeldInv, ResumeInv, ExitInv, FamilyInv
<1>4. ResumeInv' /\ ExitInv'
  <2>1. ASSUME NEW q \in Slots \ {p}
        PROVE  ResumeInv!(q)'
    BY <1>a DEF TypeOK, ResumeInv
  <2>2. ctx[p] # "sleep"
    BY <1>b DEF ResumeInv
  <2>3. ResumeInv!(p)'
    BY <1>a, <1>b, <2>2 DEF TypeOK, ResumeInv, Interruptible
  <2>4. ResumeInv'
    BY <2>1, <2>3 DEF ResumeInv
  <2>5. ExitInv'
    BY <1>a DEF TypeOK, ExitInv, ExitLabels
  <2> QED
    BY <2>4, <2>5
<1>5. FamilyInv' /\ ParentAlive'
  BY DEF TypeOK, CandidateInv, RunInv, HeldInv, ExitInv, FamilyInv, ParentAlive
<1>6. WaitInv'
  BY DEF TypeOK, RunInv, HeldInv, ResumeInv, ExitInv, FamilyInv, WaitInv, Interruptible
<1>7. NoLostExit'
  BY DEF TypeOK, CandidateInv, RunInv, HeldInv, ResumeInv, ExitInv, FamilyInv, WaitInv, NoLostExit, Interruptible
<1> QED
  BY <1>1, <1>2, <1>3, <1>4, <1>5, <1>6, <1>7

\* proc_wait finds a child.
LEMMA WaitKid_Step ==
    ASSUME IInv, NEW c \in CPUs, NEW p \in Slots, WaitKid(c, p)
    PROVE  IInv'
<1> USE ProcAssumption DEF IInv, WaitKid, At, Goto, Return, tvars, kvars, svars, Slots, proczero
<1>1. TypeOK'
  BY DEF TypeOK, States, Contexts, Labels, Interruptible, CpuLabels
<1>2. CandidateInv' /\ RunInv' /\ LeaveInv'
  BY DEF TypeOK, CandidateInv, RunInv, LeaveInv, HeldInv, ExitInv
<1>3. HeldInv'
  BY DEF TypeOK, CandidateInv, RunInv, LeaveInv, HeldInv, ResumeInv, ExitInv, FamilyInv
<1>4. ResumeInv' /\ ExitInv'
  BY DEF TypeOK, CandidateInv, RunInv, LeaveInv, HeldInv, ResumeInv, ExitInv, FamilyInv, Interruptible, ExitLabels
<1>5. FamilyInv' /\ ParentAlive'
  BY DEF TypeOK, CandidateInv, RunInv, HeldInv, ExitInv, FamilyInv, ParentAlive
<1>6. WaitInv'
  BY DEF TypeOK, RunInv, HeldInv, ResumeInv, ExitInv, FamilyInv, WaitInv, Interruptible
<1>7. NoLostExit'
  BY DEF TypeOK, CandidateInv, RunInv, HeldInv, ResumeInv, ExitInv, FamilyInv, WaitInv, NoLostExit, Interruptible
<1> QED
  BY <1>1, <1>2, <1>3, <1>4, <1>5, <1>6, <1>7

\* The child is no zombie; it cannot become one while the caller holds its lock.
LEMMA WaitSkip_Step ==
    ASSUME IInv, NEW c \in CPUs, NEW p \in Slots, WaitSkip(c, p)
    PROVE  IInv'
<1> USE ProcAssumption DEF IInv, WaitSkip, At, Goto, Return, tvars, kvars, svars, Slots, proczero
<1>a. idx[p] \in 1..NPROC
  BY DEF HeldInv
<1>1. TypeOK'
  BY <1>a, SMTT(30) DEF TypeOK, States, Contexts, Labels, Interruptible, CpuLabels
<1>2. CandidateInv' /\ RunInv' /\ LeaveInv'
  BY DEF TypeOK, CandidateInv, RunInv, LeaveInv, HeldInv, ExitInv
<1>3. HeldInv'
  BY DEF TypeOK, CandidateInv, RunInv, LeaveInv, HeldInv, ResumeInv, ExitInv, FamilyInv
<1>4. ResumeInv' /\ ExitInv'
  BY DEF TypeOK, CandidateInv, RunInv, LeaveInv, HeldInv, ResumeInv, ExitInv, FamilyInv, Interruptible, ExitLabels
<1>5. FamilyInv' /\ ParentAlive'
  BY DEF TypeOK, CandidateInv, RunInv, HeldInv, ExitInv, FamilyInv, ParentAlive
<1>6. WaitInv'
  BY SMTT(30) DEF TypeOK, RunInv, HeldInv, ResumeInv, ExitInv, FamilyInv, WaitInv, Interruptible
<1>7. NoLostExit'
  BY DEF TypeOK, CandidateInv, RunInv, HeldInv, ResumeInv, ExitInv, FamilyInv, WaitInv, NoLostExit, Interruptible
<1> QED
  BY <1>1, <1>2, <1>3, <1>4, <1>5, <1>6, <1>7

\* The zombie is freed; nobody is its child.
LEMMA WaitReap_Step ==
    ASSUME IInv, NEW c \in CPUs, NEW p \in Slots, WaitReap(c, p)
    PROVE  IInv'
<1> USE ProcAssumption DEF IInv, WaitReap, At, Goto, Return, tvars, kvars, svars, Slots, proczero
<1>a. idx[p] \in 1..NPROC
  BY DEF HeldInv
<1>1. TypeOK'
  BY <1>a, SMTT(30) DEF TypeOK, States, Contexts, Labels, Interruptible, CpuLabels
<1>2. CandidateInv' /\ RunInv' /\ LeaveInv'
  BY DEF TypeOK, CandidateInv, RunInv, LeaveInv, HeldInv, ExitInv
<1>3. HeldInv'
  BY SMTT(30) DEF TypeOK, CandidateInv, RunInv, LeaveInv, HeldInv, ResumeInv, ExitInv, FamilyInv
<1>4. ResumeInv' /\ ExitInv'
  BY SMTT(30) DEF TypeOK, CandidateInv, RunInv, LeaveInv, HeldInv, ResumeInv, ExitInv, FamilyInv, Interruptible, ExitLabels
<1>5. FamilyInv' /\ ParentAlive'
  BY DEF TypeOK, CandidateInv, RunInv, HeldInv, ExitInv, FamilyInv, ParentAlive
<1>6. WaitInv'
  BY DEF TypeOK, RunInv, HeldInv, ResumeInv, ExitInv, FamilyInv, WaitInv, Interruptible
<1>7. NoLostExit'
  BY DEF TypeOK, CandidateInv, RunInv, HeldInv, ResumeInv, ExitInv, FamilyInv, WaitInv, NoLostExit, Interruptible
<1> QED
  BY <1>1, <1>2, <1>3, <1>4, <1>5, <1>6, <1>7

\* The processor stops in proc_free, with the slot cleared and locked.
LEMMA PanicReap_Step ==
    ASSUME IInv, NEW c \in CPUs, NEW p \in Slots, PanicReap(c, p)
    PROVE  IInv'
<1> USE ProcAssumption DEF IInv, PanicReap, At, Goto, Return, tvars, kvars, svars, Slots, proczero
<1>a. idx[p] \in 1..NPROC
  BY DEF HeldInv
<1>1. TypeOK'
  BY <1>a, SMTT(30) DEF TypeOK, States, Contexts, Labels, Interruptible, CpuLabels
<1>2. CandidateInv' /\ RunInv' /\ LeaveInv'
  BY DEF TypeOK, CandidateInv, RunInv, LeaveInv, HeldInv, ExitInv
<1>3. HeldInv'
  BY SMTT(30) DEF TypeOK, CandidateInv, RunInv, LeaveInv, HeldInv, ResumeInv, ExitInv, FamilyInv
<1>4. ResumeInv' /\ ExitInv'
  BY SMTT(30) DEF TypeOK, CandidateInv, RunInv, LeaveInv, HeldInv, ResumeInv, ExitInv, FamilyInv, Interruptible, ExitLabels
<1>5. FamilyInv' /\ ParentAlive'
  BY DEF TypeOK, CandidateInv, RunInv, HeldInv, ExitInv, FamilyInv, ParentAlive
<1>6. WaitInv'
  BY DEF TypeOK, RunInv, HeldInv, ResumeInv, ExitInv, FamilyInv, WaitInv, Interruptible
<1>7. NoLostExit'
  BY DEF TypeOK, CandidateInv, RunInv, HeldInv, ResumeInv, ExitInv, FamilyInv, WaitInv, NoLostExit, Interruptible
<1> QED
  BY <1>1, <1>2, <1>3, <1>4, <1>5, <1>6, <1>7

\* proc_wait returns -1.
LEMMA WaitNoKids_Step ==
    ASSUME IInv, NEW c \in CPUs, NEW p \in Slots, WaitNoKids(c, p)
    PROVE  IInv'
<1> USE ProcAssumption DEF IInv, WaitNoKids, At, Goto, Return, tvars, kvars, svars, Slots, proczero
<1>1. TypeOK'
  BY DEF TypeOK, States, Contexts, Labels, Interruptible, CpuLabels
<1>2. CandidateInv' /\ RunInv' /\ LeaveInv'
  BY DEF TypeOK, CandidateInv, RunInv, LeaveInv, HeldInv, ExitInv
<1>3. HeldInv'
  BY DEF TypeOK, CandidateInv, RunInv, LeaveInv, HeldInv, ResumeInv, ExitInv, FamilyInv
<1>4. ResumeInv' /\ ExitInv'
  BY DEF TypeOK, CandidateInv, RunInv, LeaveInv, HeldInv, ResumeInv, ExitInv, FamilyInv, Interruptible, ExitLabels
<1>5. FamilyInv' /\ ParentAlive'
  BY DEF TypeOK, CandidateInv, RunInv, HeldInv, ExitInv, FamilyInv, ParentAlive
<1>6. WaitInv'
  BY DEF TypeOK, RunInv, HeldInv, ResumeInv, ExitInv, FamilyInv, WaitInv, Interruptible
<1>7. NoLostExit'
  BY DEF TypeOK, CandidateInv, RunInv, HeldInv, ResumeInv, ExitInv, FamilyInv, WaitInv, NoLostExit, Interruptible
<1> QED
  BY <1>1, <1>2, <1>3, <1>4, <1>5, <1>6, <1>7

\* The caller sleeps having passed every slot.
LEMMA WaitSleep_Step ==
    ASSUME IInv, NEW c \in CPUs, NEW p \in Slots, WaitSleep(c, p)
    PROVE  IInv'
<1> USE ProcAssumption DEF IInv, WaitSleep, proc_sched, At, Goto, Return, tvars, kvars, svars, Slots, proczero
<1>1. TypeOK'
  BY DEF TypeOK, States, Contexts, Labels, Interruptible, CpuLabels
<1>2. CandidateInv' /\ RunInv' /\ LeaveInv'
  BY DEF TypeOK, CandidateInv, RunInv, LeaveInv, HeldInv, ExitInv
<1>3. HeldInv'
  BY DEF TypeOK, CandidateInv, RunInv, LeaveInv, HeldInv, ResumeInv, ExitInv, FamilyInv
<1>4. ResumeInv' /\ ExitInv'
  BY DEF TypeOK, CandidateInv, RunInv, LeaveInv, HeldInv, ResumeInv, ExitInv, FamilyInv, Interruptible, ExitLabels
<1>5. FamilyInv' /\ ParentAlive'
  BY DEF TypeOK, CandidateInv, RunInv, HeldInv, ExitInv, FamilyInv, ParentAlive
<1>6. WaitInv'
  BY DEF TypeOK, RunInv, HeldInv, ResumeInv, ExitInv, FamilyInv, WaitInv, Interruptible
<1>7. NoLostExit'
  BY DEF TypeOK, CandidateInv, RunInv, HeldInv, ResumeInv, ExitInv, FamilyInv, WaitInv, NoLostExit, Interruptible
<1> QED
  BY <1>1, <1>2, <1>3, <1>4, <1>5, <1>6, <1>7

\* exit is called.
LEMMA SysExit_Step ==
    ASSUME IInv, NEW c \in CPUs, NEW p \in Slots, SysExit(c, p)
    PROVE  IInv'
<1> USE ProcAssumption DEF IInv, SysExit, At, Goto, Return, tvars, kvars, svars, Slots, proczero
<1>1. TypeOK'
  BY DEF TypeOK, States, Contexts, Labels, Interruptible, CpuLabels
<1>2. CandidateInv' /\ RunInv' /\ LeaveInv'
  BY DEF TypeOK, CandidateInv, RunInv, LeaveInv, HeldInv, ExitInv
<1>3. HeldInv'
  BY DEF TypeOK, CandidateInv, RunInv, LeaveInv, HeldInv, ResumeInv, ExitInv, FamilyInv
<1>4. ResumeInv' /\ ExitInv'
  BY DEF TypeOK, CandidateInv, RunInv, LeaveInv, HeldInv, ResumeInv, ExitInv, FamilyInv, Interruptible, ExitLabels
<1>5. FamilyInv' /\ ParentAlive'
  BY DEF TypeOK, CandidateInv, RunInv, HeldInv, ExitInv, FamilyInv, ParentAlive
<1>6. WaitInv'
  BY DEF TypeOK, RunInv, HeldInv, ResumeInv, ExitInv, FamilyInv, WaitInv, Interruptible
<1>7. NoLostExit'
  BY DEF TypeOK, CandidateInv, RunInv, HeldInv, ResumeInv, ExitInv, FamilyInv, WaitInv, NoLostExit, Interruptible
<1> QED
  BY <1>1, <1>2, <1>3, <1>4, <1>5, <1>6, <1>7

\* proc_exit wakes proczero.
LEMMA ExitWakeZero_Step ==
    ASSUME IInv, NEW c \in CPUs, NEW p \in Slots, ExitWakeZero(c, p)
    PROVE  IInv'
<1> USE ProcAssumption DEF IInv, ExitWakeZero, proc_wakeup_one, At, Goto, Return, tvars, kvars, svars, Slots, proczero
<1>1. TypeOK'
  BY DEF TypeOK, States, Contexts, Labels, Interruptible, CpuLabels
<1>2. CandidateInv' /\ RunInv' /\ LeaveInv'
  BY DEF TypeOK, CandidateInv, RunInv, LeaveInv, HeldInv, ExitInv
<1>3. HeldInv'
  BY DEF TypeOK, CandidateInv, RunInv, LeaveInv, HeldInv, ResumeInv, ExitInv, FamilyInv
<1>4. ResumeInv' /\ ExitInv'
  BY DEF TypeOK, CandidateInv, RunInv, LeaveInv, HeldInv, ResumeInv, ExitInv, FamilyInv, Interruptible, ExitLabels
<1>5. FamilyInv' /\ ParentAlive'
  BY DEF TypeOK, CandidateInv, RunInv, HeldInv, ExitInv, FamilyInv, ParentAlive
<1>6. WaitInv'
  BY DEF TypeOK, RunInv, HeldInv, ResumeInv, ExitInv, FamilyInv, WaitInv, Interruptible
<1>7. NoLostExit'
  BY DEF TypeOK, CandidateInv, RunInv, HeldInv, ResumeInv, ExitInv, FamilyInv, WaitInv, NoLostExit, Interruptible
<1> QED
  BY <1>1, <1>2, <1>3, <1>4, <1>5, <1>6, <1>7

\* proc_exit reads the parent.
LEMMA ExitGetParent_Step ==
    ASSUME IInv, NEW c \in CPUs, NEW p \in Slots, ExitGetParent(c, p)
    PROVE  IInv'
<1> USE ProcAssumption DEF IInv, ExitGetParent, At, Goto, Return, tvars, kvars, svars, Slots, proczero
<1>1. TypeOK'
  BY DEF TypeOK, States, Contexts, Labels, Interruptible, CpuLabels
<1>2. CandidateInv' /\ RunInv' /\ LeaveInv'
  BY DEF TypeOK, CandidateInv, RunInv, LeaveInv, HeldInv, ExitInv
<1>3. HeldInv'
  BY DEF TypeOK, CandidateInv, RunInv, LeaveInv, HeldInv, ResumeInv, ExitInv, FamilyInv
<1>4. ResumeInv' /\ ExitInv'
  BY DEF TypeOK, CandidateInv, RunInv, LeaveInv, HeldInv, ResumeInv, ExitInv, FamilyInv, Interruptible, ExitLabels
<1>5. FamilyInv' /\ ParentAlive'
  BY DEF TypeOK, CandidateInv, RunInv, HeldInv, ExitInv, FamilyInv, ParentAlive
<1>6. WaitInv'
  BY DEF TypeOK, RunInv, HeldInv, ResumeInv, ExitInv, FamilyInv, WaitInv, Interruptible
<1>7. NoLostExit'
  BY DEF TypeOK, CandidateInv, RunInv, HeldInv, ResumeInv, ExitInv, FamilyInv, WaitInv, NoLostExit, Interruptible
<1> QED
  BY <1>1, <1>2, <1>3, <1>4, <1>5, <1>6, <1>7

\* proc_exit locks what it read as the parent.
LEMMA ExitLockParent_Step ==
    ASSUME IInv, NEW c \in CPUs, NEW p \in Slots, ExitLockParent(c, p)
    PROVE  IInv'
<1> USE ProcAssumption DEF IInv, ExitLockParent, At, Goto, Return, tvars, kvars, svars, Slots, proczero
<1>1. TypeOK'
  BY DEF TypeOK, States, Contexts, Labels, Interruptible, CpuLabels
<1>2. CandidateInv' /\ RunInv' /\ LeaveInv'
  BY DEF TypeOK, CandidateInv, RunInv, LeaveInv, HeldInv, ExitInv
<1>3. HeldInv'
  BY SMTT(30) DEF TypeOK, CandidateInv, RunInv, LeaveInv, HeldInv, ResumeInv, ExitInv, FamilyInv
<1>4. ResumeInv' /\ ExitInv'
  BY DEF TypeOK, CandidateInv, RunInv, LeaveInv, HeldInv, ResumeInv, ExitInv, FamilyInv, Interruptible, ExitLabels
<1>5. FamilyInv' /\ ParentAlive'
  BY DEF TypeOK, CandidateInv, RunInv, HeldInv, ExitInv, FamilyInv, ParentAlive
<1>6. WaitInv'
  BY DEF TypeOK, RunInv, HeldInv, ResumeInv, ExitInv, FamilyInv, WaitInv, Interruptible
<1>7. NoLostExit'
  BY DEF TypeOK, CandidateInv, RunInv, HeldInv, ResumeInv, ExitInv, FamilyInv, WaitInv, NoLostExit, Interruptible
<1> QED
  BY <1>1, <1>2, <1>3, <1>4, <1>5, <1>6, <1>7

\* proc_exit locks the exiting process.
LEMMA ExitLockSelf_Step ==
    ASSUME IInv, NEW c \in CPUs, NEW p \in Slots, ExitLockSelf(c, p)
    PROVE  IInv'
<1> USE ProcAssumption DEF IInv, ExitLockSelf, At, Goto, Return, tvars, kvars, svars, Slots, proczero
<1>1. TypeOK'
  BY DEF TypeOK, States, Contexts, Labels, Interruptible, CpuLabels
<1>2. CandidateInv' /\ RunInv' /\ LeaveInv'
  BY DEF TypeOK, CandidateInv, RunInv, LeaveInv, HeldInv, ExitInv
<1>3. HeldInv'
  BY DEF TypeOK, CandidateInv, RunInv, LeaveInv, HeldInv, ResumeInv, ExitInv, FamilyInv
<1>4. ResumeInv' /\ ExitInv'
  BY DEF TypeOK, CandidateInv, RunInv, LeaveInv, HeldInv, ResumeInv, ExitInv, FamilyInv, Interruptible, ExitLabels
<1>5. FamilyInv' /\ ParentAlive'
  BY DEF TypeOK, CandidateInv, RunInv, HeldInv, ExitInv, FamilyInv, ParentAlive
<1>6. WaitInv'
  BY DEF TypeOK, RunInv, HeldInv, ResumeInv, ExitInv, FamilyInv, WaitInv, Interruptible
<1>7. NoLostExit'
  BY DEF TypeOK, CandidateInv, RunInv, HeldInv, ResumeInv, ExitInv, FamilyInv, WaitInv, NoLostExit, Interruptible
<1> QED
  BY <1>1, <1>2, <1>3, <1>4, <1>5, <1>6, <1>7

\* proc_reparent passes a slot that is not a child.
LEMMA ReparentNotKid_Step ==
    ASSUME IInv, NEW c \in CPUs, NEW p \in Slots, ReparentNotKid(c, p)
    PROVE  IInv'
<1> USE ProcAssumption DEF IInv, ReparentNotKid, At, Goto, Return, tvars, kvars, svars, Slots, proczero
<1>a. /\ idx[p] + 1 \in 1..(NPROC + 1)
      /\ idx' = [idx EXCEPT ![p] = idx[p] + 1]
      /\ UNCHANGED <<tvars, lk, ctx, pc, have_kids, par, cpc, svars, origin>>
  BY DEF TypeOK
<1>b. state[p] = "RUNNING" /\ pc[p] = "reparent"
  BY DEF RunInv
<1>1. TypeOK'
  <2> HIDE DEF ReparentNotKid
  <2> QED
    BY <1>a DEF TypeOK, States, Contexts, Labels, Interruptible, CpuLabels
<1>2. CandidateInv' /\ RunInv' /\ LeaveInv'
  BY DEF TypeOK, CandidateInv, RunInv, LeaveInv, HeldInv, ExitInv
<1>3. HeldInv'
  BY SMTT(30) DEF TypeOK, CandidateInv, RunInv, LeaveInv, HeldInv, ResumeInv, ExitInv, FamilyInv
<1>4. ResumeInv' /\ ExitInv'
  <2>1. ASSUME NEW q \in Slots \ {p}
        PROVE  ResumeInv!(q)'
    BY <1>a DEF TypeOK, ResumeInv
  <2>2. ctx[p] # "sleep"
    BY <1>b DEF ResumeInv
  <2>3. ResumeInv!(p)'
    BY <1>a, <1>b, <2>2 DEF TypeOK, ResumeInv, Interruptible
  <2>4. ResumeInv'
    BY <2>1, <2>3 DEF ResumeInv
  <2>5. ExitInv'
    BY <1>a DEF TypeOK, ExitInv, ExitLabels
  <2> QED
    BY <2>4, <2>5
<1>5. FamilyInv' /\ ParentAlive'
  BY DEF TypeOK, CandidateInv, RunInv, HeldInv, ExitInv, FamilyInv, ParentAlive
<1>6. WaitInv'
  BY SMTT(30) DEF TypeOK, RunInv, HeldInv, ResumeInv, ExitInv, FamilyInv, WaitInv, Interruptible
<1>7. NoLostExit'
  BY DEF TypeOK, CandidateInv, RunInv, HeldInv, ResumeInv, ExitInv, FamilyInv, WaitInv, NoLostExit, Interruptible
<1> QED
  BY <1>1, <1>2, <1>3, <1>4, <1>5, <1>6, <1>7

\* proc_reparent finds a child.
LEMMA ReparentKid_Step ==
    ASSUME IInv, NEW c \in CPUs, NEW p \in Slots, ReparentKid(c, p)
    PROVE  IInv'
<1> USE ProcAssumption DEF IInv, ReparentKid, At, Goto, Return, tvars, kvars, svars, Slots, proczero
<1>1. TypeOK'
  BY DEF TypeOK, States, Contexts, Labels, Interruptible, CpuLabels
<1>2. CandidateInv' /\ RunInv' /\ LeaveInv'
  BY DEF TypeOK, CandidateInv, RunInv, LeaveInv, HeldInv, ExitInv
<1>3. HeldInv'
  BY SMTT(30) DEF TypeOK, CandidateInv, RunInv, LeaveInv, HeldInv, ResumeInv, ExitInv, FamilyInv
<1>4. ResumeInv' /\ ExitInv'
  BY SMTT(30) DEF TypeOK, CandidateInv, RunInv, LeaveInv, HeldInv, ResumeInv, ExitInv, FamilyInv, Interruptible, ExitLabels
<1>5. FamilyInv' /\ ParentAlive'
  BY DEF TypeOK, CandidateInv, RunInv, HeldInv, ExitInv, FamilyInv, ParentAlive
<1>6. WaitInv'
  BY DEF TypeOK, RunInv, HeldInv, ResumeInv, ExitInv, FamilyInv, WaitInv, Interruptible
<1>7. NoLostExit'
  BY DEF TypeOK, CandidateInv, RunInv, HeldInv, ResumeInv, ExitInv, FamilyInv, WaitInv, NoLostExit, Interruptible
<1> QED
  BY <1>1, <1>2, <1>3, <1>4, <1>5, <1>6, <1>7

\* The child is handed to proczero.
LEMMA ReparentAdopt_Step ==
    ASSUME IInv, NEW c \in CPUs, NEW p \in Slots, ReparentAdopt(c, p)
    PROVE  IInv'
<1> USE ProcAssumption DEF IInv, ReparentAdopt, At, Goto, Return, tvars, kvars, svars, Slots, proczero
<1>a. idx[p] \in 1..NPROC
  BY DEF HeldInv
<1>1. TypeOK'
  BY <1>a, SMTT(30) DEF TypeOK, States, Contexts, Labels, Interruptible, CpuLabels
<1>2. CandidateInv' /\ RunInv' /\ LeaveInv'
  BY DEF TypeOK, CandidateInv, RunInv, LeaveInv, HeldInv, ExitInv
<1>3. HeldInv'
  BY SMTT(30) DEF TypeOK, CandidateInv, RunInv, LeaveInv, HeldInv, ResumeInv, ExitInv, FamilyInv
<1>4. ResumeInv' /\ ExitInv'
  <2>1. state[p] = "RUNNING" /\ ctx[p] # "sleep"
    BY DEF RunInv, ResumeInv
  <2>2. ASSUME NEW q \in Slots \ {p}
        PROVE  ResumeInv!(q)'
    BY DEF TypeOK, ResumeInv
  <2>3. ResumeInv!(p)'
    BY <2>1 DEF TypeOK, Interruptible
  <2>4. ResumeInv'
    BY <2>2, <2>3 DEF ResumeInv
  <2>5. ASSUME NEW q \in Slots \ {p}
        PROVE  ExitInv!(q)'
    BY <1>a, <2>5 DEF TypeOK, HeldInv, ExitInv, ExitLabels, FamilyInv
  <2>6. ExitInv!(p)'
    BY <1>a DEF TypeOK, HeldInv, ExitInv, ExitLabels
  <2>7. ExitInv'
    BY <2>5, <2>6 DEF ExitInv
  <2> QED
    BY <2>4, <2>7
<1>5. FamilyInv' /\ ParentAlive'
  BY SMTT(30) DEF TypeOK, CandidateInv, RunInv, HeldInv, ExitInv, FamilyInv, ParentAlive
<1>6. WaitInv'
  BY DEF TypeOK, RunInv, HeldInv, ResumeInv, ExitInv, FamilyInv, WaitInv, Interruptible
<1>7. NoLostExit'
  BY DEF TypeOK, CandidateInv, RunInv, HeldInv, ResumeInv, ExitInv, FamilyInv, WaitInv, NoLostExit, Interruptible
<1> QED
  BY <1>1, <1>2, <1>3, <1>4, <1>5, <1>6, <1>7

\* The exiting process is a zombie under its lock, its parent is awake.
LEMMA proc_exit_Step ==
    ASSUME IInv, NEW c \in CPUs, NEW p \in Slots, proc_exit(c, p)
    PROVE  IInv'
<1> USE ProcAssumption DEF IInv, proc_exit, proc_sched, proc_wakeup_one, At, Goto, Return, tvars, kvars, svars, Slots, proczero
<1>a. par[p] \in Slots /\ par[p] # p
  BY DEF ExitInv
<1>1. TypeOK'
  <2>1. state' \in [Slots -> States]
    BY DEF TypeOK, States
  <2>2. /\ lk' \in [Slots -> CPUs \cup {NULL}]
        /\ ctx' \in [Slots -> Contexts]
        /\ cpc' \in [CPUs -> CpuLabels]
    BY DEF TypeOK, Contexts, CpuLabels
  <2>3. /\ pc' \in [Slots -> Labels]
        /\ idx' \in [Slots -> 1..(NPROC + 1)]
        /\ have_kids' \in [Slots -> BOOLEAN]
        /\ par' \in [Slots -> Slots \cup {NULL}]
        /\ origin' \in [CPUs -> BOOLEAN]
        /\ UNCHANGED <<parent, sleep_space, proc, next_p, sidx, found>>
    BY DEF TypeOK, Labels, Interruptible
  <2> HIDE DEF proc_exit, proc_sched, Return, Goto
  <2> QED
    BY <2>1, <2>2, <2>3 DEF TypeOK
<1>2. CandidateInv' /\ RunInv' /\ LeaveInv'
  BY SMTT(30) DEF TypeOK, CandidateInv, RunInv, LeaveInv, HeldInv, ExitInv
<1>3. HeldInv'
  BY SMTT(30) DEF TypeOK, RunInv, HeldInv, ExitInv
<1>4. ResumeInv' /\ ExitInv'
  BY DEF TypeOK, CandidateInv, RunInv, LeaveInv, HeldInv, ResumeInv, ExitInv, FamilyInv, Interruptible, ExitLabels
<1>5. FamilyInv' /\ ParentAlive'
  BY DEF TypeOK, CandidateInv, RunInv, HeldInv, ExitInv, FamilyInv, ParentAlive
<1>6. WaitInv'
  <2> HIDE DEF IInv, proc_exit, proc_sched, proc_wakeup_one, At, Goto, Return
  <2> SUFFICES ASSUME NEW d \in CPUs, NEW r \in Slots, NEW q \in Slots,
                      At(d, r, "scan")' \/ At(d, r, "child")',
                      r # proczero, q < idx'[r], parent'[q] = r
               PROVE  state'[q] # "ZOMBIE"
    BY DEF WaitInv
  <2> USE DEF IInv, proc_exit, proc_sched, proc_wakeup_one, At, Goto, Return
  <2>1. /\ d # c /\ r # p
        /\ idx'[r] = idx[r] /\ parent[q] = r
        /\ At(d, r, "scan") \/ At(d, r, "child")
    BY DEF TypeOK
  <2>2. lk[r] = d
    BY <2>1 DEF HeldInv
  <2>3. q # p
    BY <2>1, <2>2 DEF HeldInv, ExitInv
  <2>4. state[q] # "ZOMBIE"
    BY <2>1 DEF WaitInv
  <2> QED
    BY <2>3, <2>4, <1>a DEF TypeOK
<1>7. NoLostExit'
  BY DEF TypeOK, CandidateInv, RunInv, HeldInv, ResumeInv, ExitInv, FamilyInv, WaitInv, NoLostExit, Interruptible
<1> QED
  BY <1>1, <1>2, <1>3, <1>4, <1>5, <1>6, <1>7

\* A failed assertion of proc_alloc or proc_exit stops the processor.
LEMMA PanicProc_Step ==
    ASSUME IInv, NEW c \in CPUs, NEW p \in Slots, PanicProc(c, p)
    PROVE  IInv'
<1> USE ProcAssumption DEF IInv, PanicProc, At, Goto, Return, tvars, kvars, svars, Slots, proczero
<1>1. TypeOK'
  BY DEF TypeOK, States, Contexts, Labels, Interruptible, CpuLabels
<1>2. CandidateInv' /\ RunInv' /\ LeaveInv'
  BY DEF TypeOK, CandidateInv, RunInv, LeaveInv, HeldInv, ExitInv
<1>3. HeldInv'
  BY DEF TypeOK, CandidateInv, RunInv, LeaveInv, HeldInv, ResumeInv, ExitInv, FamilyInv
<1>4. ResumeInv' /\ ExitInv'
  BY DEF TypeOK, CandidateInv, RunInv, LeaveInv, HeldInv, ResumeInv, ExitInv, FamilyInv, Interruptible, ExitLabels
<1>5. FamilyInv' /\ ParentAlive'
  BY DEF TypeOK, CandidateInv, RunInv, HeldInv, ExitInv, FamilyInv, ParentAlive
<1>6. WaitInv'
  BY DEF TypeOK, RunInv, HeldInv, ResumeInv, ExitInv, FamilyInv, WaitInv, Interruptible
<1>7. NoLostExit'
  BY DEF TypeOK, CandidateInv, RunInv, HeldInv, ResumeInv, ExitInv, FamilyInv, WaitInv, NoLostExit, Interruptible
<1> QED
  BY <1>1, <1>2, <1>3, <1>4, <1>5, <1>6, <1>7

-----------------------------------------------------------------------------
\* The boot state satisfies the invariant.
LEMMA InitInv == Init => IInv
<1> SUFFICES ASSUME Init PROVE IInv
  OBVIOUS
<1> USE ProcAssumption DEF Init, Slots, proczero
<1>1. TypeOK
  BY DEF TypeOK, States, Contexts, Labels, Interruptible, CpuLabels
<1>2. CandidateInv /\ RunInv /\ LeaveInv /\ HeldInv
  BY DEF CandidateInv, RunInv, LeaveInv, HeldInv, At
<1>3. ResumeInv /\ ExitInv
  BY DEF ResumeInv, ExitInv, Interruptible, ExitLabels
<1>4. FamilyInv /\ ParentAlive /\ WaitInv /\ NoLostExit
  BY DEF FamilyInv, ParentAlive, WaitInv, NoLostExit, At
<1> QED
  BY <1>1, <1>2, <1>3, <1>4 DEF IInv

\* Every step of the kernel preserves the invariant.
LEMMA NextInv == IInv /\ [Next]_vars => IInv'
<1> SUFFICES ASSUME IInv, [Next]_vars PROVE IInv'
  OBVIOUS
<1>1. ASSUME NEW c \in CPUs, Scheduler(c) \/ PanicReacquire(c)
      PROVE  IInv'
  BY <1>1, ScanSkip_Step, ScanKeep_Step, ScanPass_Step, ScanIdle_Step,
     Switch_Step, SchedAway_Step, SchedRelease_Step, SchedClear_Step,
     PanicReacquire_Step, PanicNoCandidate_Step
     DEF Scheduler
<1>2. ASSUME NEW c \in CPUs, NEW p \in Slots, Process(c, p)
      PROVE  IInv'
  BY <1>2, proc_yield_Step, SysFork_Step, AllocSkip_Step, proc_alloc_Step,
     proc_fork_Step, SysWait_Step, WaitLock_Step, WaitNotKid_Step,
     WaitKid_Step, WaitSkip_Step, WaitReap_Step, WaitNoKids_Step,
     WaitSleep_Step, SysExit_Step, ExitWakeZero_Step, ExitGetParent_Step,
     ExitLockParent_Step, ExitLockSelf_Step, ReparentNotKid_Step, ReparentKid_Step,
     ReparentAdopt_Step, proc_exit_Step, PanicProc_Step, PanicReap_Step
     DEF Process
<1>3. CASE UNCHANGED vars
  BY <1>3 DEF vars, tvars, kvars, svars, IInv, TypeOK, CandidateInv, RunInv, LeaveInv,
     HeldInv, ResumeInv, ExitInv, FamilyInv, ParentAlive, WaitInv, NoLostExit, At
<1> QED
  BY <1>1, <1>2, <1>3 DEF Next

\* The invariant holds in every reachable state of the kernel.
THEOREM Inductive == Spec => []IInv
  BY InitInv, NextInv, PTL DEF Spec

\* Every variable keeps its type: the slot indices of the scheduler, of
\* proc_alloc, proc_wait and proc_reparent stay within procs[] plus one.
THEOREM TypeCorrect == Spec => []TypeOK
<1>1. IInv => TypeOK
  BY DEF IInv
<1> QED
  BY <1>1, Inductive, PTL

\* No kernel stack is in use on two processors: the lock of a process that
\* leaves stays held until the scheduler's context runs (proc_sched).
THEOREM OneCpuTheorem == Spec => []OneCpu
<1>1. IInv => OneCpu
  BY DEF IInv, OneCpu, Executes, RunInv, LeaveInv
<1> QED
  BY <1>1, Inductive, PTL

\* A process is RUNNING while a processor executes it, up to the proc_sched
\* through which it leaves under its own lock.
THEOREM RunningOrLeavingTheorem == Spec => []RunningOrLeaving
<1>1. IInv => RunningOrLeaving
  BY DEF IInv, RunningOrLeaving, Executes, RunInv, LeaveInv
<1> QED
  BY <1>1, Inductive, PTL

\* proc_free never reclaims a slot whose kernel stack is in use.
THEOREM FreedOffStackTheorem == Spec => []FreedOffStack
<1>1. IInv => FreedOffStack
  BY DEF IInv, FreedOffStack, Executes, RunInv, LeaveInv
<1> QED
  BY <1>1, Inductive, PTL

\* A process other than proczero never sleeps in proc_wait while a zombie
\* child is there to be reaped.
THEOREM NoLostExitTheorem == Spec => []NoLostExit
<1>1. IInv => NoLostExit
  BY DEF IInv
<1> QED
  BY <1>1, Inductive, PTL

\* The parent pointer of a slot in use leads to a process that is alive.
THEOREM ParentAliveTheorem == Spec => []ParentAlive
<1>1. IInv => ParentAlive
  BY DEF IInv
<1> QED
  BY <1>1, Inductive, PTL

-----------------------------------------------------------------------------
\* Every step of a processor's scheduler is a dispatch or changes nothing.
LEMMA SchedulerRefines ==
    ASSUME IInv, NEW c \in CPUs, Scheduler(c) \/ PanicReacquire(c)
    PROVE  [Lifecycle!Next]_(Lifecycle!vars)
<1> USE DEF Lifecycle!vars, tvars
<1>1. CASE Switch(c)
  <2>1. next_p[c] \in Slots /\ state[next_p[c]] = "RUNNABLE"
    BY <1>1 DEF Switch, IInv, TypeOK, CandidateInv
  <2>2. Lifecycle!Dispatch(next_p[c])
    BY <1>1, <2>1 DEF Switch, Lifecycle!Dispatch, Lifecycle!Move
  <2> QED
    BY <2>1, <2>2 DEF Lifecycle!Next, Lifecycle!Slots, Slots
<1>2. CASE ~Switch(c)
  BY <1>2 DEF Scheduler, ScanSkip, ScanKeep, ScanPass, ScanIdle, SchedAway, SchedRelease,
     SchedClear, PanicReacquire, PanicNoCandidate
<1> QED
  BY <1>1, <1>2

\* Every step of a process is a step of the state diagram or changes nothing.
LEMMA ProcessRefines ==
    ASSUME IInv, NEW c \in CPUs, NEW p \in Slots, Process(c, p)
    PROVE  [Lifecycle!Next]_(Lifecycle!vars)
<1> USE DEF Lifecycle!vars, tvars, At, Slots, Lifecycle!Slots, proczero, Lifecycle!proczero,
        Lifecycle!Move
<1>0. cpc[c] = "run" /\ proc[c] = p /\ state[p] = "RUNNING"
  BY DEF IInv, RunInv, Process, proc_yield, SysFork, AllocSkip, proc_alloc, proc_fork, SysWait,
     WaitLock, WaitNotKid, WaitKid, WaitSkip, WaitReap, WaitNoKids, WaitSleep, SysExit,
     ExitWakeZero, ExitGetParent, ExitLockParent, ExitLockSelf, ReparentNotKid, ReparentKid,
     ReparentAdopt, proc_exit, PanicProc, PanicReap
<1>1. CASE proc_yield(c, p)
  BY <1>0, <1>1 DEF proc_yield, Lifecycle!Preempt, Lifecycle!Next
<1>2. CASE proc_fork(c, p)
  <2>1. idx[p] \in Slots /\ state[idx[p]] = "UNUSED"
    BY <1>2 DEF proc_fork, IInv, HeldInv
  <2>2. Lifecycle!Fork(p, idx[p])
    BY <1>0, <1>2, <2>1 DEF proc_fork, Lifecycle!Fork
  <2> QED
    BY <2>1, <2>2 DEF Lifecycle!Next
<1>3. CASE WaitReap(c, p)
  <2>1. idx[p] \in Slots /\ parent[idx[p]] = p
    BY <1>3 DEF WaitReap, IInv, HeldInv
  <2>2. Lifecycle!Reap(p, idx[p])
    BY <1>0, <1>3, <2>1 DEF WaitReap, Lifecycle!Reap
  <2> QED
    BY <2>1, <2>2 DEF Lifecycle!Next
<1>9. CASE PanicReap(c, p)
  <2>1. idx[p] \in Slots /\ parent[idx[p]] = p
    BY <1>9 DEF PanicReap, IInv, HeldInv
  <2>2. Lifecycle!Reap(p, idx[p])
    BY <1>0, <1>9, <2>1 DEF PanicReap, Lifecycle!Reap
  <2> QED
    BY <2>1, <2>2 DEF Lifecycle!Next
<1>4. CASE WaitSleep(c, p)
  BY <1>0, <1>4 DEF WaitSleep, Lifecycle!Block, Lifecycle!Next
<1>5. CASE ExitWakeZero(c, p)
  <2>1. CASE state[proczero] = "SLEEPING" /\ sleep_space[proczero] = proczero
    <3>1. Lifecycle!Wake(p, proczero)
      BY <1>0, <1>5, <2>1 DEF ExitWakeZero, proc_wakeup_one, Lifecycle!Wake
    <3> QED
      BY <3>1, ProcAssumption DEF Lifecycle!Next
  <2> QED
    BY <1>5, <2>1 DEF ExitWakeZero, proc_wakeup_one
<1>6. CASE ReparentAdopt(c, p)
  <2>1. idx[p] \in Slots /\ parent[idx[p]] = p
    BY <1>6 DEF ReparentAdopt, IInv, HeldInv
  <2>2. Lifecycle!Adopt(p, idx[p])
    BY <1>0, <1>6, <2>1 DEF ReparentAdopt, Lifecycle!Adopt
  <2> QED
    BY <2>1, <2>2 DEF Lifecycle!Next
<1>7. CASE proc_exit(c, p)
  <2>1. /\ p # 1 /\ par[p] \in Slots /\ \A q \in Slots : parent[q] # p
        /\ parent[p] \in {par[p], 1}
    BY <1>7, ProcAssumption DEF proc_exit, IInv, TypeOK, ExitInv, ExitLabels
  <2>2. Lifecycle!Exit(p)
    BY <1>0, <1>7, <2>1 DEF proc_exit, proc_wakeup_one, Lifecycle!Exit, IInv, TypeOK
  <2> QED
    BY <2>2 DEF Lifecycle!Next
<1>8. CASE UNCHANGED <<state, parent>>
  BY <1>8
<1> QED
  BY <1>1, <1>2, <1>3, <1>4, <1>5, <1>6, <1>7, <1>8, <1>9
     DEF Process, SysFork, AllocSkip, proc_alloc, SysWait, WaitLock, WaitNotKid, WaitKid, WaitSkip,
     WaitNoKids, SysExit, ExitGetParent, ExitLockParent, ExitLockSelf, ReparentNotKid,
     ReparentKid, PanicProc

\* The kernel's process table implements the state diagram of
\* include/proc/proc.h: only the parent reaps, a process leaves no child
\* behind when it exits, and no other transition happens.
THEOREM LifecycleTheorem == Spec => LifecycleSpec
<1>1. Init => Lifecycle!Init
  BY DEF Init, Lifecycle!Init, Slots, Lifecycle!Slots, proczero, Lifecycle!proczero
<1>2. IInv /\ [Next]_vars => [Lifecycle!Next]_(Lifecycle!vars)
  <2> SUFFICES ASSUME IInv, [Next]_vars PROVE [Lifecycle!Next]_(Lifecycle!vars)
    OBVIOUS
  <2>1. CASE UNCHANGED vars
    BY <2>1 DEF vars, tvars, Lifecycle!vars
  <2>2. CASE Next
    BY <2>2, SchedulerRefines, ProcessRefines DEF Next
  <2> QED
    BY <2>1, <2>2
<1> QED
  BY <1>1, <1>2, Inductive, PTL DEF Spec, LifecycleSpec, Lifecycle!Spec
=============================================================================
