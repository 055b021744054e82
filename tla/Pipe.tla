-------------------------------- MODULE Pipe --------------------------------
(***************************************************************************)
(* kernel/fs/pipe.c with the reference counts of its two files             *)
(* (kernel/fs/file.c): processes that inherit the ends of one pipe write,  *)
(* read and close it concurrently.  The pipe's spin lock is held across    *)
(* the copying loops; blocked callers sleep on &nread or &nwrite.          *)
(*                                                                         *)
(* Counters are unsigned numbers of limited width (WRAP stands for 2^32,   *)
(* which is no multiple of PIPE_SIZE).                                     *)
(* sent and got record every byte put into and taken out of the ring.      *)
(***************************************************************************)
EXTENDS WaitChannel, Sequences

CONSTANTS SIZE,      \* PIPE_SIZE
          WRAP,      \* a uint32 counts modulo WRAP
          NAME,      \* low half of the address of the string "pipe"
          Bytes,     \* the values of a byte
          MaxLen,    \* longest read or write
          MaxBytes   \* bound: bytes that writers ask for altogether

ASSUME PipeAssumption ==
    /\ NPROC \in Nat \ {0}
    /\ SIZE \in Nat \ {0}
    /\ WRAP \in Nat /\ WRAP > SIZE
    /\ NAME \in 3..(WRAP - 1)
    /\ MaxLen \in Nat
    /\ MaxBytes \in Nat
    /\ NULL \notin Nat
    /\ NULL \notin Bytes
    /\ NULL \notin {"nread", "nwrite", "r", "w"}

VARIABLES
    \* pipe_t
    lock,        \* the process holding pipe->lock, or NULL
    data,        \* the ring
    nread, nwrite,
    readopen, writeopen,
    word,        \* the word of lock.name that pmem_free takes for ref_cnt
    \* file_t and filelist
    ref,         \* file->ref of the two ends
    fds,         \* the ends a process has descriptors for
    \* locals of a system call
    len,         \* bytes asked for
    i,           \* bytes done
    end,         \* the end being closed
    \* history
    sent, got,
    asked        \* bytes writers have asked for

pvars == <<data, nread, nwrite, readopen, writeopen>>
fvars == <<word, ref, fds>>
lvars == <<len, i, idx, end>>
hvars == <<sent, got, asked>>
vars == <<wvars, lock, pvars, fvars, pc, lvars, hvars>>

Ends == {"r", "w"}
Chans == {"nread", "nwrite"}
Labels == {"user", "write", "put", "put_wake", "put_sleep", "put_done",
           "read", "get_wait", "get_sleep", "get", "get_done",
           "close", "close_wake", "close_test"}

TypeOK ==
    /\ state \in [Slots -> {"UNUSED", "RUNNABLE", "RUNNING", "SLEEPING"}]
    /\ sleep_space \in [Slots -> Chans \cup {NULL}]
    /\ lk \in [Slots -> BOOLEAN]
    /\ lock \in Slots \cup {NULL}
    /\ data \in [0..(SIZE - 1) -> Bytes \cup {NULL}]
    /\ nread \in 0..(WRAP - 1) /\ nwrite \in 0..(WRAP - 1)
    /\ readopen \in BOOLEAN /\ writeopen \in BOOLEAN
    /\ word \in 0..(WRAP - 1)
    /\ ref \in [Ends -> 0..NPROC]
    /\ fds \in [Slots -> SUBSET Ends]
    /\ pc \in [Slots -> Labels]
    /\ len \in [Slots -> 0..MaxLen]
    /\ i \in [Slots -> 0..MaxLen]
    /\ idx \in [Slots -> 1..(NPROC + 1)]
    /\ end \in [Slots -> Ends \cup {NULL}]
    /\ sent \in Seq(Bytes) /\ got \in Seq(Bytes \cup {NULL})
    /\ asked \in 0..MaxBytes

(***************************************************************************)
(* sys_pipe has just returned in the process of slot 1 (pipe_alloc): both  *)
(* ends are open, each file has one reference, the page was cleared, and   *)
(* spinlock_init has put lock.name where the page's count of 1 was.        *)
(***************************************************************************)
Init ==
    /\ WaitInit({1})
    /\ lock = NULL
    /\ data = [k \in 0..(SIZE - 1) |-> NULL]
    /\ nread = 0 /\ nwrite = 0
    /\ readopen = TRUE /\ writeopen = TRUE
    /\ word = NAME
    /\ ref = [e \in Ends |-> 1]
    /\ fds = [p \in Slots |-> IF p = 1 THEN Ends ELSE {}]
    /\ pc = [p \in Slots |-> "user"]
    /\ len = [p \in Slots |-> 0]
    /\ i = [p \in Slots |-> 0]
    /\ idx = [p \in Slots |-> 1]
    /\ end = [p \in Slots |-> NULL]
    /\ sent = <<>> /\ got = <<>>
    /\ asked = 0

\* Mutant: one byte too many fits.
FullOffByOne == (nwrite + WRAP - nread) % WRAP = SIZE + 1

\* pipe->nwrite - pipe->nread == PIPE_SIZE, in unsigned arithmetic.
Full == (nwrite + WRAP - nread) % WRAP = SIZE
Empty == nread = nwrite

\* p takes pipe->lock and goes on at l.
Acquire(p, l) ==
    /\ lock = NULL
    /\ lock' = p
    /\ Goto(p, l)

\* The system call of p is over and its locals are gone.
Return(p) ==
    /\ pc' = [pc EXCEPT ![p] = "user"]
    /\ len' = [len EXCEPT ![p] = 0]
    /\ i' = [i EXCEPT ![p] = 0]
    /\ idx' = [idx EXCEPT ![p] = 1]
    /\ end' = [end EXCEPT ![p] = NULL]

-----------------------------------------------------------------------------
(***************************************************************************)
(* proc_sleep and proc_wakeup inside a pipe operation.                     *)
(***************************************************************************)
\* The channel that p wakes, or sleeps on, at its present step.
Chan(p) ==
    CASE pc[p] \in {"put_wake", "put_done", "get_sleep"} -> "nread"
      [] pc[p] \in {"get_done", "put_sleep"} -> "nwrite"
      [] pc[p] = "close_wake" -> IF end[p] = "w" THEN "nread" ELSE "nwrite"
      [] OTHER -> NULL

Waking == {"put_wake", "put_done", "get_done", "close_wake"}

proc_wakeup(p) ==
    /\ Running(p) /\ pc[p] \in Waking
    /\ idx[p] <= NPROC
    /\ WakeSlot(idx[p], Chan(p))
    /\ idx' = [idx EXCEPT ![p] = @ + 1]
    /\ UNCHANGED <<lock, pvars, fvars, pc, len, i, end, hvars>>

\* p takes its own lock and gives up pipe->lock.
GiveUp(p, l) ==
    /\ SleepEnter(p)
    /\ lock' = NULL
    /\ Goto(p, l)
    /\ idx' = [idx EXCEPT ![p] = 1]

Sleeping == {"put_sleep", "get_sleep"}

proc_sleep(p) ==
    /\ pc[p] \in Sleeping
    /\ SleepSwitch(p, Chan(p))
    /\ UNCHANGED <<lock, pvars, fvars, pc, lvars, hvars>>

\* proc_sleep returns holding pipe->lock, and the condition is tested again.
SleepReturn(p) ==
    /\ \/ At(p, "put_sleep") /\ Acquire(p, "put")
       \/ At(p, "get_sleep") /\ Acquire(p, "get_wait")
    /\ UNCHANGED <<wvars, pvars, fvars, lvars, hvars>>

DispatchProc(p) ==
    /\ Dispatch(p)
    /\ UNCHANGED <<lock, pvars, fvars, pc, lvars, hvars>>

\* The end of an operation, after its last proc_wakeup.
Unlock(p) ==
    /\ Running(p) /\ pc[p] \in {"put_done", "get_done"}
    /\ idx[p] > NPROC
    /\ lock' = NULL
    /\ Return(p)
    /\ UNCHANGED <<wvars, pvars, fvars, hvars>>

-----------------------------------------------------------------------------
(***************************************************************************)
(* pipe_write.                                                             *)
(***************************************************************************)
SysWrite(p, n) ==
    /\ At(p, "user")
    /\ "w" \in fds[p]
    /\ asked + n <= MaxBytes
    /\ len' = [len EXCEPT ![p] = n]
    /\ asked' = asked + n
    /\ Goto(p, "write")
    /\ UNCHANGED <<wvars, lock, pvars, fvars, i, idx, end, sent, got>>

WriteLock(p) ==
    /\ At(p, "write")
    /\ Acquire(p, "put")
    /\ UNCHANGED <<wvars, pvars, fvars, lvars, hvars>>

\* pipe->data[pipe->nwrite++ % PIPE_SIZE] = ch
Put(p, b) ==
    /\ At(p, "put")
    /\ i[p] < len[p]
    /\ ~ Full
    /\ data' = [data EXCEPT ![nwrite % SIZE] = b]
    /\ nwrite' = (nwrite + 1) % WRAP
    /\ i' = [i EXCEPT ![p] = @ + 1]
    /\ sent' = Append(sent, b)
    /\ UNCHANGED <<wvars, lock, nread, readopen, writeopen, fvars, pc, len, idx, end, got, asked>>

\* Full and nobody can read: PIPE_ERROR.
WriteError(p) ==
    /\ At(p, "put")
    /\ i[p] < len[p]
    /\ Full
    /\ ~ readopen
    /\ lock' = NULL
    /\ Return(p)
    /\ UNCHANGED <<wvars, pvars, fvars, hvars>>

\* Full: wake the readers ...
WriteWait(p) ==
    /\ At(p, "put")
    /\ i[p] < len[p]
    /\ Full
    /\ readopen
    /\ Goto(p, "put_wake")
    /\ UNCHANGED <<wvars, lock, pvars, fvars, lvars, hvars>>

\* ... and sleep.
WriteSleep(p) ==
    /\ pc[p] = "put_wake"
    /\ idx[p] > NPROC
    /\ GiveUp(p, "put_sleep")
    /\ UNCHANGED <<pvars, fvars, len, i, end, hvars>>

WriteDone(p) ==
    /\ At(p, "put")
    /\ i[p] = len[p]
    /\ Goto(p, "put_done")
    /\ UNCHANGED <<wvars, lock, pvars, fvars, lvars, hvars>>

-----------------------------------------------------------------------------
(***************************************************************************)
(* pipe_read.                                                              *)
(***************************************************************************)
SysRead(p, n) ==
    /\ At(p, "user")
    /\ "r" \in fds[p]
    /\ len' = [len EXCEPT ![p] = n]
    /\ Goto(p, "read")
    /\ UNCHANGED <<wvars, lock, pvars, fvars, i, idx, end, hvars>>

ReadLock(p) ==
    /\ At(p, "read")
    /\ Acquire(p, "get_wait")
    /\ UNCHANGED <<wvars, pvars, fvars, lvars, hvars>>

ReadSleep(p) ==
    /\ pc[p] = "get_wait"
    /\ Empty /\ writeopen
    /\ GiveUp(p, "get_sleep")
    /\ UNCHANGED <<pvars, fvars, len, i, end, hvars>>

ReadReady(p) ==
    /\ At(p, "get_wait")
    /\ ~ (Empty /\ writeopen)
    /\ Goto(p, "get")
    /\ UNCHANGED <<wvars, lock, pvars, fvars, lvars, hvars>>

\* ch = pipe->data[pipe->nread++ % PIPE_SIZE]
Get(p) ==
    /\ At(p, "get")
    /\ i[p] < len[p]
    /\ ~ Empty
    /\ got' = Append(got, data[nread % SIZE])
    /\ nread' = (nread + 1) % WRAP
    /\ i' = [i EXCEPT ![p] = @ + 1]
    /\ UNCHANGED <<wvars, lock, data, nwrite, readopen, writeopen, fvars, pc, len, idx, end, sent, asked>>

ReadDone(p) ==
    /\ At(p, "get")
    /\ i[p] = len[p] \/ Empty
    /\ Goto(p, "get_done")
    /\ UNCHANGED <<wvars, lock, pvars, fvars, lvars, hvars>>

-----------------------------------------------------------------------------
(***************************************************************************)
(* Descriptors: proc_fork duplicates them, sys_close drops one, and        *)
(* file_close of the last reference closes the end of the pipe.            *)
(***************************************************************************)
\* Mutant: the descriptors are copied without file_dup.
ForkNoDup(p, q) ==
    /\ At(p, "user")
    /\ state[q] = "UNUSED"
    /\ state' = [state EXCEPT ![q] = "RUNNABLE"]
    /\ fds' = [fds EXCEPT ![q] = fds[p]]
    /\ UNCHANGED <<sleep_space, lk, lock, pvars, word, ref, pc, lvars, hvars>>

Fork(p, q) ==
    /\ At(p, "user")
    /\ state[q] = "UNUSED"
    /\ state' = [state EXCEPT ![q] = "RUNNABLE"]
    /\ fds' = [fds EXCEPT ![q] = fds[p]]
    /\ ref' = [e \in Ends |-> IF e \in fds[p] THEN ref[e] + 1 ELSE ref[e]]
    /\ UNCHANGED <<sleep_space, lk, lock, pvars, word, pc, lvars, hvars>>

file_close(p, e) ==
    /\ At(p, "user")
    /\ e \in fds[p]
    /\ fds' = [fds EXCEPT ![p] = @ \ {e}]
    /\ ref' = [ref EXCEPT ![e] = @ - 1]
    /\ IF ref[e] = 1
       THEN Goto(p, "close") /\ end' = [end EXCEPT ![p] = e]
       ELSE UNCHANGED <<pc, end>>
    /\ UNCHANGED <<wvars, lock, pvars, word, len, i, idx, hvars>>

\* Mutant: nobody is woken.
pipe_close_silent(p) ==
    /\ At(p, "close")
    /\ Acquire(p, "close_wake")
    /\ readopen' = (readopen /\ end[p] # "r")
    /\ writeopen' = (writeopen /\ end[p] # "w")
    /\ idx' = [idx EXCEPT ![p] = NPROC + 1]
    /\ UNCHANGED <<wvars, data, nread, nwrite, fvars, len, i, end, hvars>>

pipe_close(p) ==
    /\ At(p, "close")
    /\ Acquire(p, "close_wake")
    /\ readopen' = (readopen /\ end[p] # "r")
    /\ writeopen' = (writeopen /\ end[p] # "w")
    /\ UNCHANGED <<wvars, data, nread, nwrite, fvars, lvars, hvars>>

CloseUnlock(p) ==
    /\ At(p, "close_wake")
    /\ idx[p] > NPROC
    /\ lock' = NULL
    /\ Goto(p, "close_test")
    /\ UNCHANGED <<wvars, pvars, fvars, lvars, hvars>>

\* pmem_free: --ref_cnt, a uint32; only at 0 does the page go back.
FreeWord == (word + WRAP - 1) % WRAP

\* Mutant: only the reader's close calls pmem_free.
CloseTestReader(p) ==
    /\ At(p, "close_test")
    /\ word' = IF end[p] = "r" /\ ~ writeopen THEN FreeWord ELSE word
    /\ Return(p)
    /\ UNCHANGED <<wvars, lock, pvars, ref, fds, hvars>>

\* The flags are read after the lock is released, and pmem_free leaves them
\* as they are: the count it finds is lock.name, too large to reach 0.
CloseTest(p) ==
    /\ At(p, "close_test")
    /\ word' = IF ~ readopen /\ ~ writeopen THEN FreeWord ELSE word
    /\ Return(p)
    /\ UNCHANGED <<wvars, lock, pvars, ref, fds, hvars>>

-----------------------------------------------------------------------------
\* Steps that wait for pipe->lock.
Lock(p) == WriteLock(p) \/ ReadLock(p) \/ SleepReturn(p) \/ pipe_close(p)

\* Steps inside a system call, and the scheduler's.
Kernel(p) ==
    \/ Lock(p)
    \/ proc_wakeup(p) \/ proc_sleep(p) \/ DispatchProc(p) \/ Unlock(p)
    \/ \E b \in Bytes : Put(p, b)
    \/ WriteError(p) \/ WriteWait(p) \/ WriteSleep(p) \/ WriteDone(p)
    \/ ReadSleep(p) \/ ReadReady(p) \/ Get(p) \/ ReadDone(p)
    \/ CloseUnlock(p) \/ CloseTest(p)

\* What the user program does.
User(p) ==
    \/ \E n \in 1..MaxLen : SysWrite(p, n) \/ SysRead(p, n)
    \/ \E e \in Ends : file_close(p, e)
    \/ \E q \in Slots : Fork(p, q)

Next == \E p \in Slots : Kernel(p) \/ User(p)

Spec == Init /\ [][Next]_vars

\* A process inside the kernel keeps running, and a spin lock that becomes
\* free again and again is won eventually.
Fairness == \A p \in Slots : WF_vars(Kernel(p)) /\ SF_vars(Lock(p))

FairSpec == Spec /\ Fairness

-----------------------------------------------------------------------------
(***************************************************************************)
(* Properties.                                                             *)
(***************************************************************************)
\* A sleeping process is asleep for a reason: whenever pipe->lock is free, a
\* process in pipe_read's proc_sleep faces an empty pipe that can still be
\* written, one in pipe_write's a full pipe that can still be read.  So no
\* wakeup is lost between the test and the sleep.
NoLostWakeup ==
    lock = NULL =>
        \A p \in Slots : state[p] = "SLEEPING" =>
            \/ pc[p] = "get_sleep" /\ Empty /\ writeopen
            \/ pc[p] = "put_sleep" /\ Full /\ readopen

InRead(p) == pc[p] \in {"read", "get_wait", "get_sleep", "get", "get_done"}
InWrite(p) == pc[p] \in {"write", "put", "put_wake", "put_sleep", "put_done"}

\* The calls of pmem_free for the page so far, and: every descriptor is gone
\* and nobody is inside pipe_close.
Calls == NAME - word
Gone ==
    /\ ref["r"] = 0 /\ ref["w"] = 0
    /\ \A p \in Slots : pc[p] = "user"

\* pipe_close calls pmem_free in spite of a test made without the lock, but
\* only when no descriptor is left and nobody reads or writes any more; the
\* closers of the two ends may both call it, and no third call follows.
FreedAfterUse ==
    /\ Calls > 0 => /\ ref["r"] = 0 /\ ref["w"] = 0
                    /\ \A p \in Slots : ~ InRead(p) /\ ~ InWrite(p)
    /\ Calls <= 2
    /\ Gone => Calls > 0

\* pmem_free does what its comment says, "free the physical page": the page
\* of a pipe that is gone is back in the list.
PageReturned == Gone => word = 0

\* The pipe is the bounded FIFO channel of module Fifo.
Channel == INSTANCE Fifo
FifoSpec == Channel!Spec

\* End of file and broken pipe are delivered: when the other end has been
\* closed, a process blocked in pipe_read or pipe_write gets out of it.
CloseReleases ==
    \A p \in Slots :
        /\ (InRead(p) /\ ~ writeopen) ~> ~ InRead(p)
        /\ (InWrite(p) /\ ~ readopen) ~> ~ InWrite(p)
=============================================================================
