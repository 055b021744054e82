----------------------------- MODULE PipeProofs -----------------------------
(***************************************************************************)
(* Theorems about Pipe, for any number of processes, any ring size and any *)
(* counter range: no lost wakeup, pmem_free only after the last use of the *)
(* page, and FIFO delivery as long as the counters have not run around.    *)
(***************************************************************************)
EXTENDS Pipe, SleepLock, Integers, FiniteSets, FiniteSetTheorems, TLAPS

(***************************************************************************)
(* The inductive invariant.                                                *)
(***************************************************************************)
\* pipe->lock is held exactly between its acquisition and its release.
HasLock == {"put", "put_wake", "put_done", "get_wait", "get", "get_done", "close_wake"}
LockInv == \A p \in Slots : pc[p] \in HasLock <=> lock = p

\* Who is not running sleeps in a pipe operation, or has not started yet.
SleepInv ==
    \A p \in Slots :
        /\ state[p] = "UNUSED" => pc[p] = "user" /\ fds[p] = {}
        /\ state[p] = "RUNNABLE" => pc[p] \in Sleeping \cup {"user"}
        /\ state[p] = "SLEEPING" => pc[p] \in Sleeping /\ sleep_space[p] = Chan(p)
        /\ lk[p] => pc[p] \in Sleeping /\ state[p] = "RUNNING"

\* Every wakeup loop starts at the first slot, and a writer about to sleep
\* has found the pipe full and readable, which its lock keeps true.
LoopInv ==
    \A p \in Slots :
        /\ pc[p] \notin Waking \cup {"close_test"} => idx[p] = 1
        /\ pc[p] = "put_wake" => Full /\ readopen

\* The processes with a descriptor of end e.
Holders(e) == {p \in Slots : e \in fds[p]}

\* file->ref counts the descriptors.
RefInv == \A e \in Ends : ref[e] = Cardinality(Holders(e))

\* Who reads or writes has a descriptor; who closes has dropped the last.
FdInv ==
    /\ \A p \in Slots :
        /\ InRead(p) => "r" \in fds[p]
        /\ InWrite(p) => "w" \in fds[p]
        /\ pc[p] \in {"close", "close_wake", "close_test"} =>
              end[p] \in Ends /\ \A q \in Slots : end[p] \notin fds[q]
    /\ ~ readopen => \A q \in Slots : "r" \notin fds[q]
    /\ ~ writeopen => \A q \in Slots : "w" \notin fds[q]

\* An end without descriptors is closed or being closed.
CloseInv ==
    /\ readopen => ref["r"] > 0 \/ \E p \in Slots : pc[p] = "close" /\ end[p] = "r"
    /\ writeopen => ref["w"] > 0 \/ \E p \in Slots : pc[p] = "close" /\ end[p] = "w"

\* q is in the loop of proc_wakeup(ch) and has not passed slot p.
Wakes(q, ch, p) == pc[q] \in Waking /\ Chan(q) = ch /\ idx[q] <= p

\* p sleeps at step l, or is about to.
Waits(p, l) == pc[p] = l /\ (state[p] = "SLEEPING" \/ lk[p])

\* q holds the lock and will come to wake p, a reader or a writer.
ReaderWaker(q, p) == pc[q] = "put" \/ Wakes(q, "nread", p)
WriterWaker(q, p) == pc[q] = "get" \/ Wakes(q, "nwrite", p)

\* Who sleeps has a reason, or somebody is on the way to wake it.
WaitInv ==
    \A p \in Slots :
        /\ Waits(p, "get_sleep") => (Empty /\ writeopen) \/ \E q \in Slots : ReaderWaker(q, p)
        /\ Waits(p, "put_sleep") => (Full /\ readopen) \/ \E q \in Slots : WriterWaker(q, p)

IInv ==
    /\ TypeOK
    /\ LockInv
    /\ SleepInv
    /\ LoopInv
    /\ RefInv
    /\ FdInv
    /\ CloseInv
    /\ WaitInv

\* p is in pipe_close for end e; nobody has e any more or closes it.
Closer(p, e) == pc[p] \in {"close", "close_wake", "close_test"} /\ end[p] = e
Finished(e) == \A p \in Slots : e \notin fds[p] /\ ~ Closer(p, e)
One(b) == IF b THEN 1 ELSE 0

\* The last close of an end is made once; a call of pmem_free belongs to an
\* end that is finished, comes after both flags are down, and once they are
\* down it has come or somebody is still to test for it.
PageInv ==
    /\ \A p, q \in Slots, e \in Ends : Closer(p, e) /\ Closer(q, e) => p = q
    /\ word <= NAME
    /\ NAME - word <= One(Finished("r")) + One(Finished("w"))
    /\ word # NAME => ~ readopen /\ ~ writeopen
    /\ ~ readopen /\ ~ writeopen =>
          word # NAME \/ \E p \in Slots : pc[p] \in {"close_wake", "close_test"}

\* As long as fewer than WRAP bytes have been written, the counters count
\* them and the ring holds the bytes still to be read, at their places.
NoWrap == Len(sent) < WRAP

RingInv ==
    /\ nwrite = Len(sent)
    /\ nread = Len(got)
    /\ nread <= nwrite
    /\ nwrite <= nread + SIZE
    /\ \A k \in 1..Len(sent) : k > nread => data[(k - 1) % SIZE] = sent[k]

-----------------------------------------------------------------------------
(***************************************************************************)
(* Remainders: ring indices and counter differences.                       *)
(***************************************************************************)
LEMMA ModRange ==
    ASSUME NEW x \in Nat, NEW m \in Nat \ {0}
    PROVE  x % m \in 0..(m - 1)
BY Z3

LEMMA ModSmall ==
    ASSUME NEW x \in Nat, NEW m \in Nat, x < m
    PROVE  x % m = x /\ (x + m) % m = x
BY Z3

\* Two positions less than m apart never share a slot of the ring.
LEMMA ModDiffers ==
    ASSUME NEW a \in Nat, NEW b \in Nat, NEW m \in Nat, a < b, b < a + m
    PROVE  a % m # b % m
<1> SUFFICES ASSUME a % m = b % m PROVE FALSE
  OBVIOUS
<1> DEFINE qa == a \div m
           qb == b \div m
<1>1. m > 0
  OBVIOUS
<1>2. a = (m * qa) + (a % m) /\ qa \in Int
  BY <1>1
<1>3. b = (m * qb) + (b % m) /\ qb \in Int
  BY <1>1
<1>4. b - a = m * (qb - qa) /\ qb - qa \in Int
  BY <1>2, <1>3
<1> HIDE DEF qa, qb
<1>5. ASSUME NEW d \in Int, b - a = m * d PROVE FALSE
  <2>1. CASE d <= 0
    <3>1. m * d <= 0
      BY <2>1, <1>1
    <3> QED
      BY <3>1, <1>5
  <2>2. CASE d >= 1
    <3>1. m * d >= m
      BY <2>2, <1>1
    <3> QED
      BY <3>1, <1>5
  <2> QED
    BY <2>1, <2>2
<1> QED
  BY <1>4, <1>5

-----------------------------------------------------------------------------
(***************************************************************************)
(* The invariant is inductive: one lemma per action.                       *)
(***************************************************************************)
LEMMA ConstantFacts ==
    /\ NULL \notin Slots
    /\ 1 \in 1..(NPROC + 1)
    /\ 0 \in 0..MaxLen
    /\ \A p \in Slots : p \in Nat /\ 1 <= p /\ p <= NPROC
BY PipeAssumption DEF Slots

LEMMA IndexRange ==
    ASSUME NEW x \in Nat
    PROVE  x % SIZE \in 0..(SIZE - 1) /\ (x + 1) % WRAP \in 0..(WRAP - 1)
<1>1. x + 1 \in Nat /\ SIZE \in Nat \ {0} /\ WRAP \in Nat \ {0}
  BY PipeAssumption
<1> QED
  BY <1>1, ModRange

\* A waiter stays covered when nothing it waits for changes and its wakers
\* remain.
LEMMA WaitFrame ==
    ASSUME WaitInv, NEW r \in Slots,
           UNCHANGED <<nread, nwrite, readopen, writeopen>>,
           Waits(r, "get_sleep")' => Waits(r, "get_sleep"),
           Waits(r, "put_sleep")' => Waits(r, "put_sleep"),
           \A q \in Slots : Waits(r, "get_sleep")' /\ ReaderWaker(q, r) => ReaderWaker(q, r)',
           \A q \in Slots : Waits(r, "put_sleep")' /\ WriterWaker(q, r) => WriterWaker(q, r)'
    PROVE  WaitInv!(r)'
BY DEF WaitInv, Empty, Full

\* Only the holder of the lock is a waker.
LEMMA WakerHasLock ==
    ASSUME LockInv, NEW q \in Slots, NEW r \in Slots, ReaderWaker(q, r) \/ WriterWaker(q, r)
    PROVE  lock = q
BY DEF LockInv, HasLock, ReaderWaker, WriterWaker, Wakes, Waking

\* Reference counts stay within the number of processes.
LEMMA HoldersFinite ==
    ASSUME NEW S \in SUBSET Slots
    PROVE  IsFiniteSet(S) /\ Cardinality(S) \in 0..NPROC
<1>1. IsFiniteSet(Slots) /\ Cardinality(Slots) = NPROC
  BY PipeAssumption, FS_Interval DEF Slots
<1>2. IsFiniteSet(S) /\ Cardinality(S) <= NPROC
  BY <1>1, FS_Subset
<1> QED
  BY <1>2, FS_CardinalityType, PipeAssumption

LEMMA FreeWordRange ==
    ASSUME word \in 0..(WRAP - 1)
    PROVE  FreeWord \in 0..(WRAP - 1) /\ (word > 0 => FreeWord = word - 1)
<1>1. word + WRAP - 1 \in Nat /\ WRAP \in Nat \ {0}
  BY PipeAssumption
<1>2. FreeWord \in 0..(WRAP - 1)
  BY <1>1, ModRange DEF FreeWord
<1>3. ASSUME word > 0 PROVE FreeWord = word - 1
  <2>1. word - 1 \in Nat /\ word - 1 < WRAP /\ (word - 1) + WRAP = word + WRAP - 1
    BY <1>1, <1>3, PipeAssumption
  <2>2. ((word - 1) + WRAP) % WRAP = word - 1
    BY <1>1, <2>1, ModSmall
  <2> QED
    BY <2>1, <2>2 DEF FreeWord
<1> QED
  BY <1>2, <1>3

\* One slot of a wakeup loop: a waiter there is woken, later ones are still to come.
LEMMA proc_wakeup_Step ==
    ASSUME IInv, NEW p \in Slots, proc_wakeup(p)
    PROVE  IInv'
<1> USE PipeAssumption DEF IInv, proc_wakeup, WakeSlot, Waking, At, Running, wvars, pvars, fvars, lvars, hvars
<1>1. TypeOK'
  <2>0. idx[p] \in 1..(NPROC + 1)
    BY DEF TypeOK
  <2>1. idx[p] \in Slots /\ idx[p] + 1 \in 1..(NPROC + 1)
    BY <2>0 DEF Slots
  <2> QED
    BY <2>1 DEF TypeOK
<1>2. LockInv'
  BY ConstantFacts DEF TypeOK, LockInv, HasLock, Waking, Sleeping
<1>3. SleepInv'
  BY DEF TypeOK, SleepInv, Chan, Sleeping, Waking
<1>4. LoopInv'
  BY DEF TypeOK, LockInv, HasLock, LoopInv, Waking, Full
<1>5. RefInv'
  BY DEF RefInv, Holders
<1>6. FdInv'
  BY DEF TypeOK, FdInv, InRead, InWrite, SleepInv
<1>7. CloseInv'
  BY DEF TypeOK, CloseInv
<1>8. WaitInv'
  <2>0. idx[p] \in Slots /\ idx'[p] = idx[p] + 1
    BY DEF TypeOK, Slots
  <2>1. ASSUME NEW r \in Slots PROVE WaitInv!(r)'
    <3>1. /\ Waits(r, "get_sleep")' => Waits(r, "get_sleep")
          /\ Waits(r, "put_sleep")' => Waits(r, "put_sleep")
      BY <2>0, <2>1 DEF TypeOK, Waits
    <3>2. CASE r = idx[p]
      <4>1. Waits(r, "get_sleep")' => Chan(p) # "nread"
        BY <2>0, <3>2 DEF TypeOK, Waits, SleepInv, Chan
      <4>2. Waits(r, "put_sleep")' => Chan(p) # "nwrite"
        BY <2>0, <3>2 DEF TypeOK, Waits, SleepInv, Chan
      <4>3. \A q \in Slots : Waits(r, "get_sleep")' /\ ReaderWaker(q, r) => ReaderWaker(q, r)'
        BY <4>1 DEF TypeOK, ReaderWaker, Wakes, Waking, Chan
      <4>4. \A q \in Slots : Waits(r, "put_sleep")' /\ WriterWaker(q, r) => WriterWaker(q, r)'
        BY <4>2 DEF TypeOK, WriterWaker, Wakes, Waking, Chan
      <4> QED
        BY <2>1, <3>1, <4>3, <4>4, WaitFrame
    <3>3. CASE r # idx[p]
      <4>1. \A q \in Slots : ReaderWaker(q, r) => ReaderWaker(q, r)'
        <5> SUFFICES ASSUME NEW q \in Slots, ReaderWaker(q, r) PROVE ReaderWaker(q, r)'
          OBVIOUS
        <5>1. Chan(q)' = Chan(q) /\ pc'[q] = pc[q]
          BY DEF Chan
        <5>2. idx'[q] <= r \/ ~ (idx[q] <= r)
          <6>1. r \in Nat /\ idx[q] \in Nat /\ (q # p => idx'[q] = idx[q])
            BY <2>1, ConstantFacts, SMTT(30) DEF TypeOK
          <6> QED
            BY <2>0, <3>3, <6>1
        <5> QED
          BY <5>1, <5>2 DEF ReaderWaker, Wakes
      <4>2. \A q \in Slots : WriterWaker(q, r) => WriterWaker(q, r)'
        <5> SUFFICES ASSUME NEW q \in Slots, WriterWaker(q, r) PROVE WriterWaker(q, r)'
          OBVIOUS
        <5>1. Chan(q)' = Chan(q) /\ pc'[q] = pc[q]
          BY DEF Chan
        <5>2. idx'[q] <= r \/ ~ (idx[q] <= r)
          <6>1. r \in Nat /\ idx[q] \in Nat /\ (q # p => idx'[q] = idx[q])
            BY <2>1, ConstantFacts, SMTT(30) DEF TypeOK
          <6> QED
            BY <2>0, <3>3, <6>1
        <5> QED
          BY <5>1, <5>2 DEF WriterWaker, Wakes
      <4> QED
        BY <2>1, <3>1, <4>1, <4>2, WaitFrame
    <3> QED
      BY <3>2, <3>3
  <2> QED
    BY <2>1 DEF WaitInv
<1> QED
  BY <1>1, <1>2, <1>3, <1>4, <1>5, <1>6, <1>7, <1>8

\* The process is asleep for the reason it had when it gave up the lock.
LEMMA proc_sleep_Step ==
    ASSUME IInv, NEW p \in Slots, proc_sleep(p)
    PROVE  IInv'
<1> USE PipeAssumption DEF IInv, proc_sleep, SleepSwitch, Sleeping, At, Running, wvars, pvars, fvars, lvars, hvars
<1>1. TypeOK'
  <2>1. Chan(p) \in Chans
    BY DEF Chan, Chans
  <2> QED
    BY <2>1 DEF TypeOK
<1>2. LockInv'
  BY ConstantFacts DEF TypeOK, LockInv, HasLock, Waking, Sleeping
<1>3. SleepInv'
  BY DEF TypeOK, SleepInv, Chan, Sleeping, Waking
<1>4. LoopInv'
  BY DEF TypeOK, LockInv, HasLock, LoopInv, Waking, Full
<1>5. RefInv'
  BY DEF RefInv, Holders
<1>6. FdInv'
  BY DEF TypeOK, FdInv, InRead, InWrite, SleepInv
<1>7. CloseInv'
  BY DEF TypeOK, CloseInv
<1>8. WaitInv'
  <2>1. ASSUME NEW r \in Slots PROVE WaitInv!(r)'
    <3>1. /\ Waits(r, "get_sleep")' => Waits(r, "get_sleep")
          /\ Waits(r, "put_sleep")' => Waits(r, "put_sleep")
      BY <2>1 DEF TypeOK, Waits, SleepInv
    <3>2. \A q \in Slots : Waits(r, "get_sleep")' /\ ReaderWaker(q, r) => ReaderWaker(q, r)'
      BY <2>1, ConstantFacts DEF TypeOK, ReaderWaker, Wakes, Waking, Chan
    <3>3. \A q \in Slots : Waits(r, "put_sleep")' /\ WriterWaker(q, r) => WriterWaker(q, r)'
      BY <2>1, ConstantFacts DEF TypeOK, WriterWaker, Wakes, Waking, Chan
    <3> QED
      BY <2>1, <3>1, <3>2, <3>3, WaitFrame
  <2> QED
    BY <2>1 DEF WaitInv
<1> QED
  BY <1>1, <1>2, <1>3, <1>4, <1>5, <1>6, <1>7, <1>8

\* The lock is taken again and the condition is tested again.
LEMMA SleepReturn_Step ==
    ASSUME IInv, NEW p \in Slots, SleepReturn(p)
    PROVE  IInv'
<1> USE PipeAssumption DEF IInv, SleepReturn, Acquire, Goto, At, Running, wvars, pvars, fvars, lvars, hvars
<1>1. TypeOK'
  BY DEF TypeOK, Labels, Chans, Ends, Slots
<1>2. LockInv'
  <2>1. PICK l \in {"put", "get_wait"} : lock' = p /\ pc' = [pc EXCEPT ![p] = l]
    OBVIOUS
  <2>2. \A q \in Slots : pc[q] \notin HasLock
    BY ConstantFacts DEF LockInv
  <2> QED
    BY <2>1, <2>2 DEF TypeOK, LockInv, HasLock
<1>3. SleepInv'
  BY SMTT(30) DEF TypeOK, SleepInv, Chan, Sleeping, Waking
<1>4. LoopInv'
  BY DEF TypeOK, LockInv, HasLock, LoopInv, Waking, Full
<1>5. RefInv'
  BY DEF RefInv, Holders
<1>6. FdInv'
  BY SMTT(30) DEF TypeOK, FdInv, InRead, InWrite, SleepInv
<1>7. CloseInv'
  BY DEF TypeOK, CloseInv
<1>8. WaitInv'
  <2>1. ASSUME NEW r \in Slots PROVE WaitInv!(r)'
    <3>1. /\ Waits(r, "get_sleep")' => Waits(r, "get_sleep")
          /\ Waits(r, "put_sleep")' => Waits(r, "put_sleep")
      BY <2>1 DEF TypeOK, Waits, SleepInv
    <3>2. \A q \in Slots : Waits(r, "get_sleep")' /\ ReaderWaker(q, r) => ReaderWaker(q, r)'
      BY <2>1, ConstantFacts DEF TypeOK, ReaderWaker, Wakes, Waking, Chan
    <3>3. \A q \in Slots : Waits(r, "put_sleep")' /\ WriterWaker(q, r) => WriterWaker(q, r)'
      BY <2>1, ConstantFacts DEF TypeOK, WriterWaker, Wakes, Waking, Chan
    <3> QED
      BY <2>1, <3>1, <3>2, <3>3, WaitFrame
  <2> QED
    BY <2>1 DEF WaitInv
<1> QED
  BY <1>1, <1>2, <1>3, <1>4, <1>5, <1>6, <1>7, <1>8

\* The scheduler resumes a process that was woken.
LEMMA DispatchProc_Step ==
    ASSUME IInv, NEW p \in Slots, DispatchProc(p)
    PROVE  IInv'
<1> USE PipeAssumption DEF IInv, DispatchProc, Dispatch, At, Running, wvars, pvars, fvars, lvars, hvars
<1>1. TypeOK'
  BY DEF TypeOK, Labels, Chans, Ends, Slots
<1>2. LockInv'
  BY ConstantFacts DEF TypeOK, LockInv, HasLock, Waking, Sleeping
<1>3. SleepInv'
  BY DEF TypeOK, SleepInv, Chan, Sleeping, Waking
<1>4. LoopInv'
  BY DEF TypeOK, LockInv, HasLock, LoopInv, Waking, Full
<1>5. RefInv'
  BY DEF RefInv, Holders
<1>6. FdInv'
  BY DEF TypeOK, FdInv, InRead, InWrite, SleepInv
<1>7. CloseInv'
  BY DEF TypeOK, CloseInv
<1>8. WaitInv'
  <2>1. ASSUME NEW r \in Slots PROVE WaitInv!(r)'
    <3>1. /\ Waits(r, "get_sleep")' => Waits(r, "get_sleep")
          /\ Waits(r, "put_sleep")' => Waits(r, "put_sleep")
      BY <2>1 DEF TypeOK, Waits, SleepInv
    <3>2. \A q \in Slots : Waits(r, "get_sleep")' /\ ReaderWaker(q, r) => ReaderWaker(q, r)'
      BY <2>1, ConstantFacts DEF TypeOK, ReaderWaker, Wakes, Waking, Chan
    <3>3. \A q \in Slots : Waits(r, "put_sleep")' /\ WriterWaker(q, r) => WriterWaker(q, r)'
      BY <2>1, ConstantFacts DEF TypeOK, WriterWaker, Wakes, Waking, Chan
    <3> QED
      BY <2>1, <3>1, <3>2, <3>3, WaitFrame
  <2> QED
    BY <2>1 DEF WaitInv
<1> QED
  BY <1>1, <1>2, <1>3, <1>4, <1>5, <1>6, <1>7, <1>8

\* The end of a wakeup loop: nobody is left asleep without a reason.
LEMMA Unlock_Step ==
    ASSUME IInv, NEW p \in Slots, Unlock(p)
    PROVE  IInv'
<1> USE PipeAssumption DEF IInv, Unlock, Return, At, Running, wvars, pvars, fvars, lvars, hvars
<1>1. TypeOK'
  BY ConstantFacts DEF TypeOK, Labels, Ends
<1>2. LockInv'
  BY ConstantFacts DEF TypeOK, LockInv, HasLock, Waking, Sleeping
<1>3. SleepInv'
  BY DEF TypeOK, SleepInv, Chan, Sleeping, Waking
<1>4. LoopInv'
  BY DEF TypeOK, LockInv, HasLock, LoopInv, Waking, Full
<1>5. RefInv'
  BY DEF RefInv, Holders
<1>6. FdInv'
  BY DEF TypeOK, FdInv, InRead, InWrite, SleepInv
<1>7. CloseInv'
  BY DEF TypeOK, CloseInv
<1>8. WaitInv'
  <2>1. ASSUME NEW r \in Slots PROVE WaitInv!(r)'
    <3>0. \A q \in Slots : ~ ReaderWaker(q, r) /\ ~ WriterWaker(q, r)
      <4> SUFFICES ASSUME NEW q \in Slots, ReaderWaker(q, r) \/ WriterWaker(q, r) PROVE FALSE
        OBVIOUS
      <4>1. q = p
        BY <2>1, WakerHasLock DEF LockInv, HasLock
      <4>2. ~ (idx[p] <= r)
        BY <2>1, ConstantFacts, SMTT(30) DEF TypeOK
      <4> QED
        BY <4>1, <4>2 DEF ReaderWaker, WriterWaker, Wakes
    <3>1. /\ Waits(r, "get_sleep")' => Waits(r, "get_sleep")
          /\ Waits(r, "put_sleep")' => Waits(r, "put_sleep")
      BY <2>1 DEF TypeOK, Waits, SleepInv
    <3> QED
      BY <2>1, <3>0, <3>1, WaitFrame
  <2> QED
    BY <2>1 DEF WaitInv
<1> QED
  BY <1>1, <1>2, <1>3, <1>4, <1>5, <1>6, <1>7, <1>8

\* A write begins.
LEMMA SysWrite_Step ==
    ASSUME IInv, NEW p \in Slots, NEW n \in 1..MaxLen, SysWrite(p, n)
    PROVE  IInv'
<1> USE PipeAssumption DEF IInv, SysWrite, Goto, At, Running, wvars, pvars, fvars, lvars, hvars
<1>1. TypeOK'
  <2>1. n \in 0..MaxLen /\ asked + n \in 0..MaxBytes
    BY DEF TypeOK
  <2> QED
    BY <2>1 DEF TypeOK, Labels
<1>2. LockInv'
  BY ConstantFacts DEF TypeOK, LockInv, HasLock, Waking, Sleeping
<1>3. SleepInv'
  BY DEF TypeOK, SleepInv, Chan, Sleeping, Waking
<1>4. LoopInv'
  BY DEF TypeOK, LockInv, HasLock, LoopInv, Waking, Full
<1>5. RefInv'
  BY DEF RefInv, Holders
<1>6. FdInv'
  BY DEF TypeOK, FdInv, InRead, InWrite, SleepInv
<1>7. CloseInv'
  BY DEF TypeOK, CloseInv
<1>8. WaitInv'
  <2>1. ASSUME NEW r \in Slots PROVE WaitInv!(r)'
    <3>1. /\ Waits(r, "get_sleep")' => Waits(r, "get_sleep")
          /\ Waits(r, "put_sleep")' => Waits(r, "put_sleep")
      BY <2>1 DEF TypeOK, Waits, SleepInv
    <3>2. \A q \in Slots : Waits(r, "get_sleep")' /\ ReaderWaker(q, r) => ReaderWaker(q, r)'
      BY <2>1, ConstantFacts DEF TypeOK, ReaderWaker, Wakes, Waking, Chan
    <3>3. \A q \in Slots : Waits(r, "put_sleep")' /\ WriterWaker(q, r) => WriterWaker(q, r)'
      BY <2>1, ConstantFacts DEF TypeOK, WriterWaker, Wakes, Waking, Chan
    <3> QED
      BY <2>1, <3>1, <3>2, <3>3, WaitFrame
  <2> QED
    BY <2>1 DEF WaitInv
<1> QED
  BY <1>1, <1>2, <1>3, <1>4, <1>5, <1>6, <1>7, <1>8

\* The writer holds the lock.
LEMMA WriteLock_Step ==
    ASSUME IInv, NEW p \in Slots, WriteLock(p)
    PROVE  IInv'
<1> USE PipeAssumption DEF IInv, WriteLock, Acquire, Goto, At, Running, wvars, pvars, fvars, lvars, hvars
<1>1. TypeOK'
  BY DEF TypeOK, Labels, Chans, Ends, Slots
<1>2. LockInv'
  BY ConstantFacts DEF TypeOK, LockInv, HasLock, Waking, Sleeping
<1>3. SleepInv'
  BY DEF TypeOK, SleepInv, Chan, Sleeping, Waking
<1>4. LoopInv'
  BY DEF TypeOK, LockInv, HasLock, LoopInv, Waking, Full
<1>5. RefInv'
  BY DEF RefInv, Holders
<1>6. FdInv'
  BY DEF TypeOK, FdInv, InRead, InWrite, SleepInv
<1>7. CloseInv'
  BY DEF TypeOK, CloseInv
<1>8. WaitInv'
  <2>1. ASSUME NEW r \in Slots PROVE WaitInv!(r)'
    <3>1. /\ Waits(r, "get_sleep")' => Waits(r, "get_sleep")
          /\ Waits(r, "put_sleep")' => Waits(r, "put_sleep")
      BY <2>1 DEF TypeOK, Waits, SleepInv
    <3>2. \A q \in Slots : Waits(r, "get_sleep")' /\ ReaderWaker(q, r) => ReaderWaker(q, r)'
      BY <2>1, ConstantFacts DEF TypeOK, ReaderWaker, Wakes, Waking, Chan
    <3>3. \A q \in Slots : Waits(r, "put_sleep")' /\ WriterWaker(q, r) => WriterWaker(q, r)'
      BY <2>1, ConstantFacts DEF TypeOK, WriterWaker, Wakes, Waking, Chan
    <3> QED
      BY <2>1, <3>1, <3>2, <3>3, WaitFrame
  <2> QED
    BY <2>1 DEF WaitInv
<1> QED
  BY <1>1, <1>2, <1>3, <1>4, <1>5, <1>6, <1>7, <1>8

\* A byte goes in; the writer will wake the readers.
LEMMA Put_Step ==
    ASSUME IInv, NEW p \in Slots, NEW b \in Bytes, Put(p, b)
    PROVE  IInv'
<1> USE PipeAssumption DEF IInv, Put, At, Running, wvars, pvars, fvars, lvars, hvars
<1>1. TypeOK'
  <2>0. nwrite \in Nat /\ i[p] \in 0..MaxLen /\ len[p] \in 0..MaxLen
    BY DEF TypeOK
  <2>1. /\ nwrite % SIZE \in 0..(SIZE - 1)
        /\ (nwrite + 1) % WRAP \in 0..(WRAP - 1)
        /\ i[p] + 1 \in 0..MaxLen
    <3>1. nwrite % SIZE \in 0..(SIZE - 1) /\ (nwrite + 1) % WRAP \in 0..(WRAP - 1)
      BY <2>0, IndexRange
    <3>2. i[p] + 1 \in 0..MaxLen
      BY <2>0
    <3> QED
      BY <3>1, <3>2
  <2>2. sent' \in Seq(Bytes)
    BY <2>1 DEF TypeOK
  <2>3. data' \in [0..(SIZE - 1) -> Bytes \cup {NULL}] /\ nwrite' \in 0..(WRAP - 1)
    BY <2>1 DEF TypeOK
  <2>4. i' \in [Slots -> 0..MaxLen]
    BY <2>1 DEF TypeOK
  <2> QED
    BY <2>2, <2>3, <2>4 DEF TypeOK
<1>2. LockInv'
  BY ConstantFacts DEF TypeOK, LockInv, HasLock, Waking, Sleeping
<1>3. SleepInv'
  BY DEF TypeOK, SleepInv, Chan, Sleeping, Waking
<1>4. LoopInv'
  BY DEF TypeOK, LockInv, HasLock, LoopInv, Waking, Full
<1>5. RefInv'
  BY DEF RefInv, Holders
<1>6. FdInv'
  BY DEF TypeOK, FdInv, InRead, InWrite, SleepInv
<1>7. CloseInv'
  BY DEF TypeOK, CloseInv
<1>8. WaitInv'
  <2>1. ASSUME NEW r \in Slots PROVE WaitInv!(r)'
    <3>1. ReaderWaker(p, r)'
      BY DEF ReaderWaker
    <3>2. lock = p
      BY DEF LockInv, HasLock
    <3>3. ~ Waits(r, "put_sleep")
      <4>1. \A q \in Slots : ~ WriterWaker(q, r)
        BY <2>1, <3>2, WakerHasLock DEF WriterWaker, Wakes, Waking
      <4> QED
        BY <2>1, <4>1 DEF WaitInv
    <3>4. ~ Waits(r, "put_sleep")'
      BY <3>3 DEF Waits
    <3> QED
      BY <2>1, <3>1, <3>4 DEF WaitInv
  <2> QED
    BY <2>1 DEF WaitInv
<1> QED
  BY <1>1, <1>2, <1>3, <1>4, <1>5, <1>6, <1>7, <1>8

\* A writer that gives up leaves no reader behind, since nobody can read.
LEMMA WriteError_Step ==
    ASSUME IInv, NEW p \in Slots, WriteError(p)
    PROVE  IInv'
<1> USE PipeAssumption DEF IInv, WriteError, Return, At, Running, wvars, pvars, fvars, lvars, hvars
<1>1. TypeOK'
  BY ConstantFacts DEF TypeOK, Labels, Ends
<1>2. LockInv'
  BY ConstantFacts DEF TypeOK, LockInv, HasLock, Waking, Sleeping
<1>3. SleepInv'
  BY DEF TypeOK, SleepInv, Chan, Sleeping, Waking
<1>4. LoopInv'
  BY DEF TypeOK, LockInv, HasLock, LoopInv, Waking, Full
<1>5. RefInv'
  BY DEF RefInv, Holders
<1>6. FdInv'
  BY DEF TypeOK, FdInv, InRead, InWrite, SleepInv
<1>7. CloseInv'
  BY DEF TypeOK, CloseInv
<1>8. WaitInv'
  <2>1. ASSUME NEW r \in Slots PROVE WaitInv!(r)'
    <3>1. /\ Waits(r, "get_sleep")' => Waits(r, "get_sleep")
          /\ Waits(r, "put_sleep")' => Waits(r, "put_sleep")
      BY <2>1 DEF TypeOK, Waits, SleepInv
    <3>2. \A q \in Slots : Waits(r, "get_sleep")' /\ ReaderWaker(q, r) => ReaderWaker(q, r)'
      BY <2>1, ConstantFacts DEF TypeOK, ReaderWaker, Wakes, Waking, Chan, Waits, FdInv, InRead
    <3>3. \A q \in Slots : Waits(r, "put_sleep")' /\ WriterWaker(q, r) => WriterWaker(q, r)'
      BY <2>1, ConstantFacts DEF TypeOK, WriterWaker, Wakes, Waking, Chan, Waits, FdInv, InRead
    <3> QED
      BY <2>1, <3>1, <3>2, <3>3, WaitFrame
  <2> QED
    BY <2>1 DEF WaitInv
<1> QED
  BY <1>1, <1>2, <1>3, <1>4, <1>5, <1>6, <1>7, <1>8

\* The writer found the pipe full.
LEMMA WriteWait_Step ==
    ASSUME IInv, NEW p \in Slots, WriteWait(p)
    PROVE  IInv'
<1> USE PipeAssumption DEF IInv, WriteWait, Goto, At, Running, wvars, pvars, fvars, lvars, hvars
<1>1. TypeOK'
  BY DEF TypeOK, Labels, Chans, Ends, Slots
<1>2. LockInv'
  BY ConstantFacts DEF TypeOK, LockInv, HasLock, Waking, Sleeping
<1>3. SleepInv'
  BY DEF TypeOK, SleepInv, Chan, Sleeping, Waking
<1>4. LoopInv'
  BY DEF TypeOK, LockInv, HasLock, LoopInv, Waking, Full
<1>5. RefInv'
  BY DEF RefInv, Holders
<1>6. FdInv'
  BY DEF TypeOK, FdInv, InRead, InWrite, SleepInv
<1>7. CloseInv'
  BY DEF TypeOK, CloseInv
<1>8. WaitInv'
  <2>1. ASSUME NEW r \in Slots PROVE WaitInv!(r)'
    <3>1. /\ Waits(r, "get_sleep")' => Waits(r, "get_sleep")
          /\ Waits(r, "put_sleep")' => Waits(r, "put_sleep")
      BY <2>1 DEF TypeOK, Waits, SleepInv
    <3>2. \A q \in Slots : Waits(r, "get_sleep")' /\ ReaderWaker(q, r) => ReaderWaker(q, r)'
      BY <2>1, ConstantFacts DEF TypeOK, ReaderWaker, Wakes, Waking, Chan, LoopInv
    <3>3. \A q \in Slots : Waits(r, "put_sleep")' /\ WriterWaker(q, r) => WriterWaker(q, r)'
      BY <2>1, ConstantFacts DEF TypeOK, WriterWaker, Wakes, Waking, Chan, LoopInv
    <3> QED
      BY <2>1, <3>1, <3>2, <3>3, WaitFrame
  <2> QED
    BY <2>1 DEF WaitInv
<1> QED
  BY <1>1, <1>2, <1>3, <1>4, <1>5, <1>6, <1>7, <1>8

\* The writer gives up the lock with the pipe still full.
LEMMA WriteSleep_Step ==
    ASSUME IInv, NEW p \in Slots, WriteSleep(p)
    PROVE  IInv'
<1> USE PipeAssumption DEF IInv, WriteSleep, GiveUp, SleepEnter, Goto, At, Running, wvars, pvars, fvars, lvars, hvars
<1>1. TypeOK'
  BY ConstantFacts DEF TypeOK, Labels
<1>2. LockInv'
  BY ConstantFacts DEF TypeOK, LockInv, HasLock, Waking, Sleeping
<1>3. SleepInv'
  BY DEF TypeOK, SleepInv, Chan, Sleeping, Waking
<1>4. LoopInv'
  BY DEF TypeOK, LockInv, HasLock, LoopInv, Waking, Full
<1>5. RefInv'
  BY DEF RefInv, Holders
<1>6. FdInv'
  BY DEF TypeOK, FdInv, InRead, InWrite, SleepInv
<1>7. CloseInv'
  BY DEF TypeOK, CloseInv
<1>8. WaitInv'
  <2>1. ASSUME NEW r \in Slots \ {p} PROVE WaitInv!(r)'
    <3>0. \A q \in Slots : ~ ReaderWaker(q, r) /\ ~ WriterWaker(q, r)
      <4> SUFFICES ASSUME NEW q \in Slots, ReaderWaker(q, r) \/ WriterWaker(q, r) PROVE FALSE
        OBVIOUS
      <4>1. q = p
        BY <2>1, WakerHasLock DEF LockInv, HasLock
      <4>2. ~ (idx[p] <= r)
        BY <2>1, ConstantFacts, SMTT(30) DEF TypeOK
      <4> QED
        BY <4>1, <4>2 DEF ReaderWaker, WriterWaker, Wakes
    <3>1. /\ Waits(r, "get_sleep")' => Waits(r, "get_sleep")
          /\ Waits(r, "put_sleep")' => Waits(r, "put_sleep")
      BY <2>1 DEF TypeOK, Waits
    <3> QED
      BY <2>1, <3>0, <3>1, WaitFrame
  <2>2. WaitInv!(p)'
    BY DEF TypeOK, LoopInv, Waits, Full
  <2> QED
    BY <2>1, <2>2 DEF WaitInv
<1> QED
  BY <1>1, <1>2, <1>3, <1>4, <1>5, <1>6, <1>7, <1>8

\* The writer starts to wake the readers.
LEMMA WriteDone_Step ==
    ASSUME IInv, NEW p \in Slots, WriteDone(p)
    PROVE  IInv'
<1> USE PipeAssumption DEF IInv, WriteDone, Goto, At, Running, wvars, pvars, fvars, lvars, hvars
<1>1. TypeOK'
  BY DEF TypeOK, Labels, Chans, Ends, Slots
<1>2. LockInv'
  BY ConstantFacts DEF TypeOK, LockInv, HasLock, Waking, Sleeping
<1>3. SleepInv'
  BY DEF TypeOK, SleepInv, Chan, Sleeping, Waking
<1>4. LoopInv'
  BY DEF TypeOK, LockInv, HasLock, LoopInv, Waking, Full
<1>5. RefInv'
  BY DEF RefInv, Holders
<1>6. FdInv'
  BY DEF TypeOK, FdInv, InRead, InWrite, SleepInv
<1>7. CloseInv'
  BY DEF TypeOK, CloseInv
<1>8. WaitInv'
  <2>1. ASSUME NEW r \in Slots PROVE WaitInv!(r)'
    <3>1. /\ Waits(r, "get_sleep")' => Waits(r, "get_sleep")
          /\ Waits(r, "put_sleep")' => Waits(r, "put_sleep")
      BY <2>1 DEF TypeOK, Waits, SleepInv
    <3>2. \A q \in Slots : Waits(r, "get_sleep")' /\ ReaderWaker(q, r) => ReaderWaker(q, r)'
      BY <2>1, ConstantFacts DEF TypeOK, ReaderWaker, Wakes, Waking, Chan, LoopInv
    <3>3. \A q \in Slots : Waits(r, "put_sleep")' /\ WriterWaker(q, r) => WriterWaker(q, r)'
      BY <2>1, ConstantFacts DEF TypeOK, WriterWaker, Wakes, Waking, Chan, LoopInv
    <3> QED
      BY <2>1, <3>1, <3>2, <3>3, WaitFrame
  <2> QED
    BY <2>1 DEF WaitInv
<1> QED
  BY <1>1, <1>2, <1>3, <1>4, <1>5, <1>6, <1>7, <1>8

\* A read begins.
LEMMA SysRead_Step ==
    ASSUME IInv, NEW p \in Slots, NEW n \in 1..MaxLen, SysRead(p, n)
    PROVE  IInv'
<1> USE PipeAssumption DEF IInv, SysRead, Goto, At, Running, wvars, pvars, fvars, lvars, hvars
<1>1. TypeOK'
  <2>1. n \in 0..MaxLen
    BY DEF TypeOK
  <2> QED
    BY <2>1 DEF TypeOK, Labels
<1>2. LockInv'
  BY ConstantFacts DEF TypeOK, LockInv, HasLock, Waking, Sleeping
<1>3. SleepInv'
  BY DEF TypeOK, SleepInv, Chan, Sleeping, Waking
<1>4. LoopInv'
  BY DEF TypeOK, LockInv, HasLock, LoopInv, Waking, Full
<1>5. RefInv'
  BY DEF RefInv, Holders
<1>6. FdInv'
  BY DEF TypeOK, FdInv, InRead, InWrite, SleepInv
<1>7. CloseInv'
  BY DEF TypeOK, CloseInv
<1>8. WaitInv'
  <2>1. ASSUME NEW r \in Slots PROVE WaitInv!(r)'
    <3>1. /\ Waits(r, "get_sleep")' => Waits(r, "get_sleep")
          /\ Waits(r, "put_sleep")' => Waits(r, "put_sleep")
      BY <2>1 DEF TypeOK, Waits, SleepInv
    <3>2. \A q \in Slots : Waits(r, "get_sleep")' /\ ReaderWaker(q, r) => ReaderWaker(q, r)'
      BY <2>1, ConstantFacts DEF TypeOK, ReaderWaker, Wakes, Waking, Chan
    <3>3. \A q \in Slots : Waits(r, "put_sleep")' /\ WriterWaker(q, r) => WriterWaker(q, r)'
      BY <2>1, ConstantFacts DEF TypeOK, WriterWaker, Wakes, Waking, Chan
    <3> QED
      BY <2>1, <3>1, <3>2, <3>3, WaitFrame
  <2> QED
    BY <2>1 DEF WaitInv
<1> QED
  BY <1>1, <1>2, <1>3, <1>4, <1>5, <1>6, <1>7, <1>8

\* The reader holds the lock.
LEMMA ReadLock_Step ==
    ASSUME IInv, NEW p \in Slots, ReadLock(p)
    PROVE  IInv'
<1> USE PipeAssumption DEF IInv, ReadLock, Acquire, Goto, At, Running, wvars, pvars, fvars, lvars, hvars
<1>1. TypeOK'
  BY DEF TypeOK, Labels, Chans, Ends, Slots
<1>2. LockInv'
  BY ConstantFacts DEF TypeOK, LockInv, HasLock, Waking, Sleeping
<1>3. SleepInv'
  BY DEF TypeOK, SleepInv, Chan, Sleeping, Waking
<1>4. LoopInv'
  BY DEF TypeOK, LockInv, HasLock, LoopInv, Waking, Full
<1>5. RefInv'
  BY DEF RefInv, Holders
<1>6. FdInv'
  BY DEF TypeOK, FdInv, InRead, InWrite, SleepInv
<1>7. CloseInv'
  BY DEF TypeOK, CloseInv
<1>8. WaitInv'
  <2>1. ASSUME NEW r \in Slots PROVE WaitInv!(r)'
    <3>1. /\ Waits(r, "get_sleep")' => Waits(r, "get_sleep")
          /\ Waits(r, "put_sleep")' => Waits(r, "put_sleep")
      BY <2>1 DEF TypeOK, Waits, SleepInv
    <3>2. \A q \in Slots : Waits(r, "get_sleep")' /\ ReaderWaker(q, r) => ReaderWaker(q, r)'
      BY <2>1, ConstantFacts DEF TypeOK, ReaderWaker, Wakes, Waking, Chan
    <3>3. \A q \in Slots : Waits(r, "put_sleep")' /\ WriterWaker(q, r) => WriterWaker(q, r)'
      BY <2>1, ConstantFacts DEF TypeOK, WriterWaker, Wakes, Waking, Chan
    <3> QED
      BY <2>1, <3>1, <3>2, <3>3, WaitFrame
  <2> QED
    BY <2>1 DEF WaitInv
<1> QED
  BY <1>1, <1>2, <1>3, <1>4, <1>5, <1>6, <1>7, <1>8

\* The reader gives up the lock with the pipe still empty.
LEMMA ReadSleep_Step ==
    ASSUME IInv, NEW p \in Slots, ReadSleep(p)
    PROVE  IInv'
<1> USE PipeAssumption DEF IInv, ReadSleep, GiveUp, SleepEnter, Goto, At, Running, wvars, pvars, fvars, lvars, hvars
<1>1. TypeOK'
  BY ConstantFacts DEF TypeOK, Labels
<1>2. LockInv'
  BY ConstantFacts DEF TypeOK, LockInv, HasLock, Waking, Sleeping
<1>3. SleepInv'
  BY DEF TypeOK, SleepInv, Chan, Sleeping, Waking
<1>4. LoopInv'
  BY DEF TypeOK, LockInv, HasLock, LoopInv, Waking, Full
<1>5. RefInv'
  BY DEF RefInv, Holders
<1>6. FdInv'
  BY DEF TypeOK, FdInv, InRead, InWrite, SleepInv
<1>7. CloseInv'
  BY DEF TypeOK, CloseInv
<1>8. WaitInv'
  <2>1. ASSUME NEW r \in Slots \ {p} PROVE WaitInv!(r)'
    <3>1. /\ Waits(r, "get_sleep")' => Waits(r, "get_sleep")
          /\ Waits(r, "put_sleep")' => Waits(r, "put_sleep")
      BY <2>1 DEF TypeOK, Waits
    <3>2. \A q \in Slots : Waits(r, "get_sleep")' /\ ReaderWaker(q, r) => ReaderWaker(q, r)'
      BY <2>1, ConstantFacts DEF TypeOK, ReaderWaker, Wakes, Waking, Chan
    <3>3. \A q \in Slots : Waits(r, "put_sleep")' /\ WriterWaker(q, r) => WriterWaker(q, r)'
      BY <2>1, ConstantFacts DEF TypeOK, WriterWaker, Wakes, Waking, Chan
    <3> QED
      BY <2>1, <3>1, <3>2, <3>3, WaitFrame
  <2>2. WaitInv!(p)'
    BY DEF TypeOK, Waits, Empty
  <2> QED
    BY <2>1, <2>2 DEF WaitInv
<1> QED
  BY <1>1, <1>2, <1>3, <1>4, <1>5, <1>6, <1>7, <1>8

\* The reader found bytes, or the end of the file.
LEMMA ReadReady_Step ==
    ASSUME IInv, NEW p \in Slots, ReadReady(p)
    PROVE  IInv'
<1> USE PipeAssumption DEF IInv, ReadReady, Goto, At, Running, wvars, pvars, fvars, lvars, hvars
<1>1. TypeOK'
  BY DEF TypeOK, Labels, Chans, Ends, Slots
<1>2. LockInv'
  BY ConstantFacts DEF TypeOK, LockInv, HasLock, Waking, Sleeping
<1>3. SleepInv'
  BY DEF TypeOK, SleepInv, Chan, Sleeping, Waking
<1>4. LoopInv'
  BY DEF TypeOK, LockInv, HasLock, LoopInv, Waking, Full
<1>5. RefInv'
  BY DEF RefInv, Holders
<1>6. FdInv'
  BY DEF TypeOK, FdInv, InRead, InWrite, SleepInv
<1>7. CloseInv'
  BY DEF TypeOK, CloseInv
<1>8. WaitInv'
  <2>1. ASSUME NEW r \in Slots PROVE WaitInv!(r)'
    <3>1. /\ Waits(r, "get_sleep")' => Waits(r, "get_sleep")
          /\ Waits(r, "put_sleep")' => Waits(r, "put_sleep")
      BY <2>1 DEF TypeOK, Waits, SleepInv
    <3>2. \A q \in Slots : Waits(r, "get_sleep")' /\ ReaderWaker(q, r) => ReaderWaker(q, r)'
      BY <2>1, ConstantFacts DEF TypeOK, ReaderWaker, Wakes, Waking, Chan
    <3>3. \A q \in Slots : Waits(r, "put_sleep")' /\ WriterWaker(q, r) => WriterWaker(q, r)'
      BY <2>1, ConstantFacts DEF TypeOK, WriterWaker, Wakes, Waking, Chan
    <3> QED
      BY <2>1, <3>1, <3>2, <3>3, WaitFrame
  <2> QED
    BY <2>1 DEF WaitInv
<1> QED
  BY <1>1, <1>2, <1>3, <1>4, <1>5, <1>6, <1>7, <1>8

\* A byte comes out; the reader will wake the writers.
LEMMA Get_Step ==
    ASSUME IInv, NEW p \in Slots, Get(p)
    PROVE  IInv'
<1> USE PipeAssumption DEF IInv, Get, At, Running, wvars, pvars, fvars, lvars, hvars
<1>1. TypeOK'
  <2>0. nread \in Nat /\ i[p] \in 0..MaxLen /\ len[p] \in 0..MaxLen
    BY DEF TypeOK
  <2>1. /\ nread % SIZE \in 0..(SIZE - 1)
        /\ (nread + 1) % WRAP \in 0..(WRAP - 1)
        /\ i[p] + 1 \in 0..MaxLen
    <3>1. nread % SIZE \in 0..(SIZE - 1) /\ (nread + 1) % WRAP \in 0..(WRAP - 1)
      BY <2>0, IndexRange
    <3>2. i[p] + 1 \in 0..MaxLen
      BY <2>0
    <3> QED
      BY <3>1, <3>2
  <2>2. got' \in Seq(Bytes \cup {NULL})
    BY <2>1 DEF TypeOK
  <2>3. data' \in [0..(SIZE - 1) -> Bytes \cup {NULL}] /\ nread' \in 0..(WRAP - 1)
    BY <2>1 DEF TypeOK
  <2>4. i' \in [Slots -> 0..MaxLen]
    BY <2>1 DEF TypeOK
  <2> QED
    BY <2>2, <2>3, <2>4 DEF TypeOK
<1>2. LockInv'
  BY ConstantFacts DEF TypeOK, LockInv, HasLock, Waking, Sleeping
<1>3. SleepInv'
  BY DEF TypeOK, SleepInv, Chan, Sleeping, Waking
<1>4. LoopInv'
  BY DEF TypeOK, LockInv, HasLock, LoopInv, Waking, Full
<1>5. RefInv'
  BY DEF RefInv, Holders
<1>6. FdInv'
  BY DEF TypeOK, FdInv, InRead, InWrite, SleepInv
<1>7. CloseInv'
  BY DEF TypeOK, CloseInv
<1>8. WaitInv'
  <2>1. ASSUME NEW r \in Slots PROVE WaitInv!(r)'
    <3>1. WriterWaker(p, r)'
      BY DEF WriterWaker
    <3>2. lock = p
      BY DEF LockInv, HasLock
    <3>3. ~ Waits(r, "get_sleep")
      <4>1. \A q \in Slots : ~ ReaderWaker(q, r)
        BY <2>1, <3>2, WakerHasLock DEF ReaderWaker, Wakes, Waking
      <4> QED
        BY <2>1, <4>1 DEF WaitInv
    <3>4. ~ Waits(r, "get_sleep")'
      BY <3>3 DEF Waits
    <3> QED
      BY <2>1, <3>1, <3>4 DEF WaitInv
  <2> QED
    BY <2>1 DEF WaitInv
<1> QED
  BY <1>1, <1>2, <1>3, <1>4, <1>5, <1>6, <1>7, <1>8

\* The reader starts to wake the writers.
LEMMA ReadDone_Step ==
    ASSUME IInv, NEW p \in Slots, ReadDone(p)
    PROVE  IInv'
<1> USE PipeAssumption DEF IInv, ReadDone, Goto, At, Running, wvars, pvars, fvars, lvars, hvars
<1>1. TypeOK'
  BY DEF TypeOK, Labels, Chans, Ends, Slots
<1>2. LockInv'
  BY ConstantFacts DEF TypeOK, LockInv, HasLock, Waking, Sleeping
<1>3. SleepInv'
  BY DEF TypeOK, SleepInv, Chan, Sleeping, Waking
<1>4. LoopInv'
  BY DEF TypeOK, LockInv, HasLock, LoopInv, Waking, Full
<1>5. RefInv'
  BY DEF RefInv, Holders
<1>6. FdInv'
  BY DEF TypeOK, FdInv, InRead, InWrite, SleepInv
<1>7. CloseInv'
  BY DEF TypeOK, CloseInv
<1>8. WaitInv'
  <2>1. ASSUME NEW r \in Slots PROVE WaitInv!(r)'
    <3>1. /\ Waits(r, "get_sleep")' => Waits(r, "get_sleep")
          /\ Waits(r, "put_sleep")' => Waits(r, "put_sleep")
      BY <2>1 DEF TypeOK, Waits, SleepInv
    <3>2. \A q \in Slots : Waits(r, "get_sleep")' /\ ReaderWaker(q, r) => ReaderWaker(q, r)'
      BY <2>1, ConstantFacts DEF TypeOK, ReaderWaker, Wakes, Waking, Chan, LoopInv
    <3>3. \A q \in Slots : Waits(r, "put_sleep")' /\ WriterWaker(q, r) => WriterWaker(q, r)'
      BY <2>1, ConstantFacts DEF TypeOK, WriterWaker, Wakes, Waking, Chan, LoopInv
    <3> QED
      BY <2>1, <3>1, <3>2, <3>3, WaitFrame
  <2> QED
    BY <2>1 DEF WaitInv
<1> QED
  BY <1>1, <1>2, <1>3, <1>4, <1>5, <1>6, <1>7, <1>8

\* A child inherits descriptors, each counted.
LEMMA Fork_Step ==
    ASSUME IInv, NEW p \in Slots, NEW q \in Slots, Fork(p, q)
    PROVE  IInv'
<1> USE PipeAssumption DEF IInv, Fork, At, Running, wvars, pvars, fvars, lvars, hvars
<1>a. \A e \in Ends : ref'[e] = Cardinality(Holders(e)')
  <2> SUFFICES ASSUME NEW e \in Ends PROVE ref'[e] = Cardinality(Holders(e)')
    OBVIOUS
  <2>1. IsFiniteSet(Holders(e)) /\ q \notin Holders(e)
    BY HoldersFinite, Holders(e) \in SUBSET Slots DEF SleepInv, Holders
  <2>2. CASE e \in fds[p]
    <3>1. Holders(e)' = Holders(e) \cup {q}
      BY <2>2 DEF Holders, TypeOK
    <3>2. Cardinality(Holders(e) \cup {q}) = Cardinality(Holders(e)) + 1
      BY <2>1, FS_AddElement
    <3> QED
      BY <2>2, <3>1, <3>2 DEF RefInv
  <2>3. CASE e \notin fds[p]
    <3>1. Holders(e)' = Holders(e)
      BY <2>1, <2>3 DEF Holders, TypeOK
    <3> QED
      BY <2>3, <3>1 DEF RefInv
  <2> QED
    BY <2>2, <2>3
<1>b. ref' \in [Ends -> 0..NPROC]
  <2>1. \A e \in Ends : Holders(e)' \in SUBSET Slots
    BY DEF Holders
  <2>2. \A e \in Ends : Cardinality(Holders(e)') \in 0..NPROC
    BY <2>1, HoldersFinite
  <2> QED
    BY <1>a, <2>2
<1>1. TypeOK'
  <2>1. fds' \in [Slots -> SUBSET Ends] /\ state' \in [Slots -> {"UNUSED", "RUNNABLE", "RUNNING", "SLEEPING"}]
    BY DEF TypeOK
  <2> QED
    BY <1>b, <2>1 DEF TypeOK
<1>2. LockInv'
  BY ConstantFacts DEF TypeOK, LockInv, HasLock, Waking, Sleeping
<1>3. SleepInv'
  BY DEF TypeOK, SleepInv, Chan, Sleeping, Waking
<1>4. LoopInv'
  BY DEF TypeOK, LockInv, HasLock, LoopInv, Waking, Full
<1>5. RefInv'
  BY <1>a DEF RefInv, Holders
<1>6. FdInv'
  BY DEF TypeOK, FdInv, InRead, InWrite, SleepInv
<1>7. CloseInv'
  <2>1. \A e \in Ends : ref[e] \in Nat /\ (ref[e] > 0 => ref'[e] > 0)
    BY DEF TypeOK
  <2>2. (ref["r"] > 0 => ref'["r"] > 0) /\ (ref["w"] > 0 => ref'["w"] > 0)
    BY <2>1 DEF Ends
  <2> QED
    BY <2>2 DEF CloseInv
<1>8. WaitInv'
  <2>1. ASSUME NEW r \in Slots PROVE WaitInv!(r)'
    <3>1. /\ Waits(r, "get_sleep")' => Waits(r, "get_sleep")
          /\ Waits(r, "put_sleep")' => Waits(r, "put_sleep")
      BY <2>1 DEF TypeOK, Waits, SleepInv
    <3>2. \A x \in Slots : Waits(r, "get_sleep")' /\ ReaderWaker(x, r) => ReaderWaker(x, r)'
      BY <2>1, ConstantFacts DEF TypeOK, ReaderWaker, Wakes, Waking, Chan
    <3>3. \A x \in Slots : Waits(r, "put_sleep")' /\ WriterWaker(x, r) => WriterWaker(x, r)'
      BY <2>1, ConstantFacts DEF TypeOK, WriterWaker, Wakes, Waking, Chan
    <3> QED
      BY <2>1, <3>1, <3>2, <3>3, WaitFrame
  <2> QED
    BY <2>1 DEF WaitInv
<1> QED
  BY <1>1, <1>2, <1>3, <1>4, <1>5, <1>6, <1>7, <1>8

\* A descriptor goes; the last one closes its end.
LEMMA file_close_Step ==
    ASSUME IInv, NEW p \in Slots, NEW e \in Ends, file_close(p, e)
    PROVE  IInv'
<1> USE PipeAssumption DEF IInv, file_close, Goto, At, Running, wvars, pvars, fvars, lvars, hvars
<1>a. /\ \A f \in Ends : ref'[f] = Cardinality(Holders(f)')
      /\ ref[e] = 1 => Holders(e)' = {}
  <2>1. IsFiniteSet(Holders(e)) /\ p \in Holders(e)
    BY HoldersFinite, Holders(e) \in SUBSET Slots DEF Holders
  <2>2. Holders(e)' = Holders(e) \ {p}
    BY DEF Holders, TypeOK
  <2>3. /\ Cardinality(Holders(e) \ {p}) = Cardinality(Holders(e)) - 1
        /\ IsFiniteSet(Holders(e) \ {p})
    BY <2>1, FS_RemoveElement
  <2>4. ref'[e] = Cardinality(Holders(e)')
    BY <2>2, <2>3 DEF RefInv, TypeOK
  <2>5. ASSUME NEW f \in Ends \ {e} PROVE ref'[f] = Cardinality(Holders(f)')
    <3>1. Holders(f)' = Holders(f)
      BY <2>5 DEF Holders, TypeOK
    <3> QED
      BY <2>5, <3>1 DEF RefInv, TypeOK
  <2>6. ASSUME ref[e] = 1 PROVE Holders(e)' = {}
    <3>1. Cardinality(Holders(e) \ {p}) = 0
      BY <2>3, <2>6 DEF RefInv
    <3> QED
      BY <2>2, <2>3, <3>1, FS_EmptySet
  <2> QED
    BY <2>4, <2>5, <2>6
<1>b. ref' \in [Ends -> 0..NPROC]
  <2>1. \A f \in Ends : Holders(f)' \in SUBSET Slots
    BY DEF Holders
  <2>2. \A f \in Ends : Cardinality(Holders(f)') \in 0..NPROC
    BY <2>1, HoldersFinite
  <2>3. ref' = [f \in Ends |-> ref'[f]]
    BY DEF TypeOK
  <2>4. \A f \in Ends : ref'[f] \in 0..NPROC
    BY <1>a, <2>2
  <2> QED
    BY <2>3, <2>4
<1>1. TypeOK'
  <2>1. fds' \in [Slots -> SUBSET Ends] /\ pc' \in [Slots -> Labels] /\ end' \in [Slots -> Ends \cup {NULL}]
    BY DEF TypeOK, Labels
  <2> QED
    BY <1>b, <2>1 DEF TypeOK
<1>2. LockInv'
  BY ConstantFacts, SMTT(30) DEF TypeOK, LockInv, HasLock, Waking, Sleeping
<1>3. SleepInv'
  BY DEF TypeOK, SleepInv, Chan, Sleeping, Waking
<1>4. LoopInv'
  BY DEF TypeOK, LockInv, HasLock, LoopInv, Waking, Full
<1>5. RefInv'
  BY <1>a DEF RefInv, Holders
<1>6. FdInv'
  <2>1. \A q \in Slots : fds'[q] \subseteq fds[q] /\ (q # p => fds'[q] = fds[q])
    BY DEF TypeOK
  <2>2. ref[e] = 1 => \A q \in Slots : e \notin fds'[q]
    BY <1>a DEF Holders
  <2>3. ASSUME NEW q \in Slots \ {p}
        PROVE  /\ InRead(q)' => "r" \in fds'[q]
               /\ InWrite(q)' => "w" \in fds'[q]
               /\ pc'[q] \in {"close", "close_wake", "close_test"} =>
                     end'[q] \in Ends /\ \A x \in Slots : end'[q] \notin fds'[x]
    <3>1. pc'[q] = pc[q] /\ end'[q] = end[q] /\ fds'[q] = fds[q]
      BY <2>1, <2>3 DEF TypeOK
    <3>2. FdInv!1!(q)
      BY <2>3 DEF FdInv
    <3>3. \A x \in Slots : end[q] \notin fds[x] => end[q] \notin fds'[x]
      BY <2>1
    <3> QED
      BY <3>1, <3>2, <3>3 DEF InRead, InWrite
  <2>4. /\ ~ InRead(p)' /\ ~ InWrite(p)'
        /\ pc'[p] \in {"close", "close_wake", "close_test"} =>
              end'[p] \in Ends /\ \A x \in Slots : end'[p] \notin fds'[x]
    BY <2>1, <2>2, SMTT(30) DEF TypeOK, InRead, InWrite
  <2>5. /\ ~ readopen' => \A q \in Slots : "r" \notin fds'[q]
        /\ ~ writeopen' => \A q \in Slots : "w" \notin fds'[q]
    BY <2>1 DEF FdInv
  <2> QED
    BY <2>3, <2>4, <2>5 DEF FdInv
<1>7. CloseInv'
  <2>1. \A f \in Ends : ref[f] \in Nat /\ (ref[f] > 0 => ref'[f] > 0 \/ (f = e /\ ref[e] = 1))
    BY DEF TypeOK, Ends
  <2>2. \A q \in Slots : pc[q] \in {"close", "close_wake", "close_test"} => pc'[q] = pc[q] /\ end'[q] = end[q]
    BY DEF TypeOK
  <2>3. ref[e] = 1 => pc'[p] = "close" /\ end'[p] = e
    BY DEF TypeOK
  <2> QED
    BY <2>1, <2>2, <2>3 DEF CloseInv, Ends
<1>8. WaitInv'
  <2>1. ASSUME NEW r \in Slots PROVE WaitInv!(r)'
    <3>1. /\ Waits(r, "get_sleep")' => Waits(r, "get_sleep")
          /\ Waits(r, "put_sleep")' => Waits(r, "put_sleep")
      BY <2>1 DEF TypeOK, Waits, SleepInv
    <3>2. \A q \in Slots : Waits(r, "get_sleep")' /\ ReaderWaker(q, r) => ReaderWaker(q, r)'
      BY <2>1, ConstantFacts DEF TypeOK, ReaderWaker, Wakes, Waking, Chan
    <3>3. \A q \in Slots : Waits(r, "put_sleep")' /\ WriterWaker(q, r) => WriterWaker(q, r)'
      BY <2>1, ConstantFacts DEF TypeOK, WriterWaker, Wakes, Waking, Chan
    <3> QED
      BY <2>1, <3>1, <3>2, <3>3, WaitFrame
  <2> QED
    BY <2>1 DEF WaitInv
<1> QED
  BY <1>1, <1>2, <1>3, <1>4, <1>5, <1>6, <1>7, <1>8

\* An end is closed under the lock, and its sleepers will be woken.
LEMMA pipe_close_Step ==
    ASSUME IInv, NEW p \in Slots, pipe_close(p)
    PROVE  IInv'
<1> USE PipeAssumption DEF IInv, pipe_close, Acquire, Goto, At, Running, wvars, pvars, fvars, lvars, hvars
<1>1. TypeOK'
  BY DEF TypeOK, Labels, Chans, Ends, Slots
<1>2. LockInv'
  BY ConstantFacts DEF TypeOK, LockInv, HasLock, Waking, Sleeping
<1>3. SleepInv'
  BY DEF TypeOK, SleepInv, Chan, Sleeping, Waking
<1>4. LoopInv'
  BY ConstantFacts DEF TypeOK, LockInv, HasLock, LoopInv, Waking, Full
<1>5. RefInv'
  BY DEF RefInv, Holders
<1>6. FdInv'
  BY SMTT(30) DEF TypeOK, FdInv, InRead, InWrite, SleepInv
<1>7. CloseInv'
  BY DEF TypeOK, CloseInv
<1>8. WaitInv'
  <2>1. ASSUME NEW r \in Slots PROVE WaitInv!(r)'
    <3>1. /\ Waits(r, "get_sleep")' => Waits(r, "get_sleep")
          /\ Waits(r, "put_sleep")' => Waits(r, "put_sleep")
      BY <2>1 DEF TypeOK, Waits
    <3>2. \A q \in Slots : ~ ReaderWaker(q, r) /\ ~ WriterWaker(q, r)
      BY <2>1, WakerHasLock, ConstantFacts
    <3>3. pc'[p] = "close_wake" /\ idx'[p] <= r
      BY <2>1, ConstantFacts DEF TypeOK, LoopInv, Waking
    <3>4. CASE end[p] = "w"
      BY <2>1, <3>1, <3>2, <3>3, <3>4 DEF TypeOK, WaitInv, ReaderWaker, Wakes, Waking, Chan, Full
    <3>5. CASE end[p] = "r"
      BY <2>1, <3>1, <3>2, <3>3, <3>5 DEF TypeOK, WaitInv, WriterWaker, Wakes, Waking, Chan, Empty
    <3> QED
      BY <3>4, <3>5 DEF FdInv, Ends
  <2> QED
    BY <2>1 DEF WaitInv
<1> QED
  BY <1>1, <1>2, <1>3, <1>4, <1>5, <1>6, <1>7, <1>8

\* The closer has woken everybody.
LEMMA CloseUnlock_Step ==
    ASSUME IInv, NEW p \in Slots, CloseUnlock(p)
    PROVE  IInv'
<1> USE PipeAssumption DEF IInv, CloseUnlock, Goto, At, Running, wvars, pvars, fvars, lvars, hvars
<1>1. TypeOK'
  BY DEF TypeOK, Labels, Chans, Ends, Slots
<1>2. LockInv'
  BY ConstantFacts DEF TypeOK, LockInv, HasLock, Waking, Sleeping
<1>3. SleepInv'
  BY DEF TypeOK, SleepInv, Chan, Sleeping, Waking
<1>4. LoopInv'
  BY DEF TypeOK, LockInv, HasLock, LoopInv, Waking, Full
<1>5. RefInv'
  BY DEF RefInv, Holders
<1>6. FdInv'
  BY DEF TypeOK, FdInv, InRead, InWrite, SleepInv
<1>7. CloseInv'
  BY DEF TypeOK, CloseInv
<1>8. WaitInv'
  <2>1. ASSUME NEW r \in Slots PROVE WaitInv!(r)'
    <3>0. \A q \in Slots : ~ ReaderWaker(q, r) /\ ~ WriterWaker(q, r)
      <4> SUFFICES ASSUME NEW q \in Slots, ReaderWaker(q, r) \/ WriterWaker(q, r) PROVE FALSE
        OBVIOUS
      <4>1. q = p
        BY <2>1, WakerHasLock DEF LockInv, HasLock
      <4>2. ~ (idx[p] <= r)
        BY <2>1, ConstantFacts, SMTT(30) DEF TypeOK
      <4> QED
        BY <4>1, <4>2 DEF ReaderWaker, WriterWaker, Wakes
    <3>1. /\ Waits(r, "get_sleep")' => Waits(r, "get_sleep")
          /\ Waits(r, "put_sleep")' => Waits(r, "put_sleep")
      BY <2>1 DEF TypeOK, Waits, SleepInv
    <3> QED
      BY <2>1, <3>0, <3>1, WaitFrame
  <2> QED
    BY <2>1 DEF WaitInv
<1> QED
  BY <1>1, <1>2, <1>3, <1>4, <1>5, <1>6, <1>7, <1>8

\* The closer gives the page back if both ends are closed.
LEMMA CloseTest_Step ==
    ASSUME IInv, NEW p \in Slots, CloseTest(p)
    PROVE  IInv'
<1> USE PipeAssumption DEF IInv, CloseTest, Return, At, Running, wvars, pvars, fvars, lvars, hvars
<1>1. TypeOK'
  <2>1. word' \in 0..(WRAP - 1)
    BY FreeWordRange DEF TypeOK
  <2> QED
    BY <2>1, ConstantFacts, SMTT(30) DEF TypeOK, Labels, Ends
<1>2. LockInv'
  BY ConstantFacts DEF TypeOK, LockInv, HasLock, Waking, Sleeping
<1>3. SleepInv'
  BY DEF TypeOK, SleepInv, Chan, Sleeping, Waking
<1>4. LoopInv'
  BY DEF TypeOK, LockInv, HasLock, LoopInv, Waking, Full
<1>5. RefInv'
  BY DEF RefInv, Holders
<1>6. FdInv'
  BY DEF TypeOK, FdInv, InRead, InWrite, SleepInv
<1>7. CloseInv'
  BY DEF TypeOK, CloseInv
<1>8. WaitInv'
  <2>1. ASSUME NEW r \in Slots PROVE WaitInv!(r)'
    <3>1. /\ Waits(r, "get_sleep")' => Waits(r, "get_sleep")
          /\ Waits(r, "put_sleep")' => Waits(r, "put_sleep")
      BY <2>1 DEF TypeOK, Waits, SleepInv
    <3>2. \A q \in Slots : Waits(r, "get_sleep")' /\ ReaderWaker(q, r) => ReaderWaker(q, r)'
      BY <2>1, ConstantFacts DEF TypeOK, ReaderWaker, Wakes, Waking, Chan
    <3>3. \A q \in Slots : Waits(r, "put_sleep")' /\ WriterWaker(q, r) => WriterWaker(q, r)'
      BY <2>1, ConstantFacts DEF TypeOK, WriterWaker, Wakes, Waking, Chan
    <3> QED
      BY <2>1, <3>1, <3>2, <3>3, WaitFrame
  <2> QED
    BY <2>1 DEF WaitInv
<1> QED
  BY <1>1, <1>2, <1>3, <1>4, <1>5, <1>6, <1>7, <1>8

-----------------------------------------------------------------------------
(***************************************************************************)
(* The safety theorems.                                                    *)
(***************************************************************************)
LEMMA InitInv == Init => IInv
<1> SUFFICES ASSUME Init PROVE IInv
  OBVIOUS
<1> USE PipeAssumption, ConstantFacts DEF Init, WaitInit
<1>1. 1 \in Slots /\ 1 \in 0..NPROC /\ 0 \in 0..(WRAP - 1) /\ 0 \in 0..MaxBytes
  BY DEF Slots
<1>2. TypeOK
  BY <1>1 DEF TypeOK, Labels, Ends
<1>3. LockInv /\ SleepInv /\ LoopInv
  BY DEF LockInv, HasLock, SleepInv, LoopInv, Sleeping
<1>4. RefInv
  <2> SUFFICES ASSUME NEW e \in Ends PROVE ref[e] = Cardinality(Holders(e))
    BY DEF RefInv
  <2>1. Holders(e) = {1}
    BY <1>1 DEF Holders
  <2> QED
    BY <2>1, FS_Singleton
<1>5. FdInv /\ CloseInv
  BY DEF FdInv, CloseInv, InRead, InWrite, Ends
<1>6. WaitInv
  BY DEF WaitInv, Waits
<1> QED
  BY <1>2, <1>3, <1>4, <1>5, <1>6 DEF IInv

LEMMA NextInv == IInv /\ [Next]_vars => IInv'
<1> SUFFICES ASSUME IInv, [Next]_vars PROVE IInv'
  OBVIOUS
<1>1. CASE UNCHANGED vars
  <2>1. /\ \A p \in Slots : Chan(p)' = Chan(p) /\ InRead(p)' = InRead(p) /\ InWrite(p)' = InWrite(p)
        /\ Full' = Full /\ Empty' = Empty
        /\ \A e \in Ends : Holders(e)' = Holders(e)
    BY <1>1 DEF vars, pvars, fvars, lvars, Chan, InRead, InWrite, Full, Empty, Holders
  <2>2. (TypeOK /\ LockInv /\ SleepInv /\ LoopInv)'
    BY <1>1, <2>1 DEF vars, wvars, pvars, fvars, lvars, hvars, IInv, TypeOK, LockInv, SleepInv, LoopInv
  <2>3. (RefInv /\ FdInv /\ CloseInv)'
    BY <1>1, <2>1 DEF vars, pvars, fvars, lvars, IInv, RefInv, FdInv, CloseInv
  <2>4. WaitInv'
    BY <1>1, <2>1 DEF vars, wvars, pvars, lvars, IInv, WaitInv, Waits, ReaderWaker, WriterWaker, Wakes
  <2> QED
    BY <2>2, <2>3, <2>4 DEF IInv
<1>2. ASSUME NEW p \in Slots, Kernel(p) PROVE IInv'
  BY <1>2, WriteLock_Step, ReadLock_Step, SleepReturn_Step, pipe_close_Step, proc_wakeup_Step,
     proc_sleep_Step, DispatchProc_Step, Unlock_Step, Put_Step, WriteError_Step, WriteWait_Step,
     WriteSleep_Step, WriteDone_Step, ReadSleep_Step, ReadReady_Step, Get_Step, ReadDone_Step,
     CloseUnlock_Step, CloseTest_Step DEF Kernel, Lock
<1>3. ASSUME NEW p \in Slots, User(p) PROVE IInv'
  BY <1>3, SysWrite_Step, SysRead_Step, file_close_Step, Fork_Step DEF User
<1> QED
  BY <1>1, <1>2, <1>3 DEF Next

\* The invariant holds in every reachable state of kernel/fs/pipe.c.
THEOREM Inductive == Spec => []IInv
BY InitInv, NextInv, PTL DEF Spec

\* The state is well typed; in particular file->ref stays within the number
\* of processes.
THEOREM TypeCorrect == Spec => []TypeOK
<1>1. IInv => TypeOK
  BY DEF IInv
<1> QED
  BY <1>1, Inductive, PTL

\* A process in proc_sleep of pipe_read or pipe_write still has the reason
\* for which it went to sleep.
THEOREM NoLostWakeupTheorem == Spec => []NoLostWakeup
<1>1. IInv => NoLostWakeup
  <2> SUFFICES ASSUME IInv, lock = NULL, NEW p \in Slots, state[p] = "SLEEPING"
               PROVE  \/ pc[p] = "get_sleep" /\ Empty /\ writeopen
                      \/ pc[p] = "put_sleep" /\ Full /\ readopen
    BY DEF NoLostWakeup
  <2>1. \A q \in Slots : ~ ReaderWaker(q, p) /\ ~ WriterWaker(q, p)
    BY WakerHasLock, ConstantFacts DEF IInv
  <2>2. Waits(p, "get_sleep") \/ Waits(p, "put_sleep")
    BY DEF IInv, SleepInv, Sleeping, Waits
  <2> QED
    BY <2>1, <2>2 DEF IInv, WaitInv, Waits
<1> QED
  BY <1>1, Inductive, PTL

\* A step that lets the ends, their closers and the page alone.
LEMMA PageFrame ==
    ASSUME IInv, PageInv, UNCHANGED <<word, readopen, writeopen, fds>>,
           \A p \in Slots, e \in Ends : Closer(p, e)' <=> Closer(p, e),
           \A p \in Slots : pc[p] \in {"close_wake", "close_test"} =>
                            pc'[p] \in {"close_wake", "close_test"}
    PROVE  PageInv'
<1>1. \A e \in Ends : Finished(e)' <=> Finished(e)
  BY DEF Finished
<1>2. One(Finished("r"))' = One(Finished("r")) /\ One(Finished("w"))' = One(Finished("w"))
  BY <1>1 DEF One, Ends
<1>3. PageInv!1'
  BY DEF PageInv
<1>4. PageInv!5'
  BY DEF PageInv
<1> QED
  BY <1>2, <1>3, <1>4 DEF PageInv

\* The steps outside closing and fork: no closer moves.
LEMMA QuietSteps ==
    ASSUME IInv, NEW p \in Slots, Kernel(p) \/ User(p),
           ~ pipe_close(p), ~ CloseUnlock(p), ~ CloseTest(p),
           \A e \in Ends : ~ file_close(p, e), \A q \in Slots : ~ Fork(p, q)
    PROVE  /\ UNCHANGED <<word, readopen, writeopen, fds>>
           /\ \A q \in Slots, e \in Ends : Closer(q, e)' <=> Closer(q, e)
           /\ \A q \in Slots : pc[q] \in {"close_wake", "close_test"} =>
                                pc'[q] \in {"close_wake", "close_test"}
<1> USE DEF pvars, fvars, lvars, hvars, Goto, Acquire, Return, GiveUp, At, Closer
<1>0. IInv /\ TypeOK
  BY DEF IInv
<1>1. CASE WriteLock(p) \/ ReadLock(p) \/ SleepReturn(p)
  BY <1>0, <1>1 DEF WriteLock, ReadLock, SleepReturn, TypeOK
<1>2. CASE proc_wakeup(p) \/ proc_sleep(p) \/ DispatchProc(p)
  BY <1>0, <1>2 DEF proc_wakeup, proc_sleep, DispatchProc, TypeOK
<1>3. CASE Unlock(p) \/ WriteError(p)
  BY <1>0, <1>3 DEF Unlock, WriteError, TypeOK
<1>4. CASE WriteWait(p) \/ WriteSleep(p) \/ WriteDone(p)
  BY <1>0, <1>4 DEF WriteWait, WriteSleep, WriteDone, TypeOK
<1>5. CASE ReadSleep(p) \/ ReadReady(p) \/ Get(p) \/ ReadDone(p)
  BY <1>0, <1>5 DEF ReadSleep, ReadReady, Get, ReadDone, TypeOK
<1>6. CASE \E b \in Bytes : Put(p, b)
  BY <1>0, <1>6 DEF Put, TypeOK
<1>7. CASE \E n \in 1..MaxLen : SysWrite(p, n) \/ SysRead(p, n)
  BY <1>0, <1>7 DEF SysWrite, SysRead, TypeOK
<1> QED
  BY <1>1, <1>2, <1>3, <1>4, <1>5, <1>6, <1>7 DEF Kernel, Lock, User

\* An end with a descriptor left is not finished, and nobody closes it.
LEMMA HeldEnd ==
    ASSUME IInv, NEW p \in Slots, NEW e \in Ends, e \in fds[p]
    PROVE  ~ Finished(e) /\ \A q \in Slots : ~ Closer(q, e)
BY DEF IInv, FdInv, Finished, Closer

\* Finished ends stay finished, so the bound on the calls only grows.
LEMMA FinishedGrows ==
    ASSUME NEW a \in Int, a <= One(Finished("r")) + One(Finished("w")),
           \A e \in Ends : Finished(e) => Finished(e)'
    PROVE  a <= One(Finished("r")') + One(Finished("w")')
BY DEF One, Ends

\* One call more is covered by one more finished end.
LEMMA OneMore ==
    ASSUME NEW n \in Int, NEW v \in Int, NEW w \in Int, NEW a \in Int, NEW b \in Int,
           n - v + 1 <= a + b, w = v \/ w = v - 1
    PROVE  n - w <= a + b
OBVIOUS

LEMMA PageStep ==
    ASSUME IInv, PageInv, NEW p \in Slots, Kernel(p) \/ User(p)
    PROVE  PageInv'
<1>0. /\ TypeOK /\ FdInv /\ SleepInv
      /\ word \in Nat /\ word <= NAME /\ NAME \in Nat /\ NAME > 2 /\ NAME - word \in Int
  <2>1. TypeOK /\ FdInv /\ SleepInv
    BY DEF IInv
  <2>2. word \in Nat /\ word <= NAME
    BY <2>1 DEF TypeOK, PageInv
  <2>3. NAME \in Nat /\ NAME > 2
    BY PipeAssumption
  <2> QED
    BY <2>1, <2>2, <2>3
<1>1. CASE pipe_close(p)
  <2>1. /\ UNCHANGED <<word, fds>>
        /\ ~ readopen => ~ readopen'
        /\ ~ writeopen => ~ writeopen'
        /\ pc'[p] = "close_wake" /\ pc[p] = "close"
        /\ \A q \in Slots : end'[q] = end[q] /\ (q # p => pc'[q] = pc[q])
    BY <1>0, <1>1, Zenon DEF pipe_close, Acquire, Goto, At, fvars, lvars, TypeOK
  <2>2. \A q \in Slots, e \in Ends : Closer(q, e)' <=> Closer(q, e)
    BY <2>1 DEF Closer
  <2>3. \A e \in Ends : Finished(e) => Finished(e)'
    BY <2>1, <2>2 DEF Finished
  <2>4. NAME - word <= One(Finished("r")') + One(Finished("w")')
    BY <1>0, <2>3, FinishedGrows DEF PageInv
  <2>5. PageInv!1'
    BY <2>2 DEF PageInv
  <2>6. (word # NAME => ~ readopen /\ ~ writeopen)'
    BY <2>1 DEF PageInv
  <2> QED
    BY <1>0, <2>1, <2>4, <2>5, <2>6 DEF PageInv
<1>2. CASE CloseUnlock(p)
  <2>1. /\ UNCHANGED <<word, readopen, writeopen, fds>>
        /\ pc'[p] = "close_test" /\ pc[p] = "close_wake"
        /\ \A q \in Slots : end'[q] = end[q] /\ (q # p => pc'[q] = pc[q])
    BY <1>0, <1>2 DEF CloseUnlock, Goto, At, pvars, fvars, lvars, TypeOK
  <2> QED
    BY <2>1, PageFrame DEF Closer
<1>3. CASE CloseTest(p)
  <2>1. /\ UNCHANGED <<readopen, writeopen, fds>>
        /\ pc'[p] = "user" /\ pc[p] = "close_test"
        /\ \A q \in Slots \ {p} : end'[q] = end[q] /\ pc'[q] = pc[q]
        /\ word' = IF ~ readopen /\ ~ writeopen THEN FreeWord ELSE word
    BY <1>0, <1>3 DEF CloseTest, Return, At, pvars, fvars, lvars, TypeOK
  <2>2. PICK e \in Ends : end[p] = e /\ \A q \in Slots : e \notin fds[q]
    BY <1>0, <2>1 DEF FdInv
  <2>3. Closer(p, e) /\ ~ Finished(e) /\ Finished(e)'
    BY <2>1, <2>2 DEF PageInv, Finished, Closer
  <2>4. \A q \in Slots, f \in Ends : Closer(q, f)' => Closer(q, f)
    BY <2>1 DEF Closer
  <2>5. \A f \in Ends : Finished(f) => Finished(f)'
    BY <2>1, <2>4 DEF Finished
  <2>6. NAME - word + 1 <= One(Finished("r")') + One(Finished("w")')
    BY <1>0, <2>3, <2>5 DEF PageInv, One, Ends
  <2>7. word > 0
    BY <1>0 DEF PageInv, One
  <2>8. word' = word \/ word' = word - 1
    BY <1>0, <2>1, <2>7, FreeWordRange DEF TypeOK
  <2>9. PageInv!1'
    BY <2>4 DEF PageInv
  <2>10. (word # NAME => ~ readopen /\ ~ writeopen)'
    BY <2>1 DEF PageInv
  <2>11. ~ readopen /\ ~ writeopen => word' = word - 1
    BY <1>0, <2>1, <2>7, FreeWordRange DEF TypeOK
  <2>12. word' <= NAME /\ NAME - word' <= One(Finished("r")') + One(Finished("w")')
    <3>1. word' \in Int /\ word' <= word
      BY <1>0, <2>8
    <3>2. One(Finished("r")') \in Int /\ One(Finished("w")') \in Int
      BY DEF One
    <3>3. word <= NAME /\ word \in Nat /\ NAME \in Nat
      BY <1>0
    <3>5. NAME - word' <= One(Finished("r")') + One(Finished("w")')
      BY <2>6, <2>8, <3>1, <3>2, <3>3, OneMore
    <3>6. word' <= NAME
      BY <3>1, <3>3
    <3> QED
      BY <3>5, <3>6
  <2>13. ~ readopen /\ ~ writeopen => word' # NAME
    BY <1>0, <2>11
  <2>14. PageInv!5'
    BY <2>1, <2>13
  <2> QED
    BY <2>9, <2>10, <2>12, <2>14 DEF PageInv
<1>4. ASSUME NEW e \in Ends, file_close(p, e) PROVE PageInv'
  <2>1. /\ UNCHANGED <<word, readopen, writeopen>>
        /\ e \in fds[p] /\ pc[p] = "user"
        /\ \A q \in Slots : fds'[q] \subseteq fds[q]
        /\ \A q \in Slots \ {p} : end'[q] = end[q] /\ pc'[q] = pc[q]
        /\ pc'[p] = "user" \/ (pc'[p] = "close" /\ end'[p] = e)
    BY <1>0, <1>4 DEF file_close, Goto, At, pvars, TypeOK
  <2>2. \A q \in Slots, f \in Ends : Closer(q, f)' => Closer(q, f) \/ (q = p /\ f = e)
    BY <2>1 DEF Closer
  <2>3. ~ Finished(e) /\ \A q \in Slots : ~ Closer(q, e)
    BY <2>1, HeldEnd
  <2>4. \A f \in Ends : Finished(f) => Finished(f)'
    BY <2>1, <2>2, <2>3 DEF Finished
  <2>5. NAME - word <= One(Finished("r")') + One(Finished("w")')
    BY <1>0, <2>4, FinishedGrows DEF PageInv
  <2>6. PageInv!1'
    BY <2>2, <2>3 DEF PageInv
  <2>7. PageInv!5'
    BY <2>1 DEF PageInv
  <2> QED
    BY <1>0, <2>1, <2>5, <2>6, <2>7 DEF PageInv
<1>5. ASSUME NEW q \in Slots, Fork(p, q) PROVE PageInv'
  <2>1. /\ UNCHANGED <<word, readopen, writeopen, pc, end>>
        /\ \A r \in Slots : fds'[r] = fds[r] \/ fds'[r] = fds[p]
    BY <1>0, <1>5 DEF Fork, pvars, lvars, TypeOK
  <2>2. \A r \in Slots, f \in Ends : Closer(r, f)' <=> Closer(r, f)
    BY <2>1 DEF Closer
  <2>3. \A f \in Ends : Finished(f) => Finished(f)'
    BY <2>1, <2>2 DEF Finished
  <2>5. NAME - word <= One(Finished("r")') + One(Finished("w")')
    BY <1>0, <2>3, FinishedGrows DEF PageInv
  <2>6. PageInv!1'
    BY <2>2 DEF PageInv
  <2>7. PageInv!5'
    BY <2>1 DEF PageInv
  <2> QED
    BY <1>0, <2>1, <2>5, <2>6, <2>7 DEF PageInv
<1> QED
  BY <1>1, <1>2, <1>3, <1>4, <1>5, QuietSteps, PageFrame

\* pmem_free is called for a pipe's page once nobody can use the pipe, by at
\* most the two closers of its ends, and not never.
THEOREM FreedAfterUseTheorem == Spec => []FreedAfterUse
<1>1. Init => PageInv
  <2> SUFFICES ASSUME Init PROVE PageInv
    OBVIOUS
  <2>1. \A p \in Slots, e \in Ends : ~ Closer(p, e)
    BY DEF Init, Closer
  <2>2. word = NAME /\ readopen /\ writeopen /\ NAME \in Nat
    BY PipeAssumption DEF Init
  <2> QED
    BY <2>1, <2>2 DEF PageInv, One
<1>2. IInv /\ PageInv /\ [Next]_vars => PageInv'
  <2> SUFFICES ASSUME IInv, PageInv, [Next]_vars PROVE PageInv'
    OBVIOUS
  <2>1. CASE UNCHANGED vars
    BY <2>1, PageFrame DEF vars, pvars, fvars, lvars, Closer
  <2> QED
    BY <2>1, PageStep DEF Next
<1>3. IInv /\ PageInv => FreedAfterUse
  <2> SUFFICES ASSUME IInv, PageInv PROVE FreedAfterUse
    OBVIOUS
  <2>0. word \in Nat /\ word <= NAME /\ NAME \in Nat
    BY PipeAssumption DEF IInv, TypeOK, PageInv
  <2>1. ASSUME NEW e \in Ends, \A q \in Slots : e \notin fds[q] PROVE ref[e] = 0
    <3>1. Holders(e) = {}
      BY <2>1 DEF Holders
    <3> QED
      BY <3>1, FS_EmptySet DEF IInv, RefInv
  <2>2. ASSUME Calls > 0
        PROVE  ref["r"] = 0 /\ ref["w"] = 0 /\ \A p \in Slots : ~ InRead(p) /\ ~ InWrite(p)
    <3>1. ~ readopen /\ ~ writeopen
      BY <2>0, <2>2 DEF Calls, PageInv
    <3>2. \A q \in Slots : "r" \notin fds[q] /\ "w" \notin fds[q]
      BY <3>1 DEF IInv, FdInv
    <3> QED
      BY <2>1, <3>2 DEF IInv, FdInv, Ends
  <2>3. Calls <= 2
    BY <2>0 DEF Calls, PageInv, One
  <2>4. ASSUME Gone PROVE Calls > 0
    <3>1. ~ readopen /\ ~ writeopen
      BY <2>4 DEF Gone, IInv, TypeOK, CloseInv
    <3>2. word # NAME
      BY <2>4, <3>1 DEF Gone, PageInv
    <3> QED
      BY <2>0, <3>2 DEF Calls
  <2> QED
    BY <2>2, <2>3, <2>4 DEF FreedAfterUse
<1> QED
  BY <1>1, <1>2, <1>3, Inductive, PTL DEF Spec

-----------------------------------------------------------------------------
(***************************************************************************)
(* FIFO delivery, as long as the counters have not run around.             *)
(***************************************************************************)
\* With counters that count bytes, pipe_write's test is the right one.
LEMMA FullMeansFull ==
    ASSUME TypeOK, RingInv
    PROVE  Full <=> nwrite = nread + SIZE
<1>1. nwrite - nread \in Nat /\ nwrite - nread < WRAP /\ nwrite \in Nat /\ nread \in Nat
  BY PipeAssumption DEF TypeOK, RingInv
<1>2. ((nwrite - nread) + WRAP) % WRAP = nwrite - nread
  BY <1>1, ModSmall, PipeAssumption
<1>3. (nwrite - nread) + WRAP = nwrite + WRAP - nread
  BY <1>1, PipeAssumption
<1>4. Full <=> nwrite - nread = SIZE
  BY <1>2, <1>3 DEF Full
<1> QED
  BY <1>1, <1>4, PipeAssumption

\* The steps that move no byte and close no end.
LEMMA OtherSteps ==
    ASSUME NEW p \in Slots, Kernel(p) \/ User(p),
           \A b \in Bytes : ~ Put(p, b), ~ Get(p), ~ pipe_close(p)
    PROVE  UNCHANGED <<pvars, sent, got>>
<1> USE DEF pvars, hvars
<1>1. CASE Kernel(p)
  BY <1>1 DEF Kernel, Lock, WriteLock, ReadLock, SleepReturn, proc_wakeup, proc_sleep, DispatchProc,
     Unlock, WriteError, WriteWait, WriteSleep, WriteDone, ReadSleep, ReadReady, ReadDone,
     CloseUnlock, CloseTest
<1>2. CASE User(p)
  BY <1>2 DEF User, SysWrite, SysRead, file_close, Fork
<1> QED
  BY <1>1, <1>2

\* A byte goes into a place of the ring that nobody has still to read.
LEMMA PutRing ==
    ASSUME IInv, RingInv, NoWrap', NEW p \in Slots, NEW b \in Bytes, Put(p, b)
    PROVE  RingInv' /\ Channel!Send(b)
<1> USE DEF IInv
<1>1. /\ nwrite \in Nat /\ nread \in Nat /\ sent \in Seq(Bytes)
      /\ Len(sent) = nwrite /\ Len(got) = nread /\ nread <= nwrite
  BY DEF TypeOK, RingInv
<1>2. nwrite < nread + SIZE
  <2>1. nwrite # nread + SIZE
    BY FullMeansFull DEF Put
  <2>2. nwrite <= nread + SIZE
    BY DEF RingInv
  <2> QED
    BY <1>1, <2>1, <2>2, PipeAssumption
<1>3. /\ sent' = Append(sent, b) /\ sent' \in Seq(Bytes) /\ Len(sent') = nwrite + 1
      /\ sent'[nwrite + 1] = b
      /\ \A k \in 1..nwrite : sent'[k] = sent[k]
  BY <1>1 DEF Put
<1>4. nwrite' = nwrite + 1
  <2>1. nwrite + 1 \in Nat /\ nwrite + 1 < WRAP
    BY <1>1, <1>3 DEF NoWrap
  <2>2. (nwrite + 1) % WRAP = nwrite + 1
    BY <2>1, ModSmall, PipeAssumption
  <2> QED
    BY <2>2 DEF Put
<1>5. nread' = nread /\ got' = got
  BY DEF Put
<1>6. data'[nwrite % SIZE] = b /\ \A m \in 0..(SIZE - 1) : m # nwrite % SIZE => data'[m] = data[m]
  BY <1>1, IndexRange DEF TypeOK, Put
<1>7. ASSUME NEW k \in 1..(nwrite + 1), k > nread
      PROVE  data'[(k - 1) % SIZE] = sent'[k]
  <2>1. CASE k = nwrite + 1
    <3>1. k - 1 = nwrite
      BY <1>1, <2>1
    <3> QED
      BY <1>3, <1>6, <2>1, <3>1
  <2>2. CASE k # nwrite + 1
    <3>1. k \in 1..nwrite /\ k - 1 \in Nat /\ k - 1 < nwrite /\ nwrite < (k - 1) + SIZE
      BY <1>1, <1>2, <1>7, <2>2, PipeAssumption
    <3>2. (k - 1) % SIZE # nwrite % SIZE
      BY <1>1, <3>1, ModDiffers, PipeAssumption
    <3>3. data'[(k - 1) % SIZE] = data[(k - 1) % SIZE]
      BY <1>6, <3>1, <3>2, IndexRange
    <3>4. data[(k - 1) % SIZE] = sent[k]
      BY <1>1, <1>7, <3>1 DEF RingInv
    <3> QED
      BY <1>3, <3>1, <3>3, <3>4
  <2> QED
    BY <2>1, <2>2
<1>8. RingInv'
  <2>1. nread' <= nwrite' /\ nwrite' <= nread' + SIZE
    BY <1>1, <1>2, <1>4, <1>5, PipeAssumption
  <2>2. nwrite' = Len(sent') /\ nread' = Len(got')
    BY <1>1, <1>3, <1>4, <1>5
  <2>3. \A k \in 1..Len(sent') : k > nread' => data'[(k - 1) % SIZE] = sent'[k]
    BY <1>3, <1>5, <1>7
  <2> QED
    BY <2>1, <2>2, <2>3 DEF RingInv
<1>9. Channel!Send(b)
  <2>1. writeopen
    BY DEF Put, At, FdInv, InWrite
  <2> QED
    BY <1>1, <1>2, <2>1 DEF Put, Channel!Send
<1> QED
  BY <1>8, <1>9

\* The byte that comes out is the oldest one not read yet.
LEMMA GetRing ==
    ASSUME IInv, RingInv, NoWrap', NEW p \in Slots, Get(p)
    PROVE  RingInv' /\ Channel!Receive
<1> USE DEF IInv
<1>1. /\ nwrite \in Nat /\ nread \in Nat /\ got \in Seq(Bytes \cup {NULL})
      /\ Len(sent) = nwrite /\ Len(got) = nread /\ nwrite <= nread + SIZE /\ nwrite < WRAP
  BY PipeAssumption DEF TypeOK, RingInv
<1>2. nread < nwrite
  BY <1>1 DEF Get, Empty, RingInv
<1>3. nread' = nread + 1
  <2>1. nread + 1 \in Nat /\ nread + 1 < WRAP
    BY <1>1, <1>2, PipeAssumption
  <2>2. (nread + 1) % WRAP = nread + 1
    BY <2>1, ModSmall, PipeAssumption
  <2> QED
    BY <2>2 DEF Get
<1>4. UNCHANGED <<data, nwrite, sent>>
  BY DEF Get
<1>5. data[nread % SIZE] = sent[nread + 1]
  <2>1. nread + 1 \in 1..Len(sent) /\ nread + 1 > nread /\ (nread + 1) - 1 = nread
    BY <1>1, <1>2
  <2>2. data[((nread + 1) - 1) % SIZE] = sent[nread + 1]
    BY <2>1 DEF RingInv
  <2> QED
    BY <2>1, <2>2
<1>6. got' = Append(got, sent[nread + 1])
  BY <1>5 DEF Get
<1>7. Len(got') = nread + 1
  <2>1. data[nread % SIZE] \in Bytes \cup {NULL}
    BY <1>1, IndexRange DEF TypeOK
  <2> QED
    BY <1>1, <2>1 DEF Get
<1>8. RingInv'
  <2>1. \A k \in 1..Len(sent) : k > nread + 1 => k > nread
    BY <1>1
  <2>2. \A k \in 1..Len(sent') : k > nread' => data'[(k - 1) % SIZE] = sent'[k]
    BY <1>3, <1>4, <2>1 DEF RingInv
  <2>3. nread' <= nwrite' /\ nwrite' <= nread' + SIZE
    BY <1>1, <1>2, <1>3, <1>4, PipeAssumption
  <2> QED
    BY <1>1, <1>3, <1>4, <1>7, <2>2, <2>3 DEF RingInv
<1>9. Channel!Receive
  <2>1. readopen
    BY DEF Get, At, FdInv, InRead
  <2> QED
    BY <1>1, <1>2, <1>6, <2>1 DEF Get, Channel!Receive
<1> QED
  BY <1>8, <1>9

\* pipe_close closes an end once.
LEMMA CloseRing ==
    ASSUME IInv, RingInv, NEW p \in Slots, pipe_close(p)
    PROVE  RingInv' /\ (Channel!CloseRead \/ Channel!CloseWrite \/ UNCHANGED Channel!vars)
<1>1. UNCHANGED <<data, nread, nwrite, sent, got>>
  BY DEF pipe_close, hvars
<1>2. RingInv'
  BY <1>1 DEF RingInv
<1>3. end[p] = "r" \/ end[p] = "w"
  BY DEF pipe_close, At, IInv, FdInv, Ends
<1>4. readopen \in BOOLEAN /\ writeopen \in BOOLEAN
  BY DEF IInv, TypeOK
<1> QED
  BY <1>1, <1>2, <1>3, <1>4 DEF pipe_close, Channel!CloseRead, Channel!CloseWrite, Channel!vars

\* The pipe is a bounded FIFO channel in every behaviour in which fewer than
\* WRAP bytes are written.
THEOREM FifoTheorem == Spec /\ []NoWrap => FifoSpec
<1>1. Init => RingInv /\ Channel!Init
  BY PipeAssumption DEF Init, RingInv, Channel!Init
<1>2. IInv /\ RingInv /\ NoWrap' /\ [Next]_vars => RingInv' /\ [Channel!Next]_(Channel!vars)
  <2> SUFFICES ASSUME IInv, RingInv, NoWrap', [Next]_vars
               PROVE  RingInv' /\ (Channel!Next \/ UNCHANGED Channel!vars)
    OBVIOUS
  <2>1. CASE UNCHANGED <<pvars, sent, got>>
    BY <2>1 DEF pvars, RingInv, Channel!vars
  <2>2. CASE UNCHANGED vars
    BY <2>1, <2>2 DEF vars, hvars
  <2>3. ASSUME NEW p \in Slots, Kernel(p) \/ User(p)
        PROVE  RingInv' /\ (Channel!Next \/ UNCHANGED Channel!vars)
    <3>1. CASE \E b \in Bytes : Put(p, b)
      BY <3>1, PutRing DEF Channel!Next
    <3>2. CASE Get(p)
      BY <3>2, GetRing DEF Channel!Next
    <3>3. CASE pipe_close(p)
      BY <3>3, CloseRing DEF Channel!Next
    <3> QED
      BY <2>1, <2>3, <3>1, <3>2, <3>3, OtherSteps
  <2> QED
    BY <2>2, <2>3 DEF Next
<1> QED
  BY <1>1, <1>2, Inductive, PTL DEF Spec, FifoSpec, Channel!Spec

-----------------------------------------------------------------------------
(***************************************************************************)
(* The inductive invariant of SleepLock.                                   *)
(***************************************************************************)
\* The inner spin lock is held exactly in the two critical sections.
SpinInv == \A p \in Slots : pc[p] \in {"test", "wake"} <=> spin = p

\* Only a process in proc_sleep is off its processor or holds its own lock.
LockSleepInv ==
    \A p \in Slots :
        /\ state[p] # "RUNNING" => pc[p] = "sleep" /\ ~ lk[p]
        /\ lk[p] => pc[p] = "sleep"
        /\ state[p] = "SLEEPING" => sleep_space[p] = lkaddr

PidInv == locked <=> pid # NULL

\* A process that sleeps, or is about to, waits for a holder, or for a
\* waker that has not come to its slot yet.
LockWaitInv ==
    \A p \in Slots :
        state[p] = "SLEEPING" \/ lk[p] =>
            \/ locked
            \/ \E q \in Slots : pc[q] = "wake" /\ idx[q] <= p

LockIInv ==
    /\ LockTypeOK
    /\ SpinInv
    /\ LockSleepInv
    /\ PidInv
    /\ HolderConfirmed
    /\ LockWaitInv

LEMMA Lock_InitInv == LockInit => LockIInv
<1> SUFFICES ASSUME LockInit PROVE LockIInv
  OBVIOUS
<1> USE SleepLockAssumption DEF LockInit, WaitInit
<1>0. 1 \in 1..(NPROC + 1)
  OBVIOUS
<1>1. LockTypeOK
  BY <1>0 DEF LockTypeOK, LockLabels
<1>2. SpinInv /\ LockSleepInv
  BY DEF SpinInv, LockSleepInv, Slots
<1>3. PidInv /\ HolderConfirmed /\ LockWaitInv
  BY DEF PidInv, HolderConfirmed, sleeplock_holding, LockWaitInv
<1> QED
  BY <1>1, <1>2, <1>3 DEF LockIInv

\* A process wants the lock.
LEMMA Enter_Step ==
    ASSUME LockIInv, NEW p \in Slots, Enter(p)
    PROVE  LockIInv'
<1> USE SleepLockAssumption DEF LockIInv, Enter, At, Running, Goto, wvars
<1>1. LockTypeOK'
  BY DEF LockTypeOK, LockLabels
<1>2. SpinInv'
  BY DEF LockTypeOK, SpinInv, Slots
<1>3. LockSleepInv' /\ PidInv' /\ HolderConfirmed'
  BY DEF LockTypeOK, LockSleepInv, PidInv, HolderConfirmed, sleeplock_holding
<1>4. LockWaitInv'
  BY DEF LockTypeOK, LockWaitInv
<1> QED
  BY <1>1, <1>2, <1>3, <1>4

\* The inner spin lock is taken: it was free, so nobody is in a wakeup loop.
LEMMA AcquireSpin_Step ==
    ASSUME LockIInv, NEW p \in Slots, AcquireSpin(p)
    PROVE  LockIInv'
<1> USE SleepLockAssumption DEF LockIInv, AcquireSpin, At, Running, Goto, wvars
<1>1. LockTypeOK'
  BY DEF LockTypeOK, LockLabels
<1>2. SpinInv'
  BY DEF LockTypeOK, SpinInv, Slots
<1>3. LockSleepInv' /\ PidInv' /\ HolderConfirmed'
  BY DEF LockTypeOK, LockSleepInv, PidInv, HolderConfirmed, sleeplock_holding
<1>4. LockWaitInv'
  BY DEF LockTypeOK, SpinInv, Slots, LockWaitInv
<1> QED
  BY <1>1, <1>2, <1>3, <1>4

\* A waiter gives up the inner spin lock while somebody holds the lock.
LEMMA AcquireSleep_Step ==
    ASSUME LockIInv, NEW p \in Slots, AcquireSleep(p)
    PROVE  LockIInv'
<1> USE SleepLockAssumption DEF LockIInv, AcquireSleep, SleepEnter, Running, Goto, wvars
<1>1. LockTypeOK'
  BY DEF LockTypeOK, LockLabels
<1>2. SpinInv'
  BY DEF LockTypeOK, SpinInv, Slots
<1>3. LockSleepInv' /\ PidInv' /\ HolderConfirmed'
  BY DEF LockTypeOK, LockSleepInv, PidInv, HolderConfirmed, sleeplock_holding
<1>4. LockWaitInv'
  BY DEF LockTypeOK, SpinInv, LockWaitInv
<1> QED
  BY <1>1, <1>2, <1>3, <1>4

\* The waiter is asleep for the reason it had when it gave up the spin lock.
LEMMA LockSleep_Step ==
    ASSUME LockIInv, NEW p \in Slots, LockSleep(p)
    PROVE  LockIInv'
<1> USE SleepLockAssumption DEF LockIInv, LockSleep, SleepSwitch, wvars
<1>1. LockTypeOK'
  BY DEF LockTypeOK, LockLabels
<1>2. SpinInv'
  BY DEF LockTypeOK, SpinInv, Slots
<1>3. LockSleepInv' /\ PidInv' /\ HolderConfirmed'
  BY DEF LockTypeOK, LockSleepInv, PidInv, HolderConfirmed, sleeplock_holding
<1>4. LockWaitInv'
  BY DEF LockTypeOK, LockSleepInv, LockWaitInv
<1> QED
  BY <1>1, <1>2, <1>3, <1>4

\* The scheduler resumes a waiter that was woken.
LEMMA LockDispatch_Step ==
    ASSUME LockIInv, NEW p \in Slots, LockDispatch(p)
    PROVE  LockIInv'
<1> USE SleepLockAssumption DEF LockIInv, LockDispatch, Dispatch, wvars
<1>1. LockTypeOK'
  BY DEF LockTypeOK, LockLabels
<1>2. SpinInv'
  BY DEF LockTypeOK, SpinInv, Slots
<1>3. LockSleepInv' /\ PidInv' /\ HolderConfirmed'
  BY DEF LockTypeOK, LockSleepInv, PidInv, HolderConfirmed, sleeplock_holding
<1>4. LockWaitInv'
  BY DEF LockTypeOK, LockSleepInv, LockWaitInv
<1> QED
  BY <1>1, <1>2, <1>3, <1>4

\* The lock is taken.
LEMMA sleeplock_acquire_Step ==
    ASSUME LockIInv, NEW p \in Slots, sleeplock_acquire(p)
    PROVE  LockIInv'
<1> USE SleepLockAssumption DEF LockIInv, sleeplock_acquire, At, Running, Goto, wvars, Slots
<1>1. LockTypeOK'
  BY DEF LockTypeOK, LockLabels
<1>2. SpinInv'
  BY DEF LockTypeOK, SpinInv
<1>3. LockSleepInv' /\ PidInv' /\ HolderConfirmed'
  BY DEF LockTypeOK, LockSleepInv, PidInv, HolderConfirmed, sleeplock_holding
<1>4. LockWaitInv'
  BY DEF LockTypeOK, LockWaitInv
<1> QED
  BY <1>1, <1>2, <1>3, <1>4

\* The lock is given back: the wakeup loop starts below every waiter.
LEMMA Release_Step ==
    ASSUME LockIInv, NEW p \in Slots, Release(p)
    PROVE  LockIInv'
<1> USE SleepLockAssumption DEF LockIInv, Release, At, Running, Goto, wvars, Slots
<1>1. LockTypeOK'
  <2>1. 1 \in 1..(NPROC + 1)
    OBVIOUS
  <2> QED
    BY <2>1 DEF LockTypeOK, LockLabels
<1>2. SpinInv'
  BY DEF LockTypeOK, SpinInv
<1>3. LockSleepInv' /\ PidInv' /\ HolderConfirmed'
  BY DEF LockTypeOK, LockSleepInv, PidInv, HolderConfirmed, sleeplock_holding
<1>4. LockWaitInv'
  BY DEF LockTypeOK, LockWaitInv
<1> QED
  BY <1>1, <1>2, <1>3, <1>4

\* One slot of the wakeup loop: a waiter there is woken, the others are still
\* to come.
LEMMA LockWakeup_Step ==
    ASSUME LockIInv, NEW p \in Slots, LockWakeup(p)
    PROVE  LockIInv'
<1> USE SleepLockAssumption DEF LockIInv, LockWakeup, WakeSlot, At, Running, Slots
<1>1. LockTypeOK'
  <2>1. idx[p] + 1 \in 1..(NPROC + 1) /\ idx[p] \in Slots
    BY DEF LockTypeOK
  <2> QED
    BY <2>1 DEF LockTypeOK
<1>2. SpinInv'
  BY DEF LockTypeOK, SpinInv
<1>3. LockSleepInv' /\ PidInv' /\ HolderConfirmed'
  BY DEF LockTypeOK, LockSleepInv, PidInv, HolderConfirmed, sleeplock_holding
<1>4. LockWaitInv'
  <2> SUFFICES ASSUME NEW r \in Slots, state'[r] = "SLEEPING" \/ lk'[r], ~ locked
               PROVE  pc'[p] = "wake" /\ idx'[p] <= r
    BY DEF LockWaitInv
  <2>1. (state[r] = "SLEEPING" \/ lk[r]) /\ r # idx[p]
    BY DEF LockTypeOK, LockSleepInv
  <2>2. PICK q \in Slots : pc[q] = "wake" /\ idx[q] <= r
    BY <2>1 DEF LockWaitInv
  <2>3. q = p
    BY <2>2 DEF SpinInv
  <2> QED
    BY <2>1, <2>2, <2>3 DEF LockTypeOK
<1> QED
  BY <1>1, <1>2, <1>3, <1>4

\* The end of the loop: nobody is left asleep without a holder.
LEMMA sleeplock_release_Step ==
    ASSUME LockIInv, NEW p \in Slots, sleeplock_release(p)
    PROVE  LockIInv'
<1> USE SleepLockAssumption DEF LockIInv, sleeplock_release, At, Running, Goto, wvars, Slots
<1>1. LockTypeOK'
  BY DEF LockTypeOK, LockLabels
<1>2. SpinInv'
  BY DEF LockTypeOK, SpinInv
<1>3. LockSleepInv' /\ PidInv' /\ HolderConfirmed'
  BY DEF LockTypeOK, LockSleepInv, PidInv, HolderConfirmed, sleeplock_holding
<1>4. LockWaitInv'
  <2> SUFFICES ASSUME NEW r \in Slots, state[r] = "SLEEPING" \/ lk[r]
               PROVE  locked
    BY DEF LockWaitInv
  <2>1. SUFFICES ASSUME NEW q \in Slots, pc[q] = "wake", idx[q] <= r
                 PROVE  FALSE
    BY DEF LockWaitInv
  <2>2. q = p
    BY <2>1 DEF SpinInv
  <2> QED
    BY <2>1, <2>2 DEF LockTypeOK
<1> QED
  BY <1>1, <1>2, <1>3, <1>4

LEMMA Lock_NextInv == LockIInv /\ [LockNext]_lockvars => LockIInv'
<1> SUFFICES ASSUME LockIInv, [LockNext]_lockvars PROVE LockIInv'
  OBVIOUS
<1>1. CASE UNCHANGED lockvars
  BY <1>1 DEF lockvars, wvars, LockIInv, LockTypeOK, SpinInv, LockSleepInv, PidInv, HolderConfirmed,
              sleeplock_holding, LockWaitInv
<1>2. ASSUME NEW p \in Slots, Enter(p) \/ LockKernel(p) PROVE LockIInv'
  BY <1>2, Enter_Step, AcquireSpin_Step, AcquireSleep_Step, LockSleep_Step,
     LockDispatch_Step, sleeplock_acquire_Step, Release_Step, LockWakeup_Step,
     sleeplock_release_Step DEF LockKernel
<1> QED
  BY <1>1, <1>2 DEF LockNext

\* The invariant holds in every reachable state of kernel/lib/sleeplock.c.
THEOREM LockInductive == LockSpec => []LockIInv
BY Lock_InitInv, Lock_NextInv, PTL DEF LockSpec

\* Every reachable state is well typed: in particular the loop of proc_wakeup
\* stays within the slots, and pid is a slot or clear.
THEOREM LockTypeCorrect == LockSpec => []LockTypeOK
<1>1. LockIInv => LockTypeOK
  BY DEF LockIInv
<1> QED
  BY <1>1, LockInductive, PTL

\* A process that has acquired the lock is the one sleeplock_holding names.
THEOREM HolderTheorem == LockSpec => []HolderConfirmed
<1>1. LockIInv => HolderConfirmed
  BY DEF LockIInv
<1> QED
  BY <1>1, LockInductive, PTL

\* A release between a waiter's test of locked and its sleep is not missed.
THEOREM NoLostReleaseTheorem == LockSpec => []NoLostRelease
<1>1. LockIInv => NoLostRelease
  BY SleepLockAssumption DEF LockIInv, SpinInv, LockWaitInv, NoLostRelease, Slots
<1> QED
  BY <1>1, LockInductive, PTL

\* The sleep lock implements the mutex.
THEOREM MutexTheorem == LockSpec => MutexSpec
<1>1. LockInit => Holding!Init
  BY DEF LockInit, Holding!Init
<1>2. LockIInv /\ [LockNext]_lockvars => [Holding!Next]_pid
  <2> SUFFICES ASSUME LockIInv, [LockNext]_lockvars, pid' # pid PROVE Holding!Next
    OBVIOUS
  <2>1. PICK p \in Slots : Enter(p) \/ LockKernel(p)
    BY DEF LockNext, lockvars
  <2>2. CASE sleeplock_acquire(p)
    BY <2>2 DEF sleeplock_acquire, LockIInv, PidInv, Holding!Next, Holding!Acquire
  <2>3. CASE Release(p)
    BY <2>3 DEF Release, At, LockIInv, HolderConfirmed, sleeplock_holding, Holding!Next, Holding!Release
  <2> QED
    BY <2>1, <2>2, <2>3 DEF Enter, LockKernel, AcquireSpin, AcquireSleep, LockSleep, LockDispatch,
       LockWakeup, sleeplock_release
<1> QED
  BY <1>1, <1>2, LockInductive, PTL DEF LockSpec, MutexSpec, Holding!Spec
=============================================================================
