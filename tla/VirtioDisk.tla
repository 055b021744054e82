----------------------------- MODULE VirtioDisk -----------------------------
(***************************************************************************)
(* kernel/dev/virtio.c: processes that each have a buffer to transfer (and *)
(* hold its sleep lock, so the buffer of process p is named p), the disk,  *)
(* and its interrupt handler.                                              *)
(*                                                                         *)
(* virtio_disk_rw holds vdisk_lock except in proc_sleep, so it is one step *)
(* from there to there; going to sleep is atomic with giving up the lock,  *)
(* as module WaitChannel and its users show.  The handler holds the lock   *)
(* too, but the disk does not care for it: the handler is several steps.   *)
(* A ring entry that has been looked at, the links of a free descriptor    *)
(* and the mark of a finished transfer are forgotten (NULL): the code      *)
(* leaves them in memory and never reads them again, which RingsLive and   *)
(* DescsAccounted check.                                                   *)
(***************************************************************************)
EXTENDS Naturals, FiniteSets, FiniteSetsExt

CONSTANTS NUM,     \* descriptors, and entries of each ring
          WRAP,    \* the ring counters count modulo WRAP (2^16)
          Procs,
          NULL

ASSUME VirtioAssumption ==
    /\ NUM \in Nat /\ NUM >= 3
    /\ WRAP \in Nat \ {0} /\ WRAP % NUM = 0
    /\ NULL \notin Procs \cup Nat
    /\ "free" \notin Procs /\ NULL # "free"

Descs == 0..(NUM - 1)

VARIABLES
    \* struct disk
    free,       \* the descriptors with free[i] set
    next,       \* desc[i].next, or NULL without VRING_DESC_F_NEXT
    addr,       \* desc[i].addr when it is the data of a buffer, or NULL
    info,       \* info[i].b
    used_idx,
    \* shared with the disk
    avail, avail_id,    \* avail[2..] and avail[1]
    elems, used_id,     \* used->elems[].id and used->id
    irq,        \* VIRTIO_MMIO_INTERRUPT_STATUS
    \* the disk
    seen,       \* how far it has looked in avail
    working,    \* the chains it is working on
    moved,      \* the buffers it has transferred
    \* processes and the handler
    disk,       \* b->disk
    pc,
    chan,       \* what a process sleeps on, or NULL
    handler,    \* the step of virtio_disk_intr
    \* history
    missed      \* the disk finished a request between the handler's last
                \* look and its acknowledgement

dvars == <<free, next, addr, info>>
rings == <<avail, avail_id, elems, used_id>>
device == <<seen, working, moved>>
vars == <<dvars, used_idx, rings, irq, device, disk, pc, chan, handler, missed>>

TypeOK ==
    /\ free \subseteq Descs
    /\ next \in [Descs -> Descs \cup {NULL}]
    /\ addr \in [Descs -> Procs \cup {NULL}]
    /\ info \in [Descs -> Procs \cup {NULL}]
    /\ used_idx \in Descs
    /\ avail \in [Descs -> Descs \cup {NULL}] /\ avail_id \in 0..(WRAP - 1)
    /\ elems \in [Descs -> Descs \cup {NULL}] /\ used_id \in 0..(WRAP - 1)
    /\ irq \in BOOLEAN
    /\ seen \in 0..(WRAP - 1)
    /\ working \subseteq Descs
    /\ moved \subseteq Procs
    /\ disk \in [Procs -> BOOLEAN]
    /\ pc \in [Procs -> {"idle", "alloc", "wait"}]
    /\ chan \in [Procs -> Procs \cup {"free", NULL}]
    /\ handler \in {"off", "loop", "ack"}
    /\ missed \in BOOLEAN

\* virtio_disk_init.
Init ==
    /\ free = Descs
    /\ next = [i \in Descs |-> NULL]
    /\ addr = [i \in Descs |-> NULL]
    /\ info = [i \in Descs |-> NULL]
    /\ used_idx = 0
    /\ avail = [i \in Descs |-> NULL] /\ avail_id = 0
    /\ elems = [i \in Descs |-> NULL] /\ used_id = 0
    /\ irq = FALSE
    /\ seen = 0 /\ working = {} /\ moved = {}
    /\ disk = [p \in Procs |-> FALSE]
    /\ pc = [p \in Procs |-> "idle"]
    /\ chan = [p \in Procs |-> NULL]
    /\ handler = "off"
    /\ missed = FALSE

Goto(p, l) == pc' = [pc EXCEPT ![p] = l]

\* p is on a processor and can take vdisk_lock.
Ready(p) == chan[p] = NULL /\ handler = "off"

\* chan after proc_wakeup(c).
Woken(c) == [q \in Procs |-> IF chan[q] = c THEN NULL ELSE chan[q]]

-----------------------------------------------------------------------------
(***************************************************************************)
(* virtio_disk_rw.                                                         *)
(***************************************************************************)
virtio_disk_rw(p) ==
    /\ pc[p] = "idle"
    /\ Goto(p, "alloc")
    /\ UNCHANGED <<dvars, used_idx, rings, irq, device, disk, chan, handler, missed>>

\* Mutant: descriptors taken in vain are not given back.
AllocFailLeak(p) ==
    /\ pc[p] = "alloc" /\ Ready(p)
    /\ Cardinality(free) < 3
    /\ free' = {}
    /\ chan' = [chan EXCEPT ![p] = "free"]
    /\ UNCHANGED <<next, addr, info, used_idx, rings, irq, device, disk, pc, handler, missed>>

\* alloc3_desc fails: what it took goes back with a wakeup for each, and the
\* process sleeps on &disk.free[0].
AllocFail(p) ==
    /\ pc[p] = "alloc" /\ Ready(p)
    /\ Cardinality(free) < 3
    /\ chan' = [(IF free = {} THEN chan ELSE Woken("free")) EXCEPT ![p] = "free"]
    /\ UNCHANGED <<dvars, used_idx, rings, irq, device, disk, pc, handler, missed>>

\* alloc_desc takes the first free descriptor, three times.
First == Min(free)
Second == Min(free \ {First})
Third == Min(free \ {First, Second})

\* Mutant: the ring index is taken after the counter was advanced.
AvailNext(i) == [avail EXCEPT ![(avail_id + 1) % NUM] = i]

\* disk.avail[2 + (disk.avail[1] % NUM)] = idx[0].
AvailPut(i) == [avail EXCEPT ![avail_id % NUM] = i]

\* Mutant: b->disk is not set, so the process does not wait.
SubmitNoFlag(p) ==
    /\ pc[p] = "alloc" /\ Ready(p)
    /\ Cardinality(free) >= 3
    /\ free' = free \ {First, Second, Third}
    /\ next' = [next EXCEPT ![First] = Second, ![Second] = Third, ![Third] = NULL]
    /\ addr' = [addr EXCEPT ![Second] = p]
    /\ info' = [info EXCEPT ![First] = p]
    /\ avail' = AvailPut(First)
    /\ avail_id' = (avail_id + 1) % WRAP
    /\ Goto(p, "wait")
    /\ UNCHANGED <<used_idx, elems, used_id, irq, device, disk, chan, handler, missed>>

\* The request is made and the process sleeps on its buffer.
Submit(p) ==
    /\ pc[p] = "alloc" /\ Ready(p)
    /\ Cardinality(free) >= 3
    /\ free' = free \ {First, Second, Third}
    /\ next' = [next EXCEPT ![First] = Second, ![Second] = Third, ![Third] = NULL]
    /\ addr' = [addr EXCEPT ![Second] = p]
    /\ info' = [info EXCEPT ![First] = p]
    /\ avail' = AvailPut(First)
    /\ avail_id' = (avail_id + 1) % WRAP
    /\ disk' = [disk EXCEPT ![p] = TRUE]
    /\ chan' = [chan EXCEPT ![p] = p]
    /\ Goto(p, "wait")
    /\ UNCHANGED <<used_idx, elems, used_id, irq, device, handler, missed>>

\* The descriptors that free_chain(i) frees.
Chain(i) == {i, next[i], next[next[i]]}

\* Mutant: free_desc wakes nobody.
FinishSilent(p) ==
    /\ pc[p] = "wait" /\ Ready(p)
    /\ ~ disk[p]
    /\ LET i == CHOOSE i \in Descs : info[i] = p IN
        /\ free' = free \cup Chain(i)
        /\ addr' = [d \in Descs |-> IF d \in Chain(i) THEN NULL ELSE addr[d]]
        /\ next' = [d \in Descs |-> IF d \in Chain(i) THEN NULL ELSE next[d]]
        /\ info' = [info EXCEPT ![i] = NULL]
    /\ moved' = moved \ {p}
    /\ Goto(p, "idle")
    /\ UNCHANGED <<used_idx, rings, irq, seen, working, disk, chan, handler, missed>>

\* The loop around proc_sleep ends at its first test, since only
\* virtio_disk_intr wakes sleepers on b, after it has cleared b->disk.  Then
\* info is cleared and the chain is freed.  i is the local idx[0].
Finish(p) ==
    /\ pc[p] = "wait" /\ Ready(p)
    /\ ~ disk[p]
    /\ LET i == CHOOSE i \in Descs : info[i] = p IN
        /\ free' = free \cup Chain(i)
        /\ addr' = [d \in Descs |-> IF d \in Chain(i) THEN NULL ELSE addr[d]]
        /\ next' = [d \in Descs |-> IF d \in Chain(i) THEN NULL ELSE next[d]]
        /\ info' = [info EXCEPT ![i] = NULL]
    /\ chan' = Woken("free")
    /\ moved' = moved \ {p}
    /\ Goto(p, "idle")
    /\ UNCHANGED <<used_idx, rings, irq, seen, working, disk, handler, missed>>

-----------------------------------------------------------------------------
(***************************************************************************)
(* The disk.  It takes requests in order and finishes them in any order.   *)
(***************************************************************************)
DeviceTake ==
    /\ seen # avail_id
    /\ working' = working \cup {avail[seen % NUM]}
    /\ seen' = (seen + 1) % WRAP
    /\ avail' = [avail EXCEPT ![seen % NUM] = NULL]
    /\ UNCHANGED <<dvars, used_idx, avail_id, elems, used_id, irq, moved, disk, pc, chan, handler, missed>>

DeviceFinish(i) ==
    /\ i \in working
    /\ working' = working \ {i}
    /\ moved' = IF next[i] = NULL THEN moved ELSE moved \cup ({addr[next[i]]} \ {NULL})
    /\ elems' = [elems EXCEPT ![used_id % NUM] = i]
    /\ used_id' = (used_id + 1) % WRAP
    /\ irq' = TRUE
    /\ missed' = (missed \/ handler = "ack")
    /\ UNCHANGED <<dvars, used_idx, avail, avail_id, seen, disk, pc, chan, handler>>

-----------------------------------------------------------------------------
(***************************************************************************)
(* virtio_disk_intr.                                                       *)
(***************************************************************************)
IntrEnter ==
    /\ irq
    /\ handler = "off"
    /\ handler' = "loop"
    /\ UNCHANGED <<dvars, used_idx, rings, irq, device, disk, pc, chan, missed>>

\* Mutant: the newest completion is handled, not the next one.
IntrDoneNewest ==
    /\ handler = "loop"
    /\ used_idx % NUM # used_id % NUM
    /\ LET b == info[elems[(used_id + NUM - 1) % NUM]] IN
        /\ disk' = [p \in Procs |-> IF p = b THEN FALSE ELSE disk[p]]
        /\ chan' = Woken(b)
    /\ used_idx' = (used_idx + 1) % NUM
    /\ UNCHANGED <<dvars, rings, irq, device, pc, handler, missed>>

\* One completion: disk.info[id].b->disk = false; proc_wakeup(disk.info[id].b).
IntrDone ==
    /\ handler = "loop"
    /\ used_idx % NUM # used_id % NUM
    /\ LET b == info[elems[used_idx]] IN
        /\ disk' = [p \in Procs |-> IF p = b THEN FALSE ELSE disk[p]]
        /\ chan' = Woken(b)
    /\ elems' = [elems EXCEPT ![used_idx] = NULL]
    /\ used_idx' = (used_idx + 1) % NUM
    /\ UNCHANGED <<dvars, avail, avail_id, used_id, irq, device, pc, handler, missed>>

\* The loop has seen everything ...
IntrLast ==
    /\ handler = "loop"
    /\ used_idx % NUM = used_id % NUM
    /\ handler' = "ack"
    /\ UNCHANGED <<dvars, used_idx, rings, irq, device, disk, pc, chan, missed>>

\* ... and the interrupt is acknowledged.
virtio_disk_intr ==
    /\ handler = "ack"
    /\ irq' = FALSE
    /\ handler' = "off"
    /\ UNCHANGED <<dvars, used_idx, rings, device, disk, pc, chan, missed>>

-----------------------------------------------------------------------------
Handler == IntrEnter \/ IntrDone \/ IntrLast \/ virtio_disk_intr
Kernel(p) == AllocFail(p) \/ Submit(p) \/ Finish(p)
Disk == DeviceTake \/ \E i \in Descs : DeviceFinish(i)

Next == (\E p \in Procs : virtio_disk_rw(p) \/ Kernel(p)) \/ Disk \/ Handler

Spec == Init /\ [][Next]_vars

\* The disk works on what it is given, each request for its own time but not
\* forever, interrupts are taken, and a process that is awake goes on; who
\* keeps asking for vdisk_lock gets it.
Fairness ==
    /\ WF_vars(DeviceTake)
    /\ \A i \in Descs : WF_vars(DeviceFinish(i))
    /\ SF_vars(IntrEnter) /\ WF_vars(Handler)
    /\ \A p \in Procs : SF_vars(Kernel(p))

FairSpec == Spec /\ Fairness

-----------------------------------------------------------------------------
(***************************************************************************)
(* Properties.                                                             *)
(***************************************************************************)
\* The heads of the chains of requests under way.
Heads == {i \in Descs : info[i] # NULL}

\* Every descriptor is free or in exactly one chain, whatever the order of
\* allocations, failures and completions; none leaks, and free_desc never
\* panics over a descriptor that is free already.
DescsAccounted ==
    /\ TypeOK
    /\ \A i \in Heads : Cardinality(Chain(i)) = 3 /\ Chain(i) \subseteq Descs \ free
    /\ \A i, j \in Heads : i # j => Chain(i) \cap Chain(j) = {}
    /\ \A d \in Descs : d \in free \/ \E i \in Heads : d \in Chain(i)

\* The entries between two positions of a ring.
Between(from, to) == {k \in 0..(WRAP - 1) : (k + WRAP - from) % WRAP < (to + WRAP - from) % WRAP}

\* The disk and the handler only meet chains of requests that are still
\* waited for: info[id].b is never the null pointer, and the rings, which
\* nobody checks for overflow, overwrite no entry that was not looked at.
RingsLive ==
    /\ \A k \in Between(seen, avail_id) : avail[k % NUM] \in Heads
    /\ working \subseteq Heads
    /\ handler = "loop" /\ used_idx # used_id % NUM => elems[used_idx] \in Heads

\* virtio_disk_rw returns only after its own buffer was transferred, however
\* the completions are ordered.
OwnTransfer ==
    \A p \in Procs : pc[p] = "wait" /\ ~ disk[p] => p \in moved

\* While vdisk_lock is free, nobody sleeps for descriptors that are there, nor
\* on a buffer whose transfer the handler has reported.
NoLostWakeup ==
    \A p \in Procs :
        /\ chan[p] = "free" => Cardinality(free) < 3
        /\ chan[p] = p => disk[p]

\* A request that was made is finished, provided that the disk never
\* finishes one in the window before the acknowledgement.
ServedUnlessMissed ==
    \A p \in Procs : pc[p] = "wait" ~> (pc[p] # "wait" \/ missed)

\* virtio_disk_rw waits until the handler says that the request is finished,
\* and it is told.  Violated: if the disk finishes a request after the handler
\* has looked and before it acknowledges, and no other request follows.
Served == \A p \in Procs : pc[p] = "wait" ~> pc[p] # "wait"

-----------------------------------------------------------------------------
(***************************************************************************)
(* The inductive invariant.                                                *)
(***************************************************************************)
\* The chain of a head: three descriptors that are not free, disjoint from
\* the other chains; the second one holds the buffer of the request.
ChainInv ==
    /\ \A i \in Heads :
        /\ next[i] \in Descs /\ next[next[i]] \in Descs
        /\ i # next[i] /\ i # next[next[i]] /\ next[i] # next[next[i]]
        /\ Chain(i) \cap free = {}
        /\ addr[next[i]] = info[i]
    /\ \A i, j \in Heads : i # j => Chain(i) \cap Chain(j) = {}
    /\ \A d \in Descs : d \in free \/ \E i \in Heads : d \in Chain(i)

\* Every waiting process has one request, and no other process has any.
OwnerInv ==
    /\ \A i, j \in Heads : info[i] = info[j] => i = j
    /\ \A i \in Heads : pc[info[i]] = "wait"
    /\ \A p \in Procs : pc[p] = "wait" => \E i \in Descs : info[i] = p
    /\ \A p \in Procs : chan[p] \in {NULL, "free", p}

\* A request that was not reported is at one place at most: in avail, at the
\* disk, or in elems after its transfer.
PlaceInv ==
    /\ \A d \in Descs : avail[d] # NULL =>
        /\ avail[d] \in Heads \ working
        /\ disk[info[avail[d]]]
        /\ \A c \in Descs : elems[c] # avail[d] /\ (c # d => avail[c] # avail[d])
    /\ \A i \in working : i \in Heads /\ disk[info[i]]
    /\ \A d \in Descs : elems[d] # NULL =>
        /\ elems[d] \in Heads \ working
        /\ disk[info[elems[d]]]
        /\ info[elems[d]] \in moved
        /\ \A c \in Descs : c # d => elems[c] # elems[d]

\* How far position d of a ring is after position h.
Ahead(d, h) == IF d >= h THEN d - h ELSE (d + NUM) - h

\* The live entries of ring f are those from position h to before position t.
Live(f, h, t) == \A d \in Descs : f[d] # NULL <=> Ahead(d, h) < Ahead(t, h)

\* Neither ring is ever full, so that the positions tell how much is in it.
RingInv ==
    /\ Live(avail, seen % NUM, avail_id % NUM)
    /\ (avail_id + WRAP - seen) % WRAP = Ahead(avail_id % NUM, seen % NUM)
    /\ Live(elems, used_idx, used_id % NUM)

IInv ==
    /\ TypeOK
    /\ ChainInv
    /\ OwnerInv
    /\ PlaceInv
    /\ RingInv
    /\ OwnTransfer
    /\ NoLostWakeup

=============================================================================
