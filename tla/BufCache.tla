------------------------------ MODULE BufCache ------------------------------
(***************************************************************************)
(* kernel/fs/buf.c: the cache of disk blocks.  A session is one use of a   *)
(* buffer, from buf_read to buf_release; a process that holds several      *)
(* buffers is several sessions.                                            *)
(*                                                                         *)
(* What happens under lk_buf_cache is one step, since nothing else looks   *)
(* at the list, buf_ref or block_num meanwhile.  The one exception in the  *)
(* code, buf_read's look at head_buf.prev before it takes the lock, is a   *)
(* step of its own.  The sleep lock of a buffer is the mutex of module     *)
(* Mutex, which SleepLock implements, and virtio_disk_rw is one step: only *)
(* the holder of the sleep lock and the device touch the data meanwhile.   *)
(***************************************************************************)
EXTENDS Naturals, Sequences, FiniteSets, FiniteSetsExt, SequencesExt

CONSTANTS Bufs,      \* buf_cache
          Blocks,    \* numbers of disk blocks
          Vals,      \* contents of a block
          Sessions,
          WRAP,      \* buf_ref counts modulo WRAP
          NULL       \* BLOCK_NUM_UNUSED, and no buffer

ASSUME BufAssumption ==
    /\ IsFiniteSet(Bufs) /\ Bufs # {}
    /\ IsFiniteSet(Sessions)
    /\ WRAP \in Nat /\ WRAP > Cardinality(Sessions)
    /\ NULL \notin Bufs \cup Blocks \cup Sessions

VARIABLES
    list,        \* the buffers from head_buf.next to head_buf.prev
    buf_ref,
    block_num,
    slk,         \* who holds the sleep lock of a buffer, or NULL
    data,        \* the contents of a buffer
    disk,        \* the contents of a block on the disk
    \* locals of a session
    pc,
    want,        \* the argument of buf_read
    start,       \* buf_node, as read from head_buf.prev
    target,      \* the buffer
    \* history
    raced        \* a scan started from a node that was no longer the last

cache == <<list, buf_ref, block_num>>
locals == <<want, start, target>>
vars == <<cache, slk, data, disk, pc, locals, raced>>

Labels == {"idle", "start", "lock", "lock_fill", "fill", "held", "dirty", "unref", "panic"}

TypeOK ==
    /\ list \in Seq(Bufs) /\ Len(list) = Cardinality(Bufs)
    /\ \A b \in Bufs : \E k \in DOMAIN list : list[k] = b
    /\ buf_ref \in [Bufs -> 0..(WRAP - 1)]
    /\ block_num \in [Bufs -> Blocks \cup {NULL}]
    /\ slk \in [Bufs -> Sessions \cup {NULL}]
    /\ data \in [Bufs -> Vals]
    /\ disk \in [Blocks -> Vals]
    /\ pc \in [Sessions -> Labels]
    /\ want \in [Sessions -> Blocks \cup {NULL}]
    /\ start \in [Sessions -> Bufs \cup {NULL}]
    /\ target \in [Sessions -> Bufs \cup {NULL}]
    /\ raced \in BOOLEAN

\* buf_init: every buffer unused and in the list, in some order; the disk
\* holds anything.
Init ==
    /\ list \in {l \in [1..Cardinality(Bufs) -> Bufs] : \A b \in Bufs : \E k \in DOMAIN l : l[k] = b}
    /\ buf_ref = [b \in Bufs |-> 0]
    /\ block_num = [b \in Bufs |-> NULL]
    /\ slk = [b \in Bufs |-> NULL]
    /\ \E v \in Vals : data = [b \in Bufs |-> v]
    /\ disk \in [Blocks -> Vals]
    /\ pc = [s \in Sessions |-> "idle"]
    /\ want = [s \in Sessions |-> NULL]
    /\ start = [s \in Sessions |-> NULL]
    /\ target = [s \in Sessions |-> NULL]
    /\ raced = FALSE

Goto(s, l) == pc' = [pc EXCEPT ![s] = l]

LastBuf == list[Len(list)]

Pos(b) == CHOOSE k \in DOMAIN list : list[k] = b

\* insert_head(b, 1): the node leaves its place and goes to the front.
Without(b) == RemoveAt(list, Pos(b))
ToFront(b) == <<b>> \o Without(b)

\* insert_head(b, 0): to the end.
ToBack(b) == Without(b) \o <<b>>

-----------------------------------------------------------------------------
(***************************************************************************)
(* buf_read.                                                               *)
(***************************************************************************)
\* buf_node = head_buf.prev, before the lock is taken.
buf_read(s, blk) ==
    /\ pc[s] = "idle"
    /\ want' = [want EXCEPT ![s] = blk]
    /\ start' = [start EXCEPT ![s] = LastBuf]
    /\ Goto(s, "start")
    /\ UNCHANGED <<cache, slk, data, disk, target, raced>>

\* lk_buf_cache can be taken: nobody panicked while holding it.
CacheLock == \A s \in Sessions : pc[s] # "panic"

\* The place where the walk from start towards the head stops: a buffer in
\* use, or head_buf itself.
Stop(s) == Max({0} \cup {k \in 1..Pos(start[s]) : buf_ref[list[k]] > 0})

\* The first loop looks at the places behind that one, the second at those
\* before it.
Near(s) == {k \in (Stop(s) + 1)..Pos(start[s]) : block_num[list[k]] = want[s]}
Far(s) == {k \in 1..Stop(s) : block_num[list[k]] = want[s]}

Scanned(s) ==
    /\ raced' = (raced \/ start[s] # LastBuf)
    /\ start' = [start EXCEPT ![s] = NULL]

\* Mutant: a hit does not count as a use.
ScanHitNoRef(s) ==
    /\ pc[s] = "start" /\ CacheLock
    /\ Near(s) \cup Far(s) # {}
    /\ LET b == list[IF Near(s) # {} THEN Max(Near(s)) ELSE Min(Far(s))] IN
        /\ target' = [target EXCEPT ![s] = b]
        /\ list' = ToFront(b)
    /\ Scanned(s)
    /\ Goto(s, "lock")
    /\ UNCHANGED <<buf_ref, block_num, slk, data, disk, want>>

\* The block is in the cache.
ScanHit(s) ==
    /\ pc[s] = "start" /\ CacheLock
    /\ Near(s) \cup Far(s) # {}
    /\ LET b == list[IF Near(s) # {} THEN Max(Near(s)) ELSE Min(Far(s))] IN
        /\ target' = [target EXCEPT ![s] = b]
        /\ list' = ToFront(b)
        /\ buf_ref' = [buf_ref EXCEPT ![b] = (@ + 1) % WRAP]
    /\ Scanned(s)
    /\ Goto(s, "lock")
    /\ UNCHANGED <<block_num, slk, data, disk, want>>

\* It is not: oldest_node, the next one behind the stop, is renamed.
ScanMiss(s) ==
    /\ pc[s] = "start" /\ CacheLock
    /\ Near(s) \cup Far(s) = {}
    /\ Stop(s) < Len(list)
    /\ LET b == list[Stop(s) + 1] IN
        /\ target' = [target EXCEPT ![s] = b]
        /\ buf_ref' = [buf_ref EXCEPT ![b] = 1]
        /\ block_num' = [block_num EXCEPT ![b] = want[s]]
    /\ Scanned(s)
    /\ Goto(s, "lock_fill")
    /\ UNCHANGED <<list, slk, data, disk, want>>

\* No buffer: the assertion fails with the lock held.
ScanPanic(s) ==
    /\ pc[s] = "start" /\ CacheLock
    /\ Near(s) \cup Far(s) = {}
    /\ Stop(s) = Len(list)
    /\ Scanned(s)
    /\ Goto(s, "panic")
    /\ UNCHANGED <<cache, slk, data, disk, want, target>>

\* sleeplock_acquire(&target->slk), after a hit and after a miss.
LockTarget(s) ==
    /\ pc[s] \in {"lock", "lock_fill"}
    /\ slk[target[s]] = NULL
    /\ slk' = [slk EXCEPT ![target[s]] = s]
    /\ Goto(s, IF pc[s] = "lock" THEN "held" ELSE "fill")
    /\ UNCHANGED <<cache, data, disk, locals, raced>>

\* virtio_disk_rw(target, 0).
Fill(s) ==
    /\ pc[s] = "fill"
    /\ data' = [data EXCEPT ![target[s]] = disk[block_num[target[s]]]]
    /\ Goto(s, "held")
    /\ UNCHANGED <<cache, slk, disk, locals, raced>>

-----------------------------------------------------------------------------
(***************************************************************************)
(* The caller's change of the data, buf_write and buf_release.             *)
(***************************************************************************)
\* The caller, who holds the sleep lock, changes the data in memory.
SetData(s, v) ==
    /\ pc[s] = "held"
    /\ data' = [data EXCEPT ![target[s]] = v]
    /\ Goto(s, "dirty")
    /\ UNCHANGED <<cache, slk, disk, locals, raced>>

\* Mutant: the change stays in memory.
buf_write_lazy(s) ==
    /\ pc[s] = "dirty"
    /\ Goto(s, "held")
    /\ UNCHANGED <<cache, slk, data, disk, locals, raced>>

\* virtio_disk_rw(buf, 1).
buf_write(s) ==
    /\ pc[s] = "dirty"
    /\ disk' = [disk EXCEPT ![block_num[target[s]]] = data[target[s]]]
    /\ Goto(s, "held")
    /\ UNCHANGED <<cache, slk, data, locals, raced>>

ReleaseTarget(s) ==
    /\ pc[s] = "held"
    /\ slk' = [slk EXCEPT ![target[s]] = NULL]
    /\ Goto(s, "unref")
    /\ UNCHANGED <<cache, data, disk, locals, raced>>

\* Mutant: the last user leaves the buffer among those in use.
buf_release_in_place(s) ==
    /\ pc[s] = "unref" /\ CacheLock
    /\ buf_ref' = [buf_ref EXCEPT ![target[s]] = (@ + WRAP - 1) % WRAP]
    /\ Goto(s, "idle")
    /\ want' = [want EXCEPT ![s] = NULL]
    /\ target' = [target EXCEPT ![s] = NULL]
    /\ UNCHANGED <<list, block_num, slk, data, disk, start, raced>>

\* The last user moves the buffer to the end.
buf_release(s) ==
    /\ pc[s] = "unref" /\ CacheLock
    /\ buf_ref' = [buf_ref EXCEPT ![target[s]] = (@ + WRAP - 1) % WRAP]
    /\ list' = IF buf_ref[target[s]] = 1 THEN ToBack(target[s]) ELSE list
    /\ Goto(s, "idle")
    /\ want' = [want EXCEPT ![s] = NULL]
    /\ target' = [target EXCEPT ![s] = NULL]
    /\ UNCHANGED <<block_num, slk, data, disk, start, raced>>

-----------------------------------------------------------------------------
Next ==
    \E s \in Sessions :
        \/ \E blk \in Blocks : buf_read(s, blk)
        \/ ScanHit(s) \/ ScanMiss(s) \/ ScanPanic(s) \/ LockTarget(s) \/ Fill(s)
        \/ \E v \in Vals : SetData(s, v)
        \/ buf_write(s) \/ ReleaseTarget(s) \/ buf_release(s)

Spec == Init /\ [][Next]_vars

-----------------------------------------------------------------------------
(***************************************************************************)
(* Properties.                                                             *)
(***************************************************************************)
\* The sessions that have been given b and have not dropped it.
Users(b) == {s \in Sessions : target[s] = b}

\* buf_read renames only a buffer that nobody uses: the buffer of a session
\* stands for its block until buf_release.  Violated, if a scan starts from a
\* buffer that another session has taken since.
EvictsUnused ==
    \A s \in Sessions : target[s] # NULL => block_num[target[s]] = want[s]

\* As long as no scan has started from a stale place, buf_ref counts the
\* users of a buffer, no two buffers stand for the same block, and every
\* user has the block it asked for: a buffer in use is not evicted.
Owned ==
    /\ TypeOK
    /\ ~ raced =>
           /\ \A b \in Bufs : buf_ref[b] = Cardinality(Users(b))
           /\ \A b, c \in Bufs : block_num[b] = block_num[c] /\ b # c => block_num[b] = NULL
           /\ EvictsUnused

\* As long as no scan has started from a stale place, the buffers in use
\* come before the free ones, as both loops of buf_read take for granted;
\* so the assertion fails only when every buffer is in use.
UsedFirst ==
    ~ raced =>
        /\ \A j, k \in DOMAIN list : j < k /\ buf_ref[list[j]] = 0 => buf_ref[list[k]] = 0
        /\ (\E s \in Sessions : pc[s] = "panic") => \A b \in Bufs : buf_ref[b] > 0

\* As long as no scan has started from a stale place, memory and disk agree
\* on a cached block, except while the session that renamed the buffer has
\* still to read it, or one that changed it has still to call buf_write.
Coherent ==
    ~ raced =>
        \A b \in Bufs :
            \/ block_num[b] = NULL
            \/ data[b] = disk[block_num[b]]
            \/ \E s \in Users(b) : pc[s] \in {"lock_fill", "fill", "dirty"}

\* buf_read returns with the block that is on the disk.  Violated even if no
\* scan starts from a stale place: a second reader of a block finds the renamed
\* buffer and may get its sleep lock before the session that is to fill it.
ReturnsBlock ==
    ~ raced => \A s \in Sessions : pc[s] = "held" => data[target[s]] = disk[block_num[target[s]]]

-----------------------------------------------------------------------------
(***************************************************************************)
(* The inductive invariant.                                                *)
(***************************************************************************)
\* A buffer is in the list once.
ListInv == \A j, k \in DOMAIN list : list[j] = list[k] => j = k

\* A session has a buffer from the scan to buf_release, holds its sleep lock
\* from there to there, and the buffer stands for some block.
SessionInv ==
    /\ \A s \in Sessions :
        /\ target[s] = NULL <=> pc[s] \in {"idle", "start", "panic"}
        /\ pc[s] = "start" => start[s] # NULL
        /\ pc[s] # "idle" => want[s] # NULL
        /\ target[s] # NULL => block_num[target[s]] # NULL
        /\ pc[s] \in {"fill", "held", "dirty"} => slk[target[s]] = s
    /\ \A b \in Bufs : slk[b] # NULL => target[slk[b]] = b /\ pc[slk[b]] \in {"fill", "held", "dirty"}

IInv ==
    /\ ListInv
    /\ SessionInv
    /\ Owned
    /\ UsedFirst
    /\ Coherent

=============================================================================
