# TLA+ models of Uno-OS

Uno-OS is a small RISC-V kernel in C: two processors, a fixed table of
processes, spin and sleep locks, a block file system on a virtio disk, pipes,
semaphores, demand memory with copy on write. This directory models its
processes, locks, pipes, files, file system and memory, checks the models with
TLC and proves the central properties with TLAPS. Source paths below are relative to the repository.

## Inventory

| Component | State | Operations | What makes it hard |
|---|---|---|---|
| Process table, `kernel/proc/proc.c` | `procs[]`: state, parent, sleep_space, lock, context; `mycpu()->proc` | scheduler loop, fork, wait, exit, reparent, yield | two processors, a lock handed over through `swtch`, locks taken in two orders |
| Sleep/wakeup, `proc.c` | state, sleep_space, two locks | `proc_sleep`, `proc_wakeup` | a wakeup between the test and the sleep |
| Spin locks, `kernel/lib/spinlock.c` | holder, interrupt nesting | acquire, release | reacquisition panics; interrupts return with the outermost release |
| Sleep locks, `kernel/lib/sleeplock.c` | locked, pid | acquire, release, holding | waiters race after a wakeup |
| Semaphores, `proc.c` | value, valid | wait, up, alloc, free | early returns that keep a lock |
| Timer, `kernel/dev/timer.c` | ticks | `timer_update`, `sys_sleep` | ticks read without the lock |
| Pipes, `kernel/fs/pipe.c` | ring, counters, two open flags | read, write, close | blocking in the middle of a copy, last close, counter overflow |
| Open files, `kernel/fs/file.c`, `kernel/syscall/sysfile.c` | table of `file_t` with ref, descriptors per process | alloc, dup, close | references across fork and exit |
| Block cache, `kernel/fs/buf.c` | LRU list, ref, sleep lock | read, write, release | eviction against concurrent readers |
| Disk, `kernel/dev/virtio.c` | descriptors, rings | rw, interrupt | completion out of order, descriptor shortage |
| Inodes, `kernel/fs/inode.c` | cache, block tree | get, lock, free, read, write | last reference with link count zero |
| Directories, `kernel/fs/dir.c` | entries, link counts | create, link, unlink | entries and link counts written separately |
| Bitmaps, `kernel/fs/bitmap.c` | one bit per block or inode | allocate, free | two different index formulas |
| Pages, `kernel/mem/pmem.c`, `kernel/trap/trap_user.c` | free lists, reference counts in the pages | alloc, free, copy on write | the count lives in memory that is cleared |
| mmap, `kernel/mem/mmap.c`, `uvm.c` | free list per process, pool of nodes | mmap, munmap | splitting and merging |
| Console, `kernel/dev/console.c` | line buffer, three indices | read, write, interrupt | indices that run around |
| exec, syscall table, page tables, boot, printing, mkfs, user programs | | | sequential, or I/O |

Components interact through calls: the file layer calls pipes, inodes and the
console; inodes and directories call the block cache, which calls the disk;
every blocking component calls `proc_sleep` and `proc_wakeup`, which share the
slot locks with the scheduler. Properties wanted of each: exclusive execution
of a process and no lost exit (table), no lost wakeup (sleep), mutual
exclusion (locks), FIFO order (pipes), one buffer per block and no eviction of
a buffer in use (cache), no descriptor used twice (disk), reference counts
that equal the references (files, inodes, pages), disjoint regions (mmap).

## Modules

| Module | Models |
|---|---|
| `ProcLifecycle` | abstract: the state diagram in `include/proc/proc.h` and who may make each transition |
| `Proc` | `proc.c` on several processors: scheduler, fork, wait, exit, yield, panics |
| `ProcProofs` | the inductive invariant of `Proc` and theorems about it |
| `MCProc` | instance for TLC |
| `WaitChannel` | `proc_sleep` under a caller's lock, `proc_wakeup` slot by slot |
| `Fifo` | abstract: a bounded FIFO channel with two ends that close |
| `Pipe` | `pipe.c` and the reference counts of its files, on `WaitChannel` |
| `PipeProofs` | the invariants of `Pipe` and of `SleepLock`, and theorems about both |
| `MCPipe` | instance for TLC |
| `Mutex` | abstract: one holder at a time |
| `SleepLock` | `sleeplock.c` on `WaitChannel` |
| `MCSleepLock` | instance for TLC |
| `BufCache` | `buf.c`: the block cache over an abstract mutex per buffer |
| `BufCacheProofs` | the inductive invariant of `BufCache` and theorems about it |
| `MCBufCache` | instance for TLC |
| `VirtioDisk` | `virtio.c`: descriptors, rings, interrupt handler, and the disk |
| `VirtioDiskProofs` | the inductive invariant of `VirtioDisk` and theorems about it |
| `MCVirtioDisk` | instance for TLC |
| `PrivateMemory` | abstract: every process has a memory of its own |
| `Pages` | `pmem.c`, copy on write, fork, exec, brk and page faults |
| `PagesProofs` | the inductive invariant of `Pages` and theorems about it |
| `MCPages` | instance for TLC |
| `Mmap` | `mmap.c`, `uvm_mmap`, `uvm_munmap` and the regions over fork, exec and exit |
| `MmapProofs` | the inductive invariant of `Mmap` and theorems about it |
| `MCMmap` | instance for TLC |
| `Files` | the open file table of `file.c` and the descriptors of `sysfile.c` |
| `FilesProofs` | the invariants of `Files` and of `FileData`, and theorems about both |
| `MCFiles` | instance for TLC |
| `FileData` | the blocks of files: second half of `inode.c`, data part of `bitmap.c` |
| `MCFileData` | instance for TLC |
| `Dir` | inode cache, link counts, directories and paths: first half of `inode.c`, `dir.c` |
| `DirProofs` | the inductive invariant of `Dir` and theorems about it |
| `MCDir` | instance for TLC |

### Proc

One step is what a processor does between two acquisitions of a slot lock, or
one unlocked access to `procs[]`. `cpc[c]` says what processor `c` does: scan
(`proc_scheduler`'s loop), run a process, leave it (`sched`: `proc_sched` has
been called, `swtch` not finished), return (`ret`: back in the scheduler's
context), clear (`mycpu()->proc` still set), or spin in `panic`. `pc[p]` is the
step of the process in slot `p`; it survives while the process is off its
processor, as its kernel stack does. `ctx[p]` is where `swtch` resumes it:
`fork_return` and `proc_yield` release the lock, `proc_sleep` on the own lock
keeps it, and `"frame"` is a context that belongs to somebody else's stack. `lk[p]` is the holding processor, since a lock is handed from the
process to the scheduler on the same processor.

| Action | Code |
|---|---|
| `ScanSkip`, `ScanKeep`, `ScanPass`, `ScanIdle` | the loop over the slots; the candidate's lock stays held |
| `Switch` | choosing `next_p` and `swtch` up to where the process resumes |
| `SchedAway`, `SchedRelease`, `SchedClear` | `swtch` back, release of the lock, clearing of `mycpu()->proc` |
| `proc_yield` | timer interrupt in user mode or at an unlocked place of a system call |
| `SysFork`, `AllocSkip`, `proc_alloc`, `proc_fork` | fork |
| `SysWait`, `WaitLock`, `WaitNotKid`, `WaitKid`, `WaitSkip`, `WaitReap`, `WaitNoKids`, `WaitSleep` | `proc_wait`; `WaitReap` includes `proc_free` |
| `SysExit`, `ExitWakeZero`, ..., `ReparentAdopt`, `proc_exit` | `proc_exit` and `proc_reparent` |
| `PanicReacquire`, `PanicProc` | failing assertions |
| `PanicNoCandidate` | `found` is set and `next_p` is NULL: the scheduler reads through it |
| `PanicReap` | `proc_free` closes files under two slot locks; a close that wakes or sleeps takes one of them again |

Response ratios are abstracted: any RUNNABLE candidate may win the scan, and a
slot whose ratio is 0 does not become one, so `found` can be set with no
candidate at all (`ScanPass`, then `PanicNoCandidate`). Pids, exit codes, memory
and files are left out; what closing files can do to the slot locks is
`PanicReap`. The timer interrupt in the scheduler's own context is left out of
`Spec`, which describes the kernel as its comment intends it; `WindowSpec` adds
the one such interrupt that has an effect (`WindowYield`). Its handler runs on the
scheduler's stack, so what `swtch` stores in `p->ctx` is a frame of that stack
(`"frame"`); what a later `swtch` to that frame would do is undefined, and
`WindowSpec` ends there.

`proc_wait` without children returns with the slot lock held (`WaitNoKids`);
the model keeps it, and the next use of that lock on the processor is
`PanicReacquire`. The properties are checked over these states too.

### WaitChannel and Pipe

`WaitChannel` splits `proc_sleep` where another processor can get in between:
`SleepEnter` (own lock taken, caller's lock given up), `SleepSwitch` (SLEEPING,
own lock released by the scheduler), `Dispatch`, and the reacquisition of the
caller's lock, which the client module does. `WakeSlot` is one round of
`proc_wakeup`'s loop and waits for the slot's lock. The scheduler is reduced to
`Dispatch`: that a process which has left is off its stack is what `Proc`
shows.

`Pipe` has one action per piece of `pipe_write`, `pipe_read` and `pipe_close`
between two places where another process matters; the copying loops go byte by
byte under `pipe->lock`. Descriptors start with the process that called
`sys_pipe`, spread by fork (`file_dup`) and go by `sys_close`; `file_close` of
the last reference of an end calls `pipe_close`, which tests the two flags
after the lock is released. `word` is the word of the page that `pmem_free` takes
for its reference count and decrements: it is half of `lock.name`, an address
(`NAME`), so `NAME - word` is the number of calls (`Calls`), and the page would be put into the
list only if the word became 0. `sent` and `got` are history variables. The counters are modulo `WRAP`; the code's range,
2^32, is not a multiple of its ring size, 500, so at the overflow the ring index
jumps and the order is lost. `NoWrap` says that this has not happened yet.

### SleepLock

`AcquireSpin` takes the spin lock inside the sleep lock, on entry or when
`proc_sleep` returns; `AcquireSleep`, `proc_sleep`, `DispatchProc` are the body
of the while loop and `sleeplock_acquire` what follows it. `Release` clears the
fields, `proc_wakeup` visits the slots one by one, `sleeplock_release` lets go
of the spin lock. Pids are slots: a pid belongs to one process as long as it
can hold the lock. `sleeplock_holding` is a state function, read by the
assertions of the block cache and the inodes.

### BufCache

A session is one use of a buffer, from `buf_read` to `buf_release`; callers
that hold two buffers at once are two sessions. Everything `buf_read` does
under `lk_buf_cache` is one step (`ScanHit`, `ScanMiss`, `ScanPanic`), because
the list, `buf_ref` and `block_num` are used under that lock only. The one
exception is its first line, which reads `head_buf.prev` before the lock is
taken: the action `buf_read` is that line, and the scan starts from what it
saw. `Stop`, `Near` and `Far` are the two loops: the first walks from the end
towards the head until it meets a buffer in use, the second looks at the rest.
`LockTarget` and `Fill` follow the release of the lock. The sleep lock is one
variable per buffer, as in `Mutex`, which `MutexTheorem` shows the sleep lock to
implement. `virtio_disk_rw` is one step, since only the holder of the sleep
lock and the disk touch the data meanwhile. The change a caller makes to the data
in memory (`SetData`) and its `buf_write` are separate steps.

The history variable `raced` is set by a scan that starts from a buffer which
is no longer the last. After that the properties may fail: the start may be in
use, and so may the buffer behind it, which is taken for the oldest free one. The
properties are stated as long as `raced` is false, and so say exactly what the
unlocked read costs; `EvictsUnused` states the promise without that condition
and is violated. `Coherent` leaves out a buffer that somebody has still to fill or has
changed and still to write. A miss renames the buffer and drops `lk_buf_cache`
before it takes the sleep lock, so a second reader of the block may overtake it
and return with the previous block's contents; there is no valid flag to tell.
`ReturnsBlock` says that this does not happen, and is violated.

### VirtioDisk

`virtio_disk_rw` holds `vdisk_lock` except in `proc_sleep`, so it is four
steps: the call, `AllocFail` (too few descriptors, everything goes back, sleep
on `disk.free`), `Submit` (three descriptors, the ring entry, sleep on the
buffer) and `Finish`. The handler is several steps because the disk does not
wait for locks: `IntrEnter`, one `IntrDone` per completion, `IntrLast` where the
loop ends, and `virtio_disk_intr` for the acknowledgement. The disk
(`DeviceTake`, `DeviceFinish`) is external: it takes requests in order,
finishes them in any order and raises the interrupt with each. A ring entry
that was looked at and the links of a freed descriptor become `NULL`, so that a
use of stale memory shows. The kind of a request, the sector and the status byte
are left out, and with them a disk that reports an error. The history variable
`missed` is set when the disk finishes a request between `IntrLast` and the
acknowledgement, which then clears that interrupt too: the completion stays in
the ring until another request completes, and without one its process sleeps
forever: `ServedUnlessMissed` leaves this out, `Served` does not and is violated.

### Pages

`pmem_alloc` and `pmem_free` keep the reference count of a page inside the page,
where user programs write. `word[g]` is that word of page `g`: `pmem_alloc`
clears it after setting it, `pmem_free` gives a page back only if it happens to
be 1, `handle_cow` copies it with the page, and a store by the program or a
`uvm_copyout` on its behalf changes it. `free` is the list, `pte[p]` the leaves
of a page table with their writable and copy-on-write bits, `tf` the trapframe
page, `heap_top` the end of the heap in units of which a page has `PG`;
`PagesTo` rounds it up to pages. The list is kept in the code's order: pages are
taken from its front, in the order of their addresses, and those given back
stand there in the order `uvm_heap_ungrow` (downwards, `ReclaimedDown`) or
`uvm_destroy_pgtbl` (upwards, `ReclaimedTable`) frees them. Fork copies every page *and*
marks both sides copy on write, as the code does, so a page never has two
owners (`Exclusive`) although the counts say nothing; most pages leak, which
`PagesGivenBack` forbids and the code violates.
`handle_cow_own` is the case where the word is 1, `handle_cow_copy` the other.
`proc_exec` has its successful path and three failing ones, with a program of one
page and without the stack page (several segments only repeat the step). The length `sys_brk` hands to
`uvm_heap_grow` is cut to 32 bits; the cut call is a call with a smaller end,
which the model has among its inputs. A fork without
enough pages (`Fork_panic`) takes the child's slot with it, whose lock it holds.
`PageAt` names the places where a process can have a page: its addresses and
its trapframe. The abstract
`PrivateMemory` knows only which addresses a process has and what it finds
there; its `Fork` gives the child some of the parent's addresses with the
parent's contents, since the code copies by the parent's heap and region list
and not by its table. That the heap is among them is `HeapMapped`. `PrivateSpec` says that faults, fork, exec, brk and the release of pages
are steps of it. Every operation is one step: it touches the free list under
the region's lock, and otherwise only pages that `Exclusive` gives to its
process.

### Mmap

`list[p]` is the list of free regions of a process, with the special node first;
`pool` the number of free nodes; `mapped[p]` the pages of the area in the page
table. `uvm_mmap` takes the first region that matches and cuts it at either end
or in the middle (`Rest`); `munmap_between` inserts the region and merges it
with both neighbours (`Merged`); `munmap_end` is the case behind the last
region, where the code links the new node first and then merges, which frees a
node that is still in the list. The history variable `corrupt` marks this
moment; afterwards two places share a node and the model goes no further.
`strayed` are processes that touched an address of the area they had not
mapped: `handle_page_fault` gives them a page all the same, and the list is then
no longer the complement of the table. Panics keep `list_lk`, as in the code.

`list_lk` is held for one node at a time, so fork, exec and `proc_free` go node
by node with other processes in between: `Fork` copies the table and reserves
the slot (`child`), `Fork_node` takes a node, `Fork_end` makes the child
runnable; `proc_exec` and `proc_free` destroy or give up the old list,
`mmap_region_free` returns one node, `exec_first` and `exec_second` take the two of the
new list, and `mmap_region_alloc_panic` is the pool found empty on the way. `uvm_munmap` is one
step although it takes a node before `mmap_merge` returns up to two: a process
that would find the pool empty for just that moment is not modelled.

### Files

One step per section under `lk_ftable`. An open takes an inode, then an entry,
then a descriptor; `sys_pipe` takes two entries and two descriptors and undoes
them if there are not enough; `file_close` counts down, reads the fields and
gives up the lock, and only `file_release` closes the pipe end or drops the
inode, from what was read. `inhand[p]` are the files in the local variables of
`p`: made by an open or a pipe, or yet to be closed, numbered like descriptors
and closed in that order. `proc_free` puts all of `filelist` there, closes one
after the other and leaves the pointers in `filelist`. Its caller, `proc_wait`, holds two slot
locks, so a close that wakes sleepers (a pipe) or sleeps (an inode that is
destroyed) panics: `file_release_panic`. `saved[p]` is the inode
or the pipe end an open found, a pipe made or a close read. The fields of a new
file are set in the step of `file_alloc`, since nobody else looks at them before
the descriptor exists. `FileFor`, `Closing` and `Making` are the three reasons
for which an end of a pipe is open. Two history
variables name what the code gets wrong: `leaked` counts references `sys_dup`
took without a descriptor, and `dangled` is set when a descriptor is left that
names a closed file, by `sys_pipe` with one descriptor left or by the next use
of a process slot. `InodeRefs` has the console one lower than its files:
`file_create_dev` gives the inode back before it stores it in the file.

### FileData

A read or a write runs under its inode's lock and is one step; files share only
the bitmap, in which a search is atomic. `Locate` is `inode_locate_block` with its three levels, as a
function of the cached addresses, the contents of blocks and the bitmap,
`LocateAll` the loop of a read or a write over blocks, a recursive function whose
round is `Step`. A place of a file is the path to a block through its addresses
and tables (`Places`, `BlockAt`), which is also how a reader of the properties
finds a block without `Locate`. `mem` is the inode in the
cache, `disk` the one on the disk: a read takes the inode from the disk again
(`Reread`), a write puts it there only with a new size (`WrittenBack`), and link
and unlink put it there as it is in the cache (`inode_rw`).
`inode_destroy` marks the blocks `inode_free_data` will reach, which stops at the first
empty entry of a table (`todo`); `data_free` clears their bits one at a time, each
time the bit after that of the block (`Unset`), with calls for other files in
between.

Three things end the model, and `halted` says which. `"panic"` is the assertion of the
direct part on a full disk. `"addrs"` is an index outside `addrs`: that of a
double indirect table is multiplied where it should be divided, the code tests
nothing and goes on in the next slot of the inode cache. `"block"` is a number
that is no block: on a full disk -1 passes the other assertions, is stored in a
table and handed to `buf_read`. After the last two anything may happen to other
files, so the model makes no claim (`Intact`). The history
variables: `lost` are files whose new block numbers existed in the cache only
and were dropped, `misfreed` that the bit of a block in use was cleared or a block was
allocated that `data_free` has still to go through, `dirty`
that a table was made of a block with old contents (allocation does not clear).
`Exclusive` and `ReadsBack` hold up to the first of these; `AddrsInRange`,
`FullDiskNoticed`, `MarkedInUse`, `TablesStartEmpty` and `WritesStay` state what
the comments promise about each of them, and are violated. The offset stored with an open file is free: `file_open`
puts its initial value into the wrong branch (`file.c:103`), so a file can start
anywhere an earlier one in its entry stopped.

### Dir

`fs` has the inode cache (`slot`), the inodes, the inode bitmap and the entries of
directories; the operations of `inode.c` are functions on it (`Got`, `Locked`,
`Relinked`, `Freed`). What a process does under one inode lock, with the
`inode_get` and `inode_free` around it, is one step. Steps of their own are
what these locks do not cover: `path_create_found`, `path_create_full` and
`path_create_new` follow a look at a slot that may not be owned, `inode_free_end`
counts down a slot that was marked empty without `lk_icache`. Calls are open,
create, mkdir, link, unlink and chdir with absolute and relative paths.

Inode numbers are as in the code: mkfs numbers an inode by its bit, the kernel
adds `inode_start` to the bit it set, and `bitmap_unset` subtracts
`inode_bitmap_start`. So the end of a file clears the bit after its own, or
before it for a file from mkfs, and the number of an inode in use can be given
out again. The history variables mark what then no longer holds: `doubled`
(such a number was given out; a `mkdir` below the very directory whose number it
gets waits for its own lock), `stolen` (a slot was reused under its user),
`orphaned` (an entry was added to an unlinked directory), `uncounted` (a process has a
current directory without a reference, which `dir_change` leaves behind),
`unwritten` (a failed link lowered the count in the cache only). The model ends
at the first three, at a panic, and where the code goes on with an inode that is none
(`Intact`): a name that is not found (`BadInode`) and a full inode bitmap
(`path_create_full`) give the number 0xFFFF, for which `inode.c` reads and, in the
second case, writes a place in a data block. What is there is not modelled, so both
set `halted`. `Over` is the stutter at an end, so that deadlock is checked for everything else. A directory is
never full: the entries of a block are as many as the names. `CachedOnce`,
`TakesEmpty`, `CreatesFree` and `ParentExists` state the promises that
`uncounted`, `stolen`, `doubled` and `orphaned` mark as broken, and are violated.

## Runs

| Run | Checks | Bounds |
|---|---|---|
| `proc` | `TypeOK`, `OneCpu`, `RunningOrLeaving`, `FreedOffStack`, `NoLostExit`, `ParentAlive`, refinement `LifecycleSpec` | 2 processors, 3 slots |
| `proc_deadlock` | `ChildLockNoDeadlock`, violated | same |
| `proc_window` | `RunningOrLeaving` under `WindowSpec`, violated | same |
| `pipe` | `TypeOK`, `NoLostWakeup`, `FreedAfterUse`, refinement `FifoSpec`, `CloseReleases` | 2 processes, ring of 2, 2 byte values, calls of up to 3 bytes, 4 bytes in all, counters modulo 8 |
| `sleeplock` | `HolderConfirmed`, `NoLostRelease`, refinement `MutexSpec`, `Progress` | 3 processes: a holder and two that compete after one wakeup |
| `bufcache` | `Owned`, `UsedFirst`, `Coherent` | 2 buffers, 3 blocks, 3 sessions, 2 contents |
| `virtio` | `DescsAccounted`, `RingsLive`, `OwnTransfer`, `NoLostWakeup`, `ServedUnlessMissed` | 3 processes, 8 descriptors, ring counters modulo 16 |
| `pages` | `Exclusive`, `HeapMapped`, `ContentsKept`, refinement `PrivateSpec` | 2 processes, 5 pages, 2 user pages each of 2 units, words modulo 3 |
| `mmap` | `ListExact`, `NodesExact`, `FitsIfRoom` | 2 processes, areas of 3 pages, 7 nodes, 1 stray process |
| `files` | `RefExact`, `InodeRefs`, `EndsOpen` | 2 processes, 2 descriptors each, 3 entries, 2 inodes, 1 pipe, 1 leak |
| `filedata` | `Exclusive`, `ReadsBack` | 2 files, 4 blocks, tables of 2, one entry per level, calls of at most 2 blocks |
| `dir` | `OneSlot`, `RefExact`, `LinksExact`, `Reclaimed` | 2 processes, 4 bits, 5 slots, 4 paths, 3 calls |

Two processors are what the kernel is built for (`NCPU`). Three slots are
proczero, a parent and a child; slots are reused, so a child also sits below
its parent, which the deadlock needs. Processors are symmetric. In `pipe`
a call of three bytes through a ring of two makes a writer sleep in the middle of
its data while the other process writes the fourth byte, reads or closes; the
ring is full, empty and used twice over. Two sleepers on one channel with a third
process to wake them are beyond TLC together with these; `NoLostWakeup` and
`FifoSpec` are proved for any number of processes and any ring. In `bufcache` three sessions on two buffers give hits on free and
used buffers, evictions, waiting for a sleep lock, and the panic when every
buffer is in use; buffers, blocks, sessions and contents are symmetric. Eight
descriptors are the code's `NUM`: two requests leave two over, so a third
process allocates some, fails and sleeps, and the counters run around the ring
and around their own range. In `pages` the list runs empty, and words 0, 1 and 2 are the three cases the code
tells apart (cleared, one reference, more). In `mmap` three pages are enough for
a region to be cut in the middle and closed again between two neighbours, and
the pool runs empty, also in the middle of a fork or an exec. In `files` the table, the descriptors and the slots of
processes are reused, and two processes close one entry at the same time. In
`filedata` all three levels are reached, the disk runs full, and a value
written is also a block number. In `dir` three calls by two processes include an
unlink between the two halves of a create, a slot reused under its owner, a full
cache and a full bitmap; four calls are beyond TLC.

Deadlock is checked in `sleeplock`, `virtio` and `dir`. Elsewhere it is
not: a panicking or spinning kernel really
stops (the two `proc_*` findings and `ScanPanic` are such stops), and a process that reads
from an empty pipe of which it holds the only write end sleeps forever.

Fairness is assumed only in `pipe`, `sleeplock` and `virtio`: weak fairness of each
process's kernel steps, since a process inside the kernel is never suspended
for good (the scheduler's response ratio grows with waiting), and strong
fairness for taking the spin lock, i.e. that a processor spinning on `amoswap`
eventually wins a lock that keeps becoming free. In `pipe` nothing is
assumed of user programs. In `sleeplock` the holder eventually releases: the
critical sections of the block cache and the inodes are kernel code that ends.
`Progress` does not say who gets the lock; a waiter can be overtaken forever,
and the code does nothing against it. In `virtio` the disk takes and finishes
what it is given (weak fairness, per descriptor), an interrupt that stays
pending or keeps coming back is taken, and a process that is awake eventually
gets `vdisk_lock` (strong fairness of its steps); nobody has to start a new
request.

### What the violations show

- `proc_deadlock`: the scheduler holds the lock of a runnable child in a lower
  slot and spins for the parent's slot; the parent in `proc_wait` holds its own
  lock and spins for the child's. Both have interrupts off.
- `proc_window`: the lock is released before `mycpu()->proc` is cleared. A
  process that left from a system call leaves interrupts on there, and a timer
  tick yields in the name of a process that runs on the other processor: it
  becomes RUNNABLE while it runs, and `p->ctx` becomes a frame of the scheduler's
  stack.

### Promises the code breaks

Many properties say what holds *until* a history variable reports a certain
defect. They show that nothing else goes wrong; they are no evidence about that
defect. What the code's comments promise without the condition is defined beside them,
and TLC finds each violated when it is named as the one invariant (`Served`: the
one property) in the `.cfg` of the run:

| Run | Promise | What TLC shows |
|---|---|---|
| `proc` | `ProczeroInformed` | `proc_exit` wakes proczero before it hands children over (`proc.c:401`, `:421`): proczero looks, sleeps again, and a zombie it gets then stays until some other exit |
| `pipe` | `PageReturned` | `pmem_free` decrements half of `lock.name` (`pmem.c:121`): the page of a closed pipe is not in the list |
| `pipe` with `WRAP = 5`, `NAME = 3`, `MaxBytes = 6` | `FifoSpec` | the ring index jumps where the counter overflows, as 2^32 is no multiple of 500 |
| `bufcache` | `EvictsUnused` | the end of the list is read before the lock (`buf.c:72`): a buffer in use is renamed |
| `bufcache` | `ReturnsBlock` | a second reader gets the renamed buffer's lock before it was filled (`buf.c:109`) |
| `virtio` | `Served` | the acknowledgement covers a completion nobody has seen (`virtio.c:285`); fair disk and processors do not help |
| `pages` | `PagesGivenBack` | the count is cleared by its own allocation (`pmem.c:97`), pages leak |
| `mmap` | `RegionsMerged` | at the end of the list the node that was freed stays linked (`uvm.c:279`) |
| `files` | `DescriptorsOpen` | a descriptor names a closed file: from the last user of a slot (`proc.c:260`; with `Pipes = {}`), or after `sys_pipe` with one descriptor left (`sysfile.c:280`; with one process and three descriptors) |
| `files` | `RefsAreReferences` | `sys_dup` without a free descriptor counts a reference (`sysfile.c:160`) |
| `filedata` | `AddrsInRange` | the index of the double indirect table leaves `addrs` (`inode.c:252`) |
| `filedata` | `FullDiskNoticed` | -1 passes assertions that test for 0 (`inode.c:242`) |
| `filedata` | `MarkedInUse` | the bit of another file's block is cleared (`bitmap.c:60`) |
| `filedata` | `TablesStartEmpty` | a block with old data becomes a table (`bitmap.c:36`) |
| `filedata` | `WritesStay` | a block added in a hole is dropped by the next read (`inode.c:316`) |
| `dir` | `CachedOnce` | after chdir a directory has two slots in use (`dir.c:486`) |
| `dir` | `TakesEmpty` | a slot marked empty and not counted down is taken (`inode.c:147`) |
| `dir` with `Tree <- MCTreeKernel` | `CreatesFree` | a new file gets the number of a directory in use (`bitmap.c:60`) |
| `dir` | `ParentExists` | an entry is added to an unlinked directory (`dir.c:293`) |

`NoLostExit` leaves proczero out for the first of these.

## Proofs

`ProcProofs` proves, for every set of processors and every number of slots
(`ProcAssumption`: at least one slot, and `NULL` is neither a processor nor a
number), that `Spec` implies `[]` of `TypeOK`, `OneCpu`, `RunningOrLeaving`, `FreedOffStack`,
`NoLostExit` and `ParentAlive`, and implements `ProcLifecycle`.

The properties are not inductive: whether two processors can meet on a stack
depends on who holds which lock. `IInv` adds

- `CandidateInv`, `RunInv`, `LeaveInv`: the candidate of a scan is locked and
  RUNNABLE; a running process is RUNNING on one processor only; a leaving one
  is covered by its lock until the scheduler's context releases it;
- `HeldInv`: the locks held at each step of a system call;
- `ResumeInv`: where a process off its processor resumes, and that loops start
  over;
- `ExitInv`, `FamilyInv`: the parent an exiting process remembers, the slots it
  has already reparented, that everyone but proczero has a live parent;
- `WaitInv`: the slots `proc_wait` has passed hold no zombie child, which the
  caller's lock preserves because an exiting child needs it.

There is one lemma per action (`ScanSkip_Step`, ..., `proc_exit_Step`), each
with one step per conjunct the action can disturb; `NextInv` combines them, and
`SchedulerRefines` and `ProcessRefines` map each step to a step or stutter of
the abstract specification. TLC has checked `IInv` on the instance of `proc`.

`PipeProofs` proves for every number of processes, ring size, counter range
above the ring size and set of byte values (`PipeAssumption`) that `Spec`
implies `[]` of `TypeOK`, `NoLostWakeup` and `FreedAfterUse`, and that
`Spec /\ []NoWrap` implies `FifoSpec`. `NoWrap` (fewer than `WRAP` bytes were
written) cannot be dropped: with a range that is not a multiple of the ring
size, the index jumps at the overflow. `IInv` adds to the
type invariant

- `LockInv`, `SleepInv`, `LoopInv`: who holds `pipe->lock`, who may be off its
  processor and on which channel, that every wakeup loop starts at the first
  slot and that a writer on its way to sleep has the pipe full under its lock;
- `RefInv`, `FdInv`, `CloseInv`: `file->ref` is the number of descriptors, who
  reads or writes has one, an end without descriptors is closed or about to be,
  and (`PageInv`) each end calls `pmem_free` at most once, after both flags are down,
  and somebody is still to test them until it has been called;
- `WaitInv`: who sleeps, or has given up `pipe->lock` in order to, has its
  reason or a waker that has not passed its slot.

`RingInv` says that the counters count bytes and that the ring holds the unread
ones; two unread positions differ by less than the ring size, so they never
share a place (lemma `ModDiffers`).

`PipeProofs` also proves of `SleepLock`, for every number of processes, `LockTypeOK`,
`HolderConfirmed`, `NoLostRelease` and the refinement `MutexSpec`, from the same
kind of invariant about those who sleep (`LockWaitInv`).

`VirtioDiskProofs` proves, for every number of processes and every ring of at
least three descriptors whose counters run modulo a multiple of its size
(`VirtioAssumption`; the code has 8 and 2^16), `DescsAccounted`, `RingsLive`,
`OwnTransfer` and `NoLostWakeup`. `IInv` adds to them

- `ChainInv`: the three descriptors behind every entry of `info`, apart from
  the free ones and from each other's;
- `OwnerInv`: one request per waiting process;
- `PlaceInv`: a request not yet reported is in `avail`, at the disk or in the
  used ring, and at one of the three only;
- `RingInv`: the live entries of a ring are those between its two positions.
  That neither ring is ever full, which the code does not check, follows from
  counting: a request takes three descriptors, an entry one.

`BufCacheProofs` proves, for every finite set of buffers, blocks and sessions
(`BufAssumption`: a count that does not overflow with all sessions on one
buffer), `Owned`, `UsedFirst` and `Coherent`, each until `raced`. `IInv` adds
`ListInv` (a buffer is in the list once, so moving it to the front loses none)
and `SessionInv` (what a session has at each step, and that it holds the sleep
lock it works under). The order of the list is what makes `Owned` inductive: the
buffer a miss takes is free because none behind the first free one is in use.

`MmapProofs` proves, for an area of any size, any number of processes and any
pool of at least three nodes (`MmapAssumption`), `ListExact`, `NodesExact` and
`FitsIfRoom`, until `corrupt` and for processes that did not stray. `IInv` adds
`Inside` (the regions of all processes, strayed and panicked ones too, lie in the area),
`Slots` (which lists may be empty), `Forks` (the child of a fork under way has the
first nodes of its parent's list and all of its mappings) and `Execs` (an exec has
destroyed its table before it touches its list). What each way of cutting a region and of
closing a gap does to the order of the list and to the pages it covers is a
lemma about the operator (`Rest`, `Merged` and their kin); the actions cite it.
The nodes are counted as pairs of a process and a position.

`FilesProofs` proves, for every table, every number of descriptors from two on,
finitely many processes and any pipes and inodes, `RefExact`, `InodeRefs` and
`EndsOpen`, until `dangled` (`FilesAssumption`: inodes, ends and `NULL` differ,
and an inode count does not overflow with every file and every process on one
inode). `IInv` adds

- `LocalsInv`: what a process has in hand at each step;
- `ObjInv`: an entry with references stands for something;
- `EndsApart`: an end belongs to one file, or to one close, or to the one
  process that makes the pipe.

The count of a file is split into the share of the process that takes the step
and that of the others (`Parts`), so an action is a statement about one share. The
references to an inode are handed from an open to a file and from a file to a
close; each hand-over leaves the sum. An end stays open over a step if its
reasons stay, and the last close of a file cannot meet the pipe that makes it, since
that file would have two references (`TwoHands`).

`FilesProofs` also proves of `FileData`, for any number of files and blocks, any
numbers of direct and indirect addresses, tables of any size and calls of any
length, `Exclusive` and `ReadsBack`, up to the first panic, access outside `addrs`
or to a block that is none (`halted`), the first cleared bit of a block in use
(`misfreed`) and the first block with old contents that becomes a table (`dirty`),
and of `ReadsBack` for files outside `lost` (`FileDataAssumption`: there are at most as
many double indirect addresses as entries in a block; the code has 1 and 256).
`FileInv` is

- `BlocksApart`: two different places never lead to one block, and the bit of
  every block in place is set;
- `DiskBehind`: an address on the disk is the one in the cache, or none, so
  that taking the inode from the disk again only forgets;
- `DataInPlace`: what was written last is in the block its place leads to.

A block that is added at one place is shown to leave every other place of every
file as it was, for each of the three levels; the loop over the blocks of a call
follows by the least number principle: a first round that breaks the invariant
would need an earlier one that does.

`DirProofs` proves, for finitely many processes and names and any numbers of
slots, inodes and calls, `RefExact`, `OneSlot`, `LinksExact` and `Reclaimed`
(`DirAssumption`: the names at the start that share an inode agree on its type).
`RefInv` says

- `SlotOK`: a numbered slot counts exactly its references and nobody has still
  to count it down; a slot numbered UNUSED counts at least both, since link
  and chdir of a missing name forget their reference;
- `Solid`: files, locked parents, the source of a link and the slots of a parent,
  of an existing file or of a victim are never numbered UNUSED;
- `Shape`: which references a process has at each step of its system call;
- `OneOK`: two slots that are held do not have one number, as long as every
  current directory is the root's slot.

A step makes up to seven calls of `inode.c`. Each is a function of the file
system with a lemma of what it does to counts and numbers (`GotFacts`,
`FreedFacts`, ...), and a step is followed through the states between its calls, in
which the process that makes it is given the references it has there (`Stub`).
That nobody else refers to a slot that `inode_get` renumbers is `TakeRef`;
otherwise the step sets `stolen`.

The counts of links need `RefInv` and `LinkInv`, which holds as long as the premise
of the two properties does (`Intact` and not `uncounted`):

- `LinkOn`: on the disk and in a valid slot that is held, an inode has as many
  links as entries name it, subdirectories it has and links `path_link` has
  counted and not yet made (`OwedIn`); only a file whose count was lowered in
  the cache alone (`unwritten`) may have more. No entry names a destroyed
  inode, a directory that no entry names is empty, and an inode without links
  has a slot that will end it when it is freed (`Doomed`);
- `OldFile`: what link goes on with is a file, so the links owed are never
  those of a directory;
- `Placed`: a parent is a valid directory, and the one that unlink has locked
  still holds the entry that was read.

A step is followed through the calls of `inode.c` and `dir.c` as for `RefInv`. Up to its
first `inode_free` it takes nothing away that another process relies on, and
the entries it changes are of a directory nobody else has locked (`Up`); from there
on slots and inodes only go, and those that go have no name (`Down`). Between two calls the count
and the entries differ by the links owed, which is how an entry and its counts can be
written one after the other under one lock of the directory.

`PagesProofs` proves, for every number of processes, of physical pages from the
two of the first process on, of user pages and any size of a page and of the
count (`PagesAssumption`; the code has 4096 and 2^32), `Exclusive`,
`HeapMapped`, `ContentsKept` and the refinement `PrivateSpec`. `IInv` adds to the
two invariants that a running process has a trapframe, without which
`proc_free` would free nothing in its place. One lemma carries `Exclusive`: a
step that takes pages from the front of the list, each for one place, and gives
back pages that have left theirs, keeps all pages apart (`Shuffle`); every action
is shown to be such a step, fork with its n + 1 pages and the two orders of
freeing included. It does not matter which of the pages the count lets back into
the list. The other two rest on `Untouched`: the words a step changes are those of
pages it takes or gives back, or the one it stores to, so what a process keeps
at an address keeps its contents. A step is then one of `PrivateMemory` or, for
copy on write and an exec that finds no file, none.

Each of these theorems names its condition in the statement of the property. TLC has checked every `IInv`, `RefInv` and `LinkInv` on the instance of its run. Where an algorithm takes
the lowest free or the last used index, the proofs use the least number
principle, from the well-foundedness of the natural numbers (`LeastNumber`).

Only model-checked: `CloseReleases`, `Progress` and `ServedUnlessMissed`, since
liveness is beyond the prover.

## What is left

Models: semaphores on `WaitChannel`, the timer with `sys_sleep`, the line buffer of
the console.

## Not modelled

- Semaphores: `sem_wait` and `sem_up` are the pattern of `WaitChannel` that
  `SleepLock` and `Pipe` check; `sem_alloc` keeps its lock on success, a plain
  early return.
- The timer and `sys_sleep`: one counter and one channel.
- The console's line buffer and the UART: device registers, no state shared with
  the modelled parts.
- In modelled components: the inner tables of Sv39 and the kernel's own page
  table, `uvm_copyin`, ELF headers and arguments of exec, `file_stat`,
  `sys_getdir`, device inodes, `.` and `..` in paths, directories with more
  entries than one block, a disk that reports errors.
- The system-call table, boot, printing, `mkfs` and the user programs:
  sequential code or I/O without a protocol of its own. Of `mkfs` the layout of
  the disk is used. `sys_reboot` frees the whole process table, its caller
  included, and is not part of `Proc`.
- Crashes: the file system keeps no log and recovers nothing, so there is no
  promise to check.
- Weak memory: shared fields are accessed under locks with fences, except the
  unlocked reads that the models make explicit.
