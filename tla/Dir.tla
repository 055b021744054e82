-------------------------------- MODULE Dir --------------------------------
(***************************************************************************)
(* Inodes, directories and paths: the first half of kernel/fs/inode.c, the *)
(* inode part of kernel/fs/bitmap.c and kernel/fs/dir.c, under open, close,*)
(* mkdir, link, unlink and chdir.                                          *)
(*                                                                         *)
(* What a process does under one inode lock, with the inode_get and the    *)
(* inode_free around it, is one step: the lock keeps the others away from  *)
(* the inode, and lk_icache makes each call on the cache atomic.  Two      *)
(* things are not so covered and are steps of their own: path_create_inode *)
(* looks at a slot it may not own (dir.c:263), and inode_free gives up     *)
(* lk_icache in the middle (inode.c:142-151).                              *)
(*                                                                         *)
(* Bit b of the bitmap is the inode with number b for what mkfs wrote and  *)
(* with number b + inode_start for what the kernel creates; number 0 is    *)
(* the root.  A path is a sequence of names.  "." and ".." are in every    *)
(* directory and are not looked up.  A new directory starts empty: what    *)
(* its block held before is a matter of FileData.                          *)
(***************************************************************************)
EXTENDS Integers, FiniteSets, FiniteSetsExt, Sequences

CONSTANTS Procs, None,
          NI,          \* the bits of the bitmap are 0 to NI
          NS,          \* I_NODE_CACHE_SIZE
          Names, Paths,
          Tree,        \* [type, num, bit] of each name in the root directory at first
          MAX_CALLS    \* bound of the model on system calls

ROOT == 0
Bits == 0..NI
\* The layout of the disk that mkfs writes.
inode_bitmap_start == 1
inode_start == 2
Inums == 0..(NI + inode_start)
INODE_NUM_UNUSED == NI + inode_start + 1
Slots == 1..NS
NoSlot == 0
Types == {"UNUSED", "DIR", "FILE"}

ASSUME DirAssumption ==
    /\ NI \in Nat \ {0} /\ NS \in Nat \ {0} /\ MAX_CALLS \in Nat
    /\ IsFiniteSet(Procs) /\ IsFiniteSet(Names) /\ None \notin Procs
    /\ Paths \subseteq Seq(Names)
    /\ Tree \in [Names -> [type : Types, num : Inums \ {ROOT}, bit : Bits]]
    /\ \A x, y \in Names : Tree[x].num = Tree[y].num => Tree[x].type = Tree[y].type

NoEntries == [x \in Names |-> INODE_NUM_UNUSED]

VARIABLES
    fs,        \* the inode cache, and the inodes, bitmap and entries on the disk
    lock,      \* who holds the sleep lock of a slot
    job,       \* the system call of each process
    cwd,       \* its current directory
    file,      \* the inode behind its open file
    calls,
    halted,    \* a panic, or a step with an inode that is none
    \* history
    stolen,    \* inode_get reused a slot to which another process still refers
    doubled,   \* inode_create was given the number of an inode in use
    orphaned,  \* an entry was added to a directory that is itself unlinked
    uncounted, \* a process has a current directory it holds no reference for
    unwritten  \* inodes whose count of links was lowered in the cache only

vars == <<fs, lock, job, cwd, file, calls, halted, stolen, doubled, orphaned, uncounted, unwritten>>
flags == <<halted, stolen, doubled, orphaned, uncounted, unwritten>>

DiskInode == [type : Types, nlink : Int]   \* a short
Slot == [num : Inums \cup {INODE_NUM_UNUSED}, ref : Nat, valid : BOOLEAN, type : Types, nlink : Int]
Calls == {"open", "create", "mkdir", "link", "unlink", "chdir"}
Labels == {"idle", "walk", "found", "parent", "check", "exists", "remove", "undo", "undo_write"}
\* path is what is left of the walk, ip where it stands, dp the directory
\* that is locked, old the inode link goes on with, drop the slot on which
\* inode_free has still to count down.
Job == [at : Labels, call : Calls, path : Seq(Names), next : Seq(Names), ip : Slots \cup {NoSlot},
        dp : Slots \cup {NoSlot}, old : Slots \cup {NoSlot}, drop : Slots \cup {NoSlot}]
Idle == [at |-> "idle", call |-> "open", path |-> <<>>, next |-> <<>>,
         ip |-> NoSlot, dp |-> NoSlot, old |-> NoSlot, drop |-> NoSlot]

TypeOK ==
    /\ fs \in [slot : [Slots -> Slot], inode : [Inums -> DiskInode], bits : SUBSET Bits,
               entry : [Inums -> [Names -> Inums \cup {INODE_NUM_UNUSED}]]]
    /\ lock \in [Slots -> Procs \cup {None}]
    /\ job \in [Procs -> Job]
    /\ cwd \in [Procs -> Slots] /\ file \in [Procs -> Slots \cup {NoSlot}]
    /\ calls \in 0..MAX_CALLS
    /\ {halted, stolen, doubled, orphaned, uncounted} \subseteq BOOLEAN
    /\ unwritten \subseteq Inums

-----------------------------------------------------------------------------
(***************************************************************************)
(* The calls of inode.c, as functions of the file system.                  *)
(***************************************************************************)
\* Mutant: a slot whose inode was not read yet is passed over.
HitsValid(f, n) == {s \in Slots : f.slot[s].num = n /\ f.slot[s].ref > 0 /\ f.slot[s].valid}

Hits(f, n) == {s \in Slots : f.slot[s].num = n /\ f.slot[s].ref > 0}
Empty(f) == {s \in Slots : f.slot[s].num = INODE_NUM_UNUSED}

\* inode_get: a slot numbered UNUSED is empty, whatever its count.
CanGet(f, n) == Hits(f, n) \cup Empty(f) # {}
GotSlot(f, n) == IF Hits(f, n) # {} THEN Min(Hits(f, n)) ELSE Min(Empty(f))

\* Mutant: a cached inode is given out without counting.
GotUncounted(f, n) ==
    LET s == GotSlot(f, n) IN
    IF Hits(f, n) # {} THEN f
    ELSE [f EXCEPT !.slot[s] = [num |-> n, ref |-> 1, valid |-> FALSE, type |-> "UNUSED", nlink |-> 0]]

Got(f, n) ==
    LET s == GotSlot(f, n) IN
    IF Hits(f, n) # {} THEN [f EXCEPT !.slot[s].ref = @ + 1]
    ELSE [f EXCEPT !.slot[s] = [num |-> n, ref |-> 1, valid |-> FALSE, type |-> "UNUSED", nlink |-> 0]]

\* The slot is taken from under process q: it found no entry and has not yet
\* looked at the slot's number, or is about to count it down.
Robs(p, f, n) ==
    /\ n # INODE_NUM_UNUSED /\ Hits(f, n) = {}
    /\ \E q \in Procs \ {p} : GotSlot(f, n) \in {job[q].ip, job[q].drop}

\* inode_lock.  An inode without type is a panic; so is, as a rule, inode
\* 0xFFFF of a name that is not there, which is read from a data block.  If
\* the bytes there pass for a type the code goes on with them; the model ends
\* in both cases.
BadInode(f, s) ==
    \/ f.slot[s].ref < 1
    \/ ~f.slot[s].valid /\ ~ \E n \in Inums : f.slot[s].num = n /\ f.inode[n].type # "UNUSED"
Locked(f, s) ==
    IF f.slot[s].valid THEN f
    ELSE LET i == f.inode[f.slot[s].num] IN
         [f EXCEPT !.slot[s].valid = TRUE, !.slot[s].type = i.type, !.slot[s].nlink = i.nlink]

\* nlink changed by k in the cache, and by inode_rw on the disk.
Linked(f, s, k) == [f EXCEPT !.slot[s].nlink = @ + k]
Written(f, s) == [f EXCEPT !.inode[f.slot[s].num] = [type |-> f.slot[s].type, nlink |-> f.slot[s].nlink]]

\* Mutant: inode_rw is forgotten.
RelinkedCached(f, s, k) == Linked(f, s, k)

Relinked(f, s, k) == Written(Linked(f, s, k), s)

\* inode_free.  The last reference to an unlinked inode ends it: inode_destroy
\* (bitmap_unset subtracts the number of the bitmap's block, and so clears a
\* bit next to the inode's own), the type goes to the disk, the slot is marked
\* empty, and only then counted down.
\* Mutant: the test comes as if the count were down already.
LastRefZero(f, s) == f.slot[s].ref = 0 /\ f.slot[s].valid /\ f.slot[s].nlink = 0

LastRef(f, s) == f.slot[s].ref = 1 /\ f.slot[s].valid /\ f.slot[s].nlink = 0
Freed(f, s) ==
    LET n == f.slot[s].num IN
    IF LastRef(f, s)
    THEN [f EXCEPT !.bits = @ \ {n - inode_bitmap_start}, !.inode[n] = [type |-> "UNUSED", nlink |-> 0],
                   !.entry[n] = NoEntries,
                   !.slot[s] = [@ EXCEPT !.num = INODE_NUM_UNUSED, !.valid = FALSE, !.type = "UNUSED"]]
    ELSE [f EXCEPT !.slot[s].ref = @ - 1]

\* The slot on which inode_free still has to count down.
Dropping(f, s) == IF LastRef(f, s) THEN s ELSE NoSlot

Type(f, s) == f.slot[s].type
Entry(f, s, x) == f.entry[f.slot[s].num][x]

\* Adding an entry writes the directory's inode too, deleting one does not.
\* There is always room: a directory has fewer names than its 32 entries.
dir_delete_entry(f, s, x) == [f EXCEPT !.entry[f.slot[s].num][x] = INODE_NUM_UNUSED]
dir_add_entry(f, s, x, n) == Written([f EXCEPT !.entry[f.slot[s].num][x] = n], s)

-----------------------------------------------------------------------------
\* The root and one inode for each name in Tree, a file from mkfs or from an
\* earlier create, a directory from an earlier mkdir.  Every process has the
\* root as its current directory, counted by the path_to_inode of the first
\* one and the inode_dup of each fork.
Init ==
    LET num(x) == IF Tree[x].type = "UNUSED" THEN INODE_NUM_UNUSED ELSE Tree[x].num
        here == {x \in Names : Tree[x].type # "UNUSED"}
        at(n) == {x \in here : Tree[x].num = n}
        dirs == Cardinality({x \in here : Tree[x].type = "DIR"})
    IN
    /\ fs = [slot |-> [i \in Slots |->
                 [num |-> IF i = 1 THEN ROOT ELSE INODE_NUM_UNUSED, ref |-> IF i = 1 THEN Cardinality(Procs) ELSE 0,
                  valid |-> FALSE, type |-> "UNUSED", nlink |-> 0]],
             inode |-> [n \in Inums |->
                 IF n = ROOT THEN [type |-> "DIR", nlink |-> 1 + dirs]
                 ELSE [type |-> IF at(n) = {} THEN "UNUSED" ELSE Tree[CHOOSE x \in at(n) : TRUE].type,
                       nlink |-> Cardinality(at(n))]],
             bits |-> {ROOT} \cup {Tree[x].bit : x \in here},
             entry |-> [n \in Inums |-> IF n = ROOT THEN [x \in Names |-> num(x)] ELSE NoEntries]]
    /\ lock = [i \in Slots |-> None]
    /\ job = [p \in Procs |-> Idle]
    /\ cwd = [p \in Procs |-> 1] /\ file = [p \in Procs |-> NoSlot]
    /\ calls = 0 /\ unwritten = {}
    /\ halted = FALSE /\ stolen = FALSE /\ doubled = FALSE /\ orphaned = FALSE /\ uncounted = FALSE

\* The model ends at a panic, before a write to a block that stands for an
\* inode that is none, and where an inode, a slot or a directory is no longer
\* what its user takes it for.
Intact == ~halted /\ ~stolen /\ ~doubled /\ ~orphaned

Ready(p, at) == Intact /\ job[p].at = at /\ job[p].drop = NoSlot
Halt == halted' = TRUE /\ UNCHANGED <<fs, lock, job, cwd, file, calls, stolen, doubled, orphaned, uncounted, unwritten>>
Return(p, drop) == job' = [job EXCEPT ![p] = [Idle EXCEPT !.drop = drop]]

\* Whether the walk is one for the parent: path_to_pinode.
ForParent(j) == j.call \in {"create", "mkdir", "unlink"} \/ j.old # NoSlot

\* The walk found nothing: path_link takes its count back, the others return.
ReturnNull(p, drop) ==
    IF job[p].old = NoSlot THEN Return(p, drop)
    ELSE job' = [job EXCEPT ![p] = [Idle EXCEPT !.at = "undo_write", !.old = job[p].old, !.drop = drop]]

\* The start of search_inode, at the root or at the current directory.
StartSlot(p, f, abs) == IF abs THEN GotSlot(f, ROOT) ELSE cwd[p]
Started(p, f, abs) == IF abs THEN Got(f, ROOT) ELSE [f EXCEPT !.slot[cwd[p]].ref = @ + 1]

Call(p, call, path, next, abs) ==
    /\ Ready(p, "idle") /\ calls < MAX_CALLS
    /\ call \in {"open", "create"} => file[p] = NoSlot
    /\ call # "link" => next = path
    /\ calls' = calls + 1
    /\ fs' = Started(p, fs, abs)
    /\ job' = [job EXCEPT ![p] = [Idle EXCEPT !.at = "walk", !.call = call, !.path = path, !.next = IF call = "link" THEN next ELSE <<>>,
                                             !.ip = StartSlot(p, fs, abs)]]
    /\ UNCHANGED <<lock, cwd, file, flags>>

\* inode_lock at a step labelled at can be had, and finds an inode.
CanLock(p, at, s) == Ready(p, at) /\ lock[s] = None /\ ~BadInode(fs, s)

\* One round of the loop of search_inode.
search_notdir(p) ==
    LET j == job[p]  f == Locked(fs, j.ip) IN
    /\ j.path # <<>> /\ CanLock(p, "walk", j.ip)
    /\ Type(f, j.ip) # "DIR" /\ j.call # "mkdir"
    /\ fs' = Freed(f, j.ip) /\ ReturnNull(p, Dropping(f, j.ip))
    /\ UNCHANGED <<lock, cwd, file, calls, flags>>

search_parent(p) ==
    LET j == job[p]  f == Locked(fs, j.ip) IN
    /\ ForParent(j) /\ Len(j.path) = 1 /\ CanLock(p, "walk", j.ip)
    /\ Type(f, j.ip) = "DIR"
    /\ fs' = f
    /\ job' = [job EXCEPT ![p].at = "parent"]
    /\ UNCHANGED <<lock, cwd, file, calls, flags>>

search_next(p) ==
    LET j == job[p]  f == Locked(fs, j.ip) IN
    /\ j.path # <<>> /\ ~(ForParent(j) /\ Len(j.path) = 1) /\ CanLock(p, "walk", j.ip)
    /\ Type(f, j.ip) = "DIR"
    /\ LET n == Entry(f, j.ip, Head(j.path))  g == Got(f, n) IN
       /\ CanGet(f, n)
       /\ fs' = Freed(g, j.ip)
       /\ job' = [job EXCEPT ![p].ip = GotSlot(f, n), ![p].path = Tail(@), ![p].drop = Dropping(g, j.ip)]
       /\ stolen' = Robs(p, f, n)
    /\ UNCHANGED <<lock, cwd, file, calls, halted, doubled, orphaned, uncounted, unwritten>>

\* The path is used up.
search_end(p) ==
    LET j == job[p] IN
    /\ Ready(p, "walk") /\ j.path = <<>>
    /\ IF ForParent(j)
       THEN j.call # "mkdir" /\ fs' = Freed(fs, j.ip) /\ ReturnNull(p, Dropping(fs, j.ip))
       ELSE fs' = fs /\ job' = [job EXCEPT ![p].at = "found"]
    /\ UNCHANGED <<lock, cwd, file, calls, flags>>

\* link and chdir of a name that is not there keep the slot they were given.
path_missing(p) ==
    /\ Ready(p, "found") /\ job[p].call # "open"
    /\ fs.slot[job[p].ip].num = INODE_NUM_UNUSED
    /\ Return(p, NoSlot)
    /\ UNCHANGED <<fs, lock, cwd, file, calls, flags>>

file_open(p) ==
    /\ job[p].call = "open" /\ CanLock(p, "found", job[p].ip)
    /\ fs' = Locked(fs, job[p].ip)
    /\ file' = [file EXCEPT ![p] = job[p].ip]
    /\ Return(p, NoSlot)
    /\ UNCHANGED <<lock, cwd, calls, flags>>

\* The new current directory is stored and its reference dropped; the old
\* one's reference is kept.
dir_change(p) ==
    LET s == job[p].ip  f == Locked(fs, s) IN
    /\ job[p].call = "chdir" /\ CanLock(p, "found", s)
    /\ cwd' = IF Type(f, s) = "DIR" THEN [cwd EXCEPT ![p] = s] ELSE cwd
    /\ uncounted' = (uncounted \/ (cwd'[p] = s /\ f.slot[s].num # ROOT))
    /\ fs' = Freed(f, s) /\ Return(p, Dropping(f, s))
    /\ UNCHANGED <<lock, file, calls, halted, stolen, doubled, orphaned, unwritten>>

path_link_begin(p, abs) ==
    LET j == job[p]  f == Locked(fs, j.ip)  g == Relinked(f, j.ip, 1) IN
    /\ j.call = "link" /\ CanLock(p, "found", j.ip)
    /\ \/ /\ Type(f, j.ip) = "DIR"
          /\ fs' = Freed(f, j.ip) /\ Return(p, Dropping(f, j.ip))
       \/ /\ Type(f, j.ip) # "DIR"
          /\ fs' = Started(p, g, abs)
          /\ job' = [job EXCEPT ![p] = [@ EXCEPT !.at = "walk", !.path = j.next, !.next = <<>>, !.old = j.ip,
                                                 !.ip = StartSlot(p, g, abs)]]
    /\ UNCHANGED <<lock, cwd, file, calls, flags>>

path_link_end(p) ==
    LET j == job[p]  x == Head(j.path)  f == Locked(fs, j.ip)
        g == dir_add_entry(f, j.ip, x, f.slot[j.old].num) IN
    /\ j.call = "link" /\ CanLock(p, "parent", j.ip)
    /\ \/ /\ Entry(f, j.ip, x) # INODE_NUM_UNUSED
          /\ fs' = Freed(f, j.ip)
          /\ job' = [job EXCEPT ![p] = [Idle EXCEPT !.at = "undo", !.old = j.old, !.drop = Dropping(f, j.ip)]]
          /\ UNCHANGED orphaned
       \/ /\ Entry(f, j.ip, x) = INODE_NUM_UNUSED
          /\ fs' = Freed(Freed(g, j.ip), j.old) /\ Return(p, Dropping(g, j.ip))
          /\ orphaned' = (f.slot[j.ip].nlink = 0)
    /\ UNCHANGED <<lock, cwd, file, calls, halted, stolen, doubled, uncounted, unwritten>>

\* The count goes back, to the disk only if there was no parent.
path_link_undo(p, at) ==
    LET s == job[p].old  f == Locked(fs, s)
        g == IF at = "undo" THEN Linked(f, s, -1) ELSE Relinked(f, s, -1) IN
    /\ CanLock(p, at, s)
    /\ fs' = Freed(g, s) /\ Return(p, Dropping(g, s))
    /\ unwritten' = unwritten \cup {n \in {f.slot[s].num} : at = "undo"}
    /\ UNCHANGED <<lock, cwd, file, calls, halted, stolen, doubled, orphaned, uncounted>>

\* path_create_inode up to dir.c:262, with the lock of the parent kept.
path_create_get(p) ==
    LET j == job[p]  f == Locked(fs, j.ip)  n == Entry(f, j.ip, Head(j.path)) IN
    /\ j.call \in {"create", "mkdir"} /\ CanLock(p, "parent", j.ip)
    /\ CanGet(f, n)
    /\ fs' = Got(f, n)
    /\ lock' = [lock EXCEPT ![j.ip] = p]
    /\ job' = [job EXCEPT ![p].at = "check", ![p].dp = j.ip, ![p].ip = GotSlot(f, n)]
    /\ stolen' = Robs(p, f, n)
    /\ UNCHANGED <<cwd, file, calls, halted, doubled, orphaned, uncounted, unwritten>>

path_create_found(p) ==
    LET j == job[p] IN
    /\ Ready(p, "check") /\ fs.slot[j.ip].num # INODE_NUM_UNUSED
    /\ fs' = Freed(fs, j.dp)
    /\ lock' = [lock EXCEPT ![j.dp] = None]
    /\ job' = [job EXCEPT ![p].at = "exists", ![p].dp = NoSlot, ![p].drop = Dropping(fs, j.dp)]
    /\ UNCHANGED <<cwd, file, calls, flags>>

path_create_old(p) ==
    LET s == job[p].ip  f == Locked(fs, s) IN
    /\ job[p].call = "create" /\ CanLock(p, "exists", s)
    /\ \/ Type(f, s) = "FILE" /\ fs' = f /\ file' = [file EXCEPT ![p] = s] /\ Return(p, NoSlot)
       \/ Type(f, s) # "FILE" /\ fs' = Freed(f, s) /\ file' = file /\ Return(p, Dropping(f, s))
    /\ UNCHANGED <<lock, cwd, calls, flags>>

\* bitmap_alloc_inode finds nothing and inode_create goes on with number -1:
\* it clears and types 64 bytes of the data block where inode 0xFFFF would be,
\* before path_create_inode sees the number.  Whose block that is the model
\* cannot tell, and it ends here.
ClearBits == Bits \ fs.bits
path_create_full(p) ==
    /\ Ready(p, "check") /\ job[p].call = "create"
    /\ fs.slot[job[p].ip].num = INODE_NUM_UNUSED /\ ClearBits = {}
    /\ Halt

\* The rest of path_create_inode, with inode_create and dir_add_entry, and
\* the inode_unlock_free of sys_mkdir.
path_create_new(p) ==
    LET j == job[p]
        b == Min(ClearBits)
        n == b + inode_start
        type == IF j.call = "mkdir" THEN "DIR" ELSE "FILE"
        f == [fs EXCEPT !.bits = @ \cup {b}, !.inode[n] = [type |-> type, nlink |-> 0], !.entry[n] = NoEntries]
        s == GotSlot(f, n)
        g == Relinked(Locked(Got(f, n), s), s, 1)
        h == dir_add_entry(IF j.call = "mkdir" THEN Relinked(g, j.dp, 1) ELSE g, j.dp, Head(j.path), n)
        e == Freed(h, j.dp) IN
    /\ Ready(p, "check") /\ fs.slot[j.ip].num = INODE_NUM_UNUSED
    /\ ClearBits # {}
    /\ fs.inode[n].type = "UNUSED" => lock[s] = None
    /\ fs' = IF j.call = "mkdir" THEN Freed(e, s) ELSE e
    /\ file' = IF j.call = "mkdir" THEN file ELSE [file EXCEPT ![p] = s]
    /\ lock' = [lock EXCEPT ![j.dp] = None]
    /\ Return(p, Dropping(h, j.dp))
    /\ stolen' = Robs(p, f, n)
    /\ doubled' = (fs.inode[n].type # "UNUSED")
    /\ orphaned' = (fs.slot[j.dp].nlink = 0)
    /\ UNCHANGED <<cwd, calls, halted, uncounted, unwritten>>

\* path_unlink up to the inode_get of the victim.
path_unlink_get(p) ==
    LET j == job[p]  f == Locked(fs, j.ip)  n == Entry(f, j.ip, Head(j.path)) IN
    /\ j.call = "unlink" /\ CanLock(p, "parent", j.ip)
    /\ \/ /\ n = INODE_NUM_UNUSED
          /\ fs' = Freed(f, j.ip) /\ Return(p, Dropping(f, j.ip))
          /\ UNCHANGED <<lock, stolen>>
       \/ /\ n # INODE_NUM_UNUSED /\ CanGet(f, n)
          /\ fs' = Got(f, n)
          /\ lock' = [lock EXCEPT ![j.ip] = p]
          /\ job' = [job EXCEPT ![p].at = "remove", ![p].dp = j.ip, ![p].ip = GotSlot(f, n)]
          /\ stolen' = Robs(p, f, n)
    /\ UNCHANGED <<cwd, file, calls, halted, doubled, orphaned, uncounted, unwritten>>

\* A directory is empty when only . and .. are left.
check_unlink(f, s) == f.entry[f.slot[s].num] = NoEntries

path_unlink(p) ==
    LET j == job[p]  f == Locked(fs, j.ip)
        full == Type(f, j.ip) = "DIR" /\ ~check_unlink(f, j.ip)
        g == dir_delete_entry(f, j.dp, Head(j.path))
        h == Freed(IF Type(f, j.ip) = "DIR" THEN Relinked(g, j.dp, -1) ELSE g, j.dp)
        e == Relinked(h, j.ip, -1) IN
    /\ CanLock(p, "remove", j.ip) /\ f.slot[j.ip].nlink >= 1
    /\ lock' = [lock EXCEPT ![j.dp] = None]
    /\ \/ full /\ fs' = Freed(Freed(f, j.ip), j.dp) /\ Return(p, NoSlot)
       \/ ~full /\ fs' = Freed(e, j.ip) /\ Return(p, Dropping(e, j.ip))
    /\ UNCHANGED <<cwd, file, calls, flags>>

file_close(p) ==
    /\ Ready(p, "idle") /\ file[p] # NoSlot
    /\ fs' = Freed(fs, file[p]) /\ Return(p, Dropping(fs, file[p]))
    /\ file' = [file EXCEPT ![p] = NoSlot]
    /\ UNCHANGED <<lock, cwd, calls, flags>>

\* The end of inode_free after it destroyed the inode.
inode_free_end(p) ==
    /\ Intact /\ job[p].drop # NoSlot
    /\ fs' = [fs EXCEPT !.slot[job[p].drop].ref = @ - 1]
    /\ job' = [job EXCEPT ![p].drop = NoSlot]
    /\ UNCHANGED <<lock, cwd, file, calls, flags>>

\* The assertions that fail: inode_lock of a slot for a name that is not
\* there (or, in unlink, of an inode without links), inode_get with every slot
\* numbered, mkdir without a new directory.
inode_lock_panic(p) ==
    LET j == job[p]  s == IF j.at \in {"undo", "undo_write"} THEN j.old ELSE j.ip IN
    /\ \E at \in Labels \ {"idle", "check"} : Ready(p, at) /\ (at = "walk" => j.path # <<>>)
    /\ j.at = "found" /\ j.call # "open" => fs.slot[s].num # INODE_NUM_UNUSED
    /\ lock[s] = None \/ fs.slot[s].ref < 1
    /\ IF BadInode(fs, s) THEN TRUE ELSE j.at = "remove" /\ Locked(fs, s).slot[s].nlink < 1
    /\ Halt

inode_get_panic(p) ==
    LET j == job[p] IN
    /\ Intact /\ j.drop = NoSlot
    /\ \/ /\ j.at = "walk" /\ j.path # <<>> /\ ~(ForParent(j) /\ Len(j.path) = 1)
          /\ CanLock(p, "walk", j.ip) /\ Type(Locked(fs, j.ip), j.ip) = "DIR"
       \/ j.at = "parent" /\ j.call # "link" /\ CanLock(p, "parent", j.ip)
    /\ LET n == Entry(Locked(fs, j.ip), j.ip, Head(j.path)) IN
       ~CanGet(fs, n) /\ (j.at = "parent" /\ j.call = "unlink" => n # INODE_NUM_UNUSED)
    /\ Halt

mkdir_panic(p) ==
    LET j == job[p] IN
    /\ j.call = "mkdir"
    /\ \/ Ready(p, "walk") /\ j.path = <<>>
       \/ j.path # <<>> /\ CanLock(p, "walk", j.ip) /\ Type(Locked(fs, j.ip), j.ip) # "DIR"
       \/ CanLock(p, "exists", j.ip)
       \/ Ready(p, "check") /\ fs.slot[j.ip].num = INODE_NUM_UNUSED /\ ClearBits = {}
    /\ Halt

\* Not a step of the code: a model that came to its end is not a deadlock.
Over ==
    /\ ~Intact \/ (calls = MAX_CALLS /\ \A p \in Procs : Ready(p, "idle"))
    /\ UNCHANGED vars

Next ==
    \/ Over
    \/ \E p \in Procs :
        \/ \E call \in Calls, path \in Paths, next \in Paths, abs \in BOOLEAN : Call(p, call, path, next, abs)
        \/ search_notdir(p) \/ search_parent(p) \/ search_next(p) \/ search_end(p)
        \/ path_missing(p) \/ file_open(p) \/ dir_change(p)
        \/ \E abs \in BOOLEAN : path_link_begin(p, abs)
        \/ path_link_end(p) \/ path_link_undo(p, "undo") \/ path_link_undo(p, "undo_write")
        \/ path_create_get(p) \/ path_create_found(p) \/ path_create_old(p) \/ path_create_new(p) \/ path_create_full(p)
        \/ path_unlink_get(p) \/ path_unlink(p)
        \/ file_close(p) \/ inode_free_end(p)
        \/ inode_lock_panic(p) \/ inode_get_panic(p) \/ mkdir_panic(p)

Spec == Init /\ [][Next]_vars

-----------------------------------------------------------------------------
(***************************************************************************)
(* Properties.  The first four say what holds until the history variables  *)
(* they name report a defect; each of the last four is what a comment      *)
(* promises without that condition, and is violated by one of the defects. *)
(***************************************************************************)
Live(n) == {s \in Slots : fs.slot[s].num = n /\ fs.slot[s].ref > 0}

\* An inode has at most one slot that anyone holds, and so one lock and one
\* copy, unless a process has a current directory it holds no reference for.
OneSlot == TypeOK /\ (~uncounted => \A n \in Inums : Cardinality(Live(n)) <= 1)

\* A slot counts the references to it: open files, the places where system
\* calls stand, and the first current directories.  So nobody else can hold
\* the lock that inode_free takes under lk_icache.
Holders(s) ==
    Cardinality({p \in Procs : file[p] = s}) + Cardinality({p \in Procs : job[p].ip = s})
    + Cardinality({p \in Procs : job[p].dp = s}) + Cardinality({p \in Procs : job[p].old = s})
    + (IF s = 1 THEN Cardinality(Procs) ELSE 0)
RefExact == Intact => \A s \in Slots : fs.slot[s].num # INODE_NUM_UNUSED => fs.slot[s].ref = Holders(s)

\* The count of links of an inode, on the disk and in the cache, is the
\* number of entries that name it, with the links being made; a directory
\* counts its subdirectories too.  No entry names an inode that is gone.
NamedBy(n) == {e \in Inums \X Names : fs.entry[e[1]][e[2]] = n}
Links(n) ==
    Cardinality(NamedBy(n)) + (IF n = ROOT THEN 1 ELSE 0)
    + Cardinality({p \in Procs : job[p].old # NoSlot /\ fs.slot[job[p].old].num = n})
    + Cardinality({x \in Names : fs.entry[n][x] \in Inums /\ fs.inode[fs.entry[n][x]].type = "DIR"})
LinksExact ==
    Intact /\ ~uncounted =>
        \A n \in Inums :
            /\ fs.inode[n].type = "UNUSED" => NamedBy(n) = {}
            /\ fs.inode[n].type # "UNUSED" /\ n \notin unwritten =>
                   /\ fs.inode[n].nlink = Links(n)
                   /\ \A s \in Live(n) : fs.slot[s].valid => fs.slot[s].nlink = Links(n)

\* An inode without links stays only as long as someone holds it.
Reclaimed ==
    Intact /\ ~uncounted =>
        \A n \in Inums : fs.inode[n].type # "UNUSED" /\ fs.inode[n].nlink = 0 => Live(n) # {}

\* An inode that is in the cache is found there: no second slot is taken for
\* it.  Violated: dir_change drops the reference to the current directory, and
\* a slot nobody counts is passed over.
CachedOnce == \A n \in Inums : Cardinality(Live(n)) <= 1

\* inode_get takes an empty slot: one that inode_free has still to count down
\* is not given to another inode.  Violated: it is marked empty first.
TakesEmpty ==
    \A p \in Procs : job[p].drop # NoSlot => fs.slot[job[p].drop].num = INODE_NUM_UNUSED

\* inode_create takes an inode that is free: none has more names than links.
\* Violated: the number given for a bit, and the bit cleared for a number, are
\* not those of mkfs.
CreatesFree ==
    ~halted /\ ~stolen /\ ~orphaned /\ ~uncounted =>
        \A n \in Inums \ unwritten : fs.inode[n].type # "UNUSED" =>
            Cardinality(NamedBy(n)) <= fs.inode[n].nlink

\* A file is created or linked only in a directory that exists.  Violated: the
\* parent is found, let go and locked again, and may be unlinked in between.
ParentExists ==
    \A n \in Inums : fs.entry[n] # NoEntries => fs.inode[n].nlink > 0

=============================================================================
