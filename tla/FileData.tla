------------------------------ MODULE FileData ------------------------------
(***************************************************************************)
(* The blocks of files: the second half of kernel/fs/inode.c and the data  *)
(* part of kernel/fs/bitmap.c, under file_read, file_write and the end of  *)
(* a file in inode_free.                                                   *)
(*                                                                         *)
(* A read or a write runs under the lock of its inode and is one step:     *)
(* files share only the bitmap, in which a search is atomic.  The end of a *)
(* file clears its bits one at a time, with calls for other files between. *)
(* The unit of offsets, lengths and sizes is the block.  A block is its    *)
(* ENTRY_PER_BLOCK words, since a block of data may become a table of      *)
(* block numbers.  Block b is bit b - 1 of the bitmap; 0 is no block.      *)
(*                                                                         *)
(* Where the code goes on with an index or a number that is none, the      *)
(* model ends and halted says which: what is read and written then belongs *)
(* to another inode of the cache, or to no block of the device.            *)
(***************************************************************************)
EXTENDS Integers, FiniteSets, FiniteSetsExt, Sequences

CONSTANTS Files,
          NB,                                \* data blocks of the disk
          N_ADDRS_1, N_ADDRS_2, N_ADDRS_3,   \* direct, indirect, double indirect
          ENTRY_PER_BLOCK,
          Vals,                              \* what programs write
          Offsets,                           \* where file_lseek puts them
          MAX_LEN                            \* bound of the model on the length of a call

ASSUME FileDataAssumption ==
    /\ NB \in Nat \ {0} /\ ENTRY_PER_BLOCK \in Nat \ {0}
    /\ N_ADDRS_1 \in Nat /\ N_ADDRS_2 \in Nat
    /\ N_ADDRS_3 \in 0..ENTRY_PER_BLOCK     \* 1 and 256
    /\ Offsets \subseteq Nat /\ MAX_LEN \in Nat \ {0}
    /\ Vals \subseteq Nat \ {0}

E == ENTRY_PER_BLOCK
N_ADDRS == N_ADDRS_1 + N_ADDRS_2 + N_ADDRS_3
Slots == 0..(N_ADDRS - 1)
Blocks == 1..NB
Words == 0..(E - 1)
MAX_FILE_SIZE == N_ADDRS_1 + N_ADDRS_2 * E + N_ADDRS_3 * E * E

VARIABLES
    exists,     \* files whose inode is allocated
    mem, disk,  \* the inode in the cache and on the disk, [addrs, size]
    used,       \* the bits set in the bitmap, as block numbers
    content,    \* of a block
    todo,       \* blocks of a destroyed file that data_free has not come to
    halted,     \* how the run of the model ended, one of Outcomes
    \* history
    written,    \* what a program last wrote to a block of a file, 0 for nothing
    lost,       \* files for which new block numbers in the cached inode were dropped
    misfreed,   \* the bit of a block in use was cleared, or a block allocated
                \* that data_free has still to go through
    dirty       \* a table was made of a block with old contents

datavars == <<exists, mem, disk, used, content, todo, halted, written, lost, misfreed, dirty>>

\* "panic" is the assertion of the direct part; "addrs" is an access outside
\* addrs, "block" one to a block the disk does not have.
Outcomes == {"no", "panic", "addrs", "block"}

NoAddrs == [i \in Slots |-> 0]
Inode == [addrs : [Slots -> Nat], size : 0..MAX_FILE_SIZE]
EmptyInode == [addrs |-> NoAddrs, size |-> 0]

DataTypeOK ==
    /\ exists \in SUBSET Files
    /\ mem \in [Files -> Inode] /\ disk \in [Files -> Inode]
    /\ used \in SUBSET Blocks
    /\ content \in [Blocks -> [Words -> Nat]]
    /\ todo \in [Files -> SUBSET Nat]
    /\ halted \in Outcomes
    /\ written \in [Files -> [0..(MAX_FILE_SIZE - 1) -> Vals \cup {0}]]
    /\ lost \in SUBSET Files
    /\ misfreed \in BOOLEAN /\ dirty \in BOOLEAN

-----------------------------------------------------------------------------
(***************************************************************************)
(* inode_locate_block, as a function of the cached addrs, the bitmap and   *)
(* the contents: a record of these with the block found, whether it was    *)
(* just allocated, and what went wrong.                                    *)
(***************************************************************************)
Walk(a, c, u) ==
    [addrs |-> a, content |-> c, used |-> u, blk |-> 0, fresh |-> FALSE, dirty |-> FALSE,
     bad |-> FALSE, why |-> "no"]

Free(s) == Blocks \ s.used
\* Mutant: the changed bitmap is not written.
AllocUnset(s) ==
    IF Free(s) = {} THEN [s EXCEPT !.bad = TRUE, !.why = "panic"]
    ELSE [s EXCEPT !.blk = Min(Free(s)), !.fresh = TRUE]

\* bitmap_search_and_set: the first clear bit.  The block is not cleared.
\* Without one the result is -1, which inode_locate_block tests for in its
\* direct part only; the other assertions compare with 0.
Alloc(s) ==
    IF Free(s) = {} THEN [s EXCEPT !.bad = TRUE, !.why = "panic"]
    ELSE [s EXCEPT !.used = @ \cup {Min(Free(s))}, !.blk = Min(Free(s)), !.fresh = TRUE]

\* The code goes on with an index outside addrs, or with a number that is no
\* block; the first of these is kept.
Astray(s, how) == [s EXCEPT !.bad = TRUE, !.why = IF @ = "addrs" THEN @ ELSE how]

\* The block in addrs[i].  There is no check of i: from N_ADDRS on it is a
\* word of the next slot of the inode cache.
Root(s, i) ==
    IF i \notin Slots THEN Astray(s, "addrs")
    ELSE IF s.addrs[i] # 0 THEN [s EXCEPT !.blk = s.addrs[i]]
    ELSE LET n == Alloc(s) IN IF n.bad THEN n ELSE [n EXCEPT !.addrs[i] = n.blk]

\* A new block becomes a table with whatever it holds.
Marked(s) == [s EXCEPT !.dirty = @ \/ (s.fresh /\ \E w \in Words : s.content[s.blk][w] # 0)]

\* The block in word j of the table that was found last.  On a full disk -1
\* is stored, as the number of the table or in it, and read from the device.
Child(s, j) ==
    IF s.bad \/ s.blk \notin Blocks THEN Astray(s, "block")
    ELSE LET t == Marked(s)
         IN IF t.content[t.blk][j] # 0
            THEN [t EXCEPT !.blk = t.content[t.blk][j], !.fresh = FALSE]
            ELSE LET n == Alloc(t) IN
                 IF n.bad THEN Astray(n, "block") ELSE [n EXCEPT !.content[t.blk][j] = n.blk]

\* Mutant: every block under an indirect table is taken from its first word.
LocateClash(s, bn) ==
    IF bn < N_ADDRS_1 THEN Root(s, bn)
    ELSE IF bn < N_ADDRS_1 + N_ADDRS_2 * E
    THEN Child(Root(s, (bn - N_ADDRS_1) \div E + N_ADDRS_1), 0)
    ELSE LET n == bn - N_ADDRS_1 - N_ADDRS_2 * E IN
         Child(Child(Root(s, (n \div E) * E + N_ADDRS_1 + N_ADDRS_2), n \div E), n % E)

\* index1 of the double indirect part is multiplied by ENTRY_PER_BLOCK where
\* it should be divided: beyond the first table it lies outside addrs.
Locate(s, bn) ==
    IF bn < N_ADDRS_1 THEN Root(s, bn)
    ELSE IF bn < N_ADDRS_1 + N_ADDRS_2 * E
    THEN Child(Root(s, (bn - N_ADDRS_1) \div E + N_ADDRS_1), (bn - N_ADDRS_1) % E)
    ELSE LET n == bn - N_ADDRS_1 - N_ADDRS_2 * E IN
         Child(Child(Root(s, (n \div E) * E + N_ADDRS_1 + N_ADDRS_2), n \div E), n % E)

\* What a read (v = 0) or a write of v does with the block found.
Use(s, v) ==
    IF s.bad THEN s
    ELSE IF s.blk \notin Blocks THEN Astray(s, "block")
    ELSE IF v = 0 THEN s
    ELSE [s EXCEPT !.content[s.blk] = [w \in Words |-> v]]

\* The loop over blocks bn, bn + 1, ..., bn + n - 1 of a read or a write, up
\* to the first that fails.
Step(s, bn, v) == IF s.bad THEN s ELSE Use(Locate([s EXCEPT !.fresh = FALSE], bn), v)
LocateAll(a, bn, n, v) ==
    LET s[k \in 0..n] == IF k = 0 THEN Walk(a, content, used) ELSE Step(s[k - 1], bn + (k - 1), v)
    IN s[n]

\* Where a block number stands: <<i, End, End>> is addrs[i], <<i, j, End>> word
\* j of the table there, <<i, j, k>> word k of the table there.
End == -1
Places ==
    {x \in Slots \X (Words \cup {End}) \X (Words \cup {End}) :
        /\ x[2] # End => x[1] >= N_ADDRS_1
        /\ x[3] # End => x[2] # End /\ x[1] >= N_ADDRS_1 + N_ADDRS_2}

Word(c, t, j) == IF t \in Blocks THEN c[t][j] ELSE 0
BlockAt(a, c, x) ==
    LET u == Word(c, a[x[1]], x[2]) IN
    IF x[2] = End THEN a[x[1]] ELSE IF x[3] = End THEN u ELSE Word(c, u, x[3])
Below(a) == {BlockAt(a, content, x) : x \in Places} \ {0}

-----------------------------------------------------------------------------
DataInit ==
    /\ exists = {} /\ used = {}
    /\ mem = [f \in Files |-> EmptyInode] /\ disk = mem
    /\ content = [b \in Blocks |-> [w \in Words |-> 0]]
    /\ written = [f \in Files |-> [n \in 0..(MAX_FILE_SIZE - 1) |-> 0]]
    /\ todo = [f \in Files |-> {}]
    /\ lost = {} /\ halted = "no" /\ misfreed = FALSE /\ dirty = FALSE

\* The model ends with a panic, and where a number leads nowhere or to a block
\* of something else: from there on the code reads and writes what it should
\* not.
Intact == halted = "no" /\ ~misfreed /\ ~dirty

Halt(s) ==
    /\ s.bad
    /\ halted' = s.why
    /\ UNCHANGED <<exists, mem, disk, used, content, todo, written, lost, misfreed, dirty>>

\* A walk may be given a block of a destroyed file before data_free has come
\* to it: data_free will take what it holds for its table.
Overtakes(s) == (s.used \ used) \cap UNION {todo[g] : g \in Files} # {}

\* inode_create, with the first inode_lock of the new inode.  The number of a
\* destroyed inode is given back after its blocks.
inode_create(f) ==
    /\ Intact /\ f \notin exists /\ todo[f] = {}
    /\ exists' = exists \cup {f}
    /\ mem' = [mem EXCEPT ![f] = EmptyInode]
    /\ disk' = [disk EXCEPT ![f] = EmptyInode]
    /\ UNCHANGED <<used, content, todo, halted, written, lost, misfreed, dirty>>

\* The inode on the disk after a write: new block numbers go there only with
\* a new size.
WrittenBack(old, new, size) == IF size > old.size THEN [addrs |-> new, size |-> size] ELSE old

\* inode_write_data through file_write, from an offset that may lie behind
\* the end of the file.
inode_write_data(f, bn, n, v) ==
    /\ Intact /\ f \in exists
    /\ bn + n <= MAX_FILE_SIZE
    /\ LET s == LocateAll(mem[f].addrs, bn, n, v) IN
       /\ ~s.bad
       /\ mem' = [mem EXCEPT ![f] = [addrs |-> s.addrs, size |-> Max({@.size, bn + n})]]
       /\ disk' = [disk EXCEPT ![f] = WrittenBack(@, s.addrs, bn + n)]
       /\ used' = s.used /\ content' = s.content /\ dirty' = (dirty \/ s.dirty)
       /\ written' = [written EXCEPT ![f] = [k \in DOMAIN @ |-> IF k \in bn..(bn + n - 1) THEN v ELSE @[k]]]
       /\ misfreed' = Overtakes(s)
       /\ UNCHANGED <<exists, todo, halted, lost>>

\* The write that does not come to its end.
inode_write_halt(f, bn, n, v) ==
    /\ Intact /\ f \in exists
    /\ bn + n <= MAX_FILE_SIZE
    /\ Halt(LocateAll(mem[f].addrs, bn, n, v))

\* inode_read_data first reads the inode from the disk again, then locates
\* what lies below the size; a block that is not there is allocated in the
\* cached inode only.
ReadLen(f, bn, n) == Min({n, disk[f].size - bn})

Reread(f) ==
    lost' = IF mem[f].addrs = disk[f].addrs THEN lost ELSE lost \cup {f}

inode_read_data(f, bn, n) ==
    /\ Intact /\ f \in exists
    /\ Reread(f)
    /\ IF bn > disk[f].size
       THEN mem' = [mem EXCEPT ![f] = disk[f]] /\ UNCHANGED <<used, content, misfreed, dirty>>
       ELSE LET s == LocateAll(disk[f].addrs, bn, ReadLen(f, bn, n), 0) IN
            /\ ~s.bad
            /\ mem' = [mem EXCEPT ![f] = [disk[f] EXCEPT !.addrs = s.addrs]]
            /\ used' = s.used /\ content' = s.content /\ dirty' = (dirty \/ s.dirty)
            /\ misfreed' = Overtakes(s)
    /\ UNCHANGED <<exists, disk, todo, halted, written>>

\* The read that does not come to its end.
inode_read_halt(f, bn, n) ==
    /\ Intact /\ f \in exists
    /\ bn <= disk[f].size
    /\ Halt(LocateAll(disk[f].addrs, bn, ReadLen(f, bn, n), 0))

\* The last reference was dropped and the file opened again: inode_get takes
\* another slot and inode_lock fills it from the disk.
inode_lock(f) ==
    /\ Intact /\ f \in exists
    /\ mem[f] # disk[f]
    /\ Reread(f)
    /\ mem' = [mem EXCEPT ![f] = disk[f]]
    /\ UNCHANGED <<exists, disk, used, content, todo, halted, written, misfreed, dirty>>

\* path_link and path_unlink write the inode back for its link count, and the
\* cached addrs with it.
inode_rw(f) ==
    /\ Intact /\ f \in exists
    /\ mem[f] # disk[f]
    /\ disk' = [disk EXCEPT ![f] = mem[f]]
    /\ UNCHANGED <<exists, mem, used, content, todo, halted, written, lost, misfreed, dirty>>

\* data_free goes through a table up to its first empty word.
Reclaimed(a) ==
    {BlockAt(a, content, x) : x \in {y \in Places :
        /\ \A j \in 0..y[2] : Word(content, a[y[1]], j) # 0
        /\ \A k \in 0..y[3] : Word(content, BlockAt(a, content, <<y[1], y[2], End>>), k) # 0}} \ {0}

\* bitmap_unset subtracts the number of the bitmap's own block, one less than
\* that of the first data block: it clears the bit after the one meant.
Unset(b) == {b + 1}

\* inode_destroy by the last inode_free of an unlinked file: nobody else can
\* come to the inode from here on.
inode_destroy(f) ==
    /\ Intact /\ f \in exists
    /\ exists' = exists \ {f}
    /\ todo' = [todo EXCEPT ![f] = Reclaimed(mem[f].addrs)]
    /\ mem' = [mem EXCEPT ![f].addrs = NoAddrs]
    /\ disk' = [disk EXCEPT ![f] = mem'[f]]
    /\ written' = [written EXCEPT ![f] = [k \in DOMAIN @ |-> 0]]
    /\ lost' = lost \ {f}
    /\ UNCHANGED <<used, content, halted, misfreed, dirty>>

\* data_free of one block, in any order of the blocks.
data_free(f, b) ==
    /\ Intact /\ b \in todo[f]
    /\ todo' = [todo EXCEPT ![f] = @ \ {b}]
    /\ used' = used \ Unset(b)
    /\ misfreed' = (\E g \in exists : (Below(mem[g].addrs) \cup Below(disk[g].addrs)) \cap Unset(b) # {})
    /\ UNCHANGED <<exists, mem, disk, content, halted, written, lost, dirty>>

DataNext ==
    \E f \in Files :
        \/ inode_create(f) \/ inode_lock(f) \/ inode_rw(f) \/ inode_destroy(f)
        \/ \E b \in todo[f] : data_free(f, b)
        \/ \E bn \in Offsets, n \in 1..MAX_LEN :
               \/ inode_read_data(f, bn, n) \/ inode_read_halt(f, bn, n)
               \/ \E v \in Vals : inode_write_data(f, bn, n, v) \/ inode_write_halt(f, bn, n, v)

DataSpec == DataInit /\ [][DataNext]_datavars

-----------------------------------------------------------------------------
(***************************************************************************)
(* Properties.  Exclusive and ReadsBack say what holds up to the first     *)
(* defect: Intact, and for ReadsBack lost.  The properties after them state *)
(* what the code's comments promise without that condition; each is        *)
(* violated by one of the defects.                                         *)
(***************************************************************************)
\* Until the first panic, stray access, wrong bit or table with old contents:
\* every block stands in one place of one file, its bit is set, and the disk
\* knows no block the cached inode does not.
Exclusive ==
    DataTypeOK /\ (Intact =>
        \A f, g \in exists : \A x, y \in Places :
            LET b == BlockAt(mem[f].addrs, content, x) IN
            /\ b # 0 /\ b = BlockAt(mem[g].addrs, content, y) => f = g /\ x = y
            /\ b \in used \cup {0}
            /\ BlockAt(disk[f].addrs, content, x) \in {0, b})

\* Block n of file f is found without allocating and holds what was written.
Readable(f, n) ==
    LET s == Locate(Walk(mem[f].addrs, content, used), n) IN
    /\ ~s.bad /\ s.used = used
    /\ s.blk \in Blocks /\ content[s.blk] = [w \in Words |-> written[f][n]]

\* Until then, and for files whose new block numbers were not dropped: a block
\* reads as what was last written to it, however reads, writes behind the end
\* and the ends of other files interleave.
ReadsBack ==
    Intact => \A f \in exists \ lost : \A n \in DOMAIN written[f] :
                  written[f][n] # 0 => Readable(f, n)

\* inode_locate_block stays inside addrs for every file size the limit of
\* inode_write_data allows.  Violated: index1 of the double indirect part.
AddrsInRange == halted # "addrs"

\* A full disk is noticed by the assertion after bitmap_alloc_block.  Violated
\* in the tables, where the assertion tests for 0.
FullDiskNoticed == halted # "block"

\* The end of a file gives back its own blocks: those of the other files stay
\* marked in the bitmap.  Violated: bitmap_unset clears the bit after.
MarkedInUse == halted = "no" => \A f \in exists : Below(mem[f].addrs) \subseteq used

\* A block comes from bitmap_alloc_block cleared, so that a new table is empty.
\* Violated: the memset is commented out.
TablesStartEmpty == ~dirty

\* What was written to a file stays readable, also in a hole.  Violated: the
\* number of a block added below the size stays in the cached inode, which
\* the next inode_read_data reads from the disk again.
WritesStay ==
    Intact => \A f \in exists : \A n \in DOMAIN written[f] : written[f][n] # 0 => Readable(f, n)

=============================================================================
