------------------------------- MODULE Files -------------------------------
(***************************************************************************)
(* The open file table of kernel/fs/file.c and the descriptors of          *)
(* kernel/syscall/sysfile.c, with what fork and proc_free do to them.      *)
(*                                                                         *)
(* A section under lk_ftable is one step.  file_close lets go of the lock  *)
(* before it closes the pipe end or drops the inode, and open, pipe and    *)
(* the release of a process take several sections: other processes run in  *)
(* between.  An inode is its number of references (inode_get, inode_free), *)
(* a pipe its two flags (pipe_close, module Pipe).                         *)
(***************************************************************************)
EXTENDS Integers, FiniteSets, FiniteSetsExt

CONSTANTS Procs,
          N_FILE,         \* entries of ftable
          FILE_PER_PROC,  \* descriptors of a process
          Inodes,
          Console,        \* the inode of the console
          Pipes,
          WRAP,           \* the count of an inode wraps
          MAX_LEAKED,     \* bound of the model on the references leaked
          NULL

ASSUME FilesAssumption ==
    /\ N_FILE \in Nat \ {0} /\ FILE_PER_PROC \in Nat /\ FILE_PER_PROC >= 2
    /\ IsFiniteSet(Procs)
    /\ Console \in Inodes
    /\ Inodes \cap [pipe : Pipes, writable : BOOLEAN] = {}
    /\ NULL \notin Inodes \cup [pipe : Pipes, writable : BOOLEAN] \cup 1..N_FILE
    /\ WRAP \in Nat /\ WRAP > N_FILE + Cardinality(Procs)

Table == 1..N_FILE
FDs == 0..(FILE_PER_PROC - 1)
Ends == [pipe : Pipes, writable : BOOLEAN]
Objects == Inodes \cup Ends          \* what a file stands for

VARIABLES
    ref, obj,     \* of an entry of ftable; obj is NULL for FD_UNUSED
    iref,         \* inode->ref
    popen,        \* the ends of pipes that are open
    stuck,        \* lk_ftable is held by a process that panicked
    filelist,
    \* locals of a process
    pc,
    inhand,       \* files an open or a pipe has made, or that are yet to be closed
    saved,        \* what open has found, pipe has made or file_close has read
    dying,        \* the files are closed by proc_free
    \* history
    leaked,       \* references of an entry that no descriptor will give back
    dangled       \* a descriptor was left that names a closed file

table == <<ref, obj>>
objects == <<iref, popen>>
locals == <<inhand, saved, dying>>
history == <<leaked, dangled>>
vars == <<table, objects, stuck, filelist, pc, locals, history>>

Labels == {"unused", "idle", "open", "fd", "pipe", "pipe2", "pipefd", "closing", "release", "panic"}

TypeOK ==
    /\ ref \in [Table -> Nat]
    /\ obj \in [Table -> Objects \cup {NULL}]
    /\ iref \in [Inodes -> 0..(WRAP - 1)]
    /\ popen \in SUBSET Ends
    /\ stuck \in BOOLEAN
    /\ filelist \in [Procs -> [FDs -> Table \cup {NULL}]]
    /\ pc \in [Procs -> Labels]
    /\ inhand \in [Procs -> [FDs -> Table \cup {NULL}]]
    /\ saved \in [Procs -> Objects \cup {NULL}]
    /\ dying \in SUBSET Procs
    /\ leaked \in [Table -> Nat]
    /\ dangled \in BOOLEAN

Goto(p, l) == pc' = [pc EXCEPT ![p] = l]

\* The files in hand are numbered like descriptors, and closed in that order.
None == [d \in FDs |-> NULL]
InHand(p) == {d \in FDs : inhand[p][d] # NULL}

\* Where a process goes when it has files to close, or none.
AfterClose(p, h) ==
    /\ pc' = [pc EXCEPT ![p] = IF h # None THEN "closing" ELSE IF p \in dying THEN "unused" ELSE "idle"]
    /\ dying' = IF h = None THEN dying \ {p} ELSE dying

\* proczero after fs_init: file_create_dev gave back its reference to the
\* console's inode before it stored the inode in the file.
Init ==
    /\ ref = [f \in Table |-> IF f = 1 THEN 2 ELSE 0]
    /\ obj = [f \in Table |-> IF f = 1 THEN Console ELSE NULL]
    /\ iref = [i \in Inodes |-> 0]
    /\ popen = {}
    /\ stuck = FALSE
    /\ \E p \in Procs :
           /\ filelist = [q \in Procs |-> [d \in FDs |-> IF q = p /\ d < 2 THEN 1 ELSE NULL]]
           /\ pc = [q \in Procs |-> IF q = p THEN "idle" ELSE "unused"]
    /\ inhand = [p \in Procs |-> None]
    /\ saved = [p \in Procs |-> NULL]
    /\ dying = {}
    /\ leaked = [f \in Table |-> 0]
    /\ dangled = FALSE

FreeFds(p) == {d \in FDs : filelist[p][d] = NULL}
\* Bound of the model: once a descriptor dangles, what is open is still shared
\* and closed, but nothing more is opened.
MayOpen == ~dangled

FreeFiles == {f \in Table : ref[f] = 0}

-----------------------------------------------------------------------------
(***************************************************************************)
(* sys_open.                                                               *)
(***************************************************************************)
\* path_to_inode or path_create_inode: a reference to the inode.
open_inode(p, i) ==
    /\ pc[p] = "idle" /\ MayOpen
    /\ iref' = [iref EXCEPT ![i] = (@ + 1) % WRAP]
    /\ saved' = [saved EXCEPT ![p] = i]
    /\ Goto(p, "open")
    /\ UNCHANGED <<table, popen, stuck, filelist, inhand, dying, history>>

\* file_alloc takes the first entry without references.
FirstFree == Min(FreeFiles)

\* A new file that stands for o, at place d of the files in hand.
file_alloc(p, d, o) ==
    /\ ~stuck
    /\ FreeFiles # {}
    /\ ref' = [ref EXCEPT ![FirstFree] = 1]
    /\ obj' = [obj EXCEPT ![FirstFree] = o]
    /\ inhand' = [inhand EXCEPT ![p][d] = FirstFree]

\* file_alloc, and the fields, which nobody else looks at yet.
open_file(p) ==
    /\ pc[p] = "open"
    /\ file_alloc(p, 0, saved[p])
    /\ saved' = [saved EXCEPT ![p] = NULL]
    /\ Goto(p, "fd")
    /\ UNCHANGED <<objects, stuck, filelist, dying, history>>

\* fd_alloc, or file_close when there is no descriptor left.
open_fd(p) ==
    /\ pc[p] = "fd"
    /\ IF FreeFds(p) # {}
       THEN /\ filelist' = [filelist EXCEPT ![p][Min(FreeFds(p))] = inhand[p][0]]
            /\ inhand' = [inhand EXCEPT ![p] = None]
            /\ Goto(p, "idle")
       ELSE /\ Goto(p, "closing")
            /\ UNCHANGED <<filelist, inhand>>
    /\ UNCHANGED <<table, objects, stuck, saved, dying, history>>

\* file_alloc with a full table: the assertion fails after the lock is given
\* back (for the first or the second file of a pipe too).
file_alloc_panic(p) ==
    /\ pc[p] \in {"open", "pipe", "pipe2"} /\ ~stuck
    /\ FreeFiles = {}
    /\ Goto(p, "panic")
    /\ UNCHANGED <<table, objects, stuck, filelist, locals, history>>

-----------------------------------------------------------------------------
(***************************************************************************)
(* sys_pipe.                                                               *)
(***************************************************************************)
\* pipe_alloc: both ends open, then two files.
pipe_new(p, x) ==
    /\ pc[p] = "idle" /\ MayOpen
    /\ \A e \in Ends : e.pipe = x => e \notin popen
    /\ \A f \in Table : ref[f] > 0 /\ obj[f] \in Ends => obj[f].pipe # x
    /\ popen' = popen \cup {e \in Ends : e.pipe = x}
    /\ saved' = [saved EXCEPT ![p] = [pipe |-> x, writable |-> FALSE]]
    /\ Goto(p, "pipe")
    /\ UNCHANGED <<table, iref, stuck, filelist, inhand, dying, history>>

pipe_file(p) ==
    /\ pc[p] = "pipe"
    /\ file_alloc(p, 0, saved[p])
    /\ saved' = [saved EXCEPT ![p].writable = TRUE]
    /\ Goto(p, "pipe2")
    /\ UNCHANGED <<objects, stuck, filelist, dying, history>>

pipe_file2(p) ==
    /\ pc[p] = "pipe2"
    /\ file_alloc(p, 1, saved[p])
    /\ saved' = [saved EXCEPT ![p] = NULL]
    /\ Goto(p, "pipefd")
    /\ UNCHANGED <<objects, stuck, filelist, dying, history>>

\* Two descriptors, the lowest free ones.
pipe_fd(p) ==
    /\ pc[p] = "pipefd"
    /\ \E d \in FreeFds(p), e \in FreeFds(p) :
           /\ d < e
           /\ \A x \in FreeFds(p) : x = d \/ x >= e
           /\ filelist' = [filelist EXCEPT ![p][d] = inhand[p][0], ![p][e] = inhand[p][1]]
    /\ inhand' = [inhand EXCEPT ![p] = None]
    /\ Goto(p, "idle")
    /\ UNCHANGED <<table, objects, stuck, saved, dying, history>>

\* Less than two: the files are closed, but the first descriptor, assigned
\* once more, still names its file.
pipe_fd_fail(p) ==
    /\ pc[p] = "pipefd"
    /\ Cardinality(FreeFds(p)) < 2
    /\ filelist' = [filelist EXCEPT ![p] = [d \in FDs |-> IF @[d] = NULL THEN inhand[p][0] ELSE @[d]]]
    /\ dangled' = (dangled \/ FreeFds(p) # {})
    /\ Goto(p, "closing")
    /\ UNCHANGED <<table, objects, stuck, inhand, saved, dying, leaked>>

-----------------------------------------------------------------------------
(***************************************************************************)
(* sys_dup, sys_close and file_close.                                      *)
(***************************************************************************)
Open(p) == {d \in FDs : filelist[p][d] # NULL}

\* Mutant: the new descriptor does not count.
NoDup(f) == ref

Dup(f) == [ref EXCEPT ![f] = @ + 1]

\* Bound of the model.
MayLeak == Cardinality({x \in Table \X (1..MAX_LEAKED) : x[2] <= leaked[x[1]]}) < MAX_LEAKED

\* The file is duplicated even if fd_alloc found no descriptor for it.
sys_dup(p, d) ==
    LET f == filelist[p][d] IN
    /\ pc[p] = "idle" /\ d \in Open(p) /\ ~stuck
    /\ ref[f] > 0
    /\ IF FreeFds(p) # {}
       THEN filelist' = [filelist EXCEPT ![p][Min(FreeFds(p))] = f] /\ UNCHANGED leaked
       ELSE MayLeak /\ leaked' = [leaked EXCEPT ![f] = @ + 1] /\ UNCHANGED filelist
    /\ ref' = Dup(f)
    /\ UNCHANGED <<obj, objects, stuck, pc, locals, dangled>>

\* The assertion of file_dup, with lk_ftable held.
sys_dup_panic(p, d) ==
    /\ pc[p] = "idle" /\ d \in Open(p) /\ ~stuck
    /\ ref[filelist[p][d]] = 0
    /\ stuck' = TRUE
    /\ Goto(p, "panic")
    /\ UNCHANGED <<table, objects, filelist, locals, history>>

sys_close(p, d) ==
    /\ pc[p] = "idle" /\ d \in Open(p)
    /\ filelist' = [filelist EXCEPT ![p][d] = NULL]
    /\ inhand' = [inhand EXCEPT ![p][0] = filelist[p][d]]
    /\ Goto(p, "closing")
    /\ UNCHANGED <<table, objects, stuck, saved, dying, history>>

\* Mutant: the fields are read after the entry was given up.
ReadLate(f) == NULL

\* The fields file_close keeps for later.
ReadFields(f) == obj[f]

\* file_close up to the release of lk_ftable; with other references left it
\* is done.
file_close(p) ==
    LET d == Min(InHand(p))
        f == inhand[p][d]
        rest == [inhand[p] EXCEPT ![d] = NULL]
    IN
    /\ pc[p] = "closing" /\ ~stuck
    /\ ref[f] > 0
    /\ ref' = [ref EXCEPT ![f] = @ - 1]
    /\ inhand' = [inhand EXCEPT ![p] = rest]
    /\ IF ref[f] = 1
       THEN /\ obj' = [obj EXCEPT ![f] = NULL]
            /\ saved' = [saved EXCEPT ![p] = ReadFields(f)]
            /\ Goto(p, "release")
            /\ UNCHANGED dying
       ELSE AfterClose(p, rest) /\ UNCHANGED <<obj, saved>>
    /\ UNCHANGED <<objects, stuck, filelist, history>>

file_close_panic(p) ==
    /\ pc[p] = "closing" /\ ~stuck
    /\ ref[inhand[p][Min(InHand(p))]] = 0
    /\ stuck' = TRUE
    /\ Goto(p, "panic")
    /\ UNCHANGED <<table, objects, filelist, locals, history>>

\* Mutant: a reading end is closed as a writing one.
WrongEnd(p) == IF saved[p] \in Ends THEN [saved[p] EXCEPT !.writable = TRUE] ELSE saved[p]

\* What the second half of file_close works on.
Released(p) == saved[p]

\* inode_free: the count is unsigned.
Dropped(i) == (iref[i] + WRAP - 1) % WRAP

\* pipe_close or inode_free, for the last reference.
file_release(p) ==
    LET o == Released(p) IN
    /\ pc[p] = "release"
    /\ p \in dying => o \notin Ends
    /\ iref' = IF o \in Inodes THEN [iref EXCEPT ![o] = Dropped(o)] ELSE iref
    /\ popen' = popen \ {o}
    /\ saved' = [saved EXCEPT ![p] = NULL]
    /\ AfterClose(p, inhand[p])
    /\ UNCHANGED <<table, stuck, filelist, inhand, history>>

\* The same for proc_free, which proc_wait calls with the locks of two process
\* slots: the proc_wakeup of pipe_close takes them again, and inode_free sleeps
\* if it destroys the inode.  What is left in hand stays open.  (The parent
\* panics in fact; which process that is makes no difference to the table.)
file_release_panic(p) ==
    LET o == Released(p) IN
    /\ pc[p] = "release" /\ p \in dying
    /\ o \in Inodes => Dropped(o) = 0
    /\ popen' = popen \ {o}
    /\ saved' = [saved EXCEPT ![p] = IF o \in Ends THEN NULL ELSE @]
    /\ Goto(p, "panic")
    /\ UNCHANGED <<table, iref, stuck, filelist, inhand, dying, history>>

-----------------------------------------------------------------------------
(***************************************************************************)
(* Processes.                                                              *)
(***************************************************************************)
\* proc_fork: an entry of the child is set only where the parent has one, so
\* what proc_free left in the slot stays.
Inherited(p, c) ==
    [d \in FDs |-> IF filelist[p][d] # NULL THEN filelist[p][d] ELSE filelist[c][d]]

proc_fork(p, c) ==
    /\ pc[p] = "idle" /\ pc[c] = "unused" /\ ~stuck
    /\ \A d \in Open(p) : ref[filelist[p][d]] > 0
    /\ ref' = [f \in Table |-> ref[f] + Cardinality({d \in Open(p) : filelist[p][d] = f})]
    /\ filelist' = [filelist EXCEPT ![c] = Inherited(p, c)]
    /\ dangled' = (dangled \/ \E d \in Open(c) : filelist[p][d] = NULL)
    /\ Goto(c, "idle")
    /\ UNCHANGED <<obj, objects, stuck, locals, leaked>>

proc_fork_panic(p, c) ==
    /\ pc[p] = "idle" /\ pc[c] = "unused" /\ ~stuck
    /\ \E d \in Open(p) : ref[filelist[p][d]] = 0
    /\ stuck' = TRUE
    /\ Goto(p, "panic")
    /\ UNCHANGED <<table, objects, filelist, locals, history>>

\* proc_free: every open file is closed; filelist is left as it is.
proc_free(p) ==
    /\ pc[p] = "idle"
    /\ inhand' = [inhand EXCEPT ![p] = filelist[p]]
    /\ dying' = IF Open(p) # {} THEN dying \cup {p} ELSE dying
    /\ Goto(p, IF Open(p) # {} THEN "closing" ELSE "unused")
    /\ UNCHANGED <<table, objects, stuck, filelist, saved, history>>

Next ==
    \E p \in Procs :
        \/ \E i \in Inodes : open_inode(p, i)
        \/ open_file(p) \/ open_fd(p) \/ file_alloc_panic(p)
        \/ \E x \in Pipes : pipe_new(p, x)
        \/ pipe_file(p) \/ pipe_file2(p) \/ pipe_fd(p) \/ pipe_fd_fail(p)
        \/ \E d \in FDs : sys_dup(p, d) \/ sys_dup_panic(p, d) \/ sys_close(p, d)
        \/ file_close(p) \/ file_close_panic(p) \/ file_release(p) \/ file_release_panic(p)
        \/ \E c \in Procs : proc_fork(p, c) \/ proc_fork_panic(p, c)
        \/ proc_free(p)

Spec == Init /\ [][Next]_vars

-----------------------------------------------------------------------------
(***************************************************************************)
(* Properties.                                                             *)
(***************************************************************************)
\* The references to an entry: descriptors of processes that are not being
\* released, and files in the hands of an open, a pipe or a close.  What
\* sys_dup leaked is counted apart.
Uses(p) == pc[p] # "unused" /\ p \notin dying
Named(f) == {x \in Procs \X FDs : Uses(x[1]) /\ filelist[x[1]][x[2]] = f}
Held(f) == {x \in Procs \X FDs : inhand[x[1]][x[2]] = f}

\* file_dup, file_close, fork and the release of a process count the
\* references to an open file exactly, whatever the order in which processes
\* share and close it, until a descriptor is left that names a closed file.
RefExact ==
    TypeOK /\ (~dangled =>
        \A f \in Table : ref[f] = Cardinality(Named(f)) + Cardinality(Held(f)) + leaked[f])

\* Open files and operations under way that stand for an inode.
StandsFor(i) == {f \in Table : ref[f] > 0 /\ obj[f] = i}
Busy(i) == {p \in Procs : saved[p] = i}

\* inode_free is called once for each reference an open took: the count of
\* an inode is the number of open files that stand for it, of opens that will
\* make one and of closes on their way to inode_free, one less for the console.
InodeRefs ==
    ~dangled => \A i \in Inodes :
        iref[i] = (Cardinality(StandsFor(i)) + Cardinality(Busy(i)) + (IF i = Console THEN WRAP - 1 ELSE 0)) % WRAP

\* What an end is open for: a file, a close on its way to pipe_close, or a
\* sys_pipe that has yet to make a file.
FileFor(f, e) == ref[f] > 0 /\ obj[f] = e
Closing(p, e) == pc[p] = "release" /\ saved[p] = e
Making(p, e) == pc[p] # "release" /\ saved[p] \in Ends /\ saved[p].pipe = e.pipe

\* The end of a pipe is open as long as a file stands for it, or is being
\* made or closed, and no longer: the other side of the pipe sees it go
\* exactly when no process can use it any more.
EndsOpen ==
    ~dangled => \A e \in Ends :
        e \in popen <=>
            \/ \E f \in Table : FileFor(f, e)
            \/ \E p \in Procs : Closing(p, e)
            \/ \E p \in Procs : Making(p, e)

\* A descriptor of a running process names an open file.  Violated: proc_free
\* leaves the pointers of the files it closes, and sys_pipe does when it finds
\* one descriptor only.
DescriptorsOpen == \A p \in Procs : pc[p] = "idle" => \A d \in Open(p) : ref[filelist[p][d]] > 0

\* ref is the number of references, those of sys_dup included.  Violated:
\* sys_dup counts one although it found no descriptor.
RefsAreReferences ==
    ~dangled => \A f \in Table : ref[f] = Cardinality(Named(f)) + Cardinality(Held(f))

-----------------------------------------------------------------------------
(***************************************************************************)
(* The inductive invariant of module FilesProofs.                          *)
(***************************************************************************)
\* What a process has at each label.
OnlyFirst(h) == h[0] # NULL /\ \A d \in FDs \ {0} : h[d] = NULL
BothFirst(h) == h[0] # NULL /\ h[1] # NULL /\ \A d \in FDs \ {0, 1} : h[d] = NULL

LocalsOf(p) ==
    /\ pc[p] \in {"unused", "idle", "open", "pipe"} => inhand[p] = None
    /\ pc[p] \in {"fd", "pipe2"} => OnlyFirst(inhand[p])
    /\ pc[p] = "pipefd" => BothFirst(inhand[p])
    /\ pc[p] = "closing" => InHand(p) # {}
    /\ pc[p] = "open" => saved[p] \in Inodes
    /\ pc[p] \in {"pipe", "pipe2"} => saved[p] \in Ends /\ saved[p].writable = (pc[p] = "pipe2")
    /\ pc[p] = "release" => saved[p] \in Objects
    /\ pc[p] \in {"unused", "idle", "fd", "pipefd", "closing"} => saved[p] = NULL
    /\ p \in dying => pc[p] \in {"closing", "release", "panic"}

LocalsInv == \A p \in Procs : LocalsOf(p)

\* An entry with references stands for something.
ObjInv == \A f \in Table : ref[f] > 0 => obj[f] \in Objects

\* An end belongs to one file, or to one process that closes it, or to the
\* process that makes the pipe, of which then only the reading end may have a
\* file, the first of those in the hands of that process.
EndsApart ==
    ~dangled => \A e \in Ends :
        /\ \A f, g \in Table : FileFor(f, e) /\ FileFor(g, e) => f = g
        /\ \A p, q \in Procs : Closing(p, e) /\ Closing(q, e) => p = q
        /\ \A p \in Procs, f \in Table : ~ (Closing(p, e) /\ FileFor(f, e))
        /\ \A p, q \in Procs : ~ (Making(p, e) /\ Closing(q, e))
        /\ \A p, q \in Procs : Making(p, e) /\ Making(q, e) => p = q
        /\ \A p \in Procs, f \in Table : Making(p, e) /\ FileFor(f, e) => ~e.writable /\ f = inhand[p][0]
        /\ \A p \in Procs : pc[p] = "pipe2" /\ Making(p, e) /\ ~e.writable => FileFor(inhand[p][0], e)

IInv == LocalsInv /\ ObjInv /\ RefExact /\ InodeRefs /\ EndsApart /\ EndsOpen
=============================================================================
