-------------------------------- MODULE Mmap --------------------------------
(***************************************************************************)
(* The mmap areas of processes: kernel/mem/mmap.c, uvm_mmap, uvm_munmap    *)
(* and the walk of uvm_copy_pgtbl in uvm.c, and what fork, exec and        *)
(* proc_free do with the regions.                                          *)
(*                                                                         *)
(* A process has a list of the free regions of its area, which starts with *)
(* a special node of no pages; the nodes come from a pool all processes    *)
(* share.  The list of a process is used by that process only, the pool    *)
(* under list_lk, which mmap_region_alloc and mmap_region_free hold for    *)
(* one node: fork, exec and proc_free take and give back many, and others  *)
(* come in between, so each node is a step.  A call of uvm_mmap needs one  *)
(* node at most and is one step; so is uvm_munmap, with the node it takes  *)
(* and those mmap_merge gives back at once: that the pool has one node     *)
(* less for a moment is not seen by others here.  A process that finds the *)
(* pool empty panics with list_lk held.  Physical pages are those of       *)
(* module Pages and are not counted here.                                  *)
(***************************************************************************)
EXTENDS Integers, Sequences, FiniteSets, SequencesExt, FiniteSetsExt

CONSTANTS Procs,
          NM,        \* pages of the area, MMAP_BEGIN is page 0
          N_MMAP,    \* nodes, the first of which is reserved
          MAX_STRAYED, \* bound of the model: processes with such a page fault, one each
          NULL

ASSUME MmapAssumption == NM \in Nat \ {0} /\ N_MMAP \in Nat /\ N_MMAP >= 3 /\ NULL \notin Procs

VARIABLES
    state,       \* of a process: "unused", "live" or "panic"; "fork" and, of its
                 \* child, "new"; "exec" giving nodes back, then "exec2"; "free" in proc_free
    child,       \* of a process in "fork": the new one
    list,        \* the regions of a process, from p->mmap
    pool,        \* the free nodes, from list_head->next: nodes are alike, so their number
    list_lk,     \* held for good by a process that panicked, or NULL
    mapped,      \* the pages of the area in the page table
    \* history
    strayed,     \* processes with a page fault inside a free region
    corrupt      \* a node was freed while it is still linked

vars == <<state, child, list, pool, list_lk, mapped, strayed, corrupt>>

Area == 0..(NM - 1)
Region(b, n) == [begin |-> b, npages |-> n]
End(r) == r.begin + r.npages
Span(b, n) == b..(b + n - 1)

States == {"unused", "live", "panic", "fork", "new", "exec", "exec2", "free"}

TypeOK ==
    /\ state \in [Procs -> States]
    /\ child \in [Procs -> Procs \cup {NULL}]
    /\ list \in [Procs -> Seq([begin : Area, npages : 0..NM])]
    /\ pool \in 0..(N_MMAP - 1)
    /\ list_lk \in Procs \cup {NULL}
    /\ mapped \in [Procs -> SUBSET Area]
    /\ strayed \in SUBSET Procs
    /\ corrupt \in BOOLEAN

\* A running process and a list that can be followed.  After a node was freed
\* while it is still linked, the next allocation makes the links of two
\* places share a node; the model stops there.
Running(p) == state[p] = "live" /\ ~corrupt

Panic(p) == state' = [state EXCEPT ![p] = "panic"]
SetList(p, l) == list' = [list EXCEPT ![p] = l]

\* mmap_region_alloc finds the pool empty, its lock held.
PoolEmpty(p) ==
    /\ list_lk = NULL /\ pool = 0
    /\ list_lk' = p
    /\ Panic(p)

\* The list of a new address space: the special node and all of the area.
FreshList == <<Region(0, 0), Region(0, NM)>>

-----------------------------------------------------------------------------
(***************************************************************************)
(* uvm_mmap.                                                               *)
(***************************************************************************)
\* Where the search stops; sys_mmap looks for the same place when begin is 0.
Matches(r, b, n) ==
    IF b = NULL THEN r.npages >= n ELSE r.begin <= b /\ End(r) >= b

Found(p, b, n) == {k \in 2..Len(list[p]) : Matches(list[p][k], b, n)}

\* Mutant: the rest behind the new mapping starts one page early.
RestEarly(r, b, n) ==
    (IF b > r.begin THEN <<[r EXCEPT !.npages = b - r.begin]>> ELSE <<>>)
    \o (IF b + n < End(r)
        THEN <<Region(b + n - 1, End(r) - (b + n))>> ELSE <<>>)

\* What is left of the region: a part before and a part behind, which needs
\* a node of its own if both exist.
Rest(r, b, n) ==
    (IF b > r.begin THEN <<[r EXCEPT !.npages = b - r.begin]>> ELSE <<>>)
    \o (IF b + n < End(r)
        THEN <<Region(b + n, End(r) - (b + n))>> ELSE <<>>)

\* The area is taken from the list, then the pages are mapped, which panics
\* at a page that is mapped already.  (What a process that panics had mapped
\* or unmapped before is left out: nobody looks at its table again.)
uvm_mmap(p, b0, n) ==
    \E k \in Found(p, b0, n) :
        LET r == list[p][k]
            b == IF b0 = NULL THEN r.begin ELSE b0
            split == b > r.begin /\ b + n < End(r)
            whole == b = r.begin /\ b + n = End(r)
        IN
        /\ Running(p)
        /\ k = Min(Found(p, b0, n))
        /\ b + n <= End(r)
        /\ split \/ whole => list_lk = NULL
        /\ split => pool > 0
        /\ SetList(p, SubSeq(list[p], 1, k - 1) \o Rest(r, b, n) \o SubSeq(list[p], k + 1, Len(list[p])))
        /\ pool' = IF split THEN pool - 1 ELSE IF whole THEN pool + 1 ELSE pool
        /\ IF Span(b, n) \cap mapped[p] = {}
           THEN /\ mapped' = [mapped EXCEPT ![p] = @ \cup Span(b, n)]
                /\ UNCHANGED state
           ELSE Panic(p) /\ UNCHANGED mapped
        /\ UNCHANGED <<child, list_lk, strayed, corrupt>>

\* A given begin outside the area, in no free region, or in one that ends
\* too early.
uvm_mmap_panic(p, b, n) ==
    /\ Running(p)
    /\ \/ b + n > NM
       \/ Found(p, b, n) = {}
       \/ \E k \in Found(p, b, n) : k = Min(Found(p, b, n)) /\ End(list[p][k]) < b + n
    /\ Panic(p)
    /\ UNCHANGED <<child, list, pool, list_lk, mapped, strayed, corrupt>>

\* A mapping inside a region, with no node left for the part behind it.
uvm_mmap_nonode(p, b, n) ==
    /\ Running(p)
    /\ \E k \in Found(p, b, n) :
           k = Min(Found(p, b, n)) /\ b > list[p][k].begin /\ b + n < End(list[p][k])
    /\ PoolEmpty(p)
    /\ UNCHANGED <<child, list, pool, mapped, strayed, corrupt>>

-----------------------------------------------------------------------------
(***************************************************************************)
(* uvm_munmap.                                                             *)
(***************************************************************************)
\* The place of the new region: between two neighbours.
Between(p, b, n) ==
    {k \in 1..(Len(list[p]) - 1) : b >= End(list[p][k]) /\ b + n <= list[p][k + 1].begin}

\* Mutant: a region that closes the gap between two is merged with the first only.
MergedOnce(prev, next, new) ==
    IF new.begin = End(prev) /\ prev.npages # 0
    THEN [regions |-> <<[prev EXCEPT !.npages = @ + new.npages], next>>, freed |-> 1]
    ELSE IF End(new) = next.begin
    THEN [regions |-> <<prev, Region(new.begin, new.npages + next.npages)>>, freed |-> 1]
    ELSE [regions |-> <<prev, new, next>>, freed |-> 0]

\* Mutant: the second merge does not return the node of next.
MergedLeak(prev, next, new) ==
    [regions |-> IF new.begin = End(prev) /\ prev.npages # 0
                 THEN IF End(new) = next.begin
                      THEN <<[prev EXCEPT !.npages = @ + new.npages + next.npages]>>
                      ELSE <<[prev EXCEPT !.npages = @ + new.npages], next>>
                 ELSE IF End(new) = next.begin
                 THEN <<prev, Region(new.begin, new.npages + next.npages)>>
                 ELSE <<prev, new, next>>,
     freed |-> IF (new.begin = End(prev) /\ prev.npages # 0) \/ End(new) = next.begin THEN 1 ELSE 0]

\* mmap_merge with the neighbours, never with the special node: the regions
\* that take the place of prev and next, and how many nodes are freed.
Merged(prev, next, new) ==
    IF new.begin = End(prev) /\ prev.npages # 0
    THEN IF End(new) = next.begin
         THEN [regions |-> <<[prev EXCEPT !.npages = @ + new.npages + next.npages]>>,
               freed |-> 2]
         ELSE [regions |-> <<[prev EXCEPT !.npages = @ + new.npages], next>>, freed |-> 1]
    ELSE IF End(new) = next.begin
    THEN [regions |-> <<prev, Region(new.begin, new.npages + next.npages)>>,
          freed |-> 1]
    ELSE [regions |-> <<prev, new, next>>, freed |-> 0]

\* The pages leave the table after the list was changed; one that is not
\* mapped is a panic.
UnmapPages(p, b, n) ==
    IF Span(b, n) \subseteq mapped[p]
    THEN mapped' = [mapped EXCEPT ![p] = @ \ Span(b, n)] /\ UNCHANGED state
    ELSE Panic(p) /\ UNCHANGED mapped

munmap_between(p, b, n) ==
    \E k \in Between(p, b, n) :
        LET l == list[p]
            m == Merged(l[k], l[k + 1], Region(b, n))
        IN
        /\ Running(p) /\ list_lk = NULL
        /\ k = Min(Between(p, b, n))
        /\ pool > 0
        /\ SetList(p, SubSeq(l, 1, k - 1) \o m.regions \o SubSeq(l, k + 2, Len(l)))
        /\ pool' = pool - 1 + m.freed
        /\ UnmapPages(p, b, n)
        /\ UNCHANGED <<child, list_lk, strayed, corrupt>>

\* No such place: the new region goes to the end.  If it is adjacent to the
\* last one, mmap_merge keeps the new one and frees the other (the special
\* node, if it is the last), to which the list still leads.
munmap_end(p, b, n) ==
    LET l == list[p]
        last == l[Len(l)]
        adjacent == b = End(last)
    IN
    /\ Running(p) /\ list_lk = NULL
    /\ pool > 0
    /\ b + n <= NM
    /\ Between(p, b, n) = {}
    /\ SetList(p, IF adjacent
                  THEN l \o <<Region(last.begin, last.npages + n)>>
                  ELSE l \o <<Region(b, n)>>)
    /\ pool' = IF adjacent THEN pool ELSE pool - 1
    /\ corrupt' = adjacent
    /\ UnmapPages(p, b, n)
    /\ UNCHANGED <<child, list_lk, strayed>>

munmap_panic(p, b, n) ==
    /\ Running(p)
    /\ \/ b + n > NM /\ Panic(p) /\ UNCHANGED list_lk
       \/ b + n <= NM /\ PoolEmpty(p)
    /\ UNCHANGED <<child, list, pool, mapped, strayed, corrupt>>

-----------------------------------------------------------------------------
(***************************************************************************)
(* Processes.                                                              *)
(***************************************************************************)
\* The pages uvm_copy_pgtbl copies: what lies between two regions, and
\* behind the last.
Gaps(p) ==
    UNION {End(list[p][k])..(IF k = Len(list[p]) THEN NM - 1 ELSE list[p][k + 1].begin - 1) : k \in DOMAIN list[p]}

\* The table is copied first, up to a page that is not mapped.
Fork(p, c) ==
    /\ Running(p) /\ state[c] = "unused"
    /\ Gaps(p) \subseteq mapped[p]
    /\ state' = [state EXCEPT ![p] = "fork", ![c] = "new"]
    /\ child' = [child EXCEPT ![p] = c]
    /\ mapped' = [mapped EXCEPT ![c] = Gaps(p)]
    /\ strayed' = IF p \in strayed THEN strayed \cup {c} ELSE strayed \ {c}
    /\ UNCHANGED <<list, pool, list_lk, corrupt>>

Fork_panic(p, c) ==
    /\ Running(p) /\ state[c] = "unused"
    /\ ~(Gaps(p) \subseteq mapped[p])
    /\ Panic(p)
    /\ UNCHANGED <<child, list, pool, list_lk, mapped, strayed, corrupt>>

\* One node for the child's list.
Fork_node(p) ==
    LET c == child[p]
        k == Len(list[c]) + 1
    IN
    /\ state[p] = "fork" /\ ~corrupt
    /\ k <= Len(list[p])
    /\ list_lk = NULL /\ pool > 0
    /\ SetList(c, Append(list[c], list[p][k]))
    /\ pool' = pool - 1
    /\ UNCHANGED <<state, child, list_lk, mapped, strayed, corrupt>>

\* The child becomes runnable.
Fork_end(p) ==
    /\ state[p] = "fork" /\ ~corrupt
    /\ Len(list[child[p]]) = Len(list[p])
    /\ state' = [state EXCEPT ![p] = "live", ![child[p]] = "live"]
    /\ child' = [child EXCEPT ![p] = NULL]
    /\ UNCHANGED <<list, pool, list_lk, mapped, strayed, corrupt>>

\* proc_free: the nodes go back, then the table.
proc_free(p) ==
    /\ Running(p)
    /\ state' = [state EXCEPT ![p] = "free"]
    /\ UNCHANGED <<child, list, pool, list_lk, mapped, strayed, corrupt>>

proc_free_end(p) ==
    /\ state[p] = "free" /\ ~corrupt
    /\ list[p] = <<>>
    /\ mapped' = [mapped EXCEPT ![p] = {}]
    /\ state' = [state EXCEPT ![p] = "unused"]
    /\ strayed' = strayed \ {p}
    /\ UNCHANGED <<child, list, pool, list_lk, corrupt>>

\* proc_exec: the old table goes, then the nodes of the old list.
proc_exec(p) ==
    /\ Running(p)
    /\ mapped' = [mapped EXCEPT ![p] = {}]
    /\ strayed' = strayed \ {p}
    /\ state' = [state EXCEPT ![p] = "exec"]
    /\ UNCHANGED <<child, list, pool, list_lk, corrupt>>

\* The first node of a list that is given up goes back to the pool.
mmap_region_free(p) ==
    /\ state[p] \in {"exec", "free"} /\ ~corrupt
    /\ list[p] # <<>>
    /\ list_lk = NULL
    /\ SetList(p, Tail(list[p]))
    /\ pool' = pool + 1
    /\ UNCHANGED <<state, child, list_lk, mapped, strayed, corrupt>>

\* Two nodes for the new list.
exec_first(p) ==
    /\ state[p] = "exec" /\ ~corrupt
    /\ list[p] = <<>>
    /\ list_lk = NULL /\ pool > 0
    /\ SetList(p, <<Region(0, 0)>>)
    /\ pool' = pool - 1
    /\ state' = [state EXCEPT ![p] = "exec2"]
    /\ UNCHANGED <<child, list_lk, mapped, strayed, corrupt>>

exec_second(p) ==
    /\ state[p] = "exec2" /\ ~corrupt
    /\ list_lk = NULL /\ pool > 0
    /\ SetList(p, FreshList)
    /\ pool' = pool - 1
    /\ state' = [state EXCEPT ![p] = "live"]
    /\ UNCHANGED <<child, list_lk, mapped, strayed, corrupt>>

\* fork or exec finds no node; those taken so far stay where they are.
mmap_region_alloc_panic(p) ==
    /\ ~corrupt
    /\ \/ state[p] = "fork" /\ Len(list[child[p]]) < Len(list[p])
       \/ state[p] = "exec" /\ list[p] = <<>>
       \/ state[p] = "exec2"
    /\ PoolEmpty(p)
    /\ UNCHANGED <<child, list, pool, mapped, strayed, corrupt>>

\* handle_page_fault: any access to a page of the area that is not mapped
\* gets one, whatever the list says.
handle_page_fault(p, a) ==
    /\ Running(p) /\ a \notin mapped[p]
    /\ p \notin strayed /\ Cardinality(strayed) < MAX_STRAYED
    /\ mapped' = [mapped EXCEPT ![p] = @ \cup {a}]
    /\ strayed' = strayed \cup {p}
    /\ UNCHANGED <<state, child, list, pool, list_lk, corrupt>>

\* mmap_init, then proc_make_first: node 0 is reserved, the first process
\* has the next two.
Init ==
    /\ \E p \in Procs :
           /\ state = [q \in Procs |-> IF q = p THEN "live" ELSE "unused"]
           /\ list = [q \in Procs |-> IF q = p THEN FreshList ELSE <<>>]
    /\ child = [p \in Procs |-> NULL]
    /\ pool = N_MMAP - 3
    /\ list_lk = NULL
    /\ mapped = [p \in Procs |-> {}]
    /\ strayed = {}
    /\ corrupt = FALSE

Next ==
    \E p \in Procs :
        \/ \E n \in 1..NM, b \in Area \cup {NULL} : uvm_mmap(p, b, n)
        \/ \E n \in 1..NM, b \in Area :
               \/ uvm_mmap_panic(p, b, n) \/ uvm_mmap_nonode(p, b, n)
               \/ munmap_between(p, b, n) \/ munmap_end(p, b, n) \/ munmap_panic(p, b, n)
        \/ \E c \in Procs : Fork(p, c) \/ Fork_panic(p, c)
        \/ Fork_node(p) \/ Fork_end(p)
        \/ proc_free(p) \/ proc_free_end(p)
        \/ proc_exec(p) \/ mmap_region_free(p) \/ exec_first(p) \/ exec_second(p)
        \/ mmap_region_alloc_panic(p)
        \/ \E a \in Area : handle_page_fault(p, a)

Spec == Init /\ [][Next]_vars

-----------------------------------------------------------------------------
(***************************************************************************)
(* Properties.                                                             *)
(***************************************************************************)
\* A list as uvm_mmap and uvm_munmap keep it: the special node, then regions
\* that are not empty, in order, and do not even touch (those that would are
\* merged).
Ordered(l) ==
    /\ l # <<>> /\ l[1] = Region(0, 0)
    /\ \A k \in 2..Len(l) : l[k].npages > 0
    /\ \A j, k \in 2..Len(l) : j < k => End(l[j]) < l[k].begin

\* The pages in the regions of a list.
Free(l) == UNION {Span(l[k].begin, l[k].npages) : k \in DOMAIN l}

\* uvm_mmap, uvm_munmap, fork and exec keep the list of a running process
\* exact: after the special node the regions are not empty, in order, apart
\* and inside the area, and a page is mapped exactly when it is in no region
\* (which fork's walk relies on).  This is so until a node is freed while
\* linked, and for processes that never touched a page outside their
\* mappings.
ListExact ==
    TypeOK /\ (~corrupt => \A p \in Procs : state[p] = "live" /\ p \notin strayed =>
        /\ Ordered(list[p])
        /\ Free(list[p]) \subseteq Area
        /\ mapped[p] = Area \ Free(list[p]))

\* The nodes in the lists: the k-th of each process.
Linked == UNION {{p} \X DOMAIN list[p] : p \in Procs}

\* mmap_region_alloc and mmap_region_free, through mmap, munmap, fork, exec
\* and proc_free, panics included: no node is lost or freed twice, the pool
\* and the lists together have all but the reserved one, until a linked one
\* is freed.
NodesExact == ~corrupt => pool + Cardinality(Linked) = N_MMAP - 1

\* sys_mmap with begin 0 returns -1 only when there is no room: if the search
\* finds no region of n pages, no n consecutive pages of the area are free.
\* uvm_munmap must have merged every region with both its neighbours.
FitsIfRoom ==
    ~corrupt => \A p \in Procs : state[p] = "live" /\ p \notin strayed =>
        \A n \in 1..NM : Found(p, NULL, n) = {} =>
            \A b \in 0..(NM - n) : Span(b, n) \cap mapped[p] # {}

\* uvm_munmap leaves no two regions that touch: it merges them and gives one
\* node back.  Violated at the end of the list, where the one that was merged
\* and freed stays linked.
RegionsMerged == \A p \in Procs : state[p] = "live" /\ p \notin strayed => Ordered(list[p])

-----------------------------------------------------------------------------
(***************************************************************************)
(* The inductive invariant of module MmapProofs.                           *)
(***************************************************************************)
\* Every region lies in the area, those of strayed and of panicked processes
\* too.
Inside == \A p \in Procs : \A k \in DOMAIN list[p] : End(list[p][k]) <= NM

\* A running process, also in fork, has at least the special node, a free
\* slot has none.
Slots ==
    /\ \A p \in Procs : state[p] \in {"live", "fork"} => list[p] # <<>>
    /\ \A p \in Procs : state[p] = "unused" => list[p] = <<>>

\* The child of a fork under way: it has the first nodes of its parent's list,
\* and the mappings of a parent that did not stray.
Forking(p) ==
    /\ child[p] \in Procs
    /\ state[child[p]] = "new"
    /\ Len(list[child[p]]) <= Len(list[p])
    /\ \A k \in 1..Len(list[child[p]]) : list[child[p]][k] = list[p][k]
    /\ p \in strayed <=> child[p] \in strayed
    /\ p \notin strayed => mapped[child[p]] = mapped[p]

Forks ==
    /\ \A p \in Procs : state[p] = "fork" => Forking(p)
    /\ \A p, q \in Procs : state[p] = "fork" /\ state[q] = "fork" /\ child[p] = child[q] => p = q

\* exec destroys the table first; before the second node it has the first.
Execs ==
    /\ \A p \in Procs : state[p] \in {"exec", "exec2"} => mapped[p] = {}
    /\ \A p \in Procs : state[p] = "exec2" => Len(list[p]) = 1

NodesInv == IsFiniteSet(Linked) /\ pool + Cardinality(Linked) = N_MMAP - 1

ExactFor(p) == Ordered(list[p]) /\ mapped[p] = Area \ Free(list[p])

IInv ==
    /\ TypeOK
    /\ Inside
    /\ ~corrupt =>
          /\ Slots
          /\ Forks
          /\ Execs
          /\ NodesInv
          /\ \A p \in Procs : state[p] \in {"live", "fork"} /\ p \notin strayed => ExactFor(p)
=============================================================================
