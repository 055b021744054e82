------------------------------- MODULE Pages -------------------------------
(***************************************************************************)
(* kernel/mem/pmem.c (the user region), the copying and releasing of page  *)
(* tables in uvm.c and exec.c, and the page faults of trap_user.c.         *)
(*                                                                         *)
(* The reference count of a page lies inside the page, at offset 8 of      *)
(* page_node_t, which is also user data: word stands for that 32-bit word  *)
(* of a page, the only part of its contents the code looks at.  Every      *)
(* operation of a process is one step: it changes only the free list,      *)
(* under the region's lock, and pages and tables no other process uses,    *)
(* which is what Exclusive says.  The stack and the mmap area, whose pages *)
(* are treated as the heap's, are left out.                                *)
(***************************************************************************)
EXTENDS Integers, Sequences, FiniteSets, SequencesExt, FiniteSetsExt

CONSTANTS Procs,
          NPAGES,    \* pages of user_region
          NV,        \* user pages a process can address, numbered from USER_VMEM_START
          PG,        \* PGSIZE, in units of the heap top
          WRAP,      \* the word counts modulo WRAP
          NULL

ASSUME PagesAssumption ==
    /\ NV \in Nat \ {0} /\ PG \in Nat \ {0}
    /\ WRAP \in Nat /\ WRAP > 2
    /\ NPAGES \in Nat /\ NPAGES >= 2
    /\ NULL \notin Nat \cup [pa : 1..NPAGES, w : BOOLEAN, cow : BOOLEAN]

VARIABLES
    state,      \* of a process: "unused", "live", or "panic" (spinning in panic)
    free,       \* the list of user_region
    word,       \* ref_cnt of a page
    pte,        \* the leaf entries of a page table, [pa, w, cow]
    tf,         \* the trapframe page
    heap_top    \* in units of which a page has PG

vars == <<state, free, word, pte, tf, heap_top>>

Pages == 1..NPAGES
VAs == 0..(NV - 1)
Vals == 0..(WRAP - 1)
Zero == 0
NoTable == [a \in VAs |-> NULL]

Entry(g, w, cow) == [pa |-> g, w |-> w, cow |-> cow]

TypeOK ==
    /\ state \in [Procs -> {"unused", "live", "panic"}]
    /\ free \in Seq(Pages)
    /\ word \in [Pages -> Vals]
    /\ pte \in [Procs -> [VAs -> [pa : Pages, w : BOOLEAN, cow : BOOLEAN] \cup {NULL}]]
    /\ tf \in [Procs -> Pages \cup {NULL}]
    /\ heap_top \in [Procs -> 0..(NV * PG)]

Mapped(p) == {a \in VAs : pte[p][a] # NULL}
Contents(p, a) == word[pte[p][a].pa]

\* The pages below an address, the last one perhaps in part:
\* PGROUNDUP(h) / PGSIZE.
PagesTo(h) == (h + PG - 1) \div PG

\* A set of addresses from low to high.
InOrder(A) ==
    CHOOSE s \in [1..Cardinality(A) -> A] : \A j, k \in DOMAIN s : j < k => s[j] < s[k]

\* What memset(page, 1, PGSIZE) leaves in the word of a free page, and the
\* low half of kernel_sp in a trapframe: neither is 1.
GARBAGE == WRAP - 1
KERNEL_SP == WRAP - 1

-----------------------------------------------------------------------------
(***************************************************************************)
(* pmem.c.                                                                 *)
(***************************************************************************)
\* pmem_alloc, n times: the pages at the front, cleared after their count
\* was set to 1.
Taken(n) == SubSeq(free, 1, n)

\* Mutant: the page is not cleared, so its count of 1 stays.
FreshCounted(g) == 1

Fresh(g) == Zero
AfterTaking(n) == SubSeq(free, n + 1, Len(free))

\* pmem_free: the word is decremented, and the page goes to the front of
\* the list only if it reached zero.
Reclaimed(g) == IF word[g] = 1 THEN <<g>> ELSE <<>>

\* What stands in front of the list when pages of a process are freed from
\* the highest address down; it is reversed if they are freed upwards.
ReclaimedDown(p, A) ==
    LET s == InOrder({a \in A : Contents(p, a) = 1}) IN [k \in DOMAIN s |-> pte[p][s[k]].pa]

\* The pages of a process at addresses A.
PagesAt(p, A) == {pte[p][a].pa : a \in A}

FreeWord(G) ==
    [g \in Pages |-> IF g \notin G THEN word[g]
                     ELSE IF word[g] = 1 THEN GARBAGE ELSE (word[g] - 1) % WRAP]

Panic(p) == state' = [state EXCEPT ![p] = "panic"]

\* The allocation that finds the list empty panics; the pages handed out
\* before it are gone.
OutOfPages(p, n) ==
    /\ Len(free) < n
    /\ free' = <<>>
    /\ Panic(p)
    /\ UNCHANGED <<word, pte, tf, heap_top>>

-----------------------------------------------------------------------------
(***************************************************************************)
(* fork.                                                                   *)
(***************************************************************************)
\* copy_range(USER_VMEM_START, heap_top).
Range0(p) == 0..(PagesTo(heap_top[p]) - 1)

\* A writable entry loses W and becomes copy-on-write in parent and child.
CowEntry(e) == IF e.w THEN Entry(e.pa, FALSE, TRUE) ELSE e

\* Mutant: fork shares the pages, as the COW flags suggest.
SharedEntry(e, g) == CowEntry(e)

\* The child's entry: a new page of its own.
ChildEntry(e, g) == [CowEntry(e) EXCEPT !.pa = g]

\* The child's trapframe is the first page taken, the copies are the others.
Fork(p, c) ==
    LET n == PagesTo(heap_top[p]) IN
    /\ state[p] = "live" /\ state[c] = "unused"
    /\ Range0(p) \subseteq Mapped(p)             \* the assertion of copy_range
    /\ Len(free) >= n + 1
    /\ free' = AfterTaking(n + 1)
    /\ tf' = [tf EXCEPT ![c] = free[1]]
    /\ pte' = [pte EXCEPT
           ![p] = [a \in VAs |-> IF a < n THEN CowEntry(pte[p][a]) ELSE pte[p][a]],
           ![c] = [a \in VAs |-> IF a < n THEN ChildEntry(pte[p][a], free[a + 2]) ELSE NULL]]
    /\ word' = [g \in Pages |->
           IF g = free[1] THEN KERNEL_SP
           ELSE IF \E a \in Range0(p) : g = free[a + 2]
           THEN Contents(p, CHOOSE a \in Range0(p) : g = free[a + 2])
           ELSE word[g]]
    /\ state' = [state EXCEPT ![c] = "live"]
    /\ heap_top' = [heap_top EXCEPT ![c] = heap_top[p]]

\* A fork that runs out of pages panics.  It has the lock of the child, whose
\* slot is never used again.
Fork_panic(p, c) ==
    /\ state[p] = "live" /\ state[c] = "unused"
    /\ Range0(p) \subseteq Mapped(p)
    /\ Len(free) < PagesTo(heap_top[p]) + 1
    /\ free' = <<>>
    /\ state' = [state EXCEPT ![p] = "panic", ![c] = "panic"]
    /\ UNCHANGED <<word, pte, tf, heap_top>>

-----------------------------------------------------------------------------
(***************************************************************************)
(* The end of a process, and exec.                                         *)
(***************************************************************************)
\* uvm_destroy_pgtbl: the pages of the table are freed in its order.
ReclaimedTable(p) == Reverse(ReclaimedDown(p, Mapped(p)))

\* proc_free: the trapframe, then the address space.
proc_free(p) ==
    /\ state[p] = "live"
    /\ state' = [state EXCEPT ![p] = "unused"]
    /\ free' = ReclaimedTable(p) \o Reclaimed(tf[p]) \o free
    /\ word' = FreeWord(PagesAt(p, Mapped(p)) \cup {tf[p]})
    /\ pte' = [pte EXCEPT ![p] = NoTable]
    /\ tf' = [tf EXCEPT ![p] = NULL]
    /\ heap_top' = [heap_top EXCEPT ![p] = 0]

\* proc_exec: a trapframe, then one page of the program at its base, not
\* writable, then the old address space goes (the old trapframe is lost).
\* The model's programs are one aligned segment of one page; the page of the
\* stack is left out with the rest of the stack.
proc_exec(p, v) ==
    LET new == Taken(2) IN
    /\ state[p] = "live"
    /\ Len(free) >= 2
    /\ free' = ReclaimedTable(p) \o AfterTaking(2)
    /\ word' = [FreeWord(PagesAt(p, Mapped(p))) EXCEPT ![new[1]] = KERNEL_SP, ![new[2]] = v]
    /\ pte' = [pte EXCEPT ![p] = [NoTable EXCEPT ![0] = Entry(new[2], FALSE, FALSE)]]
    /\ tf' = [tf EXCEPT ![p] = new[1]]
    /\ heap_top' = [heap_top EXCEPT ![p] = PG]
    /\ UNCHANGED state

\* path_to_inode finds nothing: the new trapframe is lost, the process goes on.
proc_exec_noent(p) ==
    /\ state[p] = "live"
    /\ Len(free) >= 1
    /\ free' = AfterTaking(1)
    /\ word' = [word EXCEPT ![free[1]] = KERNEL_SP]
    /\ UNCHANGED <<state, pte, tf, heap_top>>

\* bad: the new address space is destroyed, then panic.
proc_exec_bad(p, v) ==
    LET new == Taken(2) IN
    /\ state[p] = "live"
    /\ Len(free) >= 2
    /\ free' = (IF v = 1 THEN <<new[2]>> ELSE <<>>) \o AfterTaking(2)
    /\ word' = [word EXCEPT ![new[1]] = KERNEL_SP,
                            ![new[2]] = IF v = 1 THEN GARBAGE ELSE (v - 1) % WRAP]
    /\ Panic(p)
    /\ UNCHANGED <<pte, tf, heap_top>>

proc_exec_panic(p) == state[p] = "live" /\ OutOfPages(p, 2)

-----------------------------------------------------------------------------
(***************************************************************************)
(* sys_brk.                                                                *)
(***************************************************************************)
\* The pages uvm_heap_grow maps: ptr steps by pages from heap_top.
GrowSet(p, new) == PagesTo(heap_top[p])..(PagesTo(new) - 1)

\* Growing fails an assertion of vm_mappages at a heap top inside a page, and
\* at a page that a fault has put above the heap.
GrowFails(p, new) == heap_top[p] % PG # 0 \/ GrowSet(p, new) \cap Mapped(p) # {}

\* The length goes through a uint32.  What is cut off is a multiple of 2^32,
\* so the call then does what one with a smaller new would do, or nothing:
\* new stands for heap_top plus the length that is left.
brk_grow(p, new) ==
    LET first == PagesTo(heap_top[p])
        n == PagesTo(new) - first
    IN
    /\ state[p] = "live" /\ new > heap_top[p]
    /\ ~GrowFails(p, new)
    /\ Len(free) >= n
    /\ free' = AfterTaking(n)
    /\ word' = [g \in Pages |-> IF \E k \in 1..n : g = free[k] THEN Fresh(g) ELSE word[g]]
    /\ pte' = [pte EXCEPT ![p] = [a \in VAs |->
           IF a \in GrowSet(p, new) THEN Entry(free[a - first + 1], TRUE, FALSE) ELSE pte[p][a]]]
    /\ heap_top' = [heap_top EXCEPT ![p] = new]
    /\ UNCHANGED <<state, tf>>

\* The allocations up to the one that fails, or whose page cannot be mapped.
\* Pages mapped before stay in the table of a process that never runs again.
GrowsUntil(p, new) ==
    IF heap_top[p] % PG # 0 THEN 1
    ELSE IF GrowFails(p, new) THEN Min(GrowSet(p, new) \cap Mapped(p)) - PagesTo(heap_top[p]) + 1
    ELSE PagesTo(new) - PagesTo(heap_top[p])

brk_panic(p, new) ==
    LET n == GrowsUntil(p, new) IN
    /\ state[p] = "live" /\ new > heap_top[p]
    /\ GrowFails(p, new) \/ Len(free) < n
    /\ free' = IF Len(free) < n THEN <<>> ELSE AfterTaking(n)
    /\ Panic(p)
    /\ UNCHANGED <<word, pte, tf, heap_top>>

\* Mutant: the new top is rounded down, so the page it lies in goes too.
UngrowTooFar(p, new) == (new \div PG)..(PagesTo(heap_top[p]) - 1)

\* uvm_heap_ungrow: whole pages above the new top, from the top down.
UngrowSet(p, new) == PagesTo(new)..(PagesTo(heap_top[p]) - 1)

brk_shrink(p, new) ==
    /\ state[p] = "live" /\ new <= heap_top[p]
    /\ free' = ReclaimedDown(p, UngrowSet(p, new)) \o free
    /\ word' = FreeWord(PagesAt(p, UngrowSet(p, new)))
    /\ pte' = [pte EXCEPT ![p] = [a \in VAs |-> IF a \in UngrowSet(p, new) THEN NULL ELSE pte[p][a]]]
    /\ heap_top' = [heap_top EXCEPT ![p] = new]
    /\ UNCHANGED <<state, tf>>

-----------------------------------------------------------------------------
(***************************************************************************)
(* User instructions and page faults.                                      *)
(***************************************************************************)
PutWord(p, a, v) ==
    /\ word' = [word EXCEPT ![pte[p][a].pa] = v]
    /\ UNCHANGED <<state, free, pte, tf, heap_top>>

Store(p, a, v) == state[p] = "live" /\ a \in Mapped(p) /\ pte[p][a].w /\ PutWord(p, a, v)

\* uvm_copyout, for a system call that writes to user memory: it asks only
\* for PTE_V, and an address that is not mapped is a panic.
uvm_copyout(p, a, v) ==
    /\ state[p] = "live"
    /\ \/ a \in Mapped(p) /\ PutWord(p, a, v)
       \/ a \notin Mapped(p) /\ Panic(p) /\ UNCHANGED <<free, word, pte, tf, heap_top>>

\* A store to a copy-on-write entry.  With a 1 in the word the entry becomes
\* writable again.
handle_cow_own(p, a) ==
    /\ state[p] = "live" /\ a \in Mapped(p) /\ pte[p][a].cow
    /\ Contents(p, a) = 1
    /\ pte' = [pte EXCEPT ![p][a] = Entry(pte[p][a].pa, TRUE, FALSE)]
    /\ UNCHANGED <<state, free, word, tf, heap_top>>

\* Mutant: the new page is mapped without the copy.
CowWordNoCopy(p, a) == Zero

CowWord(p, a) == Contents(p, a)

\* Otherwise the process gets a copy, and the old page loses a reference.
handle_cow_copy(p, a) ==
    LET old == pte[p][a].pa IN
    /\ state[p] = "live" /\ a \in Mapped(p) /\ pte[p][a].cow
    /\ Contents(p, a) # 1
    /\ Len(free) >= 1
    /\ pte' = [pte EXCEPT ![p][a] = Entry(free[1], TRUE, FALSE)]
    /\ free' = Reclaimed(old) \o AfterTaking(1)
    /\ word' = [FreeWord({old}) EXCEPT ![free[1]] = CowWord(p, a)]
    /\ UNCHANGED <<state, tf, heap_top>>

handle_cow_panic(p, a) ==
    /\ state[p] = "live" /\ a \in Mapped(p) /\ pte[p][a].cow
    /\ Contents(p, a) # 1
    /\ OutOfPages(p, 1)

\* A load or store where nothing is mapped, anywhere in the address space.
handle_page_fault(p, a) ==
    /\ state[p] = "live" /\ a \notin Mapped(p)
    /\ Len(free) >= 1
    /\ free' = AfterTaking(1)
    /\ word' = [word EXCEPT ![free[1]] = Fresh(free[1])]
    /\ pte' = [pte EXCEPT ![p][a] = Entry(free[1], TRUE, FALSE)]
    /\ UNCHANGED <<state, tf, heap_top>>

\* A store to a page that is neither writable nor copy-on-write (a program
\* loaded by exec) comes here too, and fails the assertion on remapping.
page_fault_panic(p, a) ==
    /\ state[p] = "live"
    /\ \/ a \notin Mapped(p) /\ OutOfPages(p, 1)
       \/ /\ a \in Mapped(p) /\ ~pte[p][a].w /\ ~pte[p][a].cow
          /\ free' = IF free = <<>> THEN free ELSE AfterTaking(1)
          /\ Panic(p)
          /\ UNCHANGED <<word, pte, tf, heap_top>>

-----------------------------------------------------------------------------
\* free_range leaves the last page at the front; proc_make_first takes it as
\* the trapframe, and the next one for code and data, writable.
Init ==
    \E p \in Procs, v \in Vals :
        /\ state = [q \in Procs |-> IF q = p THEN "live" ELSE "unused"]
        /\ free = [k \in 1..(NPAGES - 2) |-> NPAGES - 1 - k]
        /\ tf = [q \in Procs |-> IF q = p THEN NPAGES ELSE NULL]
        /\ pte = [q \in Procs |-> IF q = p THEN [NoTable EXCEPT ![0] = Entry(NPAGES - 1, TRUE, FALSE)] ELSE NoTable]
        /\ word = [g \in Pages |-> IF g = NPAGES THEN KERNEL_SP ELSE IF g = NPAGES - 1 THEN v ELSE GARBAGE]
        /\ heap_top = [q \in Procs |-> IF q = p THEN PG ELSE 0]

Next ==
    \E p \in Procs :
        \/ \E c \in Procs : Fork(p, c) \/ Fork_panic(p, c)
        \/ proc_free(p)
        \/ \E v \in Vals : proc_exec(p, v) \/ proc_exec_bad(p, v)
        \/ proc_exec_noent(p)
        \/ proc_exec_panic(p)
        \/ \E new \in 0..(NV * PG) : brk_grow(p, new) \/ brk_panic(p, new) \/ brk_shrink(p, new)
        \/ \E a \in VAs, v \in Vals : Store(p, a, v) \/ uvm_copyout(p, a, v)
        \/ \E a \in VAs :
               \/ handle_cow_own(p, a)
               \/ handle_cow_copy(p, a)
               \/ handle_cow_panic(p, a)
               \/ handle_page_fault(p, a)
               \/ page_fault_panic(p, a)

Spec == Init /\ [][Next]_vars

-----------------------------------------------------------------------------
(***************************************************************************)
(* Properties.                                                             *)
(***************************************************************************)
\* The places of a process where a page can be: an entry of its table, or its
\* trapframe, which has an address above the user's.
TRAPFRAME == NV
Places == 0..NV
PageAt(p, x) ==
    IF x = TRAPFRAME THEN tf[p] ELSE IF pte[p][x] = NULL THEN NULL ELSE pte[p][x].pa

\* pmem_free and pmem_alloc, with a count that user programs overwrite, never
\* give one page to two owners: a page is at most at one place, and at none
\* while it is in the free list, where it is once.
Exclusive ==
    /\ TypeOK
    /\ IsInjective(free)
    /\ \A p, q \in Procs, x, y \in Places :
           PageAt(p, x) # NULL /\ PageAt(p, x) = PageAt(q, y) => p = q /\ x = y
    /\ \A p \in Procs, x \in Places : PageAt(p, x) \notin Range(free)

\* The heap of a running process has no hole and its top agrees with the
\* table: copy_range's and vm_unmappages' assertions on the range never fail.
HeapMapped == \A p \in Procs : state[p] = "live" => Range0(p) \subseteq Mapped(p)

\* pmem_free gives the page back: one that no process has is in the list.
\* Violated: it decrements a word that pmem_alloc has cleared and the program
\* has written to, and keeps the page unless that word was 1.
PagesGivenBack ==
    \A g \in Pages : g \in Range(free) \/ \E p \in Procs, x \in Places : PageAt(p, x) = g

\* A fault, fork or brk changes how a page is mapped, never what the program
\* finds there: a page mapped before and after keeps its contents, also when
\* handle_cow moves it (exec, which replaces the trapframe, loads a program).
ContentsKept ==
    [][\A p \in Procs :
        pte'[p] # pte[p] /\ tf'[p] = tf[p] =>
            \A a \in VAs : pte[p][a] # NULL /\ pte'[p][a] # NULL =>
                word'[pte'[p][a].pa] = word[pte[p][a].pa]]_vars

\* Refinement: faults, fork with its copy-on-write marks, exec, brk and the
\* release of pages by a count in user data give every process a memory of
\* its own (handle_cow, copy_range, uvm_copyout).
memView ==
    [p \in Procs |-> IF state[p] = "live" THEN [a \in Mapped(p) |-> Contents(p, a)] ELSE [a \in {} |-> Zero]]

Private == INSTANCE PrivateMemory WITH alive <- {p \in Procs : state[p] = "live"}, mem <- memView

PrivateSpec == Private!Spec

-----------------------------------------------------------------------------
\* The inductive invariant of module PagesProofs: a running process also has
\* a trapframe.
IInv ==
    /\ Exclusive
    /\ HeapMapped
    /\ \A p \in Procs : state[p] = "live" => tf[p] # NULL
=============================================================================
