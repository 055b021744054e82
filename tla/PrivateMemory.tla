--------------------------- MODULE PrivateMemory ---------------------------
(***************************************************************************)
(* What the page tables, page faults, fork, exec and brk together promise  *)
(* the user programs: a process has a memory of its own, a function from   *)
(* the pages it can address to their contents.  Fork copies pages of the   *)
(* parent to the child, a page appears full of zeros, and no process ever  *)
(* changes another one's memory.                                           *)
(***************************************************************************)
EXTENDS Naturals, Functions

CONSTANTS Procs, VAs, Vals, Zero

VARIABLES alive, mem

vars == <<alive, mem>>

EmptyMem == [a \in {} |-> Zero]
Become(p, m) == mem' = [mem EXCEPT ![p] = m]

Init ==
    /\ \E p \in Procs, v \in Vals, A \in SUBSET VAs :
           /\ alive = {p}
           /\ mem = [q \in Procs |-> IF q = p THEN [a \in A |-> v] ELSE EmptyMem]

\* The child starts with copies of some of its parent's pages.  Which ones is
\* left open here, since a page that a fault put above the heap is not copied;
\* that all those of the heap are there is HeapMapped of module Pages.
Fork(p, c) ==
    /\ c \notin alive
    /\ alive' = alive \cup {c}
    /\ \E A \in SUBSET DOMAIN mem[p] : Become(c, Restrict(mem[p], A))

Write(p, a, v) ==
    /\ a \in DOMAIN mem[p]
    /\ Become(p, [mem[p] EXCEPT ![a] = v])
    /\ UNCHANGED alive

\* Pages appear full of zeros (a fault, brk).
Map(p, A) ==
    /\ A \cap DOMAIN mem[p] = {}
    /\ Become(p, [a \in DOMAIN mem[p] \cup A |-> IF a \in A THEN Zero ELSE mem[p][a]])
    /\ UNCHANGED alive

Unmap(p, A) == Become(p, Restrict(mem[p], DOMAIN mem[p] \ A)) /\ UNCHANGED alive

\* exec: a new program image in place of the old memory.
Load(p, a, v) == Become(p, [b \in {a} |-> v]) /\ UNCHANGED alive

\* The process ends, or stops for good in a panic of the kernel.
End(p) == alive' = alive \ {p} /\ Become(p, EmptyMem)

Next ==
    \E p \in alive :
        \/ End(p)
        \/ \E c \in Procs : Fork(p, c)
        \/ \E a \in VAs, v \in Vals : Write(p, a, v) \/ Load(p, a, v)
        \/ \E A \in SUBSET VAs : Map(p, A) \/ Unmap(p, A)

Spec == Init /\ [][Next]_vars
=============================================================================
