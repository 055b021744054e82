------------------------------- MODULE MCDir -------------------------------
(***************************************************************************)
(* Two processes on a root directory with a file from mkfs and a directory *)
(* made by the kernel.                                                     *)
(***************************************************************************)
EXTENDS Dir, TLC

MCPaths == {<<>>, <<"a">>, <<"d">>, <<"d", "a">>}
MCTree ==
    [x \in Names |-> IF x = "a" THEN [type |-> "FILE", num |-> 1, bit |-> 1]
                     ELSE [type |-> "DIR", num |-> 2 + inode_start, bit |-> 2]]
\* A root without files from mkfs: both were made by the kernel.
MCTreeKernel ==
    [x \in Names |-> IF x = "a" THEN [type |-> "FILE", num |-> 1 + inode_start, bit |-> 1]
                     ELSE [type |-> "DIR", num |-> 2 + inode_start, bit |-> 2]]
Symmetry == Permutations(Procs)
=============================================================================
