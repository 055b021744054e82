------------------------------ MODULE MCFiles ------------------------------
(***************************************************************************)
(* Two processes with two descriptors, three entries in the table, the     *)
(* console, another inode and a pipe: the table and the descriptors run    *)
(* full, entries are reused and files are shared through fork and dup.     *)
(***************************************************************************)
EXTENDS Files, TLC

Symmetry == Permutations(Procs)
=============================================================================
