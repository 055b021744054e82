------------------------------- MODULE MCMmap -------------------------------
(***************************************************************************)
(* Two processes whose areas have three pages, and six nodes besides the   *)
(* reserved one: enough for a region to be split, closed again between two *)
(* neighbours and copied by fork, few enough for the pool to run empty.    *)
(***************************************************************************)
EXTENDS Mmap

Symmetry == Permutations(Procs)
=============================================================================
