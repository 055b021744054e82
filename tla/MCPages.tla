------------------------------ MODULE MCPages ------------------------------
(***************************************************************************)
(* Two processes, two user pages each and enough physical pages for a fork *)
(* and a few copies, so that the list also runs empty.                     *)
(***************************************************************************)
EXTENDS Pages

Symmetry == Permutations(Procs)
=============================================================================
