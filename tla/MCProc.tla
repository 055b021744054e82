------------------------------- MODULE MCProc -------------------------------
(***************************************************************************)
(* Two processors and three slots: proczero, a process, and a child that   *)
(* can sit below or above its parent once slots are reused.                *)
(***************************************************************************)
EXTENDS Proc, TLC

Symmetry == Permutations(CPUs)
=============================================================================
