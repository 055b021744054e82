----------------------------- MODULE MCBufCache -----------------------------
(***************************************************************************)
(* Two buffers, three blocks and three sessions: there are misses with     *)
(* eviction, hits on free and on used buffers, and more sessions than      *)
(* buffers.  The code treats buffers, blocks, contents and sessions alike. *)
(***************************************************************************)
EXTENDS BufCache, TLC

Symmetry ==
    Permutations(Sessions) \cup Permutations(Blocks) \cup Permutations(Bufs) \cup Permutations(Vals)
=============================================================================
