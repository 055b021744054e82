---------------------------- MODULE MCVirtioDisk ----------------------------
(***************************************************************************)
(* Eight descriptors, as in the code: two requests under way leave two     *)
(* over, so that a third allocates in vain.  The counters of the rings run *)
(* around twice the ring.                                                  *)
(***************************************************************************)
EXTENDS VirtioDisk, TLC
=============================================================================
