---------------------------- MODULE MCSleepLock ----------------------------
(***************************************************************************)
(* A holder and two waiters.                                               *)
(***************************************************************************)
EXTENDS SleepLock
=============================================================================
