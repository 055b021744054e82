------------------------------- MODULE Mutex -------------------------------
(***************************************************************************)
(* What a sleep lock promises: one holder at a time, and only the holder's *)
(* release makes room for the next one.                                    *)
(***************************************************************************)
CONSTANTS Procs,   \* the processes
          NULL     \* nobody

VARIABLE holder

Init == holder = NULL

Acquire(p) == holder = NULL /\ holder' = p
Release(p) == holder = p /\ holder' = NULL

Next == \E p \in Procs : Acquire(p) \/ Release(p)

Spec == Init /\ [][Next]_holder
=============================================================================
