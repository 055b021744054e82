-------------------------------- MODULE Fifo --------------------------------
(***************************************************************************)
(* What a pipe promises: bytes come out in the order in which they went    *)
(* in, each once, at most SIZE of them are in transit, none goes in after  *)
(* the write end is closed and none comes out after the read end is.       *)
(***************************************************************************)
EXTENDS Naturals, Sequences

CONSTANTS SIZE,    \* capacity
          Bytes    \* the values of a byte

VARIABLES sent,       \* the bytes that went in
          got,        \* the bytes that came out
          readopen,
          writeopen

vars == <<sent, got, readopen, writeopen>>

Init ==
    /\ sent = <<>> /\ got = <<>>
    /\ readopen = TRUE /\ writeopen = TRUE

Send(b) ==
    /\ writeopen
    /\ Len(sent) < Len(got) + SIZE
    /\ sent' = Append(sent, b)
    /\ UNCHANGED <<got, readopen, writeopen>>

Receive ==
    /\ readopen
    /\ Len(got) < Len(sent)
    /\ got' = Append(got, sent[Len(got) + 1])
    /\ UNCHANGED <<sent, readopen, writeopen>>

CloseRead ==
    /\ readopen /\ readopen' = FALSE
    /\ UNCHANGED <<sent, got, writeopen>>

CloseWrite ==
    /\ writeopen /\ writeopen' = FALSE
    /\ UNCHANGED <<sent, got, readopen>>

Next == (\E b \in Bytes : Send(b)) \/ Receive \/ CloseRead \/ CloseWrite

Spec == Init /\ [][Next]_vars
=============================================================================
