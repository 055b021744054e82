------------------------------- MODULE MCPipe -------------------------------
(***************************************************************************)
(* The process that made the pipe and one that inherits its ends, two byte *)
(* values, a ring of two and calls of up to three bytes, so that a writer  *)
(* sleeps in the middle of its data while the other writes, or closes.     *)
(***************************************************************************)
EXTENDS Pipe

=============================================================================
