----------------------------- MODULE MCByteSource -----------------------------
(***************************************************************************)
(* ByteSource for TLC.  A loop that keeps calling Next after the stream is *)
(* over and drained only adds wake-up channels and pool returns, which     *)
(* MaxPuts bounds.                                                         *)
(***************************************************************************)
EXTENDS ByteSource
===============================================================================
