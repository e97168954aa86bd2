----------------------------- MODULE MCByteStream -----------------------------
(* Small instances of ByteStream. *)
EXTENDS ByteStream
===============================================================================
