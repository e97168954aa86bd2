---------------------------- MODULE MCFrameBuffer ----------------------------
(* Small instances of FrameBuffer: empty bodies, and bodies of two bytes. *)
EXTENDS FrameBuffer

Sizes == {0, 2}
===============================================================================
