------------------------------ MODULE MCBufPool ------------------------------
(* Small instances of BufPool. *)
EXTENDS BufPool, TLC

CONSTANTS s1, s2, s3

Symmetry == Permutations(Streams)
===============================================================================
