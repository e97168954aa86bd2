---------------------------- MODULE MCBackpressure ----------------------------
(* Small instances of Backpressure. *)
EXTENDS Backpressure

CONSTANTS a, b, c1, c2, c3

AllFromA == [c \in Calls |-> a]
LastFromB == [c \in Calls |-> IF c = c3 THEN b ELSE a]

(* Who writes on c1, or closes it. *)
FromA == {<<a, c1>>}
FromB == {<<b, c1>>}
ByBoth == {<<a, c1>>, <<b, c1>>}
===============================================================================
