-------------------------------- MODULE Stream --------------------------------
(***************************************************************************)
(* What the receiving half of a muxrpc stream promises, with no locks, no  *)
(* wake-up channels and no buffer: an open stream accepts numbered frames, *)
(* hands every accepted frame out once and in order, and closes for good.  *)
(* Frames accepted before the close may still be handed out after it.      *)
(***************************************************************************)
EXTENDS Naturals, Sequences

VARIABLES
  accepted,   \* how many frames the stream has taken in
  delivered,  \* the frames handed to the reader, in order
  open        \* FALSE once the stream is over

vars == <<accepted, delivered, open>>

Init ==
  /\ accepted = 0
  /\ delivered = << >>
  /\ open = TRUE

Accept ==
  /\ open
  /\ accepted' = accepted + 1
  /\ UNCHANGED <<delivered, open>>

Deliver ==
  /\ Len(delivered) < accepted
  /\ delivered' = Append(delivered, Len(delivered) + 1)
  /\ UNCHANGED <<accepted, open>>

Close ==
  /\ open
  /\ open' = FALSE
  /\ UNCHANGED <<accepted, delivered>>

Next == Accept \/ Deliver \/ Close

Spec == Init /\ [][Next]_vars
===============================================================================
