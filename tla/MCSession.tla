------------------------------- MODULE MCSession ------------------------------
(***************************************************************************)
(* Session for TLC: two endpoints, and the calls of each run.              *)
(***************************************************************************)
EXTENDS Session, TLC

CONSTANTS a, b,    \* the endpoints
          c1, c2   \* the calls

(* Who makes the calls.                                                    *)
OneEach == (c1 :> a) @@ (c2 :> b)
OneFromA == c1 :> a

AsyncAndDuplex == (c1 :> "async") @@ (c2 :> "duplex")
OneSource == c1 :> "source"
OneDuplex == c1 :> "duplex"
===============================================================================
