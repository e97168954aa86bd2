------------------------------ MODULE FrameBuffer ------------------------------
(***************************************************************************)
(* The frameBuffer of a ByteSource (stream2_source.go) byte by byte, with  *)
(* the two locks around it: bs.mu, which consume holds while it waits for  *)
(* the body to arrive, and buf.mu, which Reader holds while the caller's   *)
(* function runs.  A cell of the store is the length prefix of a frame     *)
(* (pos 0) or one byte of its body.  ByteSource has the wake-ups and the   *)
(* end of the stream, with a frame as one entry.                           *)
(***************************************************************************)
EXTENDS Naturals, Sequences

CONSTANTS
  Lengths,   \* the lengths a body may have
  MaxFrames, \* bound: frames that begin to arrive
  Uint32     \* the modulus of the frames counter, 2^32 in the code

ASSUME FrameBufferAssumption ==
  Lengths \subseteq Nat /\ MaxFrames \in Nat /\ Uint32 \in Nat /\ MaxFrames < Uint32

VARIABLES
  mu,      \* who holds bs.mu
  bufmu,   \* who holds buf.mu
  failed,  \* is bs.failed set?
  length,  \* length[k]: the length prefix of the k-th frame
  store,   \* buf.store
  frames,  \* buf.frames
  total,   \* buf.currentFrameTotal
  read,    \* buf.currentFrameRead
  limit,   \* what the LimitReader of the current frame still allows
  spc,     \* where the serve loop is with this source
  togo,    \* bytes of the body that have not arrived
  rpc,     \* where the reader is
  cpc,     \* where another goroutine that cancels the source is
  seen     \* history: seen[i], what the function of the i-th Reader has read

serveVars == <<length, spc, togo>>
readVars == <<total, read, limit, rpc, seen>>
vars == <<mu, bufmu, failed, length, store, frames, total, read, limit, spc, togo, rpc, cpc, seen>>

Cell == [frame : Nat, pos : Nat]

Init ==
  /\ mu = "free" /\ bufmu = "free" /\ failed = FALSE
  /\ length = << >> /\ store = << >> /\ frames = 0
  /\ total = 0 /\ read = 0 /\ limit = 0
  /\ spc = "loop" /\ togo = 0 /\ rpc = "idle" /\ cpc = "idle" /\ seen = << >>

-------------------------------------------------------------------------------
(* The serve loop: consume takes bs.mu, copyBody then buf.mu.              *)

consume ==
  /\ spc = "loop" /\ Len(length) < MaxFrames /\ mu = "free"
  /\ \/ /\ ~failed
        /\ mu' = "serve" /\ spc' = "lock"
        /\ \E n \in Lengths : length' = Append(length, n) /\ togo' = n
     \/ failed /\ spc' = "gone" /\ UNCHANGED <<mu, length, togo>>
  /\ UNCHANGED <<bufmu, failed, store, frames, readVars, cpc>>

copyBodyLock ==
  /\ spc = "lock" /\ bufmu = "free"
  /\ bufmu' = "serve" /\ spc' = "copy"
  /\ store' = Append(store, [frame |-> Len(length), pos |-> 0])
  /\ UNCHANGED <<mu, failed, frames, length, togo, readVars, cpc>>

copyBody ==
  /\ spc = "copy" /\ togo > 0
  /\ store' = Append(store, [frame |-> Len(length), pos |-> length[Len(length)] - togo + 1])
  /\ togo' = togo - 1
  /\ UNCHANGED <<mu, bufmu, failed, frames, length, spc, readVars, cpc>>

copyBodyDone ==
  /\ spc = "copy" /\ togo = 0
  /\ frames' = frames + 1
  /\ mu' = "free" /\ bufmu' = "free" /\ spc' = "loop"
  /\ UNCHANGED <<failed, length, store, togo, readVars, cpc>>

(* The connection ends within the body.                                    *)
copyBodyTorn_KeepsLocks ==
  /\ spc = "copy" /\ togo > 0
  /\ spc' = "close"
  /\ UNCHANGED <<mu, bufmu, failed, length, store, frames, togo, readVars, cpc>>

copyBodyTorn ==
  /\ spc = "copy" /\ togo > 0
  /\ mu' = "free" /\ bufmu' = "free" /\ spc' = "close"
  /\ UNCHANGED <<failed, length, store, frames, togo, readVars, cpc>>

(* closeStream, for a torn body or for the end the peer sent.              *)
closeStream ==
  /\ spc \in {"loop", "close"} /\ mu = "free"
  /\ failed' = TRUE /\ spc' = "gone"
  /\ UNCHANGED <<mu, bufmu, length, store, frames, togo, readVars, cpc>>

-------------------------------------------------------------------------------
(* The reader: Next, and Reader with the caller's function.                *)

NextTrue ==
  /\ rpc = "idle" /\ mu = "free" /\ frames > 0
  /\ rpc' = "next"
  /\ UNCHANGED <<mu, bufmu, failed, serveVars, store, frames, total, read, limit, cpc, seen>>

(* What is left of the last frame is dropped; total and read stay as they  *)
(* are when there is no next length prefix.                                *)
Drop(s, n) == SubSeq(s, n + 1, Len(s))
Skipped_Nothing == store
Skipped == IF total > read THEN Drop(store, total - read) ELSE store

(* A Reader follows a Next that was true.  Four bytes of a body, taken for *)
(* a prefix, may give any length.                                          *)
getNextFrameReader ==
  /\ rpc = "next" /\ bufmu = "free"
  /\ IF Skipped = << >>
     THEN store' = << >> /\ rpc' = "idle" /\ UNCHANGED <<frames, total, read, limit, seen>>
     ELSE /\ store' = Tail(Skipped)
          /\ \E n \in IF Head(Skipped).pos = 0 THEN {length[Head(Skipped).frame]} ELSE Lengths :
               total' = n /\ limit' = n
          /\ read' = 0 /\ rpc' = "got"
          /\ frames' = IF frames = 0 THEN Uint32 - 1 ELSE frames - 1
          /\ seen' = Append(seen, << >>)
  /\ UNCHANGED <<mu, bufmu, failed, serveVars, cpc>>

ReaderLock ==
  /\ rpc = "got" /\ bufmu = "free"
  /\ bufmu' = "reader" /\ rpc' = "fn"
  /\ UNCHANGED <<mu, failed, serveVars, store, frames, total, read, limit, cpc, seen>>

countingRead_Never == UNCHANGED read
countingRead == read' = read + 1

(* The function reads a byte; the countingReader sees it.                  *)
fnRead ==
  /\ rpc = "fn" /\ limit > 0 /\ store # << >>
  /\ seen' = [seen EXCEPT ![Len(seen)] = Append(@, Head(store))]
  /\ store' = Tail(store)
  /\ limit' = limit - 1 /\ countingRead
  /\ UNCHANGED <<mu, bufmu, failed, serveVars, frames, total, rpc, cpc>>

(* It may return before it has read the frame.                             *)
fnReturn ==
  /\ rpc = "fn"
  /\ bufmu' = "free" /\ rpc' = "idle"
  /\ UNCHANGED <<mu, failed, serveVars, store, frames, total, read, limit, cpc, seen>>

-------------------------------------------------------------------------------
(* Another goroutine: Terminate, or a user who cancels.                    *)

CancelCalled ==
  /\ cpc = "idle" /\ cpc' = "want"
  /\ UNCHANGED <<mu, bufmu, failed, serveVars, store, frames, readVars>>

Cancel ==
  /\ cpc = "want" /\ mu = "free"
  /\ failed' = TRUE /\ cpc' = "done"
  /\ UNCHANGED <<mu, bufmu, serveVars, store, frames, readVars>>

-------------------------------------------------------------------------------
ServeStep == consume \/ copyBodyLock \/ copyBody \/ copyBodyDone \/ copyBodyTorn \/ closeStream
ReaderStep ==
  NextTrue \/ getNextFrameReader \/ ReaderLock \/ fnRead \/ fnReturn
Next == ServeStep \/ ReaderStep \/ CancelCalled \/ Cancel

Spec == Init /\ [][Next]_vars

(* A goroutine of the library goes on when the lock it waits for is free   *)
(* (a Go mutex does not starve a waiter).  Nothing makes the peer send the *)
(* body of a header it has sent, and there is no deadline on the read; nor *)
(* has a function given to Reader to return.                               *)
FairSpec ==
  Spec /\ SF_vars(copyBodyLock) /\ WF_vars(copyBodyDone) /\ SF_vars(Cancel)

-------------------------------------------------------------------------------
(* Properties.                                                             *)

(* Every variable keeps its type, and each lock is held by the goroutine   *)
(* that is at work under it: no return of consume, copyBody or Reader      *)
(* leaves one behind.                                                      *)
TypeOK ==
  /\ mu \in {"free", "serve"} /\ bufmu \in {"free", "serve", "reader"}
  /\ failed \in BOOLEAN /\ frames \in Nat /\ total \in Nat /\ read \in Nat /\ limit \in Nat
  /\ length \in Seq(Lengths) /\ store \in Seq(Cell) /\ seen \in Seq(Seq(Cell))
  /\ spc \in {"loop", "lock", "copy", "close", "gone"} /\ togo \in Nat
  /\ rpc \in {"idle", "next", "got", "fn"} /\ cpc \in {"idle", "want", "done"}
  /\ mu = "serve" <=> spc \in {"lock", "copy"}
  /\ bufmu = "serve" <=> spc = "copy"
  /\ bufmu = "reader" <=> rpc = "fn"

(* What the function of the i-th Reader reads is the i-th frame from its   *)
(* first byte on, whatever earlier functions left unread: "next should     *)
(* still advance even if we don't read the data fully" (stream2_test.go).  *)
(* And after a Next that was true there is such a frame.                   *)
OwnFrame ==
  /\ rpc = "next" => Skipped # << >>
  /\ \A i \in 1 .. Len(seen) : \A j \in 1 .. Len(seen[i]) : seen[i][j] = [frame |-> i, pos |-> j]

(* The store is one run of bytes: what is left of the frame being read     *)
(* and the frames after it, none cut except the last; currentFrameTotal    *)
(* and currentFrameRead say where in it the reader stands.                 *)
Successor(c) ==
  IF c.pos < length[c.frame] THEN [c EXCEPT !.pos = @ + 1]
  ELSE [frame |-> c.frame + 1, pos |-> 0]

Position == [frame |-> Len(seen), pos |-> read]

Contiguous ==
  /\ \A i \in 1 .. Len(store) - 1 : store[i + 1] = Successor(store[i])
  /\ seen # << >> => total = length[Len(seen)] /\ read + limit = total
  /\ store # << >> => Head(store) = IF seen = << >> THEN [frame |-> 1, pos |-> 0]
                                    ELSE Successor(Position)

(* The bytes and locks implement Stream: a frame is taken in when its last *)
(* byte is counted, always before the source has failed (Cancel waits for  *)
(* consume), and a Reader hands it out, the frame of the first byte that   *)
(* its function reads.                                                     *)
FrameOf(i) == IF seen[i] = << >> THEN i ELSE Head(seen[i]).frame
AbstractStream == INSTANCE Stream WITH
  accepted <- frames + Len(seen), delivered <- [i \in 1 .. Len(seen) |-> FrameOf(i)],
  open <- ~failed
ImplementsStream == AbstractStream!Spec

(* What Cancel depends on: the rest of a body comes or the connection is   *)
(* cut, and the functions given to Reader return.                          *)
BodiesArrive == []<>(spc = "copy" => togo = 0)
FunctionsReturn == []<>(rpc # "fn")

(* Where peer and reader do their part, Cancel does not wait for ever,     *)
(* although consume holds bs.mu while it waits for the network and for the *)
(* function of the reader; nor does the serve loop, on which the whole     *)
(* session depends.                                                        *)
CancelReturns ==
  BodiesArrive /\ FunctionsReturn =>
    /\ cpc = "want" ~> cpc = "done"
    /\ spc \in {"lock", "copy"} ~> spc \in {"loop", "close", "gone"}

(* "Cancel stops reading and terminates the request" (stream2_source.go),  *)
(* whether or not the peer goes on to send.  The code does not have this:  *)
(* consume keeps bs.mu until the body is there, and Cancel waits for it.   *)
CancelStopsReading ==
  FunctionsReturn => (cpc = "want" ~> cpc = "done")
===============================================================================
