------------------------------ MODULE ByteSource ------------------------------
(***************************************************************************)
(* The receiving half of one muxrpc stream (stream2_source.go): a          *)
(* ByteSource with its frameBuffer, fed by the session's serve loop and    *)
(* iterated by one goroutine with Next and Bytes, the way sql.Rows is.     *)
(*                                                                         *)
(* Every critical section of bs.mu and of buf.mu is one step.  A frame is  *)
(* its number in arrival order.  The entry Torn is a length prefix whose   *)
(* body was cut short by the connection: copyBody has written it to the    *)
(* store but has not counted it in frames.                                 *)
(***************************************************************************)
EXTENDS Naturals, Sequences

CONSTANTS
  MaxFrames,   \* bound: data packets that arrive on the stream
  MaxPuts,     \* bound: times the store is handed back to the buffer pool
  Uint32       \* the modulus of the frames counter, 2^32 in the code

ASSUME BoundsAssumption ==
  /\ MaxFrames \in Nat
  /\ MaxPuts \in Nat \ {0}
  /\ Uint32 \in Nat
  /\ MaxFrames < Uint32

VARIABLES
  failed,     \* bs.failed: "nil" or the first cause that ended the stream
  closed,     \* is the channel bs.closed closed?
  store,      \* buf.store: frames written and not yet read
  frames,     \* buf.frames
  waiting,    \* buf.waiting: wake-up channels that a new frame will close
  signalled,  \* the wake-up channels that are closed
  nchan,      \* wake-up channels allocated so far; channels are 1 .. nchan
  streamCtx,  \* bs.streamCtx
  callCtx,    \* the context the reader passes to Next
  serve,      \* what the serve loop is doing with this stream
  pc,         \* where the reader is
  chan,       \* the wake-up channel of the reader's latest select, 0 before
  told,       \* what the reader learnt when Next first returned false
  puts,       \* times the store went back to the pool
  sent,       \* history: whole frames written to the store
  delivered   \* history: what Bytes returned, in order

fbVars == <<store, frames, waiting, signalled>>
bsVars == <<failed, closed>>
ctxVars == <<streamCtx, callCtx>>
readerVars == <<pc, chan, nchan, told, puts, delivered>>
vars == <<failed, closed, store, frames, waiting, signalled, nchan, streamCtx,
          callCtx, serve, pc, chan, told, puts, sent, delivered>>

Torn == 0

CtxErr == {"canceled", "deadline"}
EndErr == {"nil", "remote"}            \* what an EndErr packet carries
Cause == {"EOF", "remote", "session", "user", "torn"} \cup CtxErr

Init ==
  /\ failed = "nil" /\ closed = FALSE
  /\ store = << >> /\ frames = 0 /\ waiting = {} /\ signalled = {} /\ nchan = 0
  /\ streamCtx = "live" /\ callCtx = "live"
  /\ serve = "loop"
  /\ pc = "idle" /\ chan = 0 /\ told = "nothing" /\ puts = 0
  /\ sent = 0 /\ delivered = << >>

-------------------------------------------------------------------------------
(* ByteSource.Cancel: the first cause wins, and closes bs.closed.          *)

Cancel_Forgets(err) == closed' = TRUE /\ UNCHANGED failed

Cancel_LeavesOpen(err) ==
  /\ failed' = IF failed # "nil" THEN failed ELSE IF err = "nil" THEN "EOF" ELSE err
  /\ UNCHANGED closed

Cancel(err) ==
  \/ failed # "nil" /\ UNCHANGED <<failed, closed>>
  \/ /\ failed = "nil"
     /\ failed' = IF err = "nil" THEN "EOF" ELSE err
     /\ closed' = TRUE

(* ByteSource.Err: a clean end and a cancelled context are not errors.     *)
Err == IF failed \in {"EOF", "canceled"} THEN "clean" ELSE "error"

-------------------------------------------------------------------------------
(* The serve loop.  consume refuses a frame once the stream has failed;    *)
(* otherwise copyBody stores it, counts it and wakes every waiter.         *)

copyBody ==
  /\ store' = Append(store, sent + 1)
  /\ frames' = frames + 1
  /\ signalled' = signalled \cup waiting
  /\ waiting' = {}

(* The body ends early: io.Copy failed or came up short.                   *)
copyBodyTorn_Counted ==
  /\ store' = Append(store, Torn)
  /\ frames' = frames + 1
  /\ signalled' = signalled \cup waiting
  /\ waiting' = {}

copyBodyTorn_WakesFirst ==
  /\ store' = Append(store, Torn)
  /\ signalled' = signalled \cup waiting
  /\ waiting' = {}
  /\ UNCHANGED frames

copyBodyTorn ==
  /\ store' = Append(store, Torn)
  /\ UNCHANGED <<frames, waiting, signalled>>

consume_Late ==
  /\ serve = "loop" /\ sent < MaxFrames
  /\ copyBody
  /\ sent' = sent + 1
  /\ UNCHANGED <<serve, bsVars, ctxVars, readerVars>>

consume ==
  /\ serve = "loop" /\ sent < MaxFrames
  /\ failed = "nil"
  /\ copyBody
  /\ sent' = sent + 1
  /\ UNCHANGED <<serve, bsVars, ctxVars, readerVars>>

consumeTorn ==
  /\ serve = "loop" /\ sent < MaxFrames
  /\ failed = "nil"
  /\ copyBodyTorn
  /\ serve' = "torn"
  /\ UNCHANGED <<sent, bsVars, ctxVars, readerVars>>

consumeRefused ==
  /\ serve = "loop" /\ sent < MaxFrames
  /\ failed # "nil"
  /\ serve' = "refused"
  /\ UNCHANGED <<sent, fbVars, bsVars, ctxVars, readerVars>>

(* closeStream cancels the source, with the error of the peer's EndErr     *)
(* packet or of the failed consume, and only then aborts the context of    *)
(* the request.  It also drops the request, so nothing arrives after it.   *)
closeStreamCancel ==
  /\ \/ serve = "loop" /\ \E err \in EndErr : Cancel(err)
     \/ serve = "torn" /\ Cancel("torn")
     \/ serve = "refused" /\ Cancel(failed)
  /\ serve' = "abort"
  /\ UNCHANGED <<sent, fbVars, ctxVars, readerVars>>

CancelCtx(ctx) == IF ctx = "live" THEN "canceled" ELSE ctx

closeStreamAbort ==
  /\ serve = "abort"
  /\ streamCtx' = CancelCtx(streamCtx)
  /\ serve' = "gone"
  /\ UNCHANGED <<sent, fbVars, bsVars, callCtx, readerVars>>

-------------------------------------------------------------------------------
(* Other goroutines: Terminate, a user who has had enough, contexts.       *)

TerminateCancel ==
  /\ Cancel("session")
  /\ UNCHANGED <<serve, sent, fbVars, ctxVars, readerVars>>

UserCancel ==
  /\ \E err \in {"nil", "user"} : Cancel(err)
  /\ UNCHANGED <<serve, sent, fbVars, ctxVars, readerVars>>

EndStreamCtx ==
  /\ streamCtx = "live"
  /\ streamCtx' \in CtxErr
  /\ UNCHANGED <<serve, sent, fbVars, bsVars, callCtx, readerVars>>

EndCallCtx ==
  /\ callCtx = "live"
  /\ callCtx' \in CtxErr
  /\ UNCHANGED <<serve, sent, fbVars, bsVars, streamCtx, readerVars>>

-------------------------------------------------------------------------------
(* The reader: Next.  Its result is the place it goes to: "ready" for      *)
(* true, "idle" for false.                                                 *)

NextReturnsTrue ==
  /\ pc' = "ready"
  /\ UNCHANGED <<told, puts>>

(* Next is false: the reader asks Err what happened.                       *)
NextReturnsFalse(err) ==
  /\ pc' = "idle"
  /\ told' = IF told = "nothing" THEN err ELSE told

(* The checks under bs.mu at the top of Next; Put empties the store.       *)
NextCheck_DropsTail ==
  /\ pc = "idle"
  /\ \/ /\ failed # "nil" /\ puts < MaxPuts
        /\ puts' = puts + 1 /\ store' = << >>
        /\ NextReturnsFalse(Err)
     \/ failed = "nil" /\ frames > 0 /\ NextReturnsTrue /\ UNCHANGED store
     \/ failed = "nil" /\ frames = 0 /\ pc' = "select" /\ UNCHANGED <<told, puts, store>>
  /\ UNCHANGED <<serve, sent, delivered, chan, nchan, frames, waiting, signalled, bsVars, ctxVars>>

NextCheck ==
  /\ pc = "idle"
  /\ \/ /\ failed # "nil" /\ frames = 0 /\ puts < MaxPuts
        /\ puts' = puts + 1 /\ store' = << >>
        /\ NextReturnsFalse(Err)
     \/ frames > 0 /\ NextReturnsTrue /\ UNCHANGED store
     \/ failed = "nil" /\ frames = 0 /\ pc' = "select" /\ UNCHANGED <<told, puts, store>>
  /\ UNCHANGED <<serve, sent, delivered, chan, nchan, frames, waiting, signalled, bsVars, ctxVars>>

(* waitForMore allocates a channel, closed already if a frame is there.    *)
waitForMore_Blind ==
  /\ pc = "select"
  /\ pc' = "blocked"
  /\ nchan' = nchan + 1
  /\ chan' = nchan + 1
  /\ waiting' = waiting \cup {nchan + 1} /\ UNCHANGED signalled
  /\ UNCHANGED <<serve, sent, delivered, told, puts, store, frames, bsVars, ctxVars>>

waitForMore_Reuses ==
  /\ pc = "select"
  /\ pc' = "blocked"
  /\ chan' = nchan + 1
  /\ \/ frames > 0 /\ signalled' = signalled \cup {nchan + 1} /\ UNCHANGED waiting
     \/ frames = 0 /\ waiting' = waiting \cup {nchan + 1} /\ UNCHANGED signalled
  /\ UNCHANGED <<nchan, serve, sent, delivered, told, puts, store, frames, bsVars, ctxVars>>

waitForMore ==
  /\ pc = "select"
  /\ pc' = "blocked"
  /\ nchan' = nchan + 1
  /\ chan' = nchan + 1
  /\ \/ frames > 0 /\ signalled' = signalled \cup {nchan + 1} /\ UNCHANGED waiting
     \/ frames = 0 /\ waiting' = waiting \cup {nchan + 1} /\ UNCHANGED signalled
  /\ UNCHANGED <<serve, sent, delivered, told, puts, store, frames, bsVars, ctxVars>>

(* The four cases of the select.  Several may be ready: Go picks any.      *)
WakeStreamCtx_Overwrites ==
  /\ pc = "blocked" /\ streamCtx # "live"
  /\ failed' = streamCtx
  /\ IF frames > 0
     THEN NextReturnsTrue
     ELSE NextReturnsFalse(Err') /\ UNCHANGED puts
  /\ UNCHANGED <<serve, sent, delivered, chan, nchan, closed, fbVars, ctxVars>>

WakeStreamCtx ==
  /\ pc = "blocked" /\ streamCtx # "live"
  /\ failed' = IF failed = "nil" THEN streamCtx ELSE failed
  /\ IF frames > 0
     THEN NextReturnsTrue
     ELSE NextReturnsFalse(Err') /\ UNCHANGED puts
  /\ UNCHANGED <<serve, sent, delivered, chan, nchan, closed, fbVars, ctxVars>>

WakeCallCtx ==
  /\ pc = "blocked" /\ callCtx # "live"
  /\ failed' = IF failed = "nil" THEN callCtx ELSE failed
  /\ NextReturnsFalse(Err') /\ UNCHANGED puts
  /\ UNCHANGED <<serve, sent, delivered, chan, nchan, closed, fbVars, ctxVars>>

WakeClosed ==
  /\ pc = "blocked" /\ closed
  /\ IF frames > 0
     THEN NextReturnsTrue
     ELSE NextReturnsFalse(Err) /\ UNCHANGED puts
  /\ UNCHANGED <<serve, sent, delivered, chan, nchan, fbVars, bsVars, ctxVars>>

WakeFrame ==
  /\ pc = "blocked" /\ chan \in signalled
  /\ NextReturnsTrue
  /\ UNCHANGED <<serve, sent, delivered, chan, nchan, fbVars, bsVars, ctxVars>>

(* Bytes, through getNextFrameReader, does not look at frames or failed:   *)
(* it takes whatever length prefix is next in the store.  That one is      *)
(* there, and whole, is what NextTrueMeansFrame says; FrameBuffer has the  *)
(* readers that do not ask Next first.                                     *)
PreviousFrames(n) == IF n = 0 THEN Uint32 - 1 ELSE n - 1

Bytes_KeepsCount ==
  /\ pc = "ready"
  /\ store # << >>
  /\ delivered' = Append(delivered, Head(store))
  /\ store' = Tail(store)
  /\ pc' = "idle"
  /\ UNCHANGED <<frames, serve, sent, chan, nchan, told, puts, waiting, signalled, bsVars, ctxVars>>

Bytes ==
  /\ pc = "ready"
  /\ store # << >>
  /\ delivered' = Append(delivered, Head(store))
  /\ store' = Tail(store)
  /\ frames' = PreviousFrames(frames)
  /\ pc' = "idle"
  /\ UNCHANGED <<serve, sent, chan, nchan, told, puts, waiting, signalled, bsVars, ctxVars>>

-------------------------------------------------------------------------------
ServeStep ==
  \/ consume \/ consumeTorn \/ consumeRefused
  \/ closeStreamCancel \/ closeStreamAbort

OtherStep ==
  \/ TerminateCancel \/ UserCancel \/ EndStreamCtx \/ EndCallCtx

Wake ==
  \/ WakeStreamCtx \/ WakeCallCtx \/ WakeClosed \/ WakeFrame

ReaderStep ==
  \/ NextCheck \/ waitForMore \/ Wake
  \/ Bytes

Next == ServeStep \/ OtherStep \/ ReaderStep

Spec == Init /\ [][Next]_vars

(* A goroutine inside Next or closeStream is scheduled again by the Go     *)
(* runtime; nothing makes the reader call Next or the peer send.           *)
Fairness ==
  /\ WF_vars(waitForMore)
  /\ WF_vars(Wake)
  /\ WF_vars(serve # "loop" /\ (closeStreamCancel \/ closeStreamAbort))

FairSpec == Spec /\ Fairness

(* The usual loop: the reader calls Next until it is false, and reads the  *)
(* frame each time it is true.                                             *)
LoopSpec == FairSpec /\ WF_vars(NextCheck) /\ WF_vars(Bytes)

-------------------------------------------------------------------------------
(* Properties.                                                             *)

(* Every variable keeps its type.  failed is the error field of            *)
(* ByteSource, frames the uint32 counter of frameBuffer.                   *)
TypeOK ==
  /\ failed \in Cause \cup {"nil"} /\ closed \in BOOLEAN
  /\ store \in Seq(Nat) /\ frames \in 0 .. Uint32 - 1
  /\ nchan \in Nat /\ waiting \subseteq 1 .. nchan /\ signalled \subseteq 1 .. nchan
  /\ streamCtx \in CtxErr \cup {"live"} /\ callCtx \in CtxErr \cup {"live"}
  /\ serve \in {"loop", "torn", "refused", "abort", "gone"}
  /\ pc \in {"idle", "select", "blocked", "ready"} /\ chan \in 0 .. nchan
  /\ told \in {"nothing", "clean", "error"} /\ puts \in 0 .. MaxPuts
  /\ sent \in 0 .. MaxFrames /\ delivered \in Seq(Nat)

(* Every frame that copyBody counted is either handed out by Bytes or      *)
(* still in the store, in arrival order, and none is a torn one: the       *)
(* counter frames, kept beside the byte store, never disagrees with it.    *)
FIFO ==
  /\ Len(delivered) + frames = sent
  /\ \A i \in 1 .. Len(delivered) : delivered[i] = i
  /\ frames <= Len(store) /\ Len(store) <= frames + 1
  /\ \A i \in 1 .. frames : store[i] = Len(delivered) + i
  /\ Len(store) > frames => store[frames + 1] = Torn

(* When Next has returned true the Bytes call that follows finds a whole   *)
(* frame, whichever of the select's cases let Next return.                 *)
NextTrueMeansFrame ==
  pc = "ready" => frames > 0 /\ store # << >> /\ Head(store) # Torn

(* A reader blocked in the select is never forgotten: its channel is on    *)
(* the waiting list or closed already, it is closed if there is a frame to *)
(* read, and bs.closed is closed if the stream has failed.                 *)
NoLostWakeup ==
  pc = "blocked" =>
    /\ chan \in waiting \cup signalled
    /\ frames > 0 => chan \in signalled
    /\ failed # "nil" => closed

(* No close of a closed channel, which would panic: neither copyBody with  *)
(* a channel left on the waiting list, nor Cancel with bs.closed.          *)
NoDoubleClose ==
  /\ waiting \cap signalled = {}
  /\ closed => failed # "nil"

(* The waiting list of frameBuffer never holds more than the channel of    *)
(* the reader's latest select: the answer to the question of its TODO, why *)
(* a list is needed, is that one reader does not need it.                  *)
OneWaiter == waiting \subseteq {chan}

(* A reader whose own context is alive is told of the end only when it     *)
(* has every frame the stream took in, and none is taken in afterwards.    *)
EndIsComplete ==
  told # "nothing" /\ callCtx = "live" => Len(delivered) = sent

(* The first cause of the end is the one Err reports: a later Cancel, a    *)
(* later EndErr or a context that ends does not replace bs.failed.         *)
FirstCauseWins == [][failed # "nil" => failed' = failed]_vars

(* A Next that has something to return for - a frame, an end, a context    *)
(* that is done - does return.                                             *)
NextReturns ==
  /\ pc \in {"select", "blocked"}
  /\ failed # "nil" \/ frames > 0 \/ streamCtx # "live" \/ callCtx # "live"
  ~> pc \in {"idle", "ready"}

(* A reader that loops over Next learns of the end of its stream.          *)
EndIsTold == failed # "nil" ~> told # "nothing"

(* The source implements the abstract stream: it accepts frames exactly    *)
(* while it has not failed and delivers what it accepted.                  *)
AbstractStream ==
  INSTANCE Stream WITH accepted <- sent, delivered <- delivered,
                       open <- (failed = "nil")

ImplementsStream == AbstractStream!Spec

===============================================================================
