------------------------------ MODULE ByteStream ------------------------------
(***************************************************************************)
(* A byte stream over a muxrpc stream (rwc.go): NewSinkWriter cuts what is *)
(* written into chunks, one packet each, and NewSourceReader joins them    *)
(* again for an io.Reader.  The reader asks Next with the context of the   *)
(* stream itself.  Of ByteSource only what that Next can see is kept: its  *)
(* frames, how it failed, and its context; a byte is its number.           *)
(***************************************************************************)
EXTENDS Naturals, Sequences

CONSTANTS
  Total,      \* bytes the application writes, with one Write
  ChunkSize,  \* the constant of that name, 65536 in the code
  ReadSize    \* bound: the buffer given to a Read

ASSUME ByteStreamAssumption ==
  /\ Total \in Nat /\ ChunkSize \in Nat \ {0} /\ ReadSize \in Nat \ {0}

VARIABLES
  wpc,       \* the writer: "writing", "sent", "written", "failed" or "closed"
  written,   \* the counter that Write returns
  wire,      \* packets on their way: chunks, and End
  accepted,  \* history: bytes in packets that the sink has sent
  serve,     \* the serve loop of the receiver: "loop", "abort" or "gone"
  store,     \* chunks the source holds
  failed,    \* bs.failed
  ctxDone,   \* the context of the stream is done
  rpc,       \* the reader: "idle", "select" (in Next), "bytes" (Next was true)
  buf,       \* r.buf
  out,       \* history: what the Reads returned
  told       \* "nothing", or what the Read at the end returned: "eof" or "error"

writerVars == <<wpc, written, accepted>>
readerVars == <<rpc, buf, out, told>>
vars == <<writerVars, wire, serve, store, failed, ctxDone, readerVars>>

End == << >>
Lesser(m, n) == IF m < n THEN m ELSE n

Init ==
  /\ wpc = "writing" /\ written = 0 /\ accepted = 0 /\ wire = << >>
  /\ serve = "loop" /\ store = << >> /\ failed = "nil" /\ ctxDone = FALSE
  /\ rpc = "idle" /\ buf = << >> /\ out = << >> /\ told = "nothing"

-------------------------------------------------------------------------------
(* sinkWriter: one block of the data is written to the sink, or is not;    *)
(* the count follows when the sink has answered.                           *)

Block == [i \in 1 .. Lesser(ChunkSize, Total - written) |-> written + i]

WriteBlock ==
  /\ wpc = "writing" /\ written < Total
  /\ wpc' = "sent" /\ wire' = Append(wire, Block)
  /\ accepted' = accepted + Len(Block)
  /\ UNCHANGED <<written, serve, store, failed, ctxDone, readerVars>>

WriteCounts ==
  /\ wpc = "sent" /\ wpc' = "writing"
  /\ written' = written + Len(Block)
  /\ UNCHANGED <<accepted, wire, serve, store, failed, ctxDone, readerVars>>

WriteFails ==
  /\ wpc = "writing" /\ written < Total
  /\ wpc' = "failed"
  /\ UNCHANGED <<written, accepted, wire, serve, store, failed, ctxDone, readerVars>>

WriteReturns ==
  /\ wpc = "writing" /\ written >= Total
  /\ wpc' = "written"
  /\ UNCHANGED <<written, accepted, wire, serve, store, failed, ctxDone, readerVars>>

Close ==
  /\ wpc = "written"
  /\ wpc' = "closed" /\ wire' = Append(wire, End)
  /\ UNCHANGED <<written, accepted, serve, store, failed, ctxDone, readerVars>>

-------------------------------------------------------------------------------
(* The serve loop of the receiver: a frame, or the end and then abort; and *)
(* Terminate, which ends the context before it cancels the source.         *)

consume ==
  /\ serve = "loop" /\ wire # << >> /\ Head(wire) # End
  /\ wire' = Tail(wire)
  /\ \/ failed = "nil" /\ store' = Append(store, Head(wire)) /\ UNCHANGED serve
     \/ failed # "nil" /\ serve' = "abort" /\ UNCHANGED store
  /\ UNCHANGED <<writerVars, failed, ctxDone, readerVars>>

closeStreamCancel ==
  /\ serve = "loop" /\ wire # << >> /\ Head(wire) = End
  /\ wire' = Tail(wire) /\ serve' = "abort"
  /\ failed' = IF failed = "nil" THEN "EOF" ELSE failed
  /\ UNCHANGED <<writerVars, store, ctxDone, readerVars>>

closeStreamAbort ==
  /\ serve = "abort" /\ serve' = "gone" /\ ctxDone' = TRUE
  /\ UNCHANGED <<writerVars, wire, store, failed, readerVars>>

TerminateCtx ==
  /\ ~ctxDone /\ ctxDone' = TRUE
  /\ UNCHANGED <<writerVars, wire, serve, store, failed, readerVars>>

TerminateCancel ==
  /\ ctxDone /\ failed = "nil"
  /\ failed' = "session"
  /\ UNCHANGED <<writerVars, wire, serve, store, ctxDone, readerVars>>

-------------------------------------------------------------------------------
(* srcReader.Read: from the buffer, or a new block by way of Next.         *)

ReadBuffered_Restarts ==
  /\ rpc = "idle" /\ buf # << >>
  /\ \E n \in 1 .. Lesser(Len(buf), ReadSize) :
       out' = out \o SubSeq(buf, 1, n) /\ buf' = IF n < Len(buf) THEN buf ELSE << >>
  /\ UNCHANGED <<writerVars, wire, serve, store, failed, ctxDone, rpc, told>>

ReadBuffered ==
  /\ rpc = "idle" /\ buf # << >>
  /\ \E n \in 1 .. Lesser(Len(buf), ReadSize) :
       out' = out \o SubSeq(buf, 1, n) /\ buf' = SubSeq(buf, n + 1, Len(buf))
  /\ UNCHANGED <<writerVars, wire, serve, store, failed, ctxDone, rpc, told>>

NextIs(more) ==
  IF more THEN rpc' = "bytes" /\ UNCHANGED told
  ELSE rpc' = "idle" /\ told' = IF failed' \in {"EOF", "canceled"} THEN "eof" ELSE "error"

NextCheck ==
  /\ rpc = "idle" /\ buf = << >> /\ told = "nothing"
  /\ IF store = << >> /\ failed = "nil" THEN rpc' = "select" /\ UNCHANGED <<told, failed>>
     ELSE UNCHANGED failed /\ NextIs(store # << >>)
  /\ UNCHANGED <<writerVars, wire, serve, store, ctxDone, buf, out>>

NextSelect_OnlyFrames ==
  /\ rpc = "select" /\ store # << >>
  /\ NextIs(TRUE)
  /\ UNCHANGED <<writerVars, wire, serve, store, failed, ctxDone, buf, out>>

(* The select of Next: the context is both that of the stream and that of  *)
(* the call, and the second case does not look at the store.               *)
NextSelect ==
  /\ rpc = "select"
  /\ \/ /\ ctxDone
        /\ failed' = IF failed = "nil" THEN "canceled" ELSE failed
        /\ \E more \in {store # << >>, FALSE} : NextIs(more)
     \/ failed # "nil" /\ UNCHANGED failed /\ NextIs(store # << >>)
     \/ store # << >> /\ UNCHANGED failed /\ NextIs(TRUE)
  /\ UNCHANGED <<writerVars, wire, serve, store, ctxDone, buf, out>>

Bytes ==
  /\ rpc = "bytes"
  /\ buf' = Head(store) /\ store' = Tail(store) /\ rpc' = "idle"
  /\ UNCHANGED <<writerVars, wire, serve, failed, ctxDone, out, told>>

-------------------------------------------------------------------------------
WriterStep == WriteBlock \/ WriteCounts \/ WriteFails \/ WriteReturns \/ Close
ServeStep == consume \/ closeStreamCancel \/ closeStreamAbort
ReaderStep == ReadBuffered \/ NextCheck \/ NextSelect \/ Bytes
Next == WriterStep \/ ServeStep \/ TerminateCtx \/ TerminateCancel \/ ReaderStep

Spec == Init /\ [][Next]_vars

(* The receiver's loop and its reader go on; so does a writer that Close   *)
(* or a failure will stop.                                                 *)
FairSpec == Spec /\ WF_vars(ServeStep) /\ WF_vars(ReaderStep)

-------------------------------------------------------------------------------
(* Properties.                                                             *)

(* The reader gets the bytes as they were written: none repeated, swapped  *)
(* or left out, wherever the blocks and the buffers given to Read end; and *)
(* the count a Write returns, early or not, is that of the bytes that went *)
(* out, as io.Writer asks, so that a writer may go on where it failed.     *)
BytesInOrder ==
  /\ \A i \in 1 .. Len(out) : out[i] = i
  /\ Len(out) <= accepted
  /\ wpc \in {"written", "failed", "closed"} => written = accepted

(* A reader of a stream that is closed gets to the end of it.              *)
EndIsRead == wpc = "closed" ~> told # "nothing"
===============================================================================
