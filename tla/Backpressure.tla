----------------------------- MODULE Backpressure -----------------------------
(***************************************************************************)
(* The writing half of a session over a transport that holds only so much: *)
(* ByteSink with its lock and its close timeout (stream2_sink.go), the     *)
(* codec.Writer that the streams of an endpoint share (codec/writer.go),   *)
(* and what the serve loop and Terminate do while they hold r.rLock        *)
(* (rpc_server.go).  Session has the same loop over an unbounded network.  *)
(*                                                                         *)
(* A packet is two writes, its header and its body, made under the lock of *)
(* the Writer; each blocks while the transport is full.  A call is either  *)
(* a duplex call that both sides have set up, or one in Refused, which is  *)
(* still to be made and whose method the receiver does not handle.  One    *)
(* Terminate stands for the user's and for the one serve defers.           *)
(***************************************************************************)
EXTENDS Naturals, Sequences

CONSTANTS
  Peers,        \* the two endpoints
  Calls,        \* the calls of the session
  CallerOf,     \* CallerOf[c]: the endpoint that makes call c
  Refused,      \* the calls the receiver refuses
  Writing,      \* <<p, c>>: the application at p writes data on c
  Closing,      \* <<p, c>>: the application at p may close its sink of c
  Terminators,  \* endpoints on which Terminate may be called
  Stalled,      \* endpoints that may stop reading without closing
  MaxData,      \* bound: Writes of an application on a call
  Capacity      \* headers and bodies the transport holds in one direction

ASSUME BackpressureAssumption ==
  /\ \E p, q \in Peers : p # q /\ Peers = {p, q}
  /\ CallerOf \in [Calls -> Peers] /\ Refused \subseteq Calls
  /\ Writing \subseteq Peers \X (Calls \ Refused)
  /\ Closing \subseteq Peers \X (Calls \ Refused)
  /\ Terminators \subseteq Peers /\ Stalled \subseteq Peers
  /\ MaxData \in Nat /\ Capacity \in Nat \ {0}

VARIABLES
  wire,        \* wire[p]: headers and bodies on their way to p
  connClosed,  \* connClosed[p]: p has closed its end
  wmu,         \* wmu[p]: the job that holds Writer.mu, or Nobody
  job,         \* job[p][c][j]: the WritePacket on c made by j
  smu,         \* smu[p][c]: who holds closedMu of the sink
  sinkClosed,  \* sinkClosed[p][c]: bs.closed, "nil" when unset
  rlock,       \* rlock[p]: who holds r.rLock
  reqs,        \* reqs[p]: the keys of r.reqs
  reqsClosed,  \* reqsClosed[p]: the keys of r.reqsClosed
  aborted,     \* aborted[p]: the calls whose context closeStream has ended
  spc,         \* spc[p]: where the serve loop is
  cur,         \* cur[p]: what it read last as a header
  tpc,         \* tpc[p]: where Terminate is
  apc,         \* apc[p][c]: where the application is
  wrote,       \* wrote[p][c]: Writes begun
  erred        \* history: the calls on which p has sent an end with an error

connVars == <<wire, connClosed>>
jobVars == <<wmu, job>>
sinkVars == <<smu, sinkClosed>>
tableVars == <<rlock, reqs, reqsClosed, aborted>>
serveVars == <<spc, cur>>
appVars == <<apc, wrote>>
vars == <<connVars, jobVars, sinkVars, tableVars, serveVars, tpc, appVars, erred>>

Other(p) == CHOOSE q \in Peers : q # p

(* Who writes a packet: an application's Write or start, CloseWithError    *)
(* called by the application, by closeStream or by Terminate, or the       *)
(* refusal of a call.                                                      *)
Closer == {"app", "serve", "term"}
Job == Closer \cup {"write", "refuse"}
Off == [at |-> "off", pkt |-> "none"]
Nobody == <<"none", "none">>
Broken(p) == connClosed[p] \/ connClosed[Other(p)]

Init ==
  /\ wire = [p \in Peers |-> << >>] /\ connClosed = [p \in Peers |-> FALSE]
  /\ wmu = [p \in Peers |-> Nobody]
  /\ job = [p \in Peers |-> [c \in Calls |-> [j \in Job |-> Off]]]
  /\ smu = [p \in Peers |-> [c \in Calls |-> "none"]]
  /\ sinkClosed = [p \in Peers |-> [c \in Calls |-> "nil"]]
  /\ rlock = [p \in Peers |-> "none"]
  /\ reqs = [p \in Peers |-> Calls \ Refused] /\ reqsClosed = [p \in Peers |-> {}]
  /\ aborted = [p \in Peers |-> {}]
  /\ spc = [p \in Peers |-> "read"]
  /\ cur = [p \in Peers |-> [part |-> "none", pkt |-> "none", call |-> "none"]]
  /\ tpc = [p \in Peers |-> "idle"]
  /\ apc = [p \in Peers |-> [c \in Calls |-> "idle"]]
  /\ wrote = [p \in Peers |-> [c \in Calls |-> 0]]
  /\ erred = [p \in Peers |-> {}]

-------------------------------------------------------------------------------
(* Writer.WritePacket, once called.  Waiting for the lock and holding it   *)
(* before the first byte is out are one state: either way the packet waits *)
(* for other packets to leave.  Once its header is out, it has the lock.   *)

Begin(p, c, j, pkt) == job' = [job EXCEPT ![p][c][j] = [at |-> "header", pkt |-> pkt]]

(* A write to an end that the other side has closed may seem to succeed.   *)
Put(p, c, j, part) ==
  /\ ~connClosed[p]
  /\ \/ /\ ~connClosed[Other(p)] /\ Len(wire[Other(p)]) < Capacity
        /\ wire' = [wire EXCEPT ![Other(p)] =
                      Append(@, [part |-> part, pkt |-> job[p][c][j].pkt, call |-> c])]
     \/ connClosed[Other(p)] /\ UNCHANGED wire

WriteHeader_Unlocks(p, c, j) ==
  /\ job[p][c][j].at = "header" /\ wmu[p] = Nobody
  /\ Put(p, c, j, "header")
  /\ job' = [job EXCEPT ![p][c][j].at = "body"]
  /\ erred' = [erred EXCEPT ![p] = IF job[p][c][j].pkt = "err" THEN @ \cup {c} ELSE @]
  /\ UNCHANGED <<connClosed, wmu, sinkVars, tableVars, serveVars, tpc, appVars>>

WriteHeader(p, c, j) ==
  /\ job[p][c][j].at = "header" /\ wmu[p] = Nobody
  /\ Put(p, c, j, "header")
  /\ wmu' = [wmu EXCEPT ![p] = <<c, j>>]
  /\ job' = [job EXCEPT ![p][c][j].at = "body"]
  /\ erred' = [erred EXCEPT ![p] = IF job[p][c][j].pkt = "err" THEN @ \cup {c} ELSE @]
  /\ UNCHANGED <<connClosed, sinkVars, tableVars, serveVars, tpc, appVars>>

(* The outcome.  A Write returns and gives up closedMu; a close goroutine  *)
(* whose caller has timed out hangs on its answer, and what start returns  *)
(* is left to Session.  Anyone else still has to look at the result.       *)
WriteDone(p, c, j, result) ==
  /\ wmu' = [wmu EXCEPT ![p] = Nobody]
  /\ job' = [job EXCEPT ![p][c][j] =
               IF j = "write" \/ (j \in Closer /\ smu[p][c] # j) THEN Off
               ELSE [@ EXCEPT !.at = result]]
  /\ smu' = IF job[p][c][j].pkt = "data" THEN [smu EXCEPT ![p][c] = "none"] ELSE smu
  /\ sinkClosed' = IF job[p][c][j].pkt = "data" /\ result = "failed"
                   THEN [sinkClosed EXCEPT ![p][c] = "io"] ELSE sinkClosed
  /\ UNCHANGED <<connClosed, tableVars, serveVars, tpc, appVars, erred>>

WriteBody(p, c, j) ==
  /\ job[p][c][j].at = "body"
  /\ Put(p, c, j, "body")
  /\ WriteDone(p, c, j, "sent")

WriteFails(p, c, j) ==
  /\ \/ job[p][c][j].at = "header" /\ wmu[p] = Nobody
     \/ job[p][c][j].at = "body"
  /\ Broken(p)
  /\ WriteDone(p, c, j, "failed")
  /\ UNCHANGED wire

WritePacket(p, c, j) ==
  WriteHeader(p, c, j) \/ WriteBody(p, c, j) \/ WriteFails(p, c, j)

Finished(p, c, j) == job[p][c][j].at \in {"sent", "failed"}

-------------------------------------------------------------------------------
(* ByteSink.CloseWithError: under closedMu it hands the packet to a        *)
(* goroutine and waits for it, or ten seconds.                             *)

sinkClose_Unmarked(p, c, by, err) ==
  /\ smu' = [smu EXCEPT ![p][c] = by]
  /\ Begin(p, c, by, IF err THEN "err" ELSE "ok")
  /\ UNCHANGED sinkClosed

sinkClose(p, c, by, err) ==
  /\ smu' = [smu EXCEPT ![p][c] = by]
  /\ Begin(p, c, by, IF err THEN "err" ELSE "ok")
  /\ sinkClosed' = IF err THEN [sinkClosed EXCEPT ![p][c] = "err"] ELSE sinkClosed

(* The select: the goroutine's answer, or the timer.  After the timer the  *)
(* goroutine is still there, and may send the packet later.                *)
sinkCloseReturns_NoTimer(p, c, by) ==
  /\ smu[p][c] = by /\ Finished(p, c, by)
  /\ smu' = [smu EXCEPT ![p][c] = "none"]
  /\ sinkClosed' = IF job[p][c][by].at = "failed"
                   THEN [sinkClosed EXCEPT ![p][c] = "io"] ELSE sinkClosed
  /\ job' = [job EXCEPT ![p][c][by] = Off]

sinkCloseReturns(p, c, by) ==
  /\ smu[p][c] = by
  /\ smu' = [smu EXCEPT ![p][c] = "none"]
  /\ \/ /\ Finished(p, c, by)
        /\ sinkClosed' = IF job[p][c][by].at = "failed"
                         THEN [sinkClosed EXCEPT ![p][c] = "io"] ELSE sinkClosed
        /\ job' = [job EXCEPT ![p][c][by] = Off]
     \/ /\ ~Finished(p, c, by)
        /\ sinkClosed' = [sinkClosed EXCEPT ![p][c] = "timeout"]
        /\ UNCHANGED job

-------------------------------------------------------------------------------
(* The application at p: Write and Close on an open call, or a new call.   *)

(* A receiver's context derives from the session's.                        *)
StreamCtxDone(p, c) == c \in aborted[p] \/ (CallerOf[c] # p /\ tpc[p] # "idle")

(* Its own clean Close does not keep an application from writing.          *)
Write(p, c) ==
  /\ <<p, c>> \in Writing /\ wrote[p][c] < MaxData
  /\ smu[p][c] = "none" /\ sinkClosed[p][c] = "nil"
  /\ \/ /\ StreamCtxDone(p, c)
        /\ sinkClosed' = [sinkClosed EXCEPT ![p][c] = "canceled"]
        /\ UNCHANGED <<smu, job, wrote>>
     \/ /\ ~StreamCtxDone(p, c)
        /\ smu' = [smu EXCEPT ![p][c] = "app"]
        /\ Begin(p, c, "write", "data")
        /\ wrote' = [wrote EXCEPT ![p][c] = @ + 1]
        /\ UNCHANGED sinkClosed
  /\ UNCHANGED <<connVars, wmu, tableVars, serveVars, tpc, apc, erred>>

CloseWithError(p, c) ==
  /\ <<p, c>> \in Closing /\ apc[p][c] = "idle"
  /\ smu[p][c] = "none" /\ sinkClosed[p][c] = "nil"
  /\ \E err \in BOOLEAN : sinkClose(p, c, "app", err)
  /\ apc' = [apc EXCEPT ![p][c] = "done"]
  /\ UNCHANGED <<connVars, wmu, tableVars, serveVars, tpc, wrote, erred>>

CloseReturns(p, c) ==
  /\ apc[p][c] = "done" /\ job[p][c]["write"].at = "off"
  /\ sinkCloseReturns(p, c, "app")
  /\ UNCHANGED <<connVars, wmu, tableVars, serveVars, tpc, appVars, erred>>

(* start registers the call under rLock and writes its first packet.       *)
start(c) ==
  LET p == CallerOf[c] IN
  /\ c \in Refused /\ apc[p][c] = "idle" /\ rlock[p] = "none"
  /\ reqs' = [reqs EXCEPT ![p] = @ \cup {c}]
  /\ Begin(p, c, "write", "call")
  /\ apc' = [apc EXCEPT ![p][c] = "done"]
  /\ UNCHANGED <<connVars, wmu, sinkVars, rlock, reqsClosed, aborted, serveVars, tpc, wrote, erred>>

-------------------------------------------------------------------------------
(* The serve loop.                                                         *)

ServeGoto(p, at) == spc' = [spc EXCEPT ![p] = at] /\ UNCHANGED cur

(* A cancelled session ends the loop; so does a body in the header's place. *)
ReadHeader(p) ==
  /\ spc[p] = "read" /\ wire[p] # << >>
  /\ wire' = [wire EXCEPT ![p] = Tail(@)]
  /\ cur' = [cur EXCEPT ![p] = Head(wire[p])]
  /\ spc' = [spc EXCEPT ![p] =
               IF tpc[p] = "idle" /\ Head(wire[p]).part = "header" THEN "lookup" ELSE "exit"]
  /\ UNCHANGED <<connClosed, jobVars, sinkVars, tableVars, tpc, appVars, erred>>

(* An end looks for its request, data looks first whether the request is   *)
(* closed; rLock is kept while the body of a closed one is discarded.      *)
Lookup(p) ==
  LET c == cur[p].call
      End == cur[p].pkt \in {"ok", "err"}
      Ignored == c \in reqsClosed[p] /\ ~(End /\ c \in reqs[p])
  IN
  /\ spc[p] = "lookup" /\ rlock[p] = "none"
  /\ \/ /\ Ignored /\ ServeGoto(p, "discard")
        /\ rlock' = [rlock EXCEPT ![p] = "serve"]
     \/ /\ ~Ignored /\ ServeGoto(p, IF ~End THEN "fetch" ELSE IF c \in reqs[p] THEN "body" ELSE "read")
        /\ UNCHANGED rlock
  /\ UNCHANGED <<connVars, jobVars, sinkVars, reqs, reqsClosed, aborted, tpc, appVars, erred>>

(* Data takes rLock once more for its request; a new call keeps it.        *)
fetchRequest(p) ==
  LET c == cur[p].call IN
  /\ spc[p] = "fetch" /\ rlock[p] = "none"
  /\ \/ c \in reqs[p] /\ ServeGoto(p, "body") /\ UNCHANGED rlock
     \/ /\ c \notin reqs[p] /\ cur[p].pkt = "call" /\ ServeGoto(p, "parse")
        /\ rlock' = [rlock EXCEPT ![p] = "serve"]
     \/ c \notin reqs[p] /\ cur[p].pkt # "call" /\ ServeGoto(p, "exit") /\ UNCHANGED rlock
  /\ UNCHANGED <<connVars, jobVars, sinkVars, reqs, reqsClosed, aborted, tpc, appVars, erred>>

ReadBody(p) ==
  /\ spc[p] \in {"body", "discard", "parse"} /\ wire[p] # << >>
  /\ wire' = [wire EXCEPT ![p] = Tail(@)]
  /\ \/ /\ spc[p] = "body"
        /\ ServeGoto(p, IF cur[p].pkt = "data" THEN "read" ELSE "close")
        /\ UNCHANGED <<rlock, job>>
     \/ /\ spc[p] = "discard" /\ ServeGoto(p, "read")
        /\ rlock' = [rlock EXCEPT ![p] = "none"]
        /\ UNCHANGED job
     \/ /\ spc[p] = "parse" /\ ServeGoto(p, "refuse")
        /\ Begin(p, cur[p].call, "refuse", "err")
        /\ UNCHANGED rlock
  /\ UNCHANGED <<connClosed, wmu, sinkVars, reqs, reqsClosed, aborted, tpc, appVars, erred>>

(* The connection broke: the loop ends and lets go of rLock.               *)
ReadFails(p) ==
  /\ spc[p] \in {"read", "body", "discard", "parse"} /\ Broken(p)
  /\ wire[p] = << >> \/ connClosed[p]
  /\ rlock' = IF spc[p] \in {"discard", "parse"} THEN [rlock EXCEPT ![p] = "none"] ELSE rlock
  /\ ServeGoto(p, "exit")
  /\ UNCHANGED <<connVars, jobVars, sinkVars, reqs, reqsClosed, aborted, tpc, appVars, erred>>

(* fetchRequest refuses the call with rLock held.                          *)
noSuchMethod_KeepsLock(p) ==
  LET c == cur[p].call IN
  /\ spc[p] = "refuse" /\ Finished(p, c, "refuse")
  /\ job' = [job EXCEPT ![p][c]["refuse"] = Off]
  /\ reqsClosed' = [reqsClosed EXCEPT ![p] = @ \cup {c}]
  /\ ServeGoto(p, "read")
  /\ UNCHANGED <<connVars, wmu, sinkVars, rlock, reqs, aborted, tpc, appVars, erred>>

noSuchMethod(p) ==
  LET c == cur[p].call IN
  /\ spc[p] = "refuse" /\ Finished(p, c, "refuse")
  /\ rlock' = [rlock EXCEPT ![p] = "none"]
  /\ job' = [job EXCEPT ![p][c]["refuse"] = Off]
  /\ \/ /\ job[p][c]["refuse"].at = "sent" /\ ServeGoto(p, "read")
        /\ reqsClosed' = [reqsClosed EXCEPT ![p] = @ \cup {c}]
     \/ /\ job[p][c]["refuse"].at = "failed" /\ ServeGoto(p, "exit")
        /\ UNCHANGED reqsClosed
  /\ UNCHANGED <<connVars, wmu, sinkVars, reqs, aborted, tpc, appVars, erred>>

(* closeStream: the sink, the context, the tables.  The source is no       *)
(* obstacle here: its lock is held over a body by the serve loop only.     *)
closeStream(p) ==
  LET c == cur[p].call IN
  /\ spc[p] = "close" /\ smu[p][c] = "none"
  /\ \/ /\ sinkClosed[p][c] = "nil"
        /\ sinkClose(p, c, "serve", cur[p].pkt = "err")
        /\ ServeGoto(p, "closing")
     \/ /\ sinkClosed[p][c] # "nil" /\ ServeGoto(p, "forget")
        /\ UNCHANGED <<sinkVars, job>>
  /\ UNCHANGED <<connVars, wmu, tableVars, tpc, appVars, erred>>

closeStreamReturns(p) ==
  /\ spc[p] = "closing"
  /\ sinkCloseReturns(p, cur[p].call, "serve")
  /\ ServeGoto(p, "forget")
  /\ UNCHANGED <<connVars, wmu, tableVars, tpc, appVars, erred>>

Forget(p, c) ==
  /\ reqs' = [reqs EXCEPT ![p] = @ \ {c}]
  /\ reqsClosed' = [reqsClosed EXCEPT ![p] = @ \cup {c}]

closeStreamForget(p) ==
  /\ spc[p] = "forget" /\ rlock[p] = "none"
  /\ aborted' = [aborted EXCEPT ![p] = @ \cup {cur[p].call}]
  /\ Forget(p, cur[p].call)
  /\ ServeGoto(p, "read")
  /\ UNCHANGED <<connVars, jobVars, sinkVars, rlock, tpc, appVars, erred>>

-------------------------------------------------------------------------------
(* Terminate, called by the user or deferred by serve.                     *)

Terminate(p) ==
  /\ tpc[p] = "idle"
  /\ p \in Terminators \/ spc[p] = "exit"
  /\ tpc' = [tpc EXCEPT ![p] = "want"]
  /\ UNCHANGED <<connVars, jobVars, sinkVars, tableVars, serveVars, appVars, erred>>

TerminateLock_NoWait(p) ==
  /\ tpc[p] = "want"
  /\ rlock' = [rlock EXCEPT ![p] = "term"]
  /\ tpc' = [tpc EXCEPT ![p] = "sweep"]
  /\ UNCHANGED <<connVars, jobVars, sinkVars, reqs, reqsClosed, aborted, serveVars, appVars, erred>>

TerminateLock(p) ==
  /\ tpc[p] = "want" /\ rlock[p] = "none"
  /\ rlock' = [rlock EXCEPT ![p] = "term"]
  /\ tpc' = [tpc EXCEPT ![p] = "sweep"]
  /\ UNCHANGED <<connVars, jobVars, sinkVars, reqs, reqsClosed, aborted, serveVars, appVars, erred>>

(* The lock of a source is held by the serve loop while it reads a body    *)
(* into it, and source.Cancel waits for that.                              *)
Consuming(p, c) == spc[p] = "body" /\ cur[p].call = c /\ cur[p].pkt = "data"

TerminateSweep(p, c) ==
  /\ tpc[p] = "sweep" /\ c \in reqs[p] /\ ~Consuming(p, c) /\ smu[p][c] = "none"
  /\ \A d \in Calls : smu[p][d] # "term"
  /\ \/ /\ sinkClosed[p][c] = "nil"
        /\ sinkClose(p, c, "term", TRUE)
        /\ UNCHANGED <<reqs, reqsClosed>>
     \/ /\ sinkClosed[p][c] # "nil" /\ Forget(p, c)
        /\ UNCHANGED <<sinkVars, job>>
  /\ UNCHANGED <<connVars, wmu, rlock, aborted, serveVars, tpc, appVars, erred>>

TerminateSweepReturns(p, c) ==
  /\ sinkCloseReturns(p, c, "term")
  /\ Forget(p, c)
  /\ UNCHANGED <<connVars, wmu, rlock, aborted, serveVars, tpc, appVars, erred>>

TerminateClose(p) ==
  /\ tpc[p] = "sweep" /\ reqs[p] = {}
  /\ connClosed' = [connClosed EXCEPT ![p] = TRUE]
  /\ rlock' = [rlock EXCEPT ![p] = "none"]
  /\ tpc' = [tpc EXCEPT ![p] = "done"]
  /\ UNCHANGED <<wire, jobVars, sinkVars, reqs, reqsClosed, aborted, serveVars, appVars, erred>>

-------------------------------------------------------------------------------
ServeStep(p) ==
  \/ ReadHeader(p) \/ Lookup(p) \/ fetchRequest(p) \/ ReadBody(p) \/ ReadFails(p) \/ noSuchMethod(p)
  \/ closeStream(p) \/ closeStreamReturns(p) \/ closeStreamForget(p)

TerminateStep(p) ==
  \/ TerminateLock(p) \/ TerminateClose(p)
  \/ \E c \in Calls : TerminateSweep(p, c) \/ TerminateSweepReturns(p, c)

Next ==
  \/ \E p \in Peers : ServeStep(p) \/ Terminate(p) \/ TerminateStep(p)
  \/ \E p \in Peers, c \in Calls :
       \/ Write(p, c) \/ CloseWithError(p, c) \/ CloseReturns(p, c)
       \/ \E j \in Job : WritePacket(p, c, j)
  \/ \E c \in Calls : start(c)

Spec == Init /\ [][Next]_vars

(* A WritePacket, a Terminate, a return and the serve loop go on when they *)
(* can, and a timer fires; the serve loop of a stalled peer may not.       *)
Fairness ==
  /\ \A p \in Peers :
       /\ p \notin Stalled => WF_vars(ServeStep(p))
       /\ WF_vars(spc[p] = "exit" /\ Terminate(p)) /\ WF_vars(TerminateStep(p))
  /\ \A p \in Peers, c \in Calls :
       /\ WF_vars(CloseReturns(p, c))
       /\ \A j \in Job : WF_vars(WritePacket(p, c, j))

FairSpec == Spec /\ Fairness

-------------------------------------------------------------------------------
(* Properties.                                                             *)

(* Every variable keeps its type, and r.rLock and Writer.mu are held by    *)
(* the goroutine that is at work under them, until it gives them up.       *)
TypeOK ==
  /\ \A p \in Peers :
       /\ tpc[p] = "sweep" <=> rlock[p] = "term"
       /\ spc[p] \in {"discard", "parse", "refuse"} <=> rlock[p] = "serve"
       /\ \A c \in Calls, j \in Job : job[p][c][j].at = "body" <=> wmu[p] = <<c, j>>
  /\ \A p \in Peers :
       /\ wire[p] \in Seq([part : {"header", "body"}, pkt : {"call", "data", "ok", "err"}, call : Calls])
       /\ Len(wire[p]) <= Capacity
  /\ connClosed \in [Peers -> BOOLEAN]
  /\ wmu \in [Peers -> (Calls \X Job) \cup {Nobody}]
  /\ job \in [Peers -> [Calls -> [Job ->
       [at : {"off", "header", "body", "sent", "failed"},
        pkt : {"none", "call", "data", "ok", "err"}]]]]
  /\ smu \in [Peers -> [Calls -> Closer \cup {"none"}]]
  /\ sinkClosed \in [Peers -> [Calls -> {"nil", "err", "io", "timeout", "canceled"}]]
  /\ rlock \in [Peers -> {"none", "serve", "term"}]
  /\ reqs \in [Peers -> SUBSET Calls] /\ reqsClosed \in [Peers -> SUBSET Calls]
  /\ aborted \in [Peers -> SUBSET Calls] /\ erred \in [Peers -> SUBSET Calls]
  /\ spc \in [Peers -> {"read", "lookup", "fetch", "body", "discard", "parse", "refuse",
                        "close", "closing", "forget", "exit"}]
  /\ tpc \in [Peers -> {"idle", "want", "sweep", "done"}]
  /\ apc \in [Peers -> [Calls -> {"idle", "done"}]]
  /\ wrote \in [Peers -> [Calls -> 0 .. MaxData]]

(* Packets are never interleaved: on the wire, and for a reader that has   *)
(* a header in hand, the part after a header is its body, although the     *)
(* streams, late close goroutines and refusals share the connection.       *)
PacketsAreWhole ==
  \A p \in Peers :
    LET w == IF spc[p] \in {"lookup", "fetch", "body", "discard", "parse"}
             THEN <<cur[p]>> \o wire[p] ELSE wire[p]
    IN \A i \in 1 .. Len(w) - 1 :
         w[i].part = "header" => w[i + 1] = [w[i] EXCEPT !.part = "body"]

(* Once an end with an error is on the wire no Write follows it on that    *)
(* sink, whoever sent it and whether or not the sender timed out.          *)
NoDataAfterError ==
  \A p \in Peers, c \in Calls \ Refused :
    c \in erred[p] => job[p][c]["write"].at \notin {"header", "body"}

(* A Terminate that was called closes the connection: "tollerate timeout   *)
(* in writing closed packets" (stream2_sink.go) is there for this.         *)
TerminateReturns == \A p \in Peers : tpc[p] # "idle" ~> connClosed[p]

(* "Serve drains the incoming packets" (rpc_server.go): the loop of a peer *)
(* that is not stalled reads what is there until the session ends ...      *)
ServeReads(p) == []<>(wire[p] = << >> \/ tpc[p] # "idle")
ServeDrains == \A p \in Peers \ Stalled : ServeReads(p)

(* ... which the code has as long as the other side takes what it gets: no *)
(* lock and no refusal stops a loop by itself.  When both sides refuse, or *)
(* close, at once, each loop may wait for the other to read.               *)
ServeDrainsToReader ==
  \A p \in Peers \ Stalled :
    []<>(wire[Other(p)] = << >> \/ connClosed[Other(p)]) => ServeReads(p)
===============================================================================
