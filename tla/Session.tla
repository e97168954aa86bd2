------------------------------- MODULE Session --------------------------------
(***************************************************************************)
(* Two muxrpc endpoints over one connection: the serve loop of each        *)
(* (rpc_server.go), the calls they start (rpc_client.go), the handlers     *)
(* that answer (request.go) and Terminate.                                 *)
(*                                                                         *)
(* A call stands for its request id on both sides: the id is taken from    *)
(* r.highest under rLock, so no two calls of an endpoint share one, and    *)
(* the Packer flips its sign on arrival.  A packet is its kind and its     *)
(* call.  Its header and its body are read in separate steps: unread says  *)
(* that the body of the packet in hand is still in front of the reader.    *)
(* Bodies are never empty.  The transport is reliable and unbounded until  *)
(* one end closes; then packets under way may be lost or cut short.        *)
(***************************************************************************)
EXTENDS Naturals, Sequences

CONSTANTS
  Peers,        \* the two endpoints
  Calls,        \* the calls made in the session
  CallerOf,     \* CallerOf[c]: the endpoint that makes call c
  TypeOf,       \* TypeOf[c]: "async", "source", "sink" or "duplex"
  Unhandled,    \* the calls whose method the receiver may not handle
  MaxData,      \* bound: data packets each side writes on a call
  CallerMay,    \* what callers do: subset of {"write", "close", "cancel", "ctx"}
  HandlerMay,   \* what handlers do: subset of {"write", "return", "close", "request"}
  Terminators,  \* endpoints on which Terminate is called
  Crashers      \* endpoints whose process may die

ASSUME SessionAssumption ==
  /\ \E p, q \in Peers : p # q /\ Peers = {p, q}
  /\ CallerOf \in [Calls -> Peers]
  /\ TypeOf \in [Calls -> {"async", "source", "sink", "duplex"}]
  /\ Unhandled \subseteq Calls
  /\ MaxData \in Nat
  /\ CallerMay \subseteq {"write", "close", "cancel", "ctx"}
  /\ HandlerMay \subseteq {"write", "return", "close", "request"}
  /\ Terminators \subseteq Peers /\ Crashers \subseteq Peers

VARIABLES
  net,         \* net[p]: packets on their way to p
  connClosed,  \* connClosed[p]: p has closed its end of the connection
  spc,         \* spc[p]: where the serve loop of p is
  cur,         \* cur[p]: the packet whose header serve read last
  unread,      \* unread[p]: its body has not been read
  serr,        \* serr[p]: the error serve passes to closeStream
  serveRet,    \* serveRet[p]: what serve returns
  reqs,        \* reqs[p]: r.reqs
  reqsClosed,  \* reqsClosed[p]: r.reqsClosed
  ctxDone,     \* ctxDone[p]: r.serveCtx is cancelled
  terminated,  \* terminated[p]: r.terminated
  holder,      \* holder[p]: the Terminate that holds tLock and rLock, or "none"
  term,        \* term[p]: progress of the user's and of serve's own Terminate
  failed,      \* failed[p][c]: req.source.failed
  sinkClosed,  \* sinkClosed[p][c]: req.sink.closed is set
  reqDone,     \* reqDone[p][c]: the context of the request is cancelled
  cpc,         \* cpc[c]: where the caller is
  hpc,         \* hpc[c]: where the handler is
  herr,        \* herr[c]: the error the handler passes to CloseWithError
  wrote,       \* history: wrote[p][c] data packets p wrote on c
  got,         \* history: got[p][c] data packets p's source took in
  ended        \* history: 0, or 1 + the data p wrote on c before its first end packet

netVars == <<net, connClosed>>
serveVars == <<spc, cur, unread, serr, serveRet>>
tableVars == <<reqs, reqsClosed>>
termVars == <<ctxDone, terminated, holder, term>>
streamVars == <<failed, sinkClosed, reqDone>>
appVars == <<cpc, hpc, herr>>
history == <<wrote, got, ended>>
vars == <<netVars, serveVars, tableVars, termVars, streamVars, appVars, history>>

Other(p) == CHOOSE q \in Peers : q # p
Packet == [kind : {"call", "data", "ok", "err"}, call : Calls]
Nothing == [kind |-> "none", call |-> "none"]
Terminating == {"user", "serve"}     \* who runs a Terminate

PerCall(v) == [p \in Peers |-> [c \in Calls |-> v]]

Init ==
  /\ net = [p \in Peers |-> << >>] /\ connClosed = [p \in Peers |-> FALSE]
  /\ spc = [p \in Peers |-> "read"] /\ cur = [p \in Peers |-> Nothing]
  /\ unread = [p \in Peers |-> FALSE]
  /\ serr = [p \in Peers |-> "nil"] /\ serveRet = [p \in Peers |-> "running"]
  /\ reqs = [p \in Peers |-> {}] /\ reqsClosed = [p \in Peers |-> {}]
  /\ ctxDone = [p \in Peers |-> FALSE] /\ terminated = [p \in Peers |-> FALSE]
  /\ holder = [p \in Peers |-> "none"]
  /\ term = [p \in Peers |-> [w \in Terminating |-> "idle"]]
  /\ failed = PerCall("nil") /\ sinkClosed = PerCall(FALSE) /\ reqDone = PerCall(FALSE)
  /\ cpc = [c \in Calls |-> "new"] /\ hpc = [c \in Calls |-> "none"]
  /\ herr = [c \in Calls |-> "nil"]
  /\ wrote = PerCall(0) /\ got = PerCall(0) /\ ended = PerCall(0)

-------------------------------------------------------------------------------
(* The connection, the two halves of a stream and the locks.               *)

Broken(p) == connClosed[p] \/ connClosed[Other(p)]

(* WritePacket, with its outcome: ok, or an error from a closed end.       *)
WritePacket(p, kind, c, ok) ==
  \/ /\ ok /\ ~connClosed[p]
     /\ net' = [net EXCEPT ![Other(p)] = Append(@, [kind |-> kind, call |-> c])]
  \/ ~ok /\ Broken(p) /\ UNCHANGED net

(* ByteSource.Cancel (see ByteSource).                                     *)
sourceCancel(p, c, err) ==
  failed' = IF failed[p][c] # "nil" THEN failed
            ELSE [failed EXCEPT ![p][c] = IF err = "nil" THEN "EOF" ELSE err]

MarkEnded(p, c) ==
  [ended EXCEPT ![p][c] = IF @ = 0 THEN 1 + wrote[p][c] ELSE @]

(* ByteSink.CloseWithError: a clean close leaves bs.closed unset.          *)
sinkCloseWithError_Silent(p, c, err) ==
  \/ /\ sinkClosed[p][c] \/ failed[p][c] # "nil"
     /\ UNCHANGED <<net, sinkClosed, ended>>
  \/ /\ ~sinkClosed[p][c] /\ failed[p][c] = "nil"
     /\ \E ok \in BOOLEAN :
          /\ WritePacket(p, IF err = "nil" THEN "ok" ELSE "err", c, ok)
          /\ sinkClosed' = [sinkClosed EXCEPT ![p][c] = err # "nil" \/ ~ok]
          /\ ended' = IF ok THEN MarkEnded(p, c) ELSE ended

sinkCloseWithError(p, c, err) ==
  \/ sinkClosed[p][c] /\ UNCHANGED <<net, sinkClosed, ended>>
  \/ /\ ~sinkClosed[p][c]
     /\ \E ok \in BOOLEAN :
          /\ WritePacket(p, IF err = "nil" THEN "ok" ELSE "err", c, ok)
          /\ sinkClosed' = [sinkClosed EXCEPT ![p][c] = err # "nil" \/ ~ok]
          /\ ended' = IF ok THEN MarkEnded(p, c) ELSE ended

(* The context of a request: a receiver's derives from the session's.      *)
StreamCtxDone(p, c) == reqDone[p][c] \/ (CallerOf[c] # p /\ ctxDone[p])

(* Terminate holds rLock and tLock while it sweeps; every other section    *)
(* under them is a single step.                                            *)
Unlocked(p) == holder[p] = "none"

(* The last part of closeStream: abort, then drop the request.             *)
closeStreamForget_NoDelete(p, c) ==
  /\ Unlocked(p)
  /\ reqDone' = [reqDone EXCEPT ![p][c] = TRUE]
  /\ reqsClosed' = [reqsClosed EXCEPT ![p] = @ \cup {c}]
  /\ UNCHANGED reqs

closeStreamForget(p, c) ==
  /\ Unlocked(p)
  /\ reqDone' = [reqDone EXCEPT ![p][c] = TRUE]
  /\ reqs' = [reqs EXCEPT ![p] = @ \ {c}]
  /\ reqsClosed' = [reqsClosed EXCEPT ![p] = @ \cup {c}]

-------------------------------------------------------------------------------
(* The serve loop: the header.                                             *)

ServeExit(p, ret) ==
  /\ spc' = [spc EXCEPT ![p] = "exit"]
  /\ serveRet' = [serveRet EXCEPT ![p] = ret]
  /\ UNCHANGED <<cur, unread, serr>>

ServeGoto(p, at) ==
  /\ spc' = [spc EXCEPT ![p] = at]
  /\ UNCHANGED <<cur, unread, serr, serveRet>>

(* The body has been read: on to the next packet.                          *)
ServeContinue(p) ==
  /\ spc' = [spc EXCEPT ![p] = "read"]
  /\ unread' = [unread EXCEPT ![p] = FALSE]
  /\ UNCHANGED <<cur, serr, serveRet>>

NextHeader(p) ==
  /\ spc[p] = "read" /\ ~ctxDone[p] /\ ~connClosed[p] /\ ~unread[p]
  /\ net[p] # << >>
  /\ cur' = [cur EXCEPT ![p] = Head(net[p])]
  /\ net' = [net EXCEPT ![p] = Tail(@)]
  /\ unread' = [unread EXCEPT ![p] = TRUE]
  /\ spc' = [spc EXCEPT ![p] = IF Head(net[p]).kind \in {"ok", "err"} THEN "end" ELSE "data"]
  /\ UNCHANGED <<connClosed, serr, serveRet, tableVars, termVars, streamVars, appVars, history>>

(* The bytes of an unread body are taken for a header.                     *)
NextHeaderGarbage(p) ==
  /\ spc[p] = "read" /\ ~ctxDone[p] /\ ~connClosed[p] /\ unread[p]
  /\ ServeGoto(p, "garbled")
  /\ UNCHANGED <<netVars, tableVars, termVars, streamVars, appVars, history>>

(* Whatever the loop takes from there on, it has lost its place: it ends   *)
(* with an error from what it parses or from the connection, or it goes on *)
(* (logging an unknown end, skipping, waiting for the rest of a body that  *)
(* was never sent) for as long as the connection lives.  Bodies are opaque *)
(* here: none spells the id of a request that is open.                     *)
ServeGarbage(p) ==
  /\ spc[p] = "garbled"
  /\ \/ ServeExit(p, "protocol")
     \/ Broken(p) /\ ServeExit(p, "io")
  /\ UNCHANGED <<netVars, tableVars, termVars, streamVars, appVars, history>>

NextHeaderEOF(p) ==
  /\ spc[p] = "read" /\ Broken(p)
  /\ ServeExit(p, "nil")
  /\ UNCHANGED <<netVars, tableVars, termVars, streamVars, appVars, history>>

(* Any other read error, or a session context that ended, is not reported  *)
(* when Terminate is the cause: tLock is taken to find out.                *)
NextHeaderFails(p) ==
  /\ spc[p] = "read" /\ Unlocked(p)
  /\ \E ret \in {"io", "canceled"} :
       /\ ret = "io" => Broken(p)
       /\ ret = "canceled" => ctxDone[p] /\ (net[p] # << >> \/ unread[p] \/ Broken(p))
       /\ ServeExit(p, IF terminated[p] THEN "nil" ELSE ret)
  /\ UNCHANGED <<netVars, tableVars, termVars, streamVars, appVars, history>>

-------------------------------------------------------------------------------
(* The serve loop: an end packet.                                          *)

serveEnd(p) ==
  /\ spc[p] = "end" /\ Unlocked(p)
  /\ \/ cur[p].call \in reqs[p] /\ ServeGoto(p, "endbody")
     \/ cur[p].call \in reqsClosed[p] \ reqs[p] /\ ServeContinue(p)
     \/ cur[p].call \notin reqs[p] \cup reqsClosed[p] /\ ServeGoto(p, "read")
  /\ UNCHANGED <<netVars, tableVars, termVars, streamVars, appVars, history>>

serveEndBody(p) ==
  /\ spc[p] = "endbody"
  /\ \/ /\ spc' = [spc EXCEPT ![p] = "cancel"]
        /\ serr' = [serr EXCEPT ![p] = IF cur[p].kind = "ok" THEN "nil" ELSE "remote"]
        /\ unread' = [unread EXCEPT ![p] = FALSE]
        /\ UNCHANGED <<cur, serveRet>>
     \/ Broken(p) /\ ServeExit(p, "io")
  /\ UNCHANGED <<netVars, tableVars, termVars, streamVars, appVars, history>>

(* closeStream, run by the serve loop.                                     *)
closeStreamCancel(p) ==
  /\ spc[p] = "cancel"
  /\ sourceCancel(p, cur[p].call, serr[p])
  /\ ServeGoto(p, "sink")
  /\ UNCHANGED <<netVars, tableVars, termVars, sinkClosed, reqDone, appVars, history>>

closeStreamSink(p) ==
  /\ spc[p] = "sink"
  /\ sinkCloseWithError(p, cur[p].call, serr[p])
  /\ ServeGoto(p, "forget")
  /\ UNCHANGED <<connClosed, tableVars, termVars, failed, reqDone, appVars, wrote, got>>

closeStream(p) ==
  /\ spc[p] = "forget"
  /\ closeStreamForget(p, cur[p].call)
  /\ ServeGoto(p, "read")
  /\ UNCHANGED <<netVars, termVars, failed, sinkClosed, appVars, history>>

-------------------------------------------------------------------------------
(* The serve loop: a data packet.                                          *)

maybeDiscardPacket_Never(p) ==
  /\ spc[p] = "data"
  /\ ServeGoto(p, "fetch")
  /\ UNCHANGED <<netVars, tableVars, termVars, streamVars, appVars, history>>

maybeDiscardPacket_KeepsBody(p) ==
  /\ spc[p] = "data" /\ Unlocked(p)
  /\ \/ cur[p].call \in reqsClosed[p] /\ ServeGoto(p, "read")
     \/ cur[p].call \notin reqsClosed[p] /\ ServeGoto(p, "fetch")
  /\ UNCHANGED <<netVars, tableVars, termVars, streamVars, appVars, history>>

maybeDiscardPacket(p) ==
  /\ spc[p] = "data" /\ Unlocked(p)
  /\ \/ cur[p].call \in reqsClosed[p] /\ ServeContinue(p)
     \/ cur[p].call \in reqsClosed[p] /\ Broken(p) /\ ServeExit(p, "io")
     \/ cur[p].call \notin reqsClosed[p] /\ ServeGoto(p, "fetch")
  /\ UNCHANGED <<netVars, tableVars, termVars, streamVars, appVars, history>>

fetchRequest(p) ==
  /\ spc[p] = "fetch" /\ Unlocked(p)
  /\ ServeGoto(p, IF cur[p].call \in reqs[p] THEN "consume" ELSE "parse")
  /\ UNCHANGED <<netVars, tableVars, termVars, streamVars, appVars, history>>

(* fetchRequest again, now with the write lock: parseNewRequest, and the   *)
(* request is refused or handed to a new handler goroutine.                *)
parseNewRequestFails(p) ==
  /\ spc[p] = "parse" /\ Unlocked(p)
  /\ \/ CallerOf[cur[p].call] = p /\ ServeExit(p, "protocol")
     \/ CallerOf[cur[p].call] # p /\ cur[p].kind # "call" /\ ServeExit(p, "protocol")
     \/ Broken(p) /\ ServeExit(p, "io")
  /\ UNCHANGED <<netVars, tableVars, termVars, streamVars, appVars, history>>

NewRequest(p, c) ==
  /\ spc[p] = "parse" /\ Unlocked(p)
  /\ cur[p] = [kind |-> "call", call |-> c] /\ CallerOf[c] # p

noSuchMethod(p, c) ==
  /\ NewRequest(p, c) /\ c \in Unhandled
  /\ \/ /\ WritePacket(p, "err", c, TRUE)
        /\ ended' = MarkEnded(p, c)
        /\ reqsClosed' = [reqsClosed EXCEPT ![p] = @ \cup {c}]
        /\ ServeContinue(p)
     \/ /\ WritePacket(p, "err", c, FALSE)
        /\ ServeExit(p, "io")
        /\ UNCHANGED <<ended, reqsClosed>>
  /\ UNCHANGED <<connClosed, reqs, termVars, streamVars, appVars, wrote, got>>

acceptRequest(p, c) ==
  /\ NewRequest(p, c)
  /\ reqs' = [reqs EXCEPT ![p] = @ \cup {c}]
  /\ hpc' = [hpc EXCEPT ![c] = "run"]
  /\ ServeContinue(p)
  /\ UNCHANGED <<netVars, reqsClosed, termVars, streamVars, cpc, herr, history>>

(* The body is read and dropped: the reader is not told of it.             *)
consume_Drops(p) ==
  /\ spc[p] = "consume"
  /\ ServeContinue(p)
  /\ UNCHANGED <<netVars, tableVars, termVars, streamVars, appVars, history>>

(* A source that has failed returns at once: the body stays unread.        *)
consume(p) ==
  /\ spc[p] = "consume"
  /\ LET c == cur[p].call IN
     \/ /\ failed[p][c] = "nil"
        /\ got' = [got EXCEPT ![p][c] = @ + 1]
        /\ ServeContinue(p)
        /\ UNCHANGED net
     \/ /\ \/ /\ failed[p][c] = "nil" /\ Broken(p)      \* the body is cut short
              /\ unread' = [unread EXCEPT ![p] = FALSE]
              /\ net' = [net EXCEPT ![p] = << >>]
           \/ failed[p][c] # "nil" /\ UNCHANGED <<unread, net>>
        /\ spc' = [spc EXCEPT ![p] = "cancel"]
        /\ serr' = [serr EXCEPT ![p] = "refused"]
        /\ UNCHANGED <<got, cur, serveRet>>
  /\ UNCHANGED <<connClosed, tableVars, termVars, streamVars, appVars, wrote, ended>>

-------------------------------------------------------------------------------
(* Terminate, called by the user or deferred by serve.                     *)

Terminate_NotDeferred(p, w) ==
  /\ term[p][w] = "idle" /\ w = "user" /\ p \in Terminators
  /\ ctxDone' = [ctxDone EXCEPT ![p] = TRUE]
  /\ term' = [term EXCEPT ![p][w] = "want"]
  /\ UNCHANGED <<netVars, serveVars, tableVars, terminated, holder, streamVars, appVars, history>>

Terminate(p, w) ==
  /\ term[p][w] = "idle"
  /\ \/ w = "user" /\ p \in Terminators
     \/ w = "serve" /\ spc[p] = "exit"
  /\ ctxDone' = [ctxDone EXCEPT ![p] = TRUE]
  /\ term' = [term EXCEPT ![p][w] = "want"]
  /\ UNCHANGED <<netVars, serveVars, tableVars, terminated, holder, streamVars, appVars, history>>

TerminateLock(p, w) ==
  /\ term[p][w] = "want" /\ Unlocked(p)
  /\ holder' = [holder EXCEPT ![p] = w]
  /\ terminated' = [terminated EXCEPT ![p] = TRUE]
  /\ term' = [term EXCEPT ![p][w] = "sweep"]
  /\ UNCHANGED <<netVars, serveVars, tableVars, ctxDone, streamVars, appVars, history>>

TerminateSweep_AsEOF(p, w, c) ==
  /\ term[p][w] = "sweep" /\ c \in reqs[p]
  /\ sourceCancel(p, c, "nil")
  /\ sinkCloseWithError(p, c, "session")
  /\ reqs' = [reqs EXCEPT ![p] = @ \ {c}]
  /\ reqsClosed' = [reqsClosed EXCEPT ![p] = @ \cup {c}]
  /\ UNCHANGED <<connClosed, serveVars, termVars, reqDone, appVars, wrote, got>>

TerminateSweep(p, w, c) ==
  /\ term[p][w] = "sweep" /\ c \in reqs[p]
  /\ sourceCancel(p, c, "session")
  /\ sinkCloseWithError(p, c, "session")
  /\ reqs' = [reqs EXCEPT ![p] = @ \ {c}]
  /\ reqsClosed' = [reqsClosed EXCEPT ![p] = @ \cup {c}]
  /\ UNCHANGED <<connClosed, serveVars, termVars, reqDone, appVars, wrote, got>>

(* The same, with the lock given up before the connection is closed.       *)
TerminateClose_Unlocked(p, w) ==
  /\ \/ /\ term[p][w] = "sweep" /\ reqs[p] = {}
        /\ term' = [term EXCEPT ![p][w] = "close"]
        /\ holder' = [holder EXCEPT ![p] = "none"]
        /\ UNCHANGED connClosed
     \/ /\ term[p][w] = "close"
        /\ term' = [term EXCEPT ![p][w] = "done"]
        /\ connClosed' = [connClosed EXCEPT ![p] = TRUE]
        /\ UNCHANGED holder
  /\ UNCHANGED <<net, serveVars, tableVars, ctxDone, terminated, streamVars, appVars, history>>

TerminateClose(p, w) ==
  /\ term[p][w] = "sweep" /\ reqs[p] = {}
  /\ connClosed' = [connClosed EXCEPT ![p] = TRUE]
  /\ holder' = [holder EXCEPT ![p] = "none"]
  /\ term' = [term EXCEPT ![p][w] = "done"]
  /\ UNCHANGED <<net, serveVars, tableVars, ctxDone, terminated, streamVars, appVars, history>>

(* The process dies: its end closes and none of its goroutines moves again. *)
Crash(p) ==
  /\ p \in Crashers /\ spc[p] # "crashed"
  /\ spc' = [spc EXCEPT ![p] = "crashed"]
  /\ connClosed' = [connClosed EXCEPT ![p] = TRUE]
  /\ UNCHANGED <<net, cur, unread, serr, serveRet, tableVars, termVars, streamVars, appVars, history>>

Alive(p) == spc[p] # "crashed"

-------------------------------------------------------------------------------
(* The calling side: start registers the request, then sends it.           *)

start(c) ==
  /\ cpc[c] = "new" /\ Unlocked(CallerOf[c])
  /\ reqs' = [reqs EXCEPT ![CallerOf[c]] = @ \cup {c}]
  /\ cpc' = [cpc EXCEPT ![c] = "registered"]
  /\ UNCHANGED <<netVars, serveVars, reqsClosed, termVars, streamVars, hpc, herr, history>>

startWrite(c) ==
  /\ cpc[c] = "registered"
  /\ \E ok \in BOOLEAN :
       /\ WritePacket(CallerOf[c], "call", c, ok)
       /\ cpc' = [cpc EXCEPT ![c] = IF ok THEN "open" ELSE "failed"]
  /\ UNCHANGED <<connClosed, serveVars, tableVars, termVars, streamVars, hpc, herr, history>>

(* Async waits for the first frame or for the end of its source.           *)
Async(c) ==
  /\ TypeOf[c] = "async" /\ cpc[c] = "open"
  /\ got[CallerOf[c]][c] > 0 \/ failed[CallerOf[c]][c] # "nil"
  /\ cpc' = [cpc EXCEPT ![c] = "done"]
  /\ UNCHANGED <<netVars, serveVars, tableVars, termVars, streamVars, hpc, herr, history>>

(* ByteSink.Write, on either side of call c.                               *)
sinkWrite(p, c) ==
  /\ ~sinkClosed[p][c] /\ wrote[p][c] < MaxData
  /\ \/ /\ StreamCtxDone(p, c)
        /\ sinkClosed' = [sinkClosed EXCEPT ![p][c] = TRUE]
        /\ UNCHANGED <<net, wrote>>
     \/ /\ ~StreamCtxDone(p, c)
        /\ \E ok \in BOOLEAN :
             /\ WritePacket(p, "data", c, ok)
             /\ sinkClosed' = [sinkClosed EXCEPT ![p][c] = ~ok]
             /\ wrote' = [wrote EXCEPT ![p][c] = IF ok THEN @ + 1 ELSE @]
  /\ UNCHANGED <<connClosed, serveVars, tableVars, termVars, failed, reqDone, got, ended>>

(* Nothing keeps an application from writing after its own clean Close, or *)
(* from reading on: "done" means that it has closed its sink.              *)
callerWrite(c) ==
  /\ "write" \in CallerMay /\ TypeOf[c] \in {"sink", "duplex"} /\ cpc[c] \in {"open", "done"}
  /\ sinkWrite(CallerOf[c], c)
  /\ UNCHANGED appVars

callerClose(c) ==
  /\ "close" \in CallerMay /\ TypeOf[c] \in {"sink", "duplex"} /\ cpc[c] = "open"
  /\ \E err \in {"nil", "user"} : sinkCloseWithError(CallerOf[c], c, err)
  /\ cpc' = [cpc EXCEPT ![c] = "done"]
  /\ UNCHANGED <<connClosed, serveVars, tableVars, termVars, failed, reqDone, hpc, herr, wrote, got>>

(* The caller has had enough of its source.                                *)
callerCancel(c) ==
  /\ "cancel" \in CallerMay /\ TypeOf[c] \in {"source", "duplex"} /\ cpc[c] \in {"open", "done"}
  /\ sourceCancel(CallerOf[c], c, "user")
  /\ cpc' = [cpc EXCEPT ![c] = "cancelled"]
  /\ UNCHANGED <<netVars, serveVars, tableVars, termVars, sinkClosed, reqDone, hpc, herr, history>>

(* The context of the call ends: its own, or the one given to a Next.      *)
callerCtx(c) ==
  /\ "ctx" \in CallerMay /\ cpc[c] \in {"open", "done"} /\ ~reqDone[CallerOf[c]][c]
  /\ reqDone' = [reqDone EXCEPT ![CallerOf[c]][c] = TRUE]
  /\ UNCHANGED <<netVars, serveVars, tableVars, termVars, failed, sinkClosed, appVars, history>>

(* A reader blocked in Next notices that the context of its stream ended.  *)
Reads(p, c) ==
  IF CallerOf[c] = p
  THEN TypeOf[c] # "sink" /\ (cpc[c] = "open" \/ (TypeOf[c] = "duplex" /\ cpc[c] = "done"))
  ELSE TypeOf[c] \in {"sink", "duplex"} /\ hpc[c] \in {"run", "done"}

NextCtxDone(p, c) ==
  /\ Reads(p, c) /\ StreamCtxDone(p, c) /\ failed[p][c] = "nil"
  /\ failed' = [failed EXCEPT ![p][c] = "canceled"]
  /\ UNCHANGED <<netVars, serveVars, tableVars, termVars, sinkClosed, reqDone, appVars, history>>

-------------------------------------------------------------------------------
(* The handler of call c, at the endpoint that received it.                *)

HandlerOf(c) == Other(CallerOf[c])

handlerWrite(c) ==
  /\ "write" \in HandlerMay /\ TypeOf[c] \in {"source", "duplex"} /\ hpc[c] \in {"run", "done"}
  /\ sinkWrite(HandlerOf(c), c)
  /\ UNCHANGED appVars

(* Request.Return, the answer to an async call.                            *)
Return(c) ==
  /\ "return" \in HandlerMay /\ TypeOf[c] = "async" /\ hpc[c] = "run"
  /\ sinkWrite(HandlerOf(c), c)
  /\ hpc' = [hpc EXCEPT ![c] = "done"]
  /\ UNCHANGED <<cpc, herr>>

(* The handler of a source or duplex call closes its ResponseSink.         *)
handlerClose(c) ==
  /\ "close" \in HandlerMay /\ TypeOf[c] \in {"source", "duplex"} /\ hpc[c] = "run"
  /\ \E err \in {"nil", "user"} : sinkCloseWithError(HandlerOf(c), c, err)
  /\ hpc' = [hpc EXCEPT ![c] = "done"]
  /\ UNCHANGED <<connClosed, serveVars, tableVars, termVars, failed, reqDone, cpc, herr, wrote, got>>

(* Request.CloseWithError: cancel the source, close the sink, and          *)
(* closeStream, which does both again before it drops the request.         *)
CloseWithError(c) ==
  /\ "request" \in HandlerMay /\ hpc[c] = "run"
  /\ \E err \in {"nil", "user"} :
       /\ sourceCancel(HandlerOf(c), c, err)
       /\ herr' = [herr EXCEPT ![c] = err]
  /\ hpc' = [hpc EXCEPT ![c] = "sink"]
  /\ UNCHANGED <<netVars, serveVars, tableVars, termVars, sinkClosed, reqDone, cpc, history>>

CloseWithErrorSink(c) ==
  /\ hpc[c] \in {"sink", "again"}
  /\ sinkCloseWithError(HandlerOf(c), c, herr[c])
  /\ hpc' = [hpc EXCEPT ![c] = IF hpc[c] = "sink" THEN "again" ELSE "forget"]
  /\ UNCHANGED <<connClosed, serveVars, tableVars, termVars, failed, reqDone, cpc, herr, wrote, got>>

CloseWithErrorForget(c) ==
  /\ hpc[c] = "forget"
  /\ closeStreamForget(HandlerOf(c), c)
  /\ hpc' = [hpc EXCEPT ![c] = "done"]
  /\ UNCHANGED <<netVars, serveVars, termVars, failed, sinkClosed, cpc, herr, history>>

-------------------------------------------------------------------------------
ServeStep(p) ==
  \/ NextHeader(p) \/ NextHeaderGarbage(p) \/ ServeGarbage(p)
  \/ NextHeaderEOF(p) \/ NextHeaderFails(p)
  \/ serveEnd(p) \/ serveEndBody(p)
  \/ closeStreamCancel(p) \/ closeStreamSink(p) \/ closeStream(p)
  \/ maybeDiscardPacket(p) \/ fetchRequest(p) \/ parseNewRequestFails(p)
  \/ \E c \in Calls : noSuchMethod(p, c) \/ acceptRequest(p, c)
  \/ consume(p)

TerminateStep(p, w) ==
  \/ TerminateLock(p, w) \/ TerminateClose(p, w)
  \/ \E c \in Calls : TerminateSweep(p, w, c)

CallerStep(c) ==
  \/ start(c) \/ startWrite(c) \/ Async(c)
  \/ callerWrite(c) \/ callerClose(c) \/ callerCancel(c) \/ callerCtx(c)
  \/ NextCtxDone(CallerOf[c], c)

HandlerCloses(c) ==
  CloseWithErrorSink(c) \/ CloseWithErrorForget(c)

HandlerStep(c) ==
  \/ handlerWrite(c) \/ Return(c) \/ handlerClose(c) \/ CloseWithError(c)
  \/ HandlerCloses(c)
  \/ NextCtxDone(HandlerOf(c), c)

Next ==
  \/ \E p \in Peers :
       /\ Alive(p)
       /\ \/ ServeStep(p) \/ Crash(p)
          \/ \E w \in Terminating : Terminate(p, w) \/ TerminateStep(p, w)
  \/ \E c \in Calls :
       \/ Alive(CallerOf[c]) /\ CallerStep(c)
       \/ Alive(HandlerOf(c)) /\ HandlerStep(c)

Spec == Init /\ [][Next]_vars

(* The goroutines of the library keep running while their process lives:   *)
(* serve, a Terminate once called, a start, an Async that may return and a *)
(* Request.CloseWithError.  Nothing is assumed of callers and handlers, or *)
(* of a loop that has lost its place, unless the connection breaks.        *)
Fairness ==
  /\ \A p \in Peers :
       /\ WF_vars(Alive(p) /\ (spc[p] = "garbled" => Broken(p)) /\ ServeStep(p))
       /\ WF_vars(Alive(p) /\ Terminate(p, "serve"))
       /\ \A w \in Terminating : WF_vars(Alive(p) /\ TerminateStep(p, w))
  /\ \A c \in Calls :
       /\ WF_vars(Alive(CallerOf[c]) /\ (startWrite(c) \/ Async(c)))
       /\ WF_vars(Alive(HandlerOf(c)) /\ HandlerCloses(c))

FairSpec == Spec /\ Fairness

(* Handlers that do answer: each returns, closes its sink or its request.  *)
AnswerSpec ==
  /\ FairSpec
  /\ \A c \in Calls :
       WF_vars(Alive(HandlerOf(c)) /\ (Return(c) \/ handlerClose(c) \/ CloseWithError(c)))

-------------------------------------------------------------------------------
(* Properties.                                                             *)

(* Types, one group of variables at a time.                                *)
ConnOK == net \in [Peers -> Seq(Packet)] /\ connClosed \in [Peers -> BOOLEAN]

ServeOK ==
  /\ spc \in [Peers -> {"read", "garbled", "end", "endbody", "cancel", "sink", "forget",
                        "data", "fetch", "parse", "consume", "exit", "crashed"}]
  /\ cur \in [Peers -> Packet \cup {Nothing}] /\ unread \in [Peers -> BOOLEAN]
  /\ serr \in [Peers -> {"nil", "remote", "refused"}]
  /\ serveRet \in [Peers -> {"running", "nil", "io", "canceled", "protocol"}]

TablesOK == reqs \in [Peers -> SUBSET Calls] /\ reqsClosed \in [Peers -> SUBSET Calls]

TermOK ==
  /\ ctxDone \in [Peers -> BOOLEAN] /\ terminated \in [Peers -> BOOLEAN]
  /\ holder \in [Peers -> Terminating \cup {"none"}]
  /\ term \in [Peers -> [Terminating -> {"idle", "want", "sweep", "done"}]]

StreamsOK ==
  /\ failed \in [Peers -> [Calls -> {"nil", "EOF", "remote", "refused", "session", "user", "canceled"}]]
  /\ sinkClosed \in [Peers -> [Calls -> BOOLEAN]]
  /\ reqDone \in [Peers -> [Calls -> BOOLEAN]]

AppsOK ==
  /\ cpc \in [Calls -> {"new", "registered", "open", "failed", "cancelled", "done"}]
  /\ hpc \in [Calls -> {"none", "run", "sink", "again", "forget", "done"}]
  /\ herr \in [Calls -> {"nil", "user"}]

HistoryOK ==
  /\ wrote \in [Peers -> [Calls -> 0 .. MaxData]]
  /\ got \in [Peers -> [Calls -> Nat]]
  /\ ended \in [Peers -> [Calls -> 0 .. MaxData + 1]]

(* Every variable keeps its type; the map keys of rpc.reqs and             *)
(* rpc.reqsClosed are calls of the session.                                *)
TypeOK ==
  /\ ConnOK /\ ServeOK /\ TablesOK /\ TermOK /\ StreamsOK /\ AppsOK /\ HistoryOK

(* Framing: the serve loop starts reading a header only at the start of a  *)
(* packet, until one of the two sides has terminated the session.          *)
InSync ==
  \A p \in Peers :
    spc[p] = "garbled" => terminated[p] \/ terminated[Other(p)]

(* Demultiplexing: a packet that is not the first of a call is never taken *)
(* for a new request, which would end the session for every other call.    *)
NoProtocolError ==
  \A p \in Peers :
    serveRet[p] = "protocol" => terminated[p] \/ terminated[Other(p)]

(* A request is active or closed, never both: a late packet of a closed    *)
(* request cannot reach the source or the handler again.                   *)
ClosedStaysClosed ==
  /\ \A p \in Peers : reqs[p] \cap reqsClosed[p] = {}
  /\ \A c \in Calls : hpc[c] = "none" => c \notin reqs[HandlerOf(c)]

(* Terminate racing start: a call whose first packet was sent is swept, or *)
(* its start fails; when the connection is closed none is left waiting.    *)
NoStrandedCall ==
  \A c \in Calls :
    LET p == CallerOf[c] IN
    connClosed[p] /\ Alive(p) /\ cpc[c] = "open" => failed[p][c] # "nil"

(* A caller whose source ends with EOF, and who did not end it, has all    *)
(* the data the handler wrote, and the handler did end the stream: neither *)
(* Terminate nor a dead connection passes for the end of a stream.         *)
CleanEndIsComplete ==
  \A c \in Calls :
    failed[CallerOf[c]][c] = "EOF" =>
      ended[HandlerOf(c)][c] = 1 + got[CallerOf[c]][c]

HasEnded(p, c) == ended[p][c] > 0

(* A sink that a done context or a failed write has closed, so that no end *)
(* was sent on it and none ever will be, not even as an answer.            *)
Mute(p, c) == sinkClosed[p][c] /\ ~HasEnded(p, c)

(* Once either side has sent an end packet for a call, both sides drop the *)
(* request, since closeStream answers an end with an end; all but the side *)
(* whose remote is mute, which keeps it until the session ends.  A loop    *)
(* that lost its place (see InSync) may hold up any end for ever.          *)
EndConverges ==
  \A p \in Peers, c \in Calls :
    c \in reqs[p] /\ (HasEnded(p, c) \/ HasEnded(Other(p), c)) ~>
      \/ c \notin reqs[p] \/ Mute(Other(p), c) \/ ~Alive(p)
      \/ \E q \in Peers : spc[q] = "garbled"

(* An async call that was sent returns, with the handler's answer or with  *)
(* the refusal of the remote, whatever the other calls on the two loops    *)
(* do.  (When the session ends instead, NoStrandedCall fails the call.)    *)
AsyncReturns ==
  \A c \in Calls :
    (TypeOf[c] = "async" /\ cpc[c] = "open") ~> (cpc[c] = "done" \/ ~Alive(CallerOf[c]))

(* When one side closes its end of the connection, or dies, the serve loop *)
(* of the other ends and closes its end too (the calls: NoStrandedCall).   *)
SessionEnds ==
  \A p \in Peers : connClosed[Other(p)] ~> connClosed[p]

===============================================================================
