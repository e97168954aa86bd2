-------------------------- MODULE BackpressureProofs ---------------------------
(***************************************************************************)
(* Theorems about Backpressure, for any calls, any capacity of the         *)
(* transport and any behaviour of applications, Terminates and stalled     *)
(* peers: who holds which lock, that packets stay whole, and that no data  *)
(* follows an end with an error.                                           *)
(***************************************************************************)
EXTENDS Backpressure, SequenceTheorems, TLAPS

-------------------------------------------------------------------------------
(* The inductive invariant.  First the types.                              *)

PktKind == {"call", "data", "ok", "err"}
Packet == [part : {"header", "body"}, pkt : PktKind, call : Calls]
JobState == [at : {"off", "header", "body", "sent", "failed"}, pkt : {"none"} \cup PktKind]

ConnOK ==
  /\ wire \in [Peers -> Seq(Packet)] /\ connClosed \in [Peers -> BOOLEAN]
  /\ \A p \in Peers : Len(wire[p]) <= Capacity
JobsOK ==
  /\ wmu \in [Peers -> (Calls \X Job) \cup {Nobody}]
  /\ job \in [Peers -> [Calls -> [Job -> JobState]]]
SinksOK ==
  /\ smu \in [Peers -> [Calls -> Closer \cup {"none"}]]
  /\ sinkClosed \in [Peers -> [Calls -> {"nil", "err", "io", "timeout", "canceled"}]]
TablesOK ==
  /\ rlock \in [Peers -> {"none", "serve", "term"}]
  /\ reqs \in [Peers -> SUBSET Calls] /\ reqsClosed \in [Peers -> SUBSET Calls]
  /\ aborted \in [Peers -> SUBSET Calls] /\ erred \in [Peers -> SUBSET Calls]
PlacesOK ==
  /\ spc \in [Peers -> {"read", "lookup", "fetch", "body", "discard", "parse", "refuse",
                        "close", "closing", "forget", "exit"}]
  /\ tpc \in [Peers -> {"idle", "want", "sweep", "done"}]
  /\ apc \in [Peers -> [Calls -> {"idle", "done"}]]
  /\ wrote \in [Peers -> [Calls -> 0 .. MaxData]]
  /\ cur \in [Peers -> [part : {"none", "header", "body"}, pkt : {"none"} \cup PktKind,
                        call : Calls \cup {"none"}]]
Types == ConnOK /\ JobsOK /\ SinksOK /\ TablesOK /\ PlacesOK

(* r.rLock goes with the places of serve and Terminate.                    *)
LockInv ==
  \A p \in Peers :
    /\ tpc[p] = "sweep" <=> rlock[p] = "term"
    /\ spc[p] \in {"discard", "parse", "refuse"} <=> rlock[p] = "serve"

(* Writer.mu goes with the packet whose header is out.                     *)
WriterInv ==
  \A p \in Peers, c \in Calls, j \in Job : job[p][c][j].at = "body" <=> wmu[p] = <<c, j>>

(* From the header to the end of its work the loop has a header in hand;   *)
(* only calls to be refused are made, and so only they are parsed.         *)
CurInv ==
  \A p \in Peers :
    /\ spc[p] \notin {"read", "exit"} => cur[p] \in Packet /\ cur[p].part = "header"
    /\ spc[p] \in {"lookup", "fetch", "parse", "refuse"} =>
         (cur[p].pkt = "call" => cur[p].call \in Refused)
    /\ spc[p] \in {"parse", "refuse"} => cur[p].pkt = "call"
CallInv ==
  \A p \in Peers : \A i \in 1 .. Len(wire[p]) :
    wire[p][i].pkt = "call" => wire[p][i].call \in Refused

-------------------------------------------------------------------------------
(* The jobs of one sink.                                                   *)

Active(p, c, j) == job[p][c][j].at # "off"

(* What a packet is tells who writes it.                                   *)
KindInv(p, c) ==
  /\ Active(p, c, "write") => /\ job[p][c]["write"].at \in {"header", "body"}
                              /\ job[p][c]["write"].pkt = IF c \in Refused THEN "call" ELSE "data"
  /\ \A j \in Closer : Active(p, c, j) => job[p][c][j].pkt \in {"ok", "err"}

(* A call is refused while the loop waits for its refusal to be sent.      *)
RefuseInv(p, c) ==
  Active(p, c, "refuse") =>
    /\ job[p][c]["refuse"].pkt = "err" /\ c \in Refused
    /\ spc[p] = "refuse" /\ cur[p].call = c

(* closedMu: a Write has the sink to itself.  So has a close, until its    *)
(* caller times out; then bs.closed is set and nobody closes it again.     *)
SinkInv(p, c) ==
  /\ smu[p][c] = "app" => c \notin Refused
  /\ Active(p, c, "write") /\ c \in Refused => apc[p][c] = "done"
  /\ Active(p, c, "write") /\ c \notin Refused =>
       smu[p][c] = "app" /\ \A j \in Closer : ~Active(p, c, j)
  /\ smu[p][c] = "none" /\ sinkClosed[p][c] = "nil" => \A j \in Closer : ~Active(p, c, j)
  /\ smu[p][c] # "none" => \A j \in Closer \ {smu[p][c]} : ~Active(p, c, j)

(* An error end, sent or about to be, has closed the sink.                 *)
ErrInv(p, c) ==
  c \notin Refused /\ (c \in erred[p] \/ \E j \in Closer : Active(p, c, j) /\ job[p][c][j].pkt = "err")
    => sinkClosed[p][c] # "nil" /\ ~Active(p, c, "write")

SinkOK(p, c) == KindInv(p, c) /\ SinkInv(p, c) /\ ErrInv(p, c)

-------------------------------------------------------------------------------
(* The wire.                                                               *)

InHand(p) == spc[p] \in {"lookup", "fetch", "body", "discard", "parse"}
BodyOf(h) == [h EXCEPT !.part = "body"]

(* A header is followed by its body, on the wire and after the one in hand. *)
WholeInv ==
  \A p \in Peers :
    /\ \A i \in 1 .. Len(wire[p]) - 1 :
         wire[p][i].part = "header" => wire[p][i + 1] = BodyOf(wire[p][i])
    /\ InHand(p) /\ wire[p] # << >> => wire[p][1] = BodyOf(cur[p])

(* A header at the end is that of the packet whose writer has the lock, as *)
(* long as neither end is closed.                                          *)
HeaderOf(p, h) ==
  \E c \in Calls, j \in Job :
    wmu[p] = <<c, j>> /\ h = [part |-> "header", pkt |-> job[p][c][j].pkt, call |-> c]

LastOf(p, q) ==
  ~connClosed[p] /\ ~connClosed[q] =>
    /\ wire[q] # << >> /\ wire[q][Len(wire[q])].part = "header" => HeaderOf(p, wire[q][Len(wire[q])])
    /\ wire[q] = << >> /\ InHand(q) => HeaderOf(p, cur[q])
LastInv == \A p \in Peers : LastOf(p, Other(p))

IInv ==
  /\ Types /\ LockInv /\ WriterInv /\ CurInv /\ CallInv
  /\ \A p \in Peers, c \in Calls : SinkOK(p, c) /\ RefuseInv(p, c)
  /\ WholeInv /\ LastInv

-------------------------------------------------------------------------------
(* Facts about the operators of the model.                                 *)

(* There are two endpoints, and Other leads from one to the other.         *)
LEMMA OtherPeer ==
  ASSUME NEW p \in Peers
  PROVE  /\ Other(p) \in Peers /\ Other(p) # p /\ Other(Other(p)) = p
         /\ \A q \in Peers : q = p \/ q = Other(p)
<1>1. PICK a \in Peers, b \in Peers : a # b /\ Peers = {a, b}
  BY BackpressureAssumption
<1> QED
  BY <1>1 DEF Other

(* An update of one place of a table of sinks.                             *)
LEMMA GridUpdate ==
  ASSUME NEW V, NEW f \in [Peers -> [Calls -> V]], NEW p \in Peers, NEW c \in Calls, NEW x \in V
  PROVE  /\ [f EXCEPT ![p][c] = x] \in [Peers -> [Calls -> V]]
         /\ \A q \in Peers, d \in Calls :
              [f EXCEPT ![p][c] = x][q][d] = IF q = p /\ d = c THEN x ELSE f[q][d]
OBVIOUS

(* The same for one job of a sink.                                         *)
LEMMA JobUpdate ==
  ASSUME JobsOK, NEW p \in Peers, NEW c \in Calls, NEW j \in Job, NEW x \in JobState
  PROVE  /\ [job EXCEPT ![p][c][j] = x] \in [Peers -> [Calls -> [Job -> JobState]]]
         /\ [job EXCEPT ![p][c][j] = x][p][c][j] = x
         /\ \A q \in Peers, d \in Calls, k \in Job :
              <<q, d, k>> # <<p, c, j>> => [job EXCEPT ![p][c][j] = x][q][d][k] = job[q][d][k]
BY DEF JobsOK

(* What starts a packet.                                                   *)
LEMMA BeginJob ==
  ASSUME JobsOK, NEW p \in Peers, NEW c \in Calls, NEW j \in Job, NEW pkt \in PktKind,
         Begin(p, c, j, pkt)
  PROVE  /\ job' \in [Peers -> [Calls -> [Job -> JobState]]]
         /\ job'[p][c][j].at = "header" /\ job'[p][c][j].pkt = pkt
         /\ \A q \in Peers, d \in Calls, k \in Job :
              <<q, d, k>> # <<p, c, j>> => job'[q][d][k] = job[q][d][k]
<1> DEFINE x == [at |-> "header", pkt |-> pkt]
<1>1. x \in JobState /\ x.at = "header" /\ x.pkt = pkt
  BY DEF JobState
<1>2. job' = [job EXCEPT ![p][c][j] = x]
  BY DEF Begin
<1> HIDE DEF x
<1> QED
  BY <1>1, <1>2, JobUpdate

(* A header that goes out.                                                 *)
LEMMA HeaderJob ==
  ASSUME JobsOK, NEW p \in Peers, NEW c \in Calls, NEW j \in Job, WriteHeader(p, c, j)
  PROVE  /\ job' \in [Peers -> [Calls -> [Job -> JobState]]]
         /\ job'[p][c][j].at = "body" /\ job'[p][c][j].pkt = job[p][c][j].pkt
         /\ \A q \in Peers, d \in Calls, k \in Job :
              <<q, d, k>> # <<p, c, j>> => job'[q][d][k] = job[q][d][k]
<1> DEFINE x == [job[p][c][j] EXCEPT !.at = "body"]
<1>1. job[p][c][j] \in JobState
  BY DEF JobsOK
<1>2. x \in JobState /\ x.at = "body" /\ x.pkt = job[p][c][j].pkt
  BY <1>1 DEF JobState
<1>3. job' = [job EXCEPT ![p][c][j] = x]
  BY DEF WriteHeader
<1> HIDE DEF x
<1> QED
  BY <1>2, <1>3, JobUpdate

(* A packet that is done, or failed: its job is over, or waits for someone *)
(* to look at the result.                                                  *)
LEMMA DoneJob ==
  ASSUME JobsOK, NEW p \in Peers, NEW c \in Calls, NEW j \in Job,
         NEW result \in {"sent", "failed"},
         WriteDone(p, c, j, result)
  PROVE  /\ job' \in [Peers -> [Calls -> [Job -> JobState]]]
         /\ job'[p][c][j].at \in {"off", result}
         /\ j = "write" => job'[p][c][j].at = "off"
         /\ j \in Closer /\ smu[p][c] # j => job'[p][c][j].at = "off"
         /\ job'[p][c][j].at # "off" => job'[p][c][j].pkt = job[p][c][j].pkt
         /\ \A q \in Peers, d \in Calls, k \in Job :
              <<q, d, k>> # <<p, c, j>> => job'[q][d][k] = job[q][d][k]
<1> DEFINE x == IF j = "write" \/ (j \in Closer /\ smu[p][c] # j) THEN Off
                ELSE [job[p][c][j] EXCEPT !.at = result]
<1>1. job[p][c][j] \in JobState
  BY DEF JobsOK
<1>2. x \in JobState
  BY <1>1 DEF JobState, Off
<1>3. /\ x.at \in {"off", result}
      /\ j = "write" => x.at = "off"
      /\ j \in Closer /\ smu[p][c] # j => x.at = "off"
      /\ x.at # "off" => x.pkt = job[p][c][j].pkt
  BY <1>1 DEF JobState, Off
<1>4. job' = [job EXCEPT ![p][c][j] = x]
  BY DEF WriteDone
<1> HIDE DEF x
<1> QED
  BY <1>2, <1>3, <1>4, JobUpdate

(* A job that is taken off.                                                *)
LEMMA OffState == Off \in JobState /\ Off.at = "off"
BY DEF Off, JobState

(* A part that is put on the wire.                                         *)
LEMMA PutWire ==
  ASSUME Types, NEW p \in Peers, NEW c \in Calls, NEW j \in Job, NEW part \in {"header", "body"},
         job[p][c][j].pkt \in PktKind, Put(p, c, j, part)
  PROVE  /\ wire' \in [Peers -> Seq(Packet)] /\ \A q \in Peers : Len(wire'[q]) <= Capacity
         /\ ~connClosed[p] /\ wire'[p] = wire[p]
         /\ IF connClosed[Other(p)] THEN wire'[Other(p)] = wire[Other(p)]
            ELSE wire'[Other(p)] = Append(wire[Other(p)],
                                          [part |-> part, pkt |-> job[p][c][j].pkt, call |-> c])
<1> DEFINE x == [part |-> part, pkt |-> job[p][c][j].pkt, call |-> c]
<1>1. x \in Packet
  BY DEF Packet
<1>2. Other(p) \in Peers /\ Other(p) # p
  BY OtherPeer
<1>3. /\ wire \in [Peers -> Seq(Packet)] /\ connClosed \in [Peers -> BOOLEAN]
      /\ \A q \in Peers : Len(wire[q]) <= Capacity
  BY DEF Types, ConnOK
<1>4. CASE connClosed[Other(p)]
  <2>1. wire' = wire
    BY <1>4 DEF Put
  <2> QED
    BY <1>3, <1>4, <2>1 DEF Put
<1>5. CASE ~connClosed[Other(p)]
  <2>1. /\ ~connClosed[p] /\ Len(wire[Other(p)]) < Capacity
        /\ wire' = [wire EXCEPT ![Other(p)] = Append(wire[Other(p)], x)]
    BY <1>5 DEF Put
  <2> HIDE DEF x
  <2>2. /\ Append(wire[Other(p)], x) \in Seq(Packet)
        /\ Len(Append(wire[Other(p)], x)) = Len(wire[Other(p)]) + 1
    BY <1>1, <1>2, <1>3, AppendProperties
  <2>3. Len(wire[Other(p)]) \in Nat /\ Capacity \in Nat
    BY <1>2, <1>3, BackpressureAssumption
  <2>4. Len(Append(wire[Other(p)], x)) <= Capacity
    BY <2>1, <2>2, <2>3
  <2>5. wire'[Other(p)] = Append(wire[Other(p)], x) /\ \A q \in Peers \ {Other(p)} : wire'[q] = wire[q]
    BY <1>2, <1>3, <2>1
  <2>6. wire' \in [Peers -> Seq(Packet)]
    BY <1>3, <2>1, <2>2
  <2>7. \A q \in Peers : Len(wire'[q]) <= Capacity
    BY <1>3, <2>4, <2>5
  <2> QED
    BY <1>2, <1>5, <2>1, <2>5, <2>6, <2>7 DEF x
<1> QED
  BY <1>4, <1>5

(* A part that is taken off the wire.                                      *)
LEMMA TakeWire ==
  ASSUME Types, NEW p \in Peers, wire[p] # << >>, wire' = [wire EXCEPT ![p] = Tail(@)]
  PROVE  /\ wire' \in [Peers -> Seq(Packet)] /\ \A q \in Peers : Len(wire'[q]) <= Capacity
         /\ Head(wire[p]) \in Packet /\ Head(wire[p]) = wire[p][1]
         /\ Len(wire[p]) \in Nat /\ Len(wire[p]) >= 1 /\ Len(wire'[p]) = Len(wire[p]) - 1
         /\ \A i \in 1 .. Len(wire'[p]) : wire'[p][i] = wire[p][i + 1]
         /\ \A q \in Peers \ {p} : wire'[q] = wire[q]
<1>1. /\ wire \in [Peers -> Seq(Packet)]
      /\ \A q \in Peers : Len(wire[q]) <= Capacity
  BY DEF Types, ConnOK
<1>2. wire'[p] = Tail(wire[p]) /\ \A q \in Peers \ {p} : wire'[q] = wire[q]
  BY <1>1
<1>3. /\ Tail(wire[p]) \in Seq(Packet) /\ Len(Tail(wire[p])) = Len(wire[p]) - 1
      /\ \A i \in 1 .. Len(Tail(wire[p])) : Tail(wire[p])[i] = wire[p][i + 1]
      /\ Head(wire[p]) \in Packet
  BY <1>1, HeadTailProperties
<1>4. Len(wire[p]) \in Nat /\ Len(wire[p]) >= 1 /\ Head(wire[p]) = wire[p][1]
  BY <1>1
<1>5. Capacity \in Nat
  BY BackpressureAssumption
<1>6. Len(wire'[p]) <= Capacity
  BY <1>1, <1>2, <1>3, <1>4, <1>5
<1>7. wire' \in [Peers -> Seq(Packet)]
  BY <1>1, <1>3
<1> QED
  BY <1>1, <1>2, <1>3, <1>4, <1>6, <1>7

(* CloseWithError: the closer has the lock and a packet of its own to send. *)
LEMMA CloseEffect ==
  ASSUME JobsOK, SinksOK, NEW p \in Peers, NEW c \in Calls, NEW by \in Closer, NEW err \in BOOLEAN,
         sinkClose(p, c, by, err)
  PROVE  /\ job' \in [Peers -> [Calls -> [Job -> JobState]]] /\ SinksOK'
         /\ job'[p][c][by].at = "header" /\ job'[p][c][by].pkt = IF err THEN "err" ELSE "ok"
         /\ \A q \in Peers, d \in Calls, k \in Job :
              <<q, d, k>> # <<p, c, by>> => job'[q][d][k] = job[q][d][k]
         /\ smu'[p][c] = by
         /\ sinkClosed'[p][c] = IF err THEN "err" ELSE sinkClosed[p][c]
         /\ \A q \in Peers, d \in Calls : <<q, d>> # <<p, c>> =>
              smu'[q][d] = smu[q][d] /\ sinkClosed'[q][d] = sinkClosed[q][d]
<1> DEFINE pkt == IF err THEN "err" ELSE "ok"
<1>1. pkt \in PktKind /\ by \in Job
  BY DEF PktKind, Job
<1>2. /\ smu' = [smu EXCEPT ![p][c] = by] /\ Begin(p, c, by, pkt)
      /\ sinkClosed' = IF err THEN [sinkClosed EXCEPT ![p][c] = "err"] ELSE sinkClosed
  BY DEF sinkClose
<1> HIDE DEF pkt
<1>3. /\ job' \in [Peers -> [Calls -> [Job -> JobState]]]
      /\ job'[p][c][by].at = "header" /\ job'[p][c][by].pkt = pkt
      /\ \A q \in Peers, d \in Calls, k \in Job :
           <<q, d, k>> # <<p, c, by>> => job'[q][d][k] = job[q][d][k]
  BY <1>1, <1>2, BeginJob
<1>4. /\ smu \in [Peers -> [Calls -> Closer \cup {"none"}]]
      /\ sinkClosed \in [Peers -> [Calls -> {"nil", "err", "io", "timeout", "canceled"}]]
  BY DEF SinksOK
<1>5. /\ smu' \in [Peers -> [Calls -> Closer \cup {"none"}]]
      /\ \A q \in Peers, d \in Calls : smu'[q][d] = IF q = p /\ d = c THEN by ELSE smu[q][d]
  BY <1>2, <1>4, GridUpdate
<1>6. /\ sinkClosed' \in [Peers -> [Calls -> {"nil", "err", "io", "timeout", "canceled"}]]
      /\ \A q \in Peers, d \in Calls :
           sinkClosed'[q][d] = IF q = p /\ d = c /\ err THEN "err" ELSE sinkClosed[q][d]
  BY <1>2, <1>4, GridUpdate
<1> QED
  BY <1>3, <1>5, <1>6 DEF pkt, SinksOK

(* Its return: with the answer of its goroutine, which is over, or after   *)
(* the timer, which leaves the goroutine where it is.                      *)
LEMMA CloseReturnsEffect ==
  ASSUME JobsOK, SinksOK, NEW p \in Peers, NEW c \in Calls, NEW by \in Closer,
         sinkCloseReturns(p, c, by)
  PROVE  /\ job' \in [Peers -> [Calls -> [Job -> JobState]]] /\ SinksOK'
         /\ smu[p][c] = by /\ smu'[p][c] = "none"
         /\ \A q \in Peers, d \in Calls, k \in Job :
              <<q, d, k>> # <<p, c, by>> => job'[q][d][k] = job[q][d][k]
         /\ \/ /\ Finished(p, c, by) /\ job'[p][c][by].at = "off"
               /\ sinkClosed'[p][c] \in {sinkClosed[p][c], "io"}
            \/ /\ ~Finished(p, c, by) /\ job'[p][c][by] = job[p][c][by]
               /\ sinkClosed'[p][c] = "timeout"
         /\ \A q \in Peers, d \in Calls : <<q, d>> # <<p, c>> =>
              smu'[q][d] = smu[q][d] /\ sinkClosed'[q][d] = sinkClosed[q][d]
<1>1. /\ smu \in [Peers -> [Calls -> Closer \cup {"none"}]]
      /\ sinkClosed \in [Peers -> [Calls -> {"nil", "err", "io", "timeout", "canceled"}]]
      /\ job \in [Peers -> [Calls -> [Job -> JobState]]] /\ by \in Job
  BY DEF SinksOK, JobsOK, Job
<1>2. smu[p][c] = by /\ smu' = [smu EXCEPT ![p][c] = "none"]
  BY DEF sinkCloseReturns
<1>3. /\ smu' \in [Peers -> [Calls -> Closer \cup {"none"}]]
      /\ \A q \in Peers, d \in Calls : smu'[q][d] = IF q = p /\ d = c THEN "none" ELSE smu[q][d]
  BY <1>1, <1>2, GridUpdate
<1>4. CASE Finished(p, c, by)
  <2>1. /\ job' = [job EXCEPT ![p][c][by] = Off]
        /\ sinkClosed' = IF job[p][c][by].at = "failed"
                         THEN [sinkClosed EXCEPT ![p][c] = "io"] ELSE sinkClosed
    BY <1>4 DEF sinkCloseReturns
  <2>2. /\ sinkClosed' \in [Peers -> [Calls -> {"nil", "err", "io", "timeout", "canceled"}]]
        /\ sinkClosed'[p][c] \in {sinkClosed[p][c], "io"}
        /\ \A q \in Peers, d \in Calls : <<q, d>> # <<p, c>> => sinkClosed'[q][d] = sinkClosed[q][d]
    BY <1>1, <2>1, GridUpdate
  <2>3. /\ job' \in [Peers -> [Calls -> [Job -> JobState]]] /\ job'[p][c][by].at = "off"
        /\ \A q \in Peers, d \in Calls, k \in Job :
             <<q, d, k>> # <<p, c, by>> => job'[q][d][k] = job[q][d][k]
    BY <1>1, <2>1, OffState, JobUpdate
  <2> QED
    BY <1>2, <1>3, <1>4, <2>2, <2>3 DEF SinksOK
<1>5. CASE ~Finished(p, c, by)
  <2>1. job' = job /\ sinkClosed' = [sinkClosed EXCEPT ![p][c] = "timeout"]
    BY <1>5 DEF sinkCloseReturns
  <2>2. /\ sinkClosed' \in [Peers -> [Calls -> {"nil", "err", "io", "timeout", "canceled"}]]
        /\ sinkClosed'[p][c] = "timeout"
        /\ \A q \in Peers, d \in Calls : <<q, d>> # <<p, c>> => sinkClosed'[q][d] = sinkClosed[q][d]
    BY <1>1, <2>1, GridUpdate
  <2> QED
    BY <1>1, <1>2, <1>3, <1>5, <2>1, <2>2 DEF SinksOK
<1> QED
  BY <1>4, <1>5

(* What else a packet that is over changes: a Write gives up the sink.     *)
LEMMA DoneEffect ==
  ASSUME JobsOK, SinksOK, NEW p \in Peers, NEW c \in Calls, NEW j \in Job,
         NEW result \in {"sent", "failed"},
         WriteDone(p, c, j, result)
  PROVE  /\ SinksOK'
         /\ IF job[p][c][j].pkt = "data"
            THEN smu'[p][c] = "none" /\ sinkClosed'[p][c] \in {sinkClosed[p][c], "io"}
            ELSE smu'[p][c] = smu[p][c] /\ sinkClosed'[p][c] = sinkClosed[p][c]
         /\ \A q \in Peers, d \in Calls : <<q, d>> # <<p, c>> =>
              smu'[q][d] = smu[q][d] /\ sinkClosed'[q][d] = sinkClosed[q][d]
         /\ wmu' = [wmu EXCEPT ![p] = Nobody]
<1>1. /\ smu \in [Peers -> [Calls -> Closer \cup {"none"}]]
      /\ sinkClosed \in [Peers -> [Calls -> {"nil", "err", "io", "timeout", "canceled"}]]
  BY DEF SinksOK
<1>2. /\ wmu' = [wmu EXCEPT ![p] = Nobody]
      /\ smu' = IF job[p][c][j].pkt = "data" THEN [smu EXCEPT ![p][c] = "none"] ELSE smu
      /\ sinkClosed' = IF job[p][c][j].pkt = "data" /\ result = "failed"
                       THEN [sinkClosed EXCEPT ![p][c] = "io"] ELSE sinkClosed
  BY DEF WriteDone
<1>3. CASE job[p][c][j].pkt = "data"
  <2>1. /\ smu' \in [Peers -> [Calls -> Closer \cup {"none"}]]
        /\ \A q \in Peers, d \in Calls : smu'[q][d] = IF q = p /\ d = c THEN "none" ELSE smu[q][d]
    BY <1>1, <1>2, <1>3, GridUpdate
  <2>2. /\ sinkClosed' \in [Peers -> [Calls -> {"nil", "err", "io", "timeout", "canceled"}]]
        /\ sinkClosed'[p][c] \in {sinkClosed[p][c], "io"}
        /\ \A q \in Peers, d \in Calls : <<q, d>> # <<p, c>> => sinkClosed'[q][d] = sinkClosed[q][d]
    BY <1>1, <1>2, <1>3, GridUpdate
  <2> QED
    BY <1>2, <1>3, <2>1, <2>2 DEF SinksOK
<1>4. CASE job[p][c][j].pkt # "data"
  BY <1>1, <1>2, <1>4 DEF SinksOK
<1> QED
  BY <1>2, <1>3, <1>4

-------------------------------------------------------------------------------
(* The steps: types.                                                       *)

(* Whatever is under way is a packet.                                      *)
LEMMA JobPkt ==
  ASSUME NEW p \in Peers, NEW c \in Calls, NEW j \in Job, SinkOK(p, c), RefuseInv(p, c),
         job[p][c][j].at # "off"
  PROVE  job[p][c][j].pkt \in PktKind
BY DEF SinkOK, KindInv, RefuseInv, Active, PktKind, Job, Closer

(* What the loop works on is a header.                                     *)
LEMMA CurCall ==
  ASSUME IInv, NEW p \in Peers, spc[p] \notin {"read", "exit"}
  PROVE  cur[p] \in Packet /\ cur[p].call \in Calls
BY DEF IInv, CurInv, Packet

(* Parts go on the wire at its end and leave it at its head.               *)
LEMMA ConnStep ==
  ASSUME IInv, [Next]_vars
  PROVE  ConnOK'
<1>1. ASSUME NEW p \in Peers, ReadHeader(p) PROVE ConnOK'
  <2>1. wire[p] # << >> /\ wire' = [wire EXCEPT ![p] = Tail(@)] /\ connClosed' = connClosed
    BY <1>1 DEF ReadHeader
  <2> QED
    BY <2>1, TakeWire DEF ConnOK, IInv, Types
<1>2. ASSUME NEW p \in Peers, Lookup(p) PROVE UNCHANGED <<wire, connClosed>>
  BY <1>2 DEF Lookup, connVars
<1>fetch. ASSUME NEW p \in Peers, fetchRequest(p) PROVE UNCHANGED <<wire, connClosed>>
  BY <1>fetch DEF fetchRequest, connVars
<1>3. ASSUME NEW p \in Peers, ReadBody(p) PROVE ConnOK'
  <2>1. wire[p] # << >> /\ wire' = [wire EXCEPT ![p] = Tail(@)] /\ connClosed' = connClosed
    BY <1>3 DEF ReadBody
  <2> QED
    BY <2>1, TakeWire DEF ConnOK, IInv, Types
<1>4. ASSUME NEW p \in Peers, ReadFails(p) PROVE UNCHANGED <<wire, connClosed>>
  BY <1>4 DEF ReadFails, connVars
<1>5. ASSUME NEW p \in Peers, noSuchMethod(p) PROVE UNCHANGED <<wire, connClosed>>
  BY <1>5 DEF noSuchMethod, connVars
<1>6. ASSUME NEW p \in Peers, closeStream(p) PROVE UNCHANGED <<wire, connClosed>>
  BY <1>6 DEF closeStream, connVars
<1>7. ASSUME NEW p \in Peers, closeStreamReturns(p) PROVE UNCHANGED <<wire, connClosed>>
  BY <1>7 DEF closeStreamReturns, connVars
<1>8. ASSUME NEW p \in Peers, closeStreamForget(p) PROVE UNCHANGED <<wire, connClosed>>
  BY <1>8 DEF closeStreamForget, connVars
<1>9. ASSUME NEW p \in Peers, Terminate(p) PROVE UNCHANGED <<wire, connClosed>>
  BY <1>9 DEF Terminate, connVars
<1>10. ASSUME NEW p \in Peers, TerminateLock(p) PROVE UNCHANGED <<wire, connClosed>>
  BY <1>10 DEF TerminateLock, connVars
<1>11. ASSUME NEW p \in Peers, TerminateClose(p) PROVE ConnOK'
  <2>1. wire' = wire /\ connClosed' = [connClosed EXCEPT ![p] = TRUE]
    BY <1>11 DEF TerminateClose
  <2> QED
    BY <2>1 DEF ConnOK, IInv, Types
<1>12. ASSUME NEW p \in Peers, NEW c \in Calls, TerminateSweep(p, c)
       PROVE  UNCHANGED <<wire, connClosed>>
  BY <1>12 DEF TerminateSweep, connVars
<1>13. ASSUME NEW p \in Peers, NEW c \in Calls, TerminateSweepReturns(p, c)
       PROVE  UNCHANGED <<wire, connClosed>>
  BY <1>13 DEF TerminateSweepReturns, connVars
<1>14. ASSUME NEW p \in Peers, NEW c \in Calls, Write(p, c)
       PROVE  UNCHANGED <<wire, connClosed>>
  BY <1>14 DEF Write, connVars
<1>15. ASSUME NEW p \in Peers, NEW c \in Calls, CloseWithError(p, c)
       PROVE  UNCHANGED <<wire, connClosed>>
  BY <1>15 DEF CloseWithError, connVars
<1>16. ASSUME NEW p \in Peers, NEW c \in Calls, CloseReturns(p, c)
       PROVE  UNCHANGED <<wire, connClosed>>
  BY <1>16 DEF CloseReturns, connVars
<1>17. ASSUME NEW p \in Peers, NEW c \in Calls, NEW j \in Job, WriteHeader(p, c, j)
       PROVE  ConnOK'
  <2>1. job[p][c][j].at # "off"
    BY <1>17 DEF WriteHeader
  <2>2. job[p][c][j].pkt \in PktKind
    BY <2>1, JobPkt DEF IInv
  <2>3. connClosed' = connClosed /\ Put(p, c, j, "header")
    BY <1>17 DEF WriteHeader
  <2>4. wire' \in [Peers -> Seq(Packet)] /\ \A q \in Peers : Len(wire'[q]) <= Capacity
    BY <2>2, <2>3, PutWire DEF IInv
  <2> QED
    BY <2>3, <2>4 DEF ConnOK, IInv, Types
<1>18. ASSUME NEW p \in Peers, NEW c \in Calls, NEW j \in Job, WriteBody(p, c, j)
       PROVE  ConnOK'
  <2>1. job[p][c][j].at # "off"
    BY <1>18 DEF WriteBody
  <2>2. job[p][c][j].pkt \in PktKind
    BY <2>1, JobPkt DEF IInv
  <2>3. connClosed' = connClosed /\ Put(p, c, j, "body")
    BY <1>18 DEF WriteBody, WriteDone
  <2>4. wire' \in [Peers -> Seq(Packet)] /\ \A q \in Peers : Len(wire'[q]) <= Capacity
    BY <2>2, <2>3, PutWire DEF IInv
  <2> QED
    BY <2>3, <2>4 DEF ConnOK, IInv, Types
<1>19. ASSUME NEW p \in Peers, NEW c \in Calls, NEW j \in Job, WriteFails(p, c, j)
       PROVE  UNCHANGED <<wire, connClosed>>
  BY <1>19 DEF WriteFails, WriteDone, connVars
<1>20. ASSUME NEW c \in Calls, start(c) PROVE UNCHANGED <<wire, connClosed>>
  BY <1>20 DEF start, connVars
<1>21. ASSUME UNCHANGED vars PROVE UNCHANGED <<wire, connClosed>>
  BY <1>21 DEF vars, connVars
<1>22. ASSUME UNCHANGED <<wire, connClosed>> PROVE ConnOK'
  BY <1>22 DEF ConnOK, IInv, Types
<1> QED
  BY <1>1, <1>2, <1>fetch, <1>3, <1>4, <1>5, <1>6, <1>7, <1>8, <1>9, <1>10, <1>11, <1>12, <1>13,
     <1>14, <1>15, <1>16, <1>17, <1>18, <1>19, <1>20, <1>21, <1>22
  DEF Next, ServeStep, TerminateStep, WritePacket

(* Jobs, Writer.mu and the sinks keep their types.                         *)
LEMMA JobsStep ==
  ASSUME IInv, [Next]_vars, JobsOK, SinksOK
  PROVE  (JobsOK /\ SinksOK)'
<1>1. ASSUME NEW p \in Peers, ReadHeader(p) PROVE UNCHANGED <<wmu, job, smu, sinkClosed>>
  BY <1>1 DEF ReadHeader, jobVars, sinkVars
<1>2. ASSUME NEW p \in Peers, Lookup(p) PROVE UNCHANGED <<wmu, job, smu, sinkClosed>>
  BY <1>2 DEF Lookup, jobVars, sinkVars
<1>fetch. ASSUME NEW p \in Peers, fetchRequest(p) PROVE UNCHANGED <<wmu, job, smu, sinkClosed>>
  BY <1>fetch DEF fetchRequest, jobVars, sinkVars
<1>3. ASSUME NEW p \in Peers, ReadBody(p) PROVE (JobsOK /\ SinksOK)'
  <2>0. cur[p].call \in Calls
    BY <1>3, CurCall DEF ReadBody
  <2>1. wmu' = wmu /\ smu' = smu /\ sinkClosed' = sinkClosed
    BY <1>3 DEF ReadBody, sinkVars
  <2>2. "refuse" \in Job /\ "err" \in PktKind
    BY DEF Job, PktKind
  <2>3. job' = job \/ Begin(p, cur[p].call, "refuse", "err")
    BY <1>3 DEF ReadBody
  <2>4. job' \in [Peers -> [Calls -> [Job -> JobState]]]
    BY <2>0, <2>2, <2>3, BeginJob DEF JobsOK
  <2> QED
    BY <2>1, <2>4 DEF JobsOK, SinksOK
<1>4. ASSUME NEW p \in Peers, ReadFails(p) PROVE UNCHANGED <<wmu, job, smu, sinkClosed>>
  BY <1>4 DEF ReadFails, jobVars, sinkVars
<1>5. ASSUME NEW p \in Peers, noSuchMethod(p) PROVE (JobsOK /\ SinksOK)'
  <2>0. cur[p].call \in Calls
    BY <1>5, CurCall DEF noSuchMethod
  <2>1. wmu' = wmu /\ smu' = smu /\ sinkClosed' = sinkClosed
    BY <1>5 DEF noSuchMethod, sinkVars
  <2>2. "refuse" \in Job /\ job' = [job EXCEPT ![p][cur[p].call]["refuse"] = Off]
    BY <1>5 DEF noSuchMethod, Job
  <2>3. job' \in [Peers -> [Calls -> [Job -> JobState]]]
    BY <2>0, <2>2, OffState, JobUpdate
  <2> QED
    BY <2>1, <2>3 DEF JobsOK, SinksOK
<1>6. ASSUME NEW p \in Peers, closeStream(p) PROVE (JobsOK /\ SinksOK)'
  <2>0. cur[p].call \in Calls
    BY <1>6, CurCall DEF closeStream
  <2>1. wmu' = wmu /\ "serve" \in Closer
    BY <1>6 DEF closeStream, Closer
  <2>2. CASE \E err \in BOOLEAN : sinkClose(p, cur[p].call, "serve", err)
    <3>1. PICK err \in BOOLEAN : sinkClose(p, cur[p].call, "serve", err)
      BY <2>2
    <3> QED
      BY <2>1, <3>1, <2>0, CloseEffect DEF JobsOK
  <2>3. CASE smu' = smu /\ sinkClosed' = sinkClosed /\ job' = job
    BY <2>1, <2>3 DEF JobsOK, SinksOK
  <2> QED
    BY <1>6, <2>2, <2>3 DEF closeStream, sinkVars
<1>7. ASSUME NEW p \in Peers, closeStreamReturns(p) PROVE (JobsOK /\ SinksOK)'
  <2>0. cur[p].call \in Calls
    BY <1>7, CurCall DEF closeStreamReturns
  <2>1. wmu' = wmu /\ "serve" \in Closer /\ sinkCloseReturns(p, cur[p].call, "serve")
    BY <1>7 DEF closeStreamReturns, Closer
  <2> QED
    BY <2>0, <2>1, CloseReturnsEffect DEF JobsOK
<1>8. ASSUME NEW p \in Peers, closeStreamForget(p)
      PROVE  UNCHANGED <<wmu, job, smu, sinkClosed>>
  BY <1>8 DEF closeStreamForget, jobVars, sinkVars
<1>9. ASSUME NEW p \in Peers, Terminate(p) PROVE UNCHANGED <<wmu, job, smu, sinkClosed>>
  BY <1>9 DEF Terminate, jobVars, sinkVars
<1>10. ASSUME NEW p \in Peers, TerminateLock(p)
       PROVE  UNCHANGED <<wmu, job, smu, sinkClosed>>
  BY <1>10 DEF TerminateLock, jobVars, sinkVars
<1>11. ASSUME NEW p \in Peers, TerminateClose(p)
       PROVE  UNCHANGED <<wmu, job, smu, sinkClosed>>
  BY <1>11 DEF TerminateClose, jobVars, sinkVars
<1>12. ASSUME NEW p \in Peers, NEW c \in Calls, TerminateSweep(p, c)
       PROVE  (JobsOK /\ SinksOK)'
  <2>1. wmu' = wmu /\ "term" \in Closer
    BY <1>12 DEF TerminateSweep, Closer
  <2>2. CASE \E err \in BOOLEAN : sinkClose(p, c, "term", err)
    <3>1. PICK err \in BOOLEAN : sinkClose(p, c, "term", err)
      BY <2>2
    <3> QED
      BY <2>1, <3>1, CloseEffect DEF JobsOK
  <2>3. CASE smu' = smu /\ sinkClosed' = sinkClosed /\ job' = job
    BY <2>1, <2>3 DEF JobsOK, SinksOK
  <2> QED
    BY <1>12, <2>2, <2>3 DEF TerminateSweep, sinkVars
<1>13. ASSUME NEW p \in Peers, NEW c \in Calls, TerminateSweepReturns(p, c)
       PROVE  (JobsOK /\ SinksOK)'
  <2>1. wmu' = wmu /\ "term" \in Closer /\ sinkCloseReturns(p, c, "term")
    BY <1>13 DEF TerminateSweepReturns, Closer
  <2> QED
    BY <2>1, CloseReturnsEffect DEF JobsOK
<1>14. ASSUME NEW p \in Peers, NEW c \in Calls, Write(p, c) PROVE (JobsOK /\ SinksOK)'
  <2>1. wmu' = wmu /\ "write" \in Job /\ "data" \in PktKind /\ "app" \in Closer
    BY <1>14 DEF Write, Job, Closer, PktKind
  <2>2. CASE StreamCtxDone(p, c)
    <3>1. smu' = smu /\ job' = job /\ sinkClosed' = [sinkClosed EXCEPT ![p][c] = "canceled"]
      BY <1>14, <2>2 DEF Write
    <3> QED
      BY <2>1, <3>1 DEF JobsOK, SinksOK
  <2>3. CASE ~StreamCtxDone(p, c)
    <3>1. /\ smu' = [smu EXCEPT ![p][c] = "app"] /\ sinkClosed' = sinkClosed
          /\ Begin(p, c, "write", "data")
      BY <1>14, <2>3 DEF Write
    <3>2. job' \in [Peers -> [Calls -> [Job -> JobState]]]
      BY <2>1, <3>1, BeginJob
    <3>3. SinksOK'
      BY <2>1, <3>1 DEF SinksOK
    <3> QED
      BY <2>1, <3>2, <3>3 DEF JobsOK
  <2> QED
    BY <2>2, <2>3
<1>15. ASSUME NEW p \in Peers, NEW c \in Calls, CloseWithError(p, c)
       PROVE  (JobsOK /\ SinksOK)'
  <2>1. wmu' = wmu /\ "app" \in Closer
    BY <1>15 DEF CloseWithError, Closer
  <2>2. PICK err \in BOOLEAN : sinkClose(p, c, "app", err)
    BY <1>15 DEF CloseWithError
  <2> QED
    BY <2>1, <2>2, CloseEffect DEF JobsOK
<1>16. ASSUME NEW p \in Peers, NEW c \in Calls, CloseReturns(p, c)
       PROVE  (JobsOK /\ SinksOK)'
  <2>1. wmu' = wmu /\ "app" \in Closer /\ sinkCloseReturns(p, c, "app")
    BY <1>16 DEF CloseReturns, Closer
  <2> QED
    BY <2>1, CloseReturnsEffect DEF JobsOK
<1>17. ASSUME NEW p \in Peers, NEW c \in Calls, NEW j \in Job, WriteHeader(p, c, j)
       PROVE  (JobsOK /\ SinksOK)'
  <2>1. job' \in [Peers -> [Calls -> [Job -> JobState]]]
    BY <1>17, HeaderJob
  <2>2. wmu' = [wmu EXCEPT ![p] = <<c, j>>] /\ smu' = smu /\ sinkClosed' = sinkClosed
    BY <1>17 DEF WriteHeader, sinkVars
  <2> QED
    BY <2>1, <2>2 DEF JobsOK, SinksOK
<1>18. ASSUME NEW p \in Peers, NEW c \in Calls, NEW j \in Job, WriteBody(p, c, j)
       PROVE  (JobsOK /\ SinksOK)'
  <2>1. \E result \in {"sent", "failed"} : WriteDone(p, c, j, result)
    BY <1>18 DEF WriteBody
  <2>2. job' \in [Peers -> [Calls -> [Job -> JobState]]] /\ SinksOK'
    BY <2>1, DoneJob, DoneEffect
  <2>3. wmu' = [wmu EXCEPT ![p] = Nobody]
    BY <2>1, DoneEffect
  <2> QED
    BY <2>2, <2>3 DEF JobsOK
<1>19. ASSUME NEW p \in Peers, NEW c \in Calls, NEW j \in Job, WriteFails(p, c, j)
       PROVE  (JobsOK /\ SinksOK)'
  <2>1. \E result \in {"sent", "failed"} : WriteDone(p, c, j, result)
    BY <1>19 DEF WriteFails
  <2>2. job' \in [Peers -> [Calls -> [Job -> JobState]]] /\ SinksOK'
    BY <2>1, DoneJob, DoneEffect
  <2>3. wmu' = [wmu EXCEPT ![p] = Nobody]
    BY <2>1, DoneEffect
  <2> QED
    BY <2>2, <2>3 DEF JobsOK
<1>20. ASSUME NEW c \in Calls, start(c) PROVE (JobsOK /\ SinksOK)'
  <2>1. wmu' = wmu /\ smu' = smu /\ sinkClosed' = sinkClosed
    BY <1>20 DEF start, sinkVars
  <2>2. CallerOf[c] \in Peers /\ "write" \in Job /\ "call" \in PktKind
    BY BackpressureAssumption DEF Job, PktKind
  <2>3. Begin(CallerOf[c], c, "write", "call")
    BY <1>20 DEF start
  <2>4. job' \in [Peers -> [Calls -> [Job -> JobState]]]
    BY <2>2, <2>3, BeginJob
  <2> QED
    BY <2>1, <2>4 DEF JobsOK, SinksOK
<1>21. ASSUME UNCHANGED vars PROVE UNCHANGED <<wmu, job, smu, sinkClosed>>
  BY <1>21 DEF vars, jobVars, sinkVars
<1>22. ASSUME UNCHANGED <<wmu, job, smu, sinkClosed>> PROVE (JobsOK /\ SinksOK)'
  BY <1>22 DEF JobsOK, SinksOK
<1> QED
  BY <1>1, <1>2, <1>fetch, <1>3, <1>4, <1>5, <1>6, <1>7, <1>8, <1>9, <1>10, <1>11, <1>12, <1>13,
     <1>14, <1>15, <1>16, <1>17, <1>18, <1>19, <1>20, <1>21, <1>22
  DEF Next, ServeStep, TerminateStep, WritePacket

(* So do rLock, the tables of calls and the history.                       *)
LEMMA TablesStep ==
  ASSUME IInv, [Next]_vars, TablesOK
  PROVE  TablesOK'
<1>1. ASSUME NEW p \in Peers, ReadHeader(p)
      PROVE  UNCHANGED <<rlock, reqs, reqsClosed, aborted, erred>>
  BY <1>1 DEF ReadHeader, tableVars
<1>2. ASSUME NEW p \in Peers, Lookup(p) PROVE TablesOK'
  BY <1>2 DEF Lookup, TablesOK
<1>fetch. ASSUME NEW p \in Peers, fetchRequest(p) PROVE TablesOK'
  BY <1>fetch DEF fetchRequest, TablesOK
<1>3. ASSUME NEW p \in Peers, ReadBody(p) PROVE TablesOK'
  BY <1>3 DEF ReadBody, TablesOK
<1>4. ASSUME NEW p \in Peers, ReadFails(p) PROVE TablesOK'
  BY <1>4 DEF ReadFails, TablesOK
<1>5. ASSUME NEW p \in Peers, noSuchMethod(p) PROVE TablesOK'
  <2>1. cur[p].call \in Calls
    BY <1>5, CurCall DEF noSuchMethod
  <2> QED
    BY <1>5, <2>1 DEF noSuchMethod, TablesOK
<1>6. ASSUME NEW p \in Peers, closeStream(p)
      PROVE  UNCHANGED <<rlock, reqs, reqsClosed, aborted, erred>>
  BY <1>6 DEF closeStream, tableVars
<1>7. ASSUME NEW p \in Peers, closeStreamReturns(p)
      PROVE  UNCHANGED <<rlock, reqs, reqsClosed, aborted, erred>>
  BY <1>7 DEF closeStreamReturns, tableVars
<1>8. ASSUME NEW p \in Peers, closeStreamForget(p) PROVE TablesOK'
  <2>1. cur[p].call \in Calls
    BY <1>8, CurCall DEF closeStreamForget
  <2> QED
    BY <1>8, <2>1 DEF closeStreamForget, Forget, TablesOK
<1>9. ASSUME NEW p \in Peers, Terminate(p)
      PROVE  UNCHANGED <<rlock, reqs, reqsClosed, aborted, erred>>
  BY <1>9 DEF Terminate, tableVars
<1>10. ASSUME NEW p \in Peers, TerminateLock(p) PROVE TablesOK'
  BY <1>10 DEF TerminateLock, TablesOK
<1>11. ASSUME NEW p \in Peers, TerminateClose(p) PROVE TablesOK'
  BY <1>11 DEF TerminateClose, TablesOK
<1>12. ASSUME NEW p \in Peers, NEW c \in Calls, TerminateSweep(p, c) PROVE TablesOK'
  <2>1. UNCHANGED <<rlock, aborted, erred>> /\ (UNCHANGED <<reqs, reqsClosed>> \/ Forget(p, c))
    BY <1>12 DEF TerminateSweep
  <2> QED
    BY <2>1 DEF Forget, TablesOK
<1>13. ASSUME NEW p \in Peers, NEW c \in Calls, TerminateSweepReturns(p, c) PROVE TablesOK'
  <2>1. UNCHANGED <<rlock, aborted, erred>> /\ Forget(p, c)
    BY <1>13 DEF TerminateSweepReturns
  <2> QED
    BY <2>1 DEF Forget, TablesOK
<1>14. ASSUME NEW p \in Peers, NEW c \in Calls, Write(p, c)
       PROVE  UNCHANGED <<rlock, reqs, reqsClosed, aborted, erred>>
  BY <1>14 DEF Write, tableVars
<1>15. ASSUME NEW p \in Peers, NEW c \in Calls, CloseWithError(p, c)
       PROVE  UNCHANGED <<rlock, reqs, reqsClosed, aborted, erred>>
  BY <1>15 DEF CloseWithError, tableVars
<1>16. ASSUME NEW p \in Peers, NEW c \in Calls, CloseReturns(p, c)
       PROVE  UNCHANGED <<rlock, reqs, reqsClosed, aborted, erred>>
  BY <1>16 DEF CloseReturns, tableVars
<1>17. ASSUME NEW p \in Peers, NEW c \in Calls, NEW j \in Job, WriteHeader(p, c, j)
       PROVE  TablesOK'
  BY <1>17 DEF WriteHeader, TablesOK, tableVars
<1>18. ASSUME NEW p \in Peers, NEW c \in Calls, NEW j \in Job, WriteBody(p, c, j)
       PROVE  UNCHANGED <<rlock, reqs, reqsClosed, aborted, erred>>
  BY <1>18 DEF WriteBody, WriteDone, tableVars
<1>19. ASSUME NEW p \in Peers, NEW c \in Calls, NEW j \in Job, WriteFails(p, c, j)
       PROVE  UNCHANGED <<rlock, reqs, reqsClosed, aborted, erred>>
  BY <1>19 DEF WriteFails, WriteDone, tableVars
<1>20. ASSUME NEW c \in Calls, start(c) PROVE TablesOK'
  BY <1>20, BackpressureAssumption DEF start, TablesOK
<1>21. ASSUME UNCHANGED vars PROVE UNCHANGED <<rlock, reqs, reqsClosed, aborted, erred>>
  BY <1>21 DEF vars, tableVars
<1>22. ASSUME UNCHANGED <<rlock, reqs, reqsClosed, aborted, erred>> PROVE TablesOK'
  BY <1>22 DEF TablesOK
<1> QED
  BY <1>1, <1>2, <1>fetch, <1>3, <1>4, <1>5, <1>6, <1>7, <1>8, <1>9, <1>10, <1>11, <1>12, <1>13,
     <1>14, <1>15, <1>16, <1>17, <1>18, <1>19, <1>20, <1>21, <1>22
  DEF Next, ServeStep, TerminateStep, WritePacket

(* So do the places of the goroutines.                                     *)
LEMMA PlacesStep ==
  ASSUME IInv, [Next]_vars, PlacesOK
  PROVE  PlacesOK'
<1>1. ASSUME NEW p \in Peers, ReadHeader(p) PROVE PlacesOK'
  <2>1. Head(wire[p]) \in Packet
    BY <1>1, TakeWire DEF ReadHeader, IInv
  <2>2. cur' = [cur EXCEPT ![p] = Head(wire[p])]
    BY <1>1 DEF ReadHeader
  <2>3. /\ UNCHANGED <<tpc, apc, wrote>>
        /\ spc' = [spc EXCEPT ![p] = "lookup"] \/ spc' = [spc EXCEPT ![p] = "exit"]
    BY <1>1 DEF ReadHeader, appVars
  <2> QED
    BY <2>1, <2>2, <2>3 DEF PlacesOK, Packet
<1>2. ASSUME NEW p \in Peers, Lookup(p) PROVE PlacesOK'
  BY <1>2 DEF Lookup, ServeGoto, PlacesOK, appVars
<1>fetch. ASSUME NEW p \in Peers, fetchRequest(p) PROVE PlacesOK'
  BY <1>fetch DEF fetchRequest, ServeGoto, PlacesOK, appVars
<1>3. ASSUME NEW p \in Peers, ReadBody(p) PROVE PlacesOK'
  BY <1>3 DEF ReadBody, ServeGoto, PlacesOK, appVars
<1>4. ASSUME NEW p \in Peers, ReadFails(p) PROVE PlacesOK'
  BY <1>4 DEF ReadFails, ServeGoto, PlacesOK, appVars
<1>5. ASSUME NEW p \in Peers, noSuchMethod(p) PROVE PlacesOK'
  BY <1>5 DEF noSuchMethod, ServeGoto, PlacesOK, appVars
<1>6. ASSUME NEW p \in Peers, closeStream(p) PROVE PlacesOK'
  BY <1>6 DEF closeStream, ServeGoto, PlacesOK, appVars
<1>7. ASSUME NEW p \in Peers, closeStreamReturns(p) PROVE PlacesOK'
  BY <1>7 DEF closeStreamReturns, ServeGoto, PlacesOK, appVars
<1>8. ASSUME NEW p \in Peers, closeStreamForget(p) PROVE PlacesOK'
  BY <1>8 DEF closeStreamForget, ServeGoto, PlacesOK, appVars
<1>9. ASSUME NEW p \in Peers, Terminate(p) PROVE PlacesOK'
  BY <1>9 DEF Terminate, PlacesOK, serveVars, appVars
<1>10. ASSUME NEW p \in Peers, TerminateLock(p) PROVE PlacesOK'
  BY <1>10 DEF TerminateLock, PlacesOK, serveVars, appVars
<1>11. ASSUME NEW p \in Peers, TerminateClose(p) PROVE PlacesOK'
  BY <1>11 DEF TerminateClose, PlacesOK, serveVars, appVars
<1>12. ASSUME NEW p \in Peers, NEW c \in Calls, TerminateSweep(p, c)
       PROVE  UNCHANGED <<spc, tpc, apc, wrote, cur>>
  BY <1>12 DEF TerminateSweep, serveVars, appVars
<1>13. ASSUME NEW p \in Peers, NEW c \in Calls, TerminateSweepReturns(p, c)
       PROVE  UNCHANGED <<spc, tpc, apc, wrote, cur>>
  BY <1>13 DEF TerminateSweepReturns, serveVars, appVars
<1>14. ASSUME NEW p \in Peers, NEW c \in Calls, Write(p, c) PROVE PlacesOK'
  <2>1. UNCHANGED <<spc, tpc, apc, cur>>
    BY <1>14 DEF Write, serveVars
  <2>2. wrote' = wrote \/ (wrote[p][c] < MaxData /\ wrote' = [wrote EXCEPT ![p][c] = wrote[p][c] + 1])
    BY <1>14 DEF Write
  <2> DEFINE N == 0 .. MaxData
             x == wrote[p][c] + 1
  <2>3. wrote[p][c] < MaxData => x \in N
    BY BackpressureAssumption DEF PlacesOK
  <2>4. wrote \in [Peers -> [Calls -> N]]
    BY DEF PlacesOK
  <2> HIDE DEF N, x
  <2>5. wrote' = wrote \/ (x \in N /\ wrote' = [wrote EXCEPT ![p][c] = x])
    BY <2>2, <2>3 DEF x
  <2>6. wrote' \in [Peers -> [Calls -> N]]
    <3>1. CASE wrote' = wrote
      BY <2>4, <3>1
    <3>2. CASE x \in N /\ wrote' = [wrote EXCEPT ![p][c] = x]
      BY <2>4, <3>2
    <3> QED
      BY <2>5, <3>1, <3>2
  <2> QED
    BY <2>1, <2>6 DEF PlacesOK, N
<1>15. ASSUME NEW p \in Peers, NEW c \in Calls, CloseWithError(p, c) PROVE PlacesOK'
  BY <1>15 DEF CloseWithError, PlacesOK, serveVars
<1>16. ASSUME NEW p \in Peers, NEW c \in Calls, CloseReturns(p, c)
       PROVE  UNCHANGED <<spc, tpc, apc, wrote, cur>>
  BY <1>16 DEF CloseReturns, serveVars, appVars
<1>17. ASSUME NEW p \in Peers, NEW c \in Calls, NEW j \in Job, WriteHeader(p, c, j)
       PROVE  UNCHANGED <<spc, tpc, apc, wrote, cur>>
  BY <1>17 DEF WriteHeader, serveVars, appVars
<1>18. ASSUME NEW p \in Peers, NEW c \in Calls, NEW j \in Job, WriteBody(p, c, j)
       PROVE  UNCHANGED <<spc, tpc, apc, wrote, cur>>
  BY <1>18 DEF WriteBody, WriteDone, serveVars, appVars
<1>19. ASSUME NEW p \in Peers, NEW c \in Calls, NEW j \in Job, WriteFails(p, c, j)
       PROVE  UNCHANGED <<spc, tpc, apc, wrote, cur>>
  BY <1>19 DEF WriteFails, WriteDone, serveVars, appVars
<1>20. ASSUME NEW c \in Calls, start(c) PROVE PlacesOK'
  BY <1>20, BackpressureAssumption DEF start, PlacesOK, serveVars
<1>21. ASSUME UNCHANGED vars PROVE UNCHANGED <<spc, tpc, apc, wrote, cur>>
  BY <1>21 DEF vars, serveVars, appVars
<1>22. ASSUME UNCHANGED <<spc, tpc, apc, wrote, cur>> PROVE PlacesOK'
  BY <1>22 DEF PlacesOK
<1> QED
  BY <1>1, <1>2, <1>fetch, <1>3, <1>4, <1>5, <1>6, <1>7, <1>8, <1>9, <1>10, <1>11, <1>12, <1>13,
     <1>14, <1>15, <1>16, <1>17, <1>18, <1>19, <1>20, <1>21, <1>22
  DEF Next, ServeStep, TerminateStep, WritePacket

-------------------------------------------------------------------------------
(* The steps: the locks.                                                   *)

(* rLock is taken and given up with the places that hold it.               *)
LEMMA LockStep ==
  ASSUME IInv, [Next]_vars, LockInv, TablesOK, PlacesOK
  PROVE  LockInv'
<1>1. ASSUME NEW p \in Peers, ReadHeader(p) PROVE LockInv'
  BY <1>1 DEF ReadHeader, ServeGoto, LockInv, TablesOK, PlacesOK, tableVars
<1>2. ASSUME NEW p \in Peers, Lookup(p) PROVE LockInv'
  BY <1>2 DEF Lookup, ServeGoto, LockInv, TablesOK, PlacesOK
<1>fetch. ASSUME NEW p \in Peers, fetchRequest(p) PROVE LockInv'
  BY <1>fetch DEF fetchRequest, ServeGoto, LockInv, TablesOK, PlacesOK
<1>3. ASSUME NEW p \in Peers, ReadBody(p) PROVE LockInv'
  BY <1>3 DEF ReadBody, ServeGoto, LockInv, TablesOK, PlacesOK
<1>4. ASSUME NEW p \in Peers, ReadFails(p) PROVE LockInv'
  BY <1>4 DEF ReadFails, ServeGoto, LockInv, TablesOK, PlacesOK
<1>5. ASSUME NEW p \in Peers, noSuchMethod(p) PROVE LockInv'
  BY <1>5 DEF noSuchMethod, ServeGoto, LockInv, TablesOK, PlacesOK
<1>6. ASSUME NEW p \in Peers, closeStream(p) PROVE LockInv'
  BY <1>6 DEF closeStream, ServeGoto, LockInv, TablesOK, PlacesOK, tableVars
<1>7. ASSUME NEW p \in Peers, closeStreamReturns(p) PROVE LockInv'
  BY <1>7 DEF closeStreamReturns, ServeGoto, LockInv, TablesOK, PlacesOK, tableVars
<1>8. ASSUME NEW p \in Peers, closeStreamForget(p) PROVE LockInv'
  BY <1>8 DEF closeStreamForget, ServeGoto, LockInv, TablesOK, PlacesOK
<1>9. ASSUME NEW p \in Peers, Terminate(p) PROVE LockInv'
  BY <1>9 DEF Terminate, ServeGoto, LockInv, TablesOK, PlacesOK, tableVars, serveVars
<1>10. ASSUME NEW p \in Peers, TerminateLock(p) PROVE LockInv'
  BY <1>10 DEF TerminateLock, ServeGoto, LockInv, TablesOK, PlacesOK, serveVars
<1>11. ASSUME NEW p \in Peers, TerminateClose(p) PROVE LockInv'
  BY <1>11 DEF TerminateClose, ServeGoto, LockInv, TablesOK, PlacesOK, serveVars
<1>12. ASSUME NEW p \in Peers, NEW c \in Calls, TerminateSweep(p, c)
       PROVE  UNCHANGED <<rlock, spc, tpc>>
  BY <1>12 DEF TerminateSweep, tableVars, serveVars
<1>13. ASSUME NEW p \in Peers, NEW c \in Calls, TerminateSweepReturns(p, c)
       PROVE  UNCHANGED <<rlock, spc, tpc>>
  BY <1>13 DEF TerminateSweepReturns, tableVars, serveVars
<1>14. ASSUME NEW p \in Peers, NEW c \in Calls, Write(p, c)
       PROVE  UNCHANGED <<rlock, spc, tpc>>
  BY <1>14 DEF Write, tableVars, serveVars
<1>15. ASSUME NEW p \in Peers, NEW c \in Calls, CloseWithError(p, c)
       PROVE  UNCHANGED <<rlock, spc, tpc>>
  BY <1>15 DEF CloseWithError, tableVars, serveVars
<1>16. ASSUME NEW p \in Peers, NEW c \in Calls, CloseReturns(p, c)
       PROVE  UNCHANGED <<rlock, spc, tpc>>
  BY <1>16 DEF CloseReturns, tableVars, serveVars
<1>17. ASSUME NEW p \in Peers, NEW c \in Calls, NEW j \in Job, WriteHeader(p, c, j)
       PROVE  UNCHANGED <<rlock, spc, tpc>>
  BY <1>17 DEF WriteHeader, tableVars, serveVars
<1>18. ASSUME NEW p \in Peers, NEW c \in Calls, NEW j \in Job, WriteBody(p, c, j)
       PROVE  UNCHANGED <<rlock, spc, tpc>>
  BY <1>18 DEF WriteBody, WriteDone, tableVars, serveVars
<1>19. ASSUME NEW p \in Peers, NEW c \in Calls, NEW j \in Job, WriteFails(p, c, j)
       PROVE  UNCHANGED <<rlock, spc, tpc>>
  BY <1>19 DEF WriteFails, WriteDone, tableVars, serveVars
<1>20. ASSUME NEW c \in Calls, start(c) PROVE UNCHANGED <<rlock, spc, tpc>>
  BY <1>20 DEF start, tableVars, serveVars
<1>21. ASSUME UNCHANGED vars PROVE UNCHANGED <<rlock, spc, tpc>>
  BY <1>21 DEF vars, tableVars, serveVars
<1>22. ASSUME UNCHANGED <<rlock, spc, tpc>> PROVE LockInv'
  BY <1>22 DEF LockInv
<1> QED
  BY <1>1, <1>2, <1>fetch, <1>3, <1>4, <1>5, <1>6, <1>7, <1>8, <1>9, <1>10, <1>11, <1>12, <1>13,
     <1>14, <1>15, <1>16, <1>17, <1>18, <1>19, <1>20, <1>21, <1>22
  DEF Next, ServeStep, TerminateStep, WritePacket

(* A job that takes nothing from, and gives nothing to, the holder of      *)
(* Writer.mu.                                                              *)
LEMMA WriterKept ==
  ASSUME WriterInv, NEW p \in Peers, NEW c \in Calls, NEW j \in Job, wmu' = wmu,
         job[p][c][j].at # "body", job'[p][c][j].at # "body",
         \A q \in Peers, d \in Calls, k \in Job :
           <<q, d, k>> # <<p, c, j>> => job'[q][d][k] = job[q][d][k]
  PROVE  WriterInv'
<1> SUFFICES ASSUME NEW q \in Peers, NEW d \in Calls, NEW k \in Job
             PROVE  job'[q][d][k].at = "body" <=> wmu[q] = <<d, k>>
  BY DEF WriterInv
<1>1. CASE <<q, d, k>> = <<p, c, j>>
  BY <1>1 DEF WriterInv
<1>2. CASE <<q, d, k>> # <<p, c, j>>
  BY <1>2 DEF WriterInv
<1> QED
  BY <1>1, <1>2

(* Nobody closes a sink whose end is on its way.                           *)
LEMMA NoCloser ==
  ASSUME IInv, NEW p \in Peers, NEW c \in Calls, NEW by \in Closer,
         smu[p][c] = "none", sinkClosed[p][c] = "nil"
  PROVE  job[p][c][by].at = "off"
BY DEF IInv, SinkOK, SinkInv, Active

(* A closer that waits is done with the header, or never had the lock.     *)
LEMMA CloseKeepsWriter ==
  ASSUME IInv, NEW p \in Peers, NEW c \in Calls, NEW by \in Closer, wmu' = wmu,
         \/ /\ smu[p][c] = "none" /\ sinkClosed[p][c] = "nil"
            /\ \E err \in BOOLEAN : sinkClose(p, c, by, err)
         \/ sinkCloseReturns(p, c, by)
  PROVE  WriterInv'
<1>1. JobsOK /\ SinksOK /\ WriterInv /\ by \in Job
  BY DEF IInv, Types, Job
<1>2. CASE /\ smu[p][c] = "none" /\ sinkClosed[p][c] = "nil"
           /\ \E err \in BOOLEAN : sinkClose(p, c, by, err)
  <2>1. PICK err \in BOOLEAN : sinkClose(p, c, by, err)
    BY <1>2
  <2>2. job[p][c][by].at # "body"
    BY <1>2, NoCloser
  <2>3. job'[p][c][by].at # "body"
    BY <1>1, <2>1, CloseEffect
  <2>4. \A q \in Peers, d \in Calls, k \in Job :
          <<q, d, k>> # <<p, c, by>> => job'[q][d][k] = job[q][d][k]
    BY <1>1, <2>1, CloseEffect
  <2> QED
    BY <1>1, <2>2, <2>3, <2>4, WriterKept
<1>3. CASE sinkCloseReturns(p, c, by)
  <2>1. CASE Finished(p, c, by)
    <3>1. job[p][c][by].at # "body"
      BY <2>1 DEF Finished
    <3>2. job'[p][c][by].at # "body"
      BY <1>1, <1>3, <2>1, CloseReturnsEffect
    <3>3. \A q \in Peers, d \in Calls, k \in Job :
            <<q, d, k>> # <<p, c, by>> => job'[q][d][k] = job[q][d][k]
      BY <1>1, <1>3, CloseReturnsEffect
    <3> QED
      BY <1>1, <3>1, <3>2, <3>3, WriterKept
  <2>2. CASE ~Finished(p, c, by)
    BY <1>1, <1>3, <2>2 DEF sinkCloseReturns, WriterInv
  <2> QED
    BY <2>1, <2>2
<1> QED
  BY <1>2, <1>3

(* Nobody is not a job, and gives up the lock for all of them.             *)
LEMMA LockGiven ==
  ASSUME WriterInv, JobsOK, NEW p \in Peers, NEW c \in Calls, NEW j \in Job,
         wmu' = [wmu EXCEPT ![p] = Nobody], wmu[p] \in {Nobody, <<c, j>>},
         job'[p][c][j].at # "body",
         \A q \in Peers, d \in Calls, k \in Job :
           <<q, d, k>> # <<p, c, j>> => job'[q][d][k] = job[q][d][k]
  PROVE  WriterInv'
<1>1. wmu'[p] = Nobody /\ \A q \in Peers \ {p} : wmu'[q] = wmu[q]
  BY DEF JobsOK
<1>2. \A d \in Calls, k \in Job : Nobody # <<d, k>>
  BY DEF Nobody, Job, Closer
<1>3. ASSUME NEW d \in Calls, NEW k \in Job, <<d, k>> # <<c, j>>
      PROVE  job[p][d][k].at # "body"
  <2>1. wmu[p] # <<d, k>>
    BY <1>2, <1>3
  <2> QED
    BY <2>1 DEF WriterInv
<1> SUFFICES ASSUME NEW q \in Peers, NEW d \in Calls, NEW k \in Job
             PROVE  job'[q][d][k].at = "body" <=> wmu'[q] = <<d, k>>
  BY DEF WriterInv
<1>4. CASE q = p
  <2>1. job'[p][d][k].at # "body"
    BY <1>3
  <2>2. wmu'[p] # <<d, k>>
    BY <1>1, <1>2
  <2> QED
    BY <1>4, <2>1, <2>2
<1>5. CASE q # p
  BY <1>1, <1>5 DEF WriterInv
<1> QED
  BY <1>4, <1>5

(* Writer.mu is taken with a header and given up with its body.            *)
LEMMA WriterStep ==
  ASSUME IInv, [Next]_vars, WriterInv, JobsOK, SinksOK
  PROVE  WriterInv'
<1>1. ASSUME NEW p \in Peers, ReadHeader(p) PROVE UNCHANGED <<wmu, job>>
  BY <1>1 DEF ReadHeader, jobVars
<1>2. ASSUME NEW p \in Peers, Lookup(p) PROVE UNCHANGED <<wmu, job>>
  BY <1>2 DEF Lookup, jobVars
<1>fetch. ASSUME NEW p \in Peers, fetchRequest(p) PROVE UNCHANGED <<wmu, job>>
  BY <1>fetch DEF fetchRequest, jobVars
<1>3. ASSUME NEW p \in Peers, ReadBody(p) PROVE WriterInv'
  <2>0. cur[p].call \in Calls
    BY <1>3, CurCall DEF ReadBody
  <2>1. wmu' = wmu /\ "refuse" \in Job /\ "err" \in PktKind
    BY <1>3 DEF ReadBody, Job, PktKind
  <2>2. CASE spc[p] = "parse"
    <3>1. Begin(p, cur[p].call, "refuse", "err")
      BY <1>3, <2>2 DEF ReadBody
    <3>2. job[p][cur[p].call]["refuse"].at # "body"
      BY <2>0, <2>2 DEF IInv, RefuseInv, Active
    <3>3. /\ job'[p][cur[p].call]["refuse"].at # "body"
          /\ \A q \in Peers, d \in Calls, k \in Job :
               <<q, d, k>> # <<p, cur[p].call, "refuse">> => job'[q][d][k] = job[q][d][k]
      BY <2>0, <2>1, <3>1, BeginJob
    <3> QED
      BY <2>0, <2>1, <3>2, <3>3, WriterKept
  <2>3. CASE spc[p] # "parse"
    BY <1>3, <2>3 DEF ReadBody, WriterInv
  <2> QED
    BY <2>2, <2>3
<1>4. ASSUME NEW p \in Peers, ReadFails(p) PROVE UNCHANGED <<wmu, job>>
  BY <1>4 DEF ReadFails, jobVars
<1>5. ASSUME NEW p \in Peers, noSuchMethod(p) PROVE WriterInv'
  <2>0. cur[p].call \in Calls
    BY <1>5, CurCall DEF noSuchMethod
  <2>1. wmu' = wmu /\ "refuse" \in Job /\ job' = [job EXCEPT ![p][cur[p].call]["refuse"] = Off]
    BY <1>5 DEF noSuchMethod, Job
  <2>2. job[p][cur[p].call]["refuse"].at # "body"
    BY <1>5 DEF noSuchMethod, Finished
  <2>3. /\ job'[p][cur[p].call]["refuse"].at # "body"
        /\ \A q \in Peers, d \in Calls, k \in Job :
             <<q, d, k>> # <<p, cur[p].call, "refuse">> => job'[q][d][k] = job[q][d][k]
    BY <2>0, <2>1, OffState, JobUpdate
  <2> QED
    BY <2>0, <2>1, <2>2, <2>3, WriterKept
<1>6. ASSUME NEW p \in Peers, closeStream(p) PROVE WriterInv'
  <2>0. cur[p].call \in Calls
    BY <1>6, CurCall DEF closeStream
  <2>1. wmu' = wmu /\ "serve" \in Closer
    BY <1>6 DEF closeStream, Closer
  <2>2. \/ /\ smu[p][cur[p].call] = "none" /\ sinkClosed[p][cur[p].call] = "nil"
           /\ \E err \in BOOLEAN : sinkClose(p, cur[p].call, "serve", err)
        \/ sinkCloseReturns(p, cur[p].call, "serve")
        \/ UNCHANGED job
    BY <1>6 DEF closeStream
  <2>3. CASE UNCHANGED job
    BY <2>1, <2>3 DEF WriterInv
  <2> QED
    BY <2>0, <2>1, <2>2, <2>3, CloseKeepsWriter
<1>7. ASSUME NEW p \in Peers, closeStreamReturns(p) PROVE WriterInv'
  <2>0. cur[p].call \in Calls
    BY <1>7, CurCall DEF closeStreamReturns
  <2>1. wmu' = wmu /\ "serve" \in Closer
    BY <1>7 DEF closeStreamReturns, Closer
  <2>2. \/ /\ smu[p][cur[p].call] = "none" /\ sinkClosed[p][cur[p].call] = "nil"
           /\ \E err \in BOOLEAN : sinkClose(p, cur[p].call, "serve", err)
        \/ sinkCloseReturns(p, cur[p].call, "serve")
        \/ UNCHANGED job
    BY <1>7 DEF closeStreamReturns
  <2>3. CASE UNCHANGED job
    BY <2>1, <2>3 DEF WriterInv
  <2> QED
    BY <2>0, <2>1, <2>2, <2>3, CloseKeepsWriter
<1>8. ASSUME NEW p \in Peers, closeStreamForget(p) PROVE UNCHANGED <<wmu, job>>
  BY <1>8 DEF closeStreamForget, jobVars
<1>9. ASSUME NEW p \in Peers, Terminate(p) PROVE UNCHANGED <<wmu, job>>
  BY <1>9 DEF Terminate, jobVars
<1>10. ASSUME NEW p \in Peers, TerminateLock(p) PROVE UNCHANGED <<wmu, job>>
  BY <1>10 DEF TerminateLock, jobVars
<1>11. ASSUME NEW p \in Peers, TerminateClose(p) PROVE UNCHANGED <<wmu, job>>
  BY <1>11 DEF TerminateClose, jobVars
<1>12. ASSUME NEW p \in Peers, NEW c \in Calls, TerminateSweep(p, c) PROVE WriterInv'
  <2>1. wmu' = wmu /\ "term" \in Closer
    BY <1>12 DEF TerminateSweep, Closer
  <2>2. \/ /\ smu[p][c] = "none" /\ sinkClosed[p][c] = "nil"
           /\ \E err \in BOOLEAN : sinkClose(p, c, "term", err)
        \/ sinkCloseReturns(p, c, "term")
        \/ UNCHANGED job
    BY <1>12 DEF TerminateSweep
  <2>3. CASE UNCHANGED job
    BY <2>1, <2>3 DEF WriterInv
  <2> QED
    BY <2>1, <2>2, <2>3, CloseKeepsWriter
<1>13. ASSUME NEW p \in Peers, NEW c \in Calls, TerminateSweepReturns(p, c) PROVE WriterInv'
  <2>1. wmu' = wmu /\ "term" \in Closer
    BY <1>13 DEF TerminateSweepReturns, Closer
  <2>2. \/ /\ smu[p][c] = "none" /\ sinkClosed[p][c] = "nil"
           /\ \E err \in BOOLEAN : sinkClose(p, c, "term", err)
        \/ sinkCloseReturns(p, c, "term")
        \/ UNCHANGED job
    BY <1>13 DEF TerminateSweepReturns
  <2>3. CASE UNCHANGED job
    BY <2>1, <2>3 DEF WriterInv
  <2> QED
    BY <2>1, <2>2, <2>3, CloseKeepsWriter
<1>14. ASSUME NEW p \in Peers, NEW c \in Calls, Write(p, c) PROVE WriterInv'
  <2>1. /\ wmu' = wmu /\ "write" \in Job /\ "data" \in PktKind
        /\ c \notin Refused /\ smu[p][c] = "none"
    BY <1>14, BackpressureAssumption DEF Write, Job, PktKind
  <2>2. CASE job' = job
    BY <2>1, <2>2 DEF WriterInv
  <2>3. CASE Begin(p, c, "write", "data")
    <3>1. job[p][c]["write"].at # "body"
      BY <2>1 DEF IInv, SinkOK, SinkInv, Active
    <3>2. /\ job'[p][c]["write"].at # "body"
          /\ \A q \in Peers, d \in Calls, k \in Job :
               <<q, d, k>> # <<p, c, "write">> => job'[q][d][k] = job[q][d][k]
      BY <2>1, <2>3, BeginJob
    <3> QED
      BY <2>1, <3>1, <3>2, WriterKept
  <2> QED
    BY <1>14, <2>2, <2>3 DEF Write
<1>15. ASSUME NEW p \in Peers, NEW c \in Calls, CloseWithError(p, c) PROVE WriterInv'
  <2>1. wmu' = wmu /\ "app" \in Closer
    BY <1>15 DEF CloseWithError, Closer
  <2>2. \/ /\ smu[p][c] = "none" /\ sinkClosed[p][c] = "nil"
           /\ \E err \in BOOLEAN : sinkClose(p, c, "app", err)
        \/ sinkCloseReturns(p, c, "app")
        \/ UNCHANGED job
    BY <1>15 DEF CloseWithError
  <2>3. CASE UNCHANGED job
    BY <2>1, <2>3 DEF WriterInv
  <2> QED
    BY <2>1, <2>2, <2>3, CloseKeepsWriter
<1>16. ASSUME NEW p \in Peers, NEW c \in Calls, CloseReturns(p, c) PROVE WriterInv'
  <2>1. wmu' = wmu /\ "app" \in Closer
    BY <1>16 DEF CloseReturns, Closer
  <2>2. \/ /\ smu[p][c] = "none" /\ sinkClosed[p][c] = "nil"
           /\ \E err \in BOOLEAN : sinkClose(p, c, "app", err)
        \/ sinkCloseReturns(p, c, "app")
        \/ UNCHANGED job
    BY <1>16 DEF CloseReturns
  <2>3. CASE UNCHANGED job
    BY <2>1, <2>3 DEF WriterInv
  <2> QED
    BY <2>1, <2>2, <2>3, CloseKeepsWriter
<1>17. ASSUME NEW p \in Peers, NEW c \in Calls, NEW j \in Job, WriteHeader(p, c, j)
       PROVE  WriterInv'
  <2>1. wmu[p] = Nobody /\ wmu' = [wmu EXCEPT ![p] = <<c, j>>]
    BY <1>17 DEF WriteHeader
  <2>2. \A d \in Calls, k \in Job : Nobody # <<d, k>>
    BY DEF Nobody, Job, Closer
  <2>3. \A d \in Calls, k \in Job : job[p][d][k].at # "body"
    BY <2>1, <2>2 DEF WriterInv
  <2>4. /\ job'[p][c][j].at = "body"
        /\ \A q \in Peers, d \in Calls, k \in Job :
             <<q, d, k>> # <<p, c, j>> => job'[q][d][k] = job[q][d][k]
    BY <1>17, HeaderJob
  <2>5. wmu'[p] = <<c, j>> /\ \A q \in Peers \ {p} : wmu'[q] = wmu[q]
    BY <2>1 DEF JobsOK
  <2>6. \A d \in Calls, k \in Job : job'[p][d][k].at = "body" <=> wmu'[p] = <<d, k>>
    BY <2>3, <2>4, <2>5
  <2>7. \A q \in Peers \ {p}, d \in Calls, k \in Job :
          job'[q][d][k].at = "body" <=> wmu'[q] = <<d, k>>
    BY <2>4, <2>5 DEF WriterInv
  <2> QED
    BY <2>6, <2>7 DEF WriterInv
<1>18. ASSUME NEW p \in Peers, NEW c \in Calls, NEW j \in Job, WriteBody(p, c, j)
       PROVE  WriterInv'
  <2>1. PICK result \in {"sent", "failed"} : WriteDone(p, c, j, result)
    BY <1>18 DEF WriteBody
  <2>2. wmu' = [wmu EXCEPT ![p] = Nobody]
    BY <2>1, DoneEffect
  <2>3. job'[p][c][j].at # "body"
    BY <2>1, DoneJob
  <2>4. \A q \in Peers, d \in Calls, k \in Job :
          <<q, d, k>> # <<p, c, j>> => job'[q][d][k] = job[q][d][k]
    BY <2>1, DoneJob
  <2>5. wmu[p] \in {Nobody, <<c, j>>}
    BY <1>18 DEF WriteBody, WriterInv
  <2> QED
    BY <2>2, <2>3, <2>4, <2>5, LockGiven
<1>19. ASSUME NEW p \in Peers, NEW c \in Calls, NEW j \in Job, WriteFails(p, c, j)
       PROVE  WriterInv'
  <2>1. PICK result \in {"sent", "failed"} : WriteDone(p, c, j, result)
    BY <1>19 DEF WriteFails
  <2>2. wmu' = [wmu EXCEPT ![p] = Nobody]
    BY <2>1, DoneEffect
  <2>3. job'[p][c][j].at # "body"
    BY <2>1, DoneJob
  <2>4. \A q \in Peers, d \in Calls, k \in Job :
          <<q, d, k>> # <<p, c, j>> => job'[q][d][k] = job[q][d][k]
    BY <2>1, DoneJob
  <2>5. wmu[p] \in {Nobody, <<c, j>>}
    BY <1>19 DEF WriteFails, WriterInv
  <2> QED
    BY <2>2, <2>3, <2>4, <2>5, LockGiven
<1>20. ASSUME NEW c \in Calls, start(c) PROVE WriterInv'
  <2> DEFINE p == CallerOf[c]
  <2>1. /\ p \in Peers /\ wmu' = wmu /\ "write" \in Job /\ "call" \in PktKind
        /\ c \in Refused /\ apc[p][c] = "idle" /\ Begin(p, c, "write", "call")
    BY <1>20, BackpressureAssumption DEF start, Job, PktKind
  <2> HIDE DEF p
  <2>2. job[p][c]["write"].at # "body"
    BY <2>1 DEF IInv, SinkOK, SinkInv, Active
  <2>3. /\ job'[p][c]["write"].at # "body"
        /\ \A q \in Peers, d \in Calls, k \in Job :
             <<q, d, k>> # <<p, c, "write">> => job'[q][d][k] = job[q][d][k]
    BY <2>1, BeginJob
  <2> QED
    BY <2>1, <2>2, <2>3, WriterKept
<1>21. ASSUME UNCHANGED vars PROVE UNCHANGED <<wmu, job>>
  BY <1>21 DEF vars, jobVars
<1>22. ASSUME UNCHANGED <<wmu, job>> PROVE WriterInv'
  BY <1>22 DEF WriterInv
<1> QED
  BY <1>1, <1>2, <1>fetch, <1>3, <1>4, <1>5, <1>6, <1>7, <1>8, <1>9, <1>10, <1>11, <1>12, <1>13,
     <1>14, <1>15, <1>16, <1>17, <1>18, <1>19, <1>20, <1>21, <1>22
  DEF Next, ServeStep, TerminateStep, WritePacket

-------------------------------------------------------------------------------
(* The steps: what the loop reads.                                         *)

(* The loop goes on with the header it has read.                           *)
LEMMA CurStep ==
  ASSUME IInv, [Next]_vars, CurInv, PlacesOK
  PROVE  CurInv'
<1>1. ASSUME NEW p \in Peers, ReadHeader(p) PROVE CurInv'
  <2>1. Head(wire[p]) \in Packet /\ Head(wire[p]) = wire[p][1] /\ Len(wire[p]) >= 1 /\ Len(wire[p]) \in Nat
    BY <1>1, TakeWire DEF ReadHeader, IInv
  <2>2. Head(wire[p]).pkt = "call" => Head(wire[p]).call \in Refused
    BY <2>1 DEF IInv, CallInv
  <2>3. cur' = [cur EXCEPT ![p] = Head(wire[p])]
    BY <1>1 DEF ReadHeader
  <2>4. /\ spc'[p] \in {"lookup", "exit"} /\ \A q \in Peers \ {p} : spc'[q] = spc[q]
        /\ spc'[p] = "lookup" => Head(wire[p]).part = "header"
    BY <1>1 DEF ReadHeader, PlacesOK
  <2> QED
    BY <2>1, <2>2, <2>3, <2>4 DEF CurInv, PlacesOK
<1>2. ASSUME NEW p \in Peers, Lookup(p) PROVE CurInv'
  <2>1. PICK at \in {"discard", "fetch", "body", "read"} : spc' = [spc EXCEPT ![p] = at]
    BY <1>2 DEF Lookup, ServeGoto
  <2>2. spc[p] = "lookup" /\ cur' = cur
    BY <1>2 DEF Lookup, ServeGoto
  <2> QED
    BY <2>1, <2>2 DEF CurInv, PlacesOK
<1>fetch. ASSUME NEW p \in Peers, fetchRequest(p) PROVE CurInv'
  BY <1>fetch DEF fetchRequest, ServeGoto, CurInv, PlacesOK
<1>3. ASSUME NEW p \in Peers, ReadBody(p) PROVE CurInv'
  BY <1>3 DEF ReadBody, ServeGoto, CurInv, PlacesOK
<1>4. ASSUME NEW p \in Peers, ReadFails(p) PROVE CurInv'
  BY <1>4 DEF ReadFails, ServeGoto, CurInv, PlacesOK
<1>5. ASSUME NEW p \in Peers, noSuchMethod(p) PROVE CurInv'
  BY <1>5 DEF noSuchMethod, ServeGoto, CurInv, PlacesOK
<1>6. ASSUME NEW p \in Peers, closeStream(p) PROVE CurInv'
  <2>1. PICK at \in {"closing", "forget"} : spc' = [spc EXCEPT ![p] = at]
    BY <1>6 DEF closeStream, ServeGoto
  <2>2. spc[p] = "close" /\ cur' = cur
    BY <1>6 DEF closeStream, ServeGoto
  <2> QED
    BY <2>1, <2>2 DEF CurInv, PlacesOK
<1>7. ASSUME NEW p \in Peers, closeStreamReturns(p) PROVE CurInv'
  BY <1>7 DEF closeStreamReturns, ServeGoto, CurInv, PlacesOK
<1>8. ASSUME NEW p \in Peers, closeStreamForget(p) PROVE CurInv'
  BY <1>8 DEF closeStreamForget, ServeGoto, CurInv, PlacesOK
<1>9. ASSUME NEW p \in Peers, Terminate(p) PROVE UNCHANGED <<spc, cur>>
  BY <1>9 DEF Terminate, serveVars
<1>10. ASSUME NEW p \in Peers, TerminateLock(p) PROVE UNCHANGED <<spc, cur>>
  BY <1>10 DEF TerminateLock, serveVars
<1>11. ASSUME NEW p \in Peers, TerminateClose(p) PROVE UNCHANGED <<spc, cur>>
  BY <1>11 DEF TerminateClose, serveVars
<1>12. ASSUME NEW p \in Peers, NEW c \in Calls, TerminateSweep(p, c)
       PROVE  UNCHANGED <<spc, cur>>
  BY <1>12 DEF TerminateSweep, serveVars
<1>13. ASSUME NEW p \in Peers, NEW c \in Calls, TerminateSweepReturns(p, c)
       PROVE  UNCHANGED <<spc, cur>>
  BY <1>13 DEF TerminateSweepReturns, serveVars
<1>14. ASSUME NEW p \in Peers, NEW c \in Calls, Write(p, c) PROVE UNCHANGED <<spc, cur>>
  BY <1>14 DEF Write, serveVars
<1>15. ASSUME NEW p \in Peers, NEW c \in Calls, CloseWithError(p, c)
       PROVE  UNCHANGED <<spc, cur>>
  BY <1>15 DEF CloseWithError, serveVars
<1>16. ASSUME NEW p \in Peers, NEW c \in Calls, CloseReturns(p, c)
       PROVE  UNCHANGED <<spc, cur>>
  BY <1>16 DEF CloseReturns, serveVars
<1>17. ASSUME NEW p \in Peers, NEW c \in Calls, NEW j \in Job, WriteHeader(p, c, j)
       PROVE  UNCHANGED <<spc, cur>>
  BY <1>17 DEF WriteHeader, serveVars
<1>18. ASSUME NEW p \in Peers, NEW c \in Calls, NEW j \in Job, WriteBody(p, c, j)
       PROVE  UNCHANGED <<spc, cur>>
  BY <1>18 DEF WriteBody, WriteDone, serveVars
<1>19. ASSUME NEW p \in Peers, NEW c \in Calls, NEW j \in Job, WriteFails(p, c, j)
       PROVE  UNCHANGED <<spc, cur>>
  BY <1>19 DEF WriteFails, WriteDone, serveVars
<1>20. ASSUME NEW c \in Calls, start(c) PROVE UNCHANGED <<spc, cur>>
  BY <1>20 DEF start, serveVars
<1>21. ASSUME UNCHANGED vars PROVE UNCHANGED <<spc, cur>>
  BY <1>21 DEF vars, serveVars
<1>22. ASSUME UNCHANGED <<spc, cur>> PROVE CurInv'
  BY <1>22 DEF CurInv
<1> QED
  BY <1>1, <1>2, <1>fetch, <1>3, <1>4, <1>5, <1>6, <1>7, <1>8, <1>9, <1>10, <1>11, <1>12, <1>13,
     <1>14, <1>15, <1>16, <1>17, <1>18, <1>19, <1>20, <1>21, <1>22
  DEF Next, ServeStep, TerminateStep, WritePacket

(* Only calls to be refused are on the wire.                               *)
LEMMA CallStep ==
  ASSUME IInv, [Next]_vars, Types, CallInv
  PROVE  CallInv'
<1>1. ASSUME NEW p \in Peers, ReadHeader(p) PROVE CallInv'
  <2>1. wire[p] # << >> /\ wire' = [wire EXCEPT ![p] = Tail(@)]
    BY <1>1 DEF ReadHeader
  <2> QED
    BY <2>1, TakeWire DEF CallInv
<1>2. ASSUME NEW p \in Peers, Lookup(p) PROVE UNCHANGED <<wire>>
  BY <1>2 DEF Lookup, connVars
<1>fetch. ASSUME NEW p \in Peers, fetchRequest(p) PROVE UNCHANGED <<wire>>
  BY <1>fetch DEF fetchRequest, connVars
<1>3. ASSUME NEW p \in Peers, ReadBody(p) PROVE CallInv'
  <2>1. wire[p] # << >> /\ wire' = [wire EXCEPT ![p] = Tail(@)]
    BY <1>3 DEF ReadBody
  <2> QED
    BY <2>1, TakeWire DEF CallInv
<1>4. ASSUME NEW p \in Peers, ReadFails(p) PROVE UNCHANGED <<wire>>
  BY <1>4 DEF ReadFails, connVars
<1>5. ASSUME NEW p \in Peers, noSuchMethod(p) PROVE UNCHANGED <<wire>>
  BY <1>5 DEF noSuchMethod, connVars
<1>6. ASSUME NEW p \in Peers, closeStream(p) PROVE UNCHANGED <<wire>>
  BY <1>6 DEF closeStream, connVars
<1>7. ASSUME NEW p \in Peers, closeStreamReturns(p) PROVE UNCHANGED <<wire>>
  BY <1>7 DEF closeStreamReturns, connVars
<1>8. ASSUME NEW p \in Peers, closeStreamForget(p) PROVE UNCHANGED <<wire>>
  BY <1>8 DEF closeStreamForget, connVars
<1>9. ASSUME NEW p \in Peers, Terminate(p) PROVE UNCHANGED <<wire>>
  BY <1>9 DEF Terminate, connVars
<1>10. ASSUME NEW p \in Peers, TerminateLock(p) PROVE UNCHANGED <<wire>>
  BY <1>10 DEF TerminateLock, connVars
<1>11. ASSUME NEW p \in Peers, TerminateClose(p) PROVE UNCHANGED <<wire>>
  BY <1>11 DEF TerminateClose, connVars
<1>12. ASSUME NEW p \in Peers, NEW c \in Calls, TerminateSweep(p, c)
       PROVE  UNCHANGED <<wire>>
  BY <1>12 DEF TerminateSweep, connVars
<1>13. ASSUME NEW p \in Peers, NEW c \in Calls, TerminateSweepReturns(p, c)
       PROVE  UNCHANGED <<wire>>
  BY <1>13 DEF TerminateSweepReturns, connVars
<1>14. ASSUME NEW p \in Peers, NEW c \in Calls, Write(p, c) PROVE UNCHANGED <<wire>>
  BY <1>14 DEF Write, connVars
<1>15. ASSUME NEW p \in Peers, NEW c \in Calls, CloseWithError(p, c)
       PROVE  UNCHANGED <<wire>>
  BY <1>15 DEF CloseWithError, connVars
<1>16. ASSUME NEW p \in Peers, NEW c \in Calls, CloseReturns(p, c) PROVE UNCHANGED <<wire>>
  BY <1>16 DEF CloseReturns, connVars
<1>17. ASSUME NEW p \in Peers, NEW c \in Calls, NEW j \in Job, WriteHeader(p, c, j)
       PROVE  CallInv'
  <2>1. /\ job[p][c][j].at # "off" /\ Put(p, c, j, "header")
    BY <1>17 DEF WriteHeader
  <2>2. \A q \in Peers : q = p \/ q = Other(p)
    BY OtherPeer
  <2>3. Other(p) \in Peers /\ wire \in [Peers -> Seq(Packet)]
    BY OtherPeer DEF Types, ConnOK
  <2>4. job[p][c][j].pkt = "call" => c \in Refused
    BY <2>1 DEF IInv, SinkOK, KindInv, RefuseInv, Active, Job, Closer
  <2>5. job[p][c][j].pkt \in PktKind
    BY <2>1, JobPkt DEF IInv
  <2> DEFINE x == [part |-> "header", pkt |-> job[p][c][j].pkt, call |-> c]
  <2>6. x \in Packet /\ (x.pkt = "call" => x.call \in Refused)
    BY <2>4, <2>5 DEF Packet
  <2>7. wire'[p] = wire[p] /\ wire'[Other(p)] \in {wire[Other(p)], Append(wire[Other(p)], x)}
    BY <2>1, <2>5, PutWire
  <2> HIDE DEF x
  <2>8. \A i \in 1 .. Len(wire'[p]) : wire'[p][i].pkt = "call" => wire'[p][i].call \in Refused
    BY <2>7 DEF CallInv
  <2> DEFINE w == wire[Other(p)]
  <2>9. w \in Seq(Packet) /\ \A i \in 1 .. Len(w) : w[i].pkt = "call" => w[i].call \in Refused
    BY <2>3 DEF CallInv
  <2>10. wire'[Other(p)] \in {w, Append(w, x)}
    BY <2>7
  <2> HIDE DEF w
  <2>11. ASSUME NEW i \in 1 .. Len(Append(w, x)), Append(w, x)[i].pkt = "call"
         PROVE  Append(w, x)[i].call \in Refused
    <3>1. /\ Len(w) \in Nat /\ Len(Append(w, x)) = Len(w) + 1 /\ Append(w, x)[Len(w) + 1] = x
          /\ \A k \in 1 .. Len(w) : Append(w, x)[k] = w[k]
      BY <2>6, <2>9, AppendProperties
    <3>2. i = Len(w) + 1 \/ i \in 1 .. Len(w)
      BY <3>1
    <3> QED
      BY <2>6, <2>9, <2>11, <3>1, <3>2
  <2>12. \A i \in 1 .. Len(wire'[Other(p)]) :
           wire'[Other(p)][i].pkt = "call" => wire'[Other(p)][i].call \in Refused
    BY <2>9, <2>10, <2>11
  <2> QED
    BY <2>2, <2>8, <2>12 DEF CallInv
<1>18. ASSUME NEW p \in Peers, NEW c \in Calls, NEW j \in Job, WriteBody(p, c, j)
       PROVE  CallInv'
  <2>1. /\ job[p][c][j].at # "off" /\ Put(p, c, j, "body")
    BY <1>18 DEF WriteBody
  <2>2. \A q \in Peers : q = p \/ q = Other(p)
    BY OtherPeer
  <2>3. Other(p) \in Peers /\ wire \in [Peers -> Seq(Packet)]
    BY OtherPeer DEF Types, ConnOK
  <2>4. job[p][c][j].pkt = "call" => c \in Refused
    BY <2>1 DEF IInv, SinkOK, KindInv, RefuseInv, Active, Job, Closer
  <2>5. job[p][c][j].pkt \in PktKind
    BY <2>1, JobPkt DEF IInv
  <2> DEFINE x == [part |-> "body", pkt |-> job[p][c][j].pkt, call |-> c]
  <2>6. x \in Packet /\ (x.pkt = "call" => x.call \in Refused)
    BY <2>4, <2>5 DEF Packet
  <2>7. wire'[p] = wire[p] /\ wire'[Other(p)] \in {wire[Other(p)], Append(wire[Other(p)], x)}
    BY <2>1, <2>5, PutWire
  <2> HIDE DEF x
  <2>8. \A i \in 1 .. Len(wire'[p]) : wire'[p][i].pkt = "call" => wire'[p][i].call \in Refused
    BY <2>7 DEF CallInv
  <2> DEFINE w == wire[Other(p)]
  <2>9. w \in Seq(Packet) /\ \A i \in 1 .. Len(w) : w[i].pkt = "call" => w[i].call \in Refused
    BY <2>3 DEF CallInv
  <2>10. wire'[Other(p)] \in {w, Append(w, x)}
    BY <2>7
  <2> HIDE DEF w
  <2>11. ASSUME NEW i \in 1 .. Len(Append(w, x)), Append(w, x)[i].pkt = "call"
         PROVE  Append(w, x)[i].call \in Refused
    <3>1. /\ Len(w) \in Nat /\ Len(Append(w, x)) = Len(w) + 1 /\ Append(w, x)[Len(w) + 1] = x
          /\ \A k \in 1 .. Len(w) : Append(w, x)[k] = w[k]
      BY <2>6, <2>9, AppendProperties
    <3>2. i = Len(w) + 1 \/ i \in 1 .. Len(w)
      BY <3>1
    <3> QED
      BY <2>6, <2>9, <2>11, <3>1, <3>2
  <2>12. \A i \in 1 .. Len(wire'[Other(p)]) :
           wire'[Other(p)][i].pkt = "call" => wire'[Other(p)][i].call \in Refused
    BY <2>9, <2>10, <2>11
  <2> QED
    BY <2>2, <2>8, <2>12 DEF CallInv
<1>19. ASSUME NEW p \in Peers, NEW c \in Calls, NEW j \in Job, WriteFails(p, c, j)
       PROVE  UNCHANGED <<wire>>
  BY <1>19 DEF WriteFails, WriteDone, connVars
<1>20. ASSUME NEW c \in Calls, start(c) PROVE UNCHANGED <<wire>>
  BY <1>20 DEF start, connVars
<1>21. ASSUME UNCHANGED vars PROVE UNCHANGED <<wire>>
  BY <1>21 DEF vars, connVars
<1>22. ASSUME UNCHANGED <<wire>> PROVE CallInv'
  BY <1>22 DEF CallInv
<1> QED
  BY <1>1, <1>2, <1>fetch, <1>3, <1>4, <1>5, <1>6, <1>7, <1>8, <1>9, <1>10, <1>11, <1>12, <1>13,
     <1>14, <1>15, <1>16, <1>17, <1>18, <1>19, <1>20, <1>21, <1>22
  DEF Next, ServeStep, TerminateStep, WritePacket

-------------------------------------------------------------------------------
(* The steps: one sink.                                                    *)

(* A step on one sink leaves the others alone.                             *)
LEMMA OtherSinks ==
  ASSUME IInv, NEW p \in Peers, NEW c \in Calls,
         SinkOK(p, c)',
         \A q \in Peers, d \in Calls : <<q, d>> # <<p, c>> =>
           /\ \A k \in Job : job'[q][d][k] = job[q][d][k]
           /\ smu'[q][d] = smu[q][d] /\ sinkClosed'[q][d] = sinkClosed[q][d]
           /\ apc'[q][d] = apc[q][d] /\ (d \in erred'[q] <=> d \in erred[q])
  PROVE  \A q \in Peers, d \in Calls : SinkOK(q, d)'
<1> SUFFICES ASSUME NEW q \in Peers, NEW d \in Calls, <<q, d>> # <<p, c>>
             PROVE  SinkOK(q, d)'
  OBVIOUS
<1>1. SinkOK(q, d)
  BY DEF IInv
<1>2. /\ "write" \in Job /\ Closer \subseteq Job
  BY DEF Job
<1>3. \A k \in Job : job'[q][d][k] = job[q][d][k]
  OBVIOUS
<1>4. /\ smu'[q][d] = smu[q][d] /\ sinkClosed'[q][d] = sinkClosed[q][d]
      /\ apc'[q][d] = apc[q][d] /\ (d \in erred'[q] <=> d \in erred[q])
  OBVIOUS
<1>5. KindInv(q, d)'
  BY <1>1, <1>2, <1>3 DEF SinkOK, KindInv, Active
<1>6. SinkInv(q, d)'
  BY <1>1, <1>2, <1>3, <1>4 DEF SinkOK, SinkInv, Active
<1>7. ErrInv(q, d)'
  BY <1>1, <1>2, <1>3, <1>4 DEF SinkOK, ErrInv, Active
<1> QED
  BY <1>5, <1>6, <1>7 DEF SinkOK

(* CloseWithError, on a sink that nobody has and nobody has closed.        *)
LEMMA CloseSink ==
  ASSUME JobsOK, SinksOK, NEW p \in Peers, NEW c \in Calls, SinkOK(p, c),
         NEW by \in Closer, NEW err \in BOOLEAN, sinkClose(p, c, by, err),
         smu[p][c] = "none", sinkClosed[p][c] = "nil",
         by = "app" => c \notin Refused,
         apc'[p][c] \in {apc[p][c], "done"},
         c \in erred'[p] <=> c \in erred[p]
  PROVE  SinkOK(p, c)'
<1>1. /\ job'[p][c][by].at = "header" /\ job'[p][c][by].pkt = IF err THEN "err" ELSE "ok"
      /\ smu'[p][c] = by
      /\ sinkClosed'[p][c] = IF err THEN "err" ELSE "nil"
  BY CloseEffect
<1>2. \A k \in Job : k # by => job'[p][c][k] = job[p][c][k]
  BY CloseEffect
<1>3. "write" \in Job /\ Closer \subseteq Job /\ "write" \notin Closer /\ "none" \notin Closer
  BY DEF Job, Closer
<1>4. \A k \in Closer : job[p][c][k].at = "off"
  BY DEF SinkOK, SinkInv, Active
<1>5. \A k \in Closer : k # by => job'[p][c][k].at = "off"
  BY <1>2, <1>3, <1>4
<1>6. job'[p][c]["write"] = job[p][c]["write"]
  BY <1>2, <1>3
<1>7. c \notin Refused => job[p][c]["write"].at = "off"
  BY DEF SinkOK, SinkInv, Active
<1>8. KindInv(p, c)'
  BY <1>1, <1>5, <1>6 DEF SinkOK, KindInv, Active
<1>9. SinkInv(p, c)'
  BY <1>1, <1>3, <1>5, <1>6, <1>7 DEF SinkOK, SinkInv, Active
<1>10. c \notin Refused => c \notin erred[p]
  BY DEF SinkOK, ErrInv
<1>11. ErrInv(p, c)'
  BY <1>1, <1>5, <1>6, <1>7, <1>10 DEF ErrInv, Active
<1> QED
  BY <1>8, <1>9, <1>11 DEF SinkOK

(* Its return.                                                             *)
LEMMA CloseReturnsSink ==
  ASSUME JobsOK, SinksOK, NEW p \in Peers, NEW c \in Calls, SinkOK(p, c),
         NEW by \in Closer, sinkCloseReturns(p, c, by),
         by = "app" => job[p][c]["write"].at = "off",
         apc'[p][c] = apc[p][c], c \in erred'[p] <=> c \in erred[p]
  PROVE  SinkOK(p, c)'
<1>1. smu[p][c] = by /\ smu'[p][c] = "none"
  BY CloseReturnsEffect
<1>2. \A k \in Job : k # by => job'[p][c][k] = job[p][c][k]
  BY CloseReturnsEffect
<1>3. "write" \in Job /\ Closer \subseteq Job /\ "write" \notin Closer /\ "none" \notin Closer
  BY DEF Job, Closer
<1>4. \/ job'[p][c][by].at = "off" /\ sinkClosed'[p][c] \in {sinkClosed[p][c], "io"}
      \/ job'[p][c][by] = job[p][c][by] /\ sinkClosed'[p][c] = "timeout"
  BY CloseReturnsEffect
<1>5. \A k \in Closer : k # by => job'[p][c][k].at = "off" /\ job[p][c][k].at = "off"
  BY <1>1, <1>2, <1>3 DEF SinkOK, SinkInv, Active
<1>6. job'[p][c]["write"] = job[p][c]["write"]
  BY <1>2, <1>3
<1>7. c \notin Refused => job[p][c]["write"].at = "off"
  BY <1>1 DEF SinkOK, SinkInv, Active
<1>8. KindInv(p, c)'
  BY <1>4, <1>5, <1>6 DEF SinkOK, KindInv, Active
<1>9. SinkInv(p, c)'
  BY <1>1, <1>3, <1>4, <1>5, <1>6, <1>7 DEF SinkOK, SinkInv, Active
<1>10. \A k \in Closer : job'[p][c][k].at # "off" => job'[p][c][k] = job[p][c][k]
  BY <1>4, <1>5
<1>11. sinkClosed[p][c] # "nil" => sinkClosed'[p][c] # "nil"
  BY <1>4
<1>12. ErrInv(p, c)'
  BY <1>6, <1>10, <1>11 DEF SinkOK, ErrInv, Active
<1> QED
  BY <1>8, <1>9, <1>12 DEF SinkOK

(* A header that goes out.                                                 *)
LEMMA HeaderSink ==
  ASSUME JobsOK, NEW p \in Peers, NEW c \in Calls, SinkOK(p, c), RefuseInv(p, c),
         NEW j \in Job, WriteHeader(p, c, j), TablesOK
  PROVE  SinkOK(p, c)'
<1>1. /\ job'[p][c][j].at = "body" /\ job'[p][c][j].pkt = job[p][c][j].pkt
      /\ \A k \in Job : k # j => job'[p][c][k] = job[p][c][k]
  BY HeaderJob
<1>2. /\ job[p][c][j].at = "header" /\ UNCHANGED <<smu, sinkClosed, apc>>
      /\ c \in erred'[p] => c \in erred[p] \/ job[p][c][j].pkt = "err"
  BY DEF WriteHeader, sinkVars, appVars, TablesOK
<1>3. "write" \in Job /\ Closer \subseteq Job /\ \A k \in Job : k \in Closer \cup {"write", "refuse"}
  BY DEF Job
<1>4. \A k \in Job : /\ job'[p][c][k].pkt = job[p][c][k].pkt
                     /\ job'[p][c][k].at = "off" <=> job[p][c][k].at = "off"
  BY <1>1, <1>2
<1>5. job'[p][c]["write"].at \in {job[p][c]["write"].at, "body"}
  BY <1>1, <1>3
<1>6. KindInv(p, c)'
  BY <1>3, <1>4, <1>5 DEF SinkOK, KindInv, Active
<1>7. SinkInv(p, c)'
  BY <1>2, <1>3, <1>4 DEF SinkOK, SinkInv, Active
<1>8. c \notin Refused /\ job[p][c][j].pkt = "err" => j \in Closer
  BY <1>2, <1>3 DEF SinkOK, KindInv, RefuseInv, Active
<1>9. ErrInv(p, c)'
  BY <1>2, <1>3, <1>4, <1>8 DEF SinkOK, ErrInv, Active
<1> QED
  BY <1>6, <1>7, <1>9 DEF SinkOK

(* A packet that is done, or failed.                                       *)
LEMMA DoneSink ==
  ASSUME JobsOK, SinksOK, NEW p \in Peers, NEW c \in Calls, SinkOK(p, c), RefuseInv(p, c),
         NEW j \in Job, NEW result \in {"sent", "failed"}, WriteDone(p, c, j, result),
         job[p][c][j].at # "off"
  PROVE  SinkOK(p, c)'
<1>1. /\ job'[p][c][j].at \in {"off", result}
      /\ j = "write" => job'[p][c][j].at = "off"
      /\ j \in Closer /\ smu[p][c] # j => job'[p][c][j].at = "off"
      /\ job'[p][c][j].at # "off" => job'[p][c][j].pkt = job[p][c][j].pkt
      /\ \A k \in Job : k # j => job'[p][c][k] = job[p][c][k]
  BY DoneJob
<1>2. IF job[p][c][j].pkt = "data"
      THEN smu'[p][c] = "none" /\ sinkClosed'[p][c] \in {sinkClosed[p][c], "io"}
      ELSE smu'[p][c] = smu[p][c] /\ sinkClosed'[p][c] = sinkClosed[p][c]
  BY DoneEffect
<1>3. apc' = apc /\ erred' = erred
  BY DEF WriteDone, appVars
<1>4. "write" \in Job /\ Closer \subseteq Job /\ "write" \notin Closer
      /\ \A k \in Job : k \in Closer \cup {"write", "refuse"}
  BY DEF Job, Closer
<1>5. job[p][c][j].pkt = "data" => j = "write" /\ c \notin Refused
  BY <1>4 DEF SinkOK, KindInv, RefuseInv, Active
<1>6. \A k \in Job : job'[p][c][k].at # "off" => /\ job'[p][c][k].pkt = job[p][c][k].pkt
                                                /\ job[p][c][k].at # "off"
  BY <1>1
<1>7. job'[p][c]["write"].at # "off" => job'[p][c]["write"].at = job[p][c]["write"].at
  BY <1>1, <1>4
<1>8. KindInv(p, c)'
  BY <1>4, <1>6, <1>7 DEF SinkOK, KindInv, Active
<1>9. ErrInv(p, c)'
  <2>1. sinkClosed[p][c] # "nil" => sinkClosed'[p][c] # "nil"
    BY <1>2
  <2> QED
    BY <1>3, <1>4, <1>6, <2>1 DEF SinkOK, ErrInv, Active
<1>10. SinkInv(p, c)'
  <2>1. CASE job[p][c][j].pkt = "data"
    <3>1. job'[p][c]["write"].at = "off" /\ smu'[p][c] = "none"
      BY <1>1, <1>2, <1>5, <2>1
    <3>2. \A k \in Closer : job'[p][c][k].at = "off"
      BY <1>4, <1>5, <1>6, <2>1 DEF SinkOK, SinkInv, Active
    <3> QED
      BY <3>1, <3>2 DEF SinkInv, Active
  <2>2. CASE job[p][c][j].pkt # "data"
    BY <1>2, <1>3, <1>4, <1>6, <2>2 DEF SinkOK, SinkInv, Active
  <2> QED
    BY <2>1, <2>2
<1> QED
  BY <1>8, <1>9, <1>10 DEF SinkOK

(* A step that touches no sink.                                            *)
LEMMA SinksKept ==
  ASSUME IInv, UNCHANGED <<job, smu, sinkClosed, apc, erred>>
  PROVE  \A q \in Peers, d \in Calls : SinkOK(q, d)'
BY DEF IInv, SinkOK, KindInv, SinkInv, ErrInv, Active

(* A step keeps the invariant of every sink.                               *)
LEMMA SinkStep ==
  ASSUME IInv, [Next]_vars, JobsOK, SinksOK, TablesOK, PlacesOK
  PROVE  \A q \in Peers, d \in Calls : SinkOK(q, d)'
<1>1. ASSUME NEW p \in Peers, ReadHeader(p)
      PROVE  UNCHANGED <<job, smu, sinkClosed, apc, erred>>
  BY <1>1 DEF ReadHeader, jobVars, sinkVars, appVars
<1>2. ASSUME NEW p \in Peers, Lookup(p) PROVE UNCHANGED <<job, smu, sinkClosed, apc, erred>>
  BY <1>2 DEF Lookup, jobVars, sinkVars, appVars
<1>fetch. ASSUME NEW p \in Peers, fetchRequest(p) PROVE UNCHANGED <<job, smu, sinkClosed, apc, erred>>
  BY <1>fetch DEF fetchRequest, jobVars, sinkVars, appVars
<1>3. ASSUME NEW p \in Peers, ReadBody(p) PROVE \A q \in Peers, d \in Calls : SinkOK(q, d)'
  <2>1. UNCHANGED <<smu, sinkClosed, apc, erred>>
    BY <1>3 DEF ReadBody, sinkVars, appVars
  <2>2. CASE spc[p] # "parse"
    BY <1>3, <2>1, <2>2, SinksKept DEF ReadBody
  <2>3. CASE spc[p] = "parse"
    <3>1. cur[p].call \in Calls /\ cur[p].call \in Refused
      BY <2>3, CurCall DEF IInv, CurInv
    <3>2. "refuse" \in Job /\ "err" \in PktKind /\ "refuse" \notin Closer \cup {"write"} /\ Closer \cup {"write"} \subseteq Job
      BY DEF Job, PktKind, Closer
    <3>3. Begin(p, cur[p].call, "refuse", "err")
      BY <1>3, <2>3 DEF ReadBody
    <3>4. \A q \in Peers, d \in Calls, k \in Closer \cup {"write"} : job'[q][d][k] = job[q][d][k]
      BY <3>1, <3>2, <3>3, BeginJob
    <3> QED
      BY <2>1, <3>4 DEF IInv, SinkOK, KindInv, SinkInv, ErrInv, Active
  <2> QED
    BY <2>2, <2>3
<1>4. ASSUME NEW p \in Peers, ReadFails(p)
      PROVE  UNCHANGED <<job, smu, sinkClosed, apc, erred>>
  BY <1>4 DEF ReadFails, jobVars, sinkVars, appVars
<1>5. ASSUME NEW p \in Peers, noSuchMethod(p)
      PROVE  \A q \in Peers, d \in Calls : SinkOK(q, d)'
  <2>1. UNCHANGED <<smu, sinkClosed, apc, erred>>
    BY <1>5 DEF noSuchMethod, sinkVars, appVars
  <2>2. cur[p].call \in Calls
    BY <1>5, CurCall DEF noSuchMethod
  <2>3. "refuse" \in Job /\ "refuse" \notin Closer \cup {"write"} /\ Closer \cup {"write"} \subseteq Job
    BY DEF Job, Closer
  <2>4. job' = [job EXCEPT ![p][cur[p].call]["refuse"] = Off]
    BY <1>5 DEF noSuchMethod
  <2>5. \A q \in Peers, d \in Calls, k \in Closer \cup {"write"} : job'[q][d][k] = job[q][d][k]
    BY <2>2, <2>3, <2>4, OffState, JobUpdate
  <2> QED
    BY <2>1, <2>5 DEF IInv, SinkOK, KindInv, SinkInv, ErrInv, Active
<1>6. ASSUME NEW p \in Peers, closeStream(p)
      PROVE  \A q \in Peers, d \in Calls : SinkOK(q, d)'
  <2>0. PICK c \in Calls : c = cur[p].call
    BY <1>6, CurCall DEF closeStream
  <2>1. "serve" \in Closer /\ apc' = apc /\ erred' = erred /\ smu[p][c] = "none"
    BY <2>0, <1>6 DEF closeStream, Closer, appVars
  <2>2. CASE sinkClosed[p][c] = "nil"
    <3>1. PICK err \in BOOLEAN : sinkClose(p, c, "serve", err)
      BY <2>0, <1>6, <2>2 DEF closeStream
    <3>2. SinkOK(p, c)'
      BY <2>1, <2>2, <3>1, CloseSink DEF IInv
    <3>3. \A q \in Peers, d \in Calls : <<q, d>> # <<p, c>> =>
            /\ \A k \in Job : job'[q][d][k] = job[q][d][k]
            /\ smu'[q][d] = smu[q][d] /\ sinkClosed'[q][d] = sinkClosed[q][d]
            /\ apc'[q][d] = apc[q][d] /\ (d \in erred'[q] <=> d \in erred[q])
      BY <2>1, <3>1, CloseEffect
    <3> QED
      BY <3>2, <3>3, OtherSinks
  <2>3. CASE sinkClosed[p][c] # "nil"
    <3>1. UNCHANGED <<job, smu, sinkClosed, apc, erred>>
      BY <2>0, <1>6, <2>1, <2>3 DEF closeStream, sinkVars
    <3> QED
      BY <3>1, SinksKept
  <2> QED
    BY <2>2, <2>3
<1>7. ASSUME NEW p \in Peers, closeStreamReturns(p)
      PROVE  \A q \in Peers, d \in Calls : SinkOK(q, d)'
  <2>0. PICK c \in Calls : c = cur[p].call
    BY <1>7, CurCall DEF closeStreamReturns
  <2>1. /\ "serve" \in Closer /\ apc' = apc /\ erred' = erred
        /\ "serve" = "app" => job[p][c]["write"].at = "off"
        /\ sinkCloseReturns(p, c, "serve")
    BY <2>0, <1>7 DEF closeStreamReturns, Closer, appVars
  <2>2. SinkOK(p, c)'
    BY <2>1, CloseReturnsSink DEF IInv
  <2>3. \A q \in Peers, d \in Calls : <<q, d>> # <<p, c>> =>
          /\ \A k \in Job : job'[q][d][k] = job[q][d][k]
          /\ smu'[q][d] = smu[q][d] /\ sinkClosed'[q][d] = sinkClosed[q][d]
          /\ apc'[q][d] = apc[q][d] /\ (d \in erred'[q] <=> d \in erred[q])
    BY <2>1, CloseReturnsEffect
  <2> QED
    BY <2>2, <2>3, OtherSinks
<1>8. ASSUME NEW p \in Peers, closeStreamForget(p)
      PROVE  UNCHANGED <<job, smu, sinkClosed, apc, erred>>
  BY <1>8 DEF closeStreamForget, jobVars, sinkVars, appVars
<1>9. ASSUME NEW p \in Peers, Terminate(p)
      PROVE  UNCHANGED <<job, smu, sinkClosed, apc, erred>>
  BY <1>9 DEF Terminate, jobVars, sinkVars, appVars
<1>10. ASSUME NEW p \in Peers, TerminateLock(p)
       PROVE  UNCHANGED <<job, smu, sinkClosed, apc, erred>>
  BY <1>10 DEF TerminateLock, jobVars, sinkVars, appVars
<1>11. ASSUME NEW p \in Peers, TerminateClose(p)
       PROVE  UNCHANGED <<job, smu, sinkClosed, apc, erred>>
  BY <1>11 DEF TerminateClose, jobVars, sinkVars, appVars
<1>12. ASSUME NEW p \in Peers, NEW c \in Calls, TerminateSweep(p, c)
       PROVE  \A q \in Peers, d \in Calls : SinkOK(q, d)'
  <2>1. "term" \in Closer /\ apc' = apc /\ erred' = erred /\ smu[p][c] = "none"
    BY <1>12 DEF TerminateSweep, Closer, appVars
  <2>2. CASE sinkClosed[p][c] = "nil"
    <3>1. PICK err \in BOOLEAN : sinkClose(p, c, "term", err)
      BY <1>12, <2>2 DEF TerminateSweep
    <3>2. SinkOK(p, c)'
      BY <2>1, <2>2, <3>1, CloseSink DEF IInv
    <3>3. \A q \in Peers, d \in Calls : <<q, d>> # <<p, c>> =>
            /\ \A k \in Job : job'[q][d][k] = job[q][d][k]
            /\ smu'[q][d] = smu[q][d] /\ sinkClosed'[q][d] = sinkClosed[q][d]
            /\ apc'[q][d] = apc[q][d] /\ (d \in erred'[q] <=> d \in erred[q])
      BY <2>1, <3>1, CloseEffect
    <3> QED
      BY <3>2, <3>3, OtherSinks
  <2>3. CASE sinkClosed[p][c] # "nil"
    <3>1. UNCHANGED <<job, smu, sinkClosed, apc, erred>>
      BY <1>12, <2>1, <2>3 DEF TerminateSweep, sinkVars
    <3> QED
      BY <3>1, SinksKept
  <2> QED
    BY <2>2, <2>3
<1>13. ASSUME NEW p \in Peers, NEW c \in Calls, TerminateSweepReturns(p, c)
       PROVE  \A q \in Peers, d \in Calls : SinkOK(q, d)'
  <2>1. /\ "term" \in Closer /\ apc' = apc /\ erred' = erred
        /\ "term" = "app" => job[p][c]["write"].at = "off"
        /\ sinkCloseReturns(p, c, "term")
    BY <1>13 DEF TerminateSweepReturns, Closer, appVars
  <2>2. SinkOK(p, c)'
    BY <2>1, CloseReturnsSink DEF IInv
  <2>3. \A q \in Peers, d \in Calls : <<q, d>> # <<p, c>> =>
          /\ \A k \in Job : job'[q][d][k] = job[q][d][k]
          /\ smu'[q][d] = smu[q][d] /\ sinkClosed'[q][d] = sinkClosed[q][d]
          /\ apc'[q][d] = apc[q][d] /\ (d \in erred'[q] <=> d \in erred[q])
    BY <2>1, CloseReturnsEffect
  <2> QED
    BY <2>2, <2>3, OtherSinks
<1>14. ASSUME NEW p \in Peers, NEW c \in Calls, Write(p, c)
       PROVE  \A q \in Peers, d \in Calls : SinkOK(q, d)'
  <2>1. /\ c \notin Refused /\ smu[p][c] = "none" /\ sinkClosed[p][c] = "nil"
        /\ "write" \in Job /\ "data" \in PktKind /\ apc' = apc /\ erred' = erred
    BY <1>14, BackpressureAssumption DEF Write, Job, PktKind
  <2>2. SinkOK(p, c)
    BY DEF IInv
  <2>3. Closer \subseteq Job /\ "write" \notin Closer
    BY DEF Job, Closer
  <2>4. /\ c \notin erred[p] /\ job[p][c]["write"].at = "off"
        /\ \A k \in Closer : job[p][c][k].at = "off"
    BY <2>1, <2>2 DEF SinkOK, SinkInv, ErrInv, Active
  <2>5. CASE StreamCtxDone(p, c)
    <3>1. UNCHANGED <<smu, job>> /\ sinkClosed' = [sinkClosed EXCEPT ![p][c] = "canceled"]
      BY <1>14, <2>5 DEF Write
    <3>2. \A q \in Peers, d \in Calls :
            sinkClosed'[q][d] = IF q = p /\ d = c THEN "canceled" ELSE sinkClosed[q][d]
      BY <3>1, GridUpdate DEF SinksOK
    <3>3. SinkOK(p, c)'
      BY <2>1, <2>2, <2>4, <3>1, <3>2 DEF SinkOK, KindInv, SinkInv, ErrInv, Active
    <3> QED
      BY <2>1, <3>1, <3>2, <3>3, OtherSinks
  <2>6. CASE ~StreamCtxDone(p, c)
    <3>1. /\ smu' = [smu EXCEPT ![p][c] = "app"] /\ sinkClosed' = sinkClosed
          /\ Begin(p, c, "write", "data")
      BY <1>14, <2>6 DEF Write
    <3>2. \A q \in Peers, d \in Calls : smu'[q][d] = IF q = p /\ d = c THEN "app" ELSE smu[q][d]
      BY <3>1 DEF SinksOK
    <3>3. /\ job'[p][c]["write"].at = "header" /\ job'[p][c]["write"].pkt = "data"
          /\ \A q \in Peers, d \in Calls, k \in Job :
               <<q, d, k>> # <<p, c, "write">> => job'[q][d][k] = job[q][d][k]
      BY <2>1, <3>1, BeginJob
    <3>4. \A k \in Closer : job'[p][c][k].at = "off"
      BY <2>3, <2>4, <3>3
    <3>5. SinkOK(p, c)'
      BY <2>1, <2>4, <3>1, <3>2, <3>3, <3>4 DEF SinkOK, KindInv, SinkInv, ErrInv, Active
    <3> QED
      BY <2>1, <3>1, <3>2, <3>3, <3>5, OtherSinks
  <2> QED
    BY <2>5, <2>6
<1>15. ASSUME NEW p \in Peers, NEW c \in Calls, CloseWithError(p, c)
       PROVE  \A q \in Peers, d \in Calls : SinkOK(q, d)'
  <2>1. /\ "app" \in Closer /\ apc' = [apc EXCEPT ![p][c] = "done"] /\ erred' = erred
        /\ smu[p][c] = "none" /\ sinkClosed[p][c] = "nil" /\ c \notin Refused
    BY <1>15, BackpressureAssumption DEF CloseWithError, Closer
  <2>2. PICK err \in BOOLEAN : sinkClose(p, c, "app", err)
    BY <1>15 DEF CloseWithError
  <2>3. \A q \in Peers, d \in Calls : apc'[q][d] = IF q = p /\ d = c THEN "done" ELSE apc[q][d]
    BY <2>1 DEF PlacesOK
  <2>4. SinkOK(p, c)'
    BY <2>1, <2>2, <2>3, CloseSink DEF IInv
  <2>5. \A q \in Peers, d \in Calls : <<q, d>> # <<p, c>> =>
          /\ \A k \in Job : job'[q][d][k] = job[q][d][k]
          /\ smu'[q][d] = smu[q][d] /\ sinkClosed'[q][d] = sinkClosed[q][d]
          /\ apc'[q][d] = apc[q][d] /\ (d \in erred'[q] <=> d \in erred[q])
    BY <2>1, <2>2, <2>3, CloseEffect
  <2> QED
    BY <2>4, <2>5, OtherSinks
<1>16. ASSUME NEW p \in Peers, NEW c \in Calls, CloseReturns(p, c)
       PROVE  \A q \in Peers, d \in Calls : SinkOK(q, d)'
  <2>1. /\ "app" \in Closer /\ apc' = apc /\ erred' = erred
        /\ "app" = "app" => job[p][c]["write"].at = "off"
        /\ sinkCloseReturns(p, c, "app")
    BY <1>16 DEF CloseReturns, Closer, appVars
  <2>2. SinkOK(p, c)'
    BY <2>1, CloseReturnsSink DEF IInv
  <2>3. \A q \in Peers, d \in Calls : <<q, d>> # <<p, c>> =>
          /\ \A k \in Job : job'[q][d][k] = job[q][d][k]
          /\ smu'[q][d] = smu[q][d] /\ sinkClosed'[q][d] = sinkClosed[q][d]
          /\ apc'[q][d] = apc[q][d] /\ (d \in erred'[q] <=> d \in erred[q])
    BY <2>1, CloseReturnsEffect
  <2> QED
    BY <2>2, <2>3, OtherSinks
<1>17. ASSUME NEW p \in Peers, NEW c \in Calls, NEW j \in Job, WriteHeader(p, c, j)
       PROVE  \A q \in Peers, d \in Calls : SinkOK(q, d)'
  <2>1. UNCHANGED <<smu, sinkClosed, apc>>
    BY <1>17 DEF WriteHeader, sinkVars, appVars
  <2>2. \A q \in Peers, d \in Calls : <<q, d>> # <<p, c>> => (d \in erred'[q] <=> d \in erred[q])
    BY <1>17 DEF WriteHeader, TablesOK
  <2>3. \A q \in Peers, d \in Calls, k \in Job :
          <<q, d, k>> # <<p, c, j>> => job'[q][d][k] = job[q][d][k]
    BY <1>17, HeaderJob
  <2>4. SinkOK(p, c)'
    BY <1>17, HeaderSink DEF IInv
  <2>5. \A q \in Peers, d \in Calls : <<q, d>> # <<p, c>> =>
          /\ \A k \in Job : job'[q][d][k] = job[q][d][k]
          /\ smu'[q][d] = smu[q][d] /\ sinkClosed'[q][d] = sinkClosed[q][d]
          /\ apc'[q][d] = apc[q][d] /\ (d \in erred'[q] <=> d \in erred[q])
    BY <2>1, <2>2, <2>3
  <2> QED
    BY <2>4, <2>5, OtherSinks
<1>18. ASSUME NEW p \in Peers, NEW c \in Calls, NEW j \in Job, WriteBody(p, c, j)
       PROVE  \A q \in Peers, d \in Calls : SinkOK(q, d)'
  <2>1. PICK result \in {"sent", "failed"} : WriteDone(p, c, j, result)
    BY <1>18 DEF WriteBody
  <2>2. job[p][c][j].at # "off"
    BY <1>18 DEF WriteBody
  <2>3. SinkOK(p, c)'
    BY <2>1, <2>2, DoneSink DEF IInv
  <2>4. apc' = apc /\ erred' = erred
    BY <2>1 DEF WriteDone, appVars
  <2>5. \A q \in Peers, d \in Calls : <<q, d>> # <<p, c>> =>
          /\ \A k \in Job : job'[q][d][k] = job[q][d][k]
          /\ smu'[q][d] = smu[q][d] /\ sinkClosed'[q][d] = sinkClosed[q][d]
          /\ apc'[q][d] = apc[q][d] /\ (d \in erred'[q] <=> d \in erred[q])
    BY <2>1, <2>4, DoneJob, DoneEffect
  <2> QED
    BY <2>3, <2>5, OtherSinks
<1>19. ASSUME NEW p \in Peers, NEW c \in Calls, NEW j \in Job, WriteFails(p, c, j)
       PROVE  \A q \in Peers, d \in Calls : SinkOK(q, d)'
  <2>1. PICK result \in {"sent", "failed"} : WriteDone(p, c, j, result)
    BY <1>19 DEF WriteFails
  <2>2. job[p][c][j].at # "off"
    BY <1>19 DEF WriteFails
  <2>3. SinkOK(p, c)'
    BY <2>1, <2>2, DoneSink DEF IInv
  <2>4. apc' = apc /\ erred' = erred
    BY <2>1 DEF WriteDone, appVars
  <2>5. \A q \in Peers, d \in Calls : <<q, d>> # <<p, c>> =>
          /\ \A k \in Job : job'[q][d][k] = job[q][d][k]
          /\ smu'[q][d] = smu[q][d] /\ sinkClosed'[q][d] = sinkClosed[q][d]
          /\ apc'[q][d] = apc[q][d] /\ (d \in erred'[q] <=> d \in erred[q])
    BY <2>1, <2>4, DoneJob, DoneEffect
  <2> QED
    BY <2>3, <2>5, OtherSinks
<1>20. ASSUME NEW c \in Calls, start(c) PROVE \A q \in Peers, d \in Calls : SinkOK(q, d)'
  <2> DEFINE p == CallerOf[c]
  <2>1. /\ p \in Peers /\ c \in Refused /\ "write" \in Job /\ "call" \in PktKind
        /\ Begin(p, c, "write", "call") /\ UNCHANGED <<smu, sinkClosed, erred>>
        /\ apc' = [apc EXCEPT ![p][c] = "done"]
    BY <1>20, BackpressureAssumption DEF start, Job, PktKind, sinkVars
  <2> HIDE DEF p
  <2>2. SinkOK(p, c) /\ Closer \subseteq Job /\ "write" \notin Closer
    BY <2>1 DEF IInv, Job, Closer
  <2>3. \A q \in Peers, d \in Calls : apc'[q][d] = IF q = p /\ d = c THEN "done" ELSE apc[q][d]
    BY <2>1 DEF PlacesOK
  <2>4. /\ job'[p][c]["write"].at = "header" /\ job'[p][c]["write"].pkt = "call"
        /\ \A q \in Peers, d \in Calls, k \in Job :
             <<q, d, k>> # <<p, c, "write">> => job'[q][d][k] = job[q][d][k]
    BY <2>1, BeginJob
  <2>5. \A k \in Closer : job'[p][c][k] = job[p][c][k]
    BY <2>1, <2>2, <2>4
  <2>6. SinkOK(p, c)'
    BY <2>1, <2>2, <2>3, <2>4, <2>5 DEF SinkOK, KindInv, SinkInv, ErrInv, Active
  <2>7. \A q \in Peers, d \in Calls : <<q, d>> # <<p, c>> =>
          /\ \A k \in Job : job'[q][d][k] = job[q][d][k]
          /\ smu'[q][d] = smu[q][d] /\ sinkClosed'[q][d] = sinkClosed[q][d]
          /\ apc'[q][d] = apc[q][d] /\ (d \in erred'[q] <=> d \in erred[q])
    BY <2>1, <2>3, <2>4
  <2> QED
    BY <2>1, <2>6, <2>7, OtherSinks
<1>21. ASSUME UNCHANGED vars PROVE UNCHANGED <<job, smu, sinkClosed, apc, erred>>
  BY <1>21 DEF vars, jobVars, sinkVars, appVars
<1>22. ASSUME UNCHANGED <<job, smu, sinkClosed, apc, erred>>
       PROVE  \A q \in Peers, d \in Calls : SinkOK(q, d)'
  BY <1>22, SinksKept
<1> QED
  BY <1>1, <1>2, <1>fetch, <1>3, <1>4, <1>5, <1>6, <1>7, <1>8, <1>9, <1>10, <1>11, <1>12, <1>13,
     <1>14, <1>15, <1>16, <1>17, <1>18, <1>19, <1>20, <1>21, <1>22
  DEF Next, ServeStep, TerminateStep, WritePacket

-------------------------------------------------------------------------------
(* The steps: refusals.                                                    *)

(* A step that starts no refusal, and leaves the loop where it waits for one. *)
LEMMA RefusalsKept ==
  ASSUME IInv,
         \A q \in Peers, d \in Calls : job'[q][d]["refuse"].at # "off" =>
           job[q][d]["refuse"].at # "off" /\ job'[q][d]["refuse"].pkt = job[q][d]["refuse"].pkt,
         \A q \in Peers : spc[q] = "refuse" => spc'[q] = "refuse" /\ cur'[q] = cur[q]
  PROVE  \A q \in Peers, d \in Calls : RefuseInv(q, d)'
BY DEF IInv, RefuseInv, Active

(* A refusal is under way only while the loop waits for it.                *)
LEMMA RefuseStep ==
  ASSUME IInv, [Next]_vars, JobsOK, SinksOK, PlacesOK
  PROVE  \A q \in Peers, d \in Calls : RefuseInv(q, d)'
<1>1. ASSUME NEW p \in Peers, ReadHeader(p)
      PROVE  \A q \in Peers, d \in Calls : RefuseInv(q, d)'
  <2>1. job' = job
    BY <1>1 DEF ReadHeader, jobVars
  <2>2. \A q \in Peers : spc[q] = "refuse" => spc'[q] = "refuse" /\ cur'[q] = cur[q]
    BY <1>1 DEF ReadHeader, ServeGoto, PlacesOK
  <2> QED
    BY <2>1, <2>2, RefusalsKept
<1>2. ASSUME NEW p \in Peers, Lookup(p) PROVE \A q \in Peers, d \in Calls : RefuseInv(q, d)'
  <2>1. job' = job
    BY <1>2 DEF Lookup, jobVars
  <2>2. \A q \in Peers : spc[q] = "refuse" => spc'[q] = "refuse" /\ cur'[q] = cur[q]
    BY <1>2 DEF Lookup, ServeGoto, PlacesOK
  <2> QED
    BY <2>1, <2>2, RefusalsKept
<1>fetch. ASSUME NEW p \in Peers, fetchRequest(p) PROVE \A q \in Peers, d \in Calls : RefuseInv(q, d)'
  <2>1. job' = job
    BY <1>fetch DEF fetchRequest, jobVars
  <2>2. \A q \in Peers : spc[q] = "refuse" => spc'[q] = "refuse" /\ cur'[q] = cur[q]
    BY <1>fetch DEF fetchRequest, ServeGoto, PlacesOK
  <2> QED
    BY <2>1, <2>2, RefusalsKept
<1>3. ASSUME NEW p \in Peers, ReadBody(p)
      PROVE  \A q \in Peers, d \in Calls : RefuseInv(q, d)'
  <2>1. CASE spc[p] # "parse"
    <3>1. job' = job
      BY <1>3, <2>1 DEF ReadBody
    <3>2. \A q \in Peers : spc[q] = "refuse" => spc'[q] = "refuse" /\ cur'[q] = cur[q]
      BY <1>3 DEF ReadBody, ServeGoto, PlacesOK
    <3> QED
      BY <3>1, <3>2, RefusalsKept
  <2>2. CASE spc[p] = "parse"
    <3>1. PICK c \in Calls : c = cur[p].call
      BY <2>2, CurCall
    <3>2. c \in Refused
      BY <2>2, <3>1 DEF IInv, CurInv
    <3>3. Begin(p, c, "refuse", "err") /\ spc' = [spc EXCEPT ![p] = "refuse"] /\ cur' = cur
      BY <1>3, <2>2, <3>1 DEF ReadBody, ServeGoto
    <3>4. "refuse" \in Job /\ "err" \in PktKind
      BY DEF Job, PktKind
    <3>5. /\ job'[p][c]["refuse"].pkt = "err"
          /\ \A q \in Peers, d \in Calls : <<q, d>> # <<p, c>> =>
               job'[q][d]["refuse"] = job[q][d]["refuse"]
      BY <3>3, <3>4, BeginJob
    <3>6. \A q \in Peers \ {p} : spc'[q] = spc[q]
      BY <3>3 DEF PlacesOK
    <3>7. spc'[p] = "refuse" /\ cur'[p].call = c
      BY <3>1, <3>3 DEF PlacesOK
    <3>8. \A d \in Calls : job[p][d]["refuse"].at = "off"
      BY <2>2 DEF IInv, RefuseInv, Active
    <3>9. RefuseInv(p, c)'
      BY <3>2, <3>5, <3>7 DEF RefuseInv
    <3>10. \A q \in Peers, d \in Calls : <<q, d>> # <<p, c>> => RefuseInv(q, d)'
      BY <3>3, <3>5, <3>6, <3>8 DEF IInv, RefuseInv, Active
    <3> QED
      BY <3>9, <3>10
  <2> QED
    BY <2>1, <2>2
<1>4. ASSUME NEW p \in Peers, ReadFails(p)
      PROVE  \A q \in Peers, d \in Calls : RefuseInv(q, d)'
  <2>1. job' = job
    BY <1>4 DEF ReadFails, jobVars
  <2>2. \A q \in Peers : spc[q] = "refuse" => spc'[q] = "refuse" /\ cur'[q] = cur[q]
    BY <1>4 DEF ReadFails, ServeGoto, PlacesOK
  <2> QED
    BY <2>1, <2>2, RefusalsKept
<1>5. ASSUME NEW p \in Peers, noSuchMethod(p)
      PROVE  \A q \in Peers, d \in Calls : RefuseInv(q, d)'
  <2>1. PICK c \in Calls : c = cur[p].call
    BY <1>5, CurCall DEF noSuchMethod
  <2>2. job' = [job EXCEPT ![p][c]["refuse"] = Off] /\ spc[p] = "refuse"
    BY <1>5, <2>1 DEF noSuchMethod
  <2>3. "refuse" \in Job
    BY DEF Job
  <2>4. /\ job'[p][c]["refuse"].at = "off"
        /\ \A q \in Peers, d \in Calls : <<q, d>> # <<p, c>> =>
             job'[q][d]["refuse"] = job[q][d]["refuse"]
    BY <2>2, <2>3, OffState, JobUpdate
  <2>5. \A q \in Peers \ {p} : spc'[q] = spc[q] /\ cur'[q] = cur[q]
    BY <1>5 DEF noSuchMethod, ServeGoto, PlacesOK
  <2>6. \A d \in Calls : d # c => job[p][d]["refuse"].at = "off"
    BY <2>1, <2>2 DEF IInv, RefuseInv, Active
  <2>7. \A d \in Calls : job'[p][d]["refuse"].at = "off"
    BY <2>4, <2>6
  <2> QED
    BY <2>4, <2>5, <2>7 DEF IInv, RefuseInv, Active
<1>6. ASSUME NEW p \in Peers, closeStream(p)
      PROVE  \A q \in Peers, d \in Calls : RefuseInv(q, d)'
  <2>0. PICK c \in Calls : c = cur[p].call
    BY <1>6, CurCall DEF closeStream
  <2>1. (\E err \in BOOLEAN : sinkClose(p, c, "serve", err)) \/ job' = job
    BY <2>0, <1>6 DEF closeStream
  <2>2. "serve" \in Closer /\ "serve" # "refuse" /\ "refuse" \in Job
    BY DEF Closer, Job
  <2>3. \A q \in Peers, d \in Calls : job'[q][d]["refuse"] = job[q][d]["refuse"]
    BY <2>1, <2>2, CloseEffect
  <2>4. \A q \in Peers : spc[q] = "refuse" => spc'[q] = "refuse" /\ cur'[q] = cur[q]
    BY <1>6 DEF closeStream, serveVars, ServeGoto, PlacesOK
  <2> QED
    BY <2>3, <2>4, RefusalsKept
<1>7. ASSUME NEW p \in Peers, closeStreamReturns(p)
      PROVE  \A q \in Peers, d \in Calls : RefuseInv(q, d)'
  <2>0. PICK c \in Calls : c = cur[p].call
    BY <1>7, CurCall DEF closeStreamReturns
  <2>1. sinkCloseReturns(p, c, "serve")
    BY <2>0, <1>7 DEF closeStreamReturns
  <2>2. "serve" \in Closer /\ "serve" # "refuse" /\ "refuse" \in Job
    BY DEF Closer, Job
  <2>3. \A q \in Peers, d \in Calls : job'[q][d]["refuse"] = job[q][d]["refuse"]
    BY <2>1, <2>2, CloseReturnsEffect
  <2>4. \A q \in Peers : spc[q] = "refuse" => spc'[q] = "refuse" /\ cur'[q] = cur[q]
    BY <1>7 DEF closeStreamReturns, serveVars, ServeGoto, PlacesOK
  <2> QED
    BY <2>3, <2>4, RefusalsKept
<1>8. ASSUME NEW p \in Peers, closeStreamForget(p)
      PROVE  \A q \in Peers, d \in Calls : RefuseInv(q, d)'
  <2>1. job' = job
    BY <1>8 DEF closeStreamForget, jobVars
  <2>2. \A q \in Peers : spc[q] = "refuse" => spc'[q] = "refuse" /\ cur'[q] = cur[q]
    BY <1>8 DEF closeStreamForget, ServeGoto, PlacesOK
  <2> QED
    BY <2>1, <2>2, RefusalsKept
<1>9. ASSUME NEW p \in Peers, Terminate(p) PROVE UNCHANGED <<job, spc, cur>>
  BY <1>9 DEF Terminate, jobVars, serveVars
<1>10. ASSUME NEW p \in Peers, TerminateLock(p) PROVE UNCHANGED <<job, spc, cur>>
  BY <1>10 DEF TerminateLock, jobVars, serveVars
<1>11. ASSUME NEW p \in Peers, TerminateClose(p) PROVE UNCHANGED <<job, spc, cur>>
  BY <1>11 DEF TerminateClose, jobVars, serveVars
<1>12. ASSUME NEW p \in Peers, NEW c \in Calls, TerminateSweep(p, c)
       PROVE  \A q \in Peers, d \in Calls : RefuseInv(q, d)'
  <2>1. (\E err \in BOOLEAN : sinkClose(p, c, "term", err)) \/ job' = job
    BY <1>12 DEF TerminateSweep
  <2>2. "term" \in Closer /\ "term" # "refuse" /\ "refuse" \in Job
    BY DEF Closer, Job
  <2>3. \A q \in Peers, d \in Calls : job'[q][d]["refuse"] = job[q][d]["refuse"]
    BY <2>1, <2>2, CloseEffect
  <2>4. \A q \in Peers : spc[q] = "refuse" => spc'[q] = "refuse" /\ cur'[q] = cur[q]
    BY <1>12 DEF TerminateSweep, serveVars, ServeGoto, PlacesOK
  <2> QED
    BY <2>3, <2>4, RefusalsKept
<1>13. ASSUME NEW p \in Peers, NEW c \in Calls, TerminateSweepReturns(p, c)
       PROVE  \A q \in Peers, d \in Calls : RefuseInv(q, d)'
  <2>1. sinkCloseReturns(p, c, "term")
    BY <1>13 DEF TerminateSweepReturns
  <2>2. "term" \in Closer /\ "term" # "refuse" /\ "refuse" \in Job
    BY DEF Closer, Job
  <2>3. \A q \in Peers, d \in Calls : job'[q][d]["refuse"] = job[q][d]["refuse"]
    BY <2>1, <2>2, CloseReturnsEffect
  <2>4. \A q \in Peers : spc[q] = "refuse" => spc'[q] = "refuse" /\ cur'[q] = cur[q]
    BY <1>13 DEF TerminateSweepReturns, serveVars, ServeGoto, PlacesOK
  <2> QED
    BY <2>3, <2>4, RefusalsKept
<1>14. ASSUME NEW p \in Peers, NEW c \in Calls, Write(p, c)
       PROVE  \A q \in Peers, d \in Calls : RefuseInv(q, d)'
  <2>1. job' = job \/ Begin(p, c, "write", "data")
    BY <1>14 DEF Write
  <2>2. "write" \in Job /\ "data" \in PktKind /\ "refuse" \in Job
    BY DEF Job, PktKind
  <2>3. \A q \in Peers, d \in Calls : job'[q][d]["refuse"] = job[q][d]["refuse"]
    BY <2>1, <2>2, BeginJob
  <2>4. spc' = spc /\ cur' = cur
    BY <1>14 DEF Write, serveVars
  <2> QED
    BY <2>3, <2>4, RefusalsKept
<1>15. ASSUME NEW p \in Peers, NEW c \in Calls, CloseWithError(p, c)
       PROVE  \A q \in Peers, d \in Calls : RefuseInv(q, d)'
  <2>1. \E err \in BOOLEAN : sinkClose(p, c, "app", err)
    BY <1>15 DEF CloseWithError
  <2>2. "app" \in Closer /\ "app" # "refuse" /\ "refuse" \in Job
    BY DEF Closer, Job
  <2>3. \A q \in Peers, d \in Calls : job'[q][d]["refuse"] = job[q][d]["refuse"]
    BY <2>1, <2>2, CloseEffect
  <2>4. \A q \in Peers : spc[q] = "refuse" => spc'[q] = "refuse" /\ cur'[q] = cur[q]
    BY <1>15 DEF CloseWithError, serveVars, ServeGoto, PlacesOK
  <2> QED
    BY <2>3, <2>4, RefusalsKept
<1>16. ASSUME NEW p \in Peers, NEW c \in Calls, CloseReturns(p, c)
       PROVE  \A q \in Peers, d \in Calls : RefuseInv(q, d)'
  <2>1. sinkCloseReturns(p, c, "app")
    BY <1>16 DEF CloseReturns
  <2>2. "app" \in Closer /\ "app" # "refuse" /\ "refuse" \in Job
    BY DEF Closer, Job
  <2>3. \A q \in Peers, d \in Calls : job'[q][d]["refuse"] = job[q][d]["refuse"]
    BY <2>1, <2>2, CloseReturnsEffect
  <2>4. \A q \in Peers : spc[q] = "refuse" => spc'[q] = "refuse" /\ cur'[q] = cur[q]
    BY <1>16 DEF CloseReturns, serveVars, ServeGoto, PlacesOK
  <2> QED
    BY <2>3, <2>4, RefusalsKept
<1>17. ASSUME NEW p \in Peers, NEW c \in Calls, NEW j \in Job, WriteHeader(p, c, j)
       PROVE  \A q \in Peers, d \in Calls : RefuseInv(q, d)'
  <2>1. job[p][c][j].at # "off" /\ spc' = spc /\ cur' = cur
    BY <1>17 DEF WriteHeader, serveVars
  <2>2. "refuse" \in Job
    BY DEF Job
  <2>3. \A q \in Peers, d \in Calls : job'[q][d]["refuse"].at # "off" =>
          job[q][d]["refuse"].at # "off" /\ job'[q][d]["refuse"].pkt = job[q][d]["refuse"].pkt
    <3>1. /\ job'[p][c][j].pkt = job[p][c][j].pkt
          /\ \A q \in Peers, d \in Calls, k \in Job :
               <<q, d, k>> # <<p, c, j>> => job'[q][d][k] = job[q][d][k]
      BY <1>17, HeaderJob
    <3> QED
      BY <2>1, <2>2, <3>1
  <2> QED
    BY <2>1, <2>3, RefusalsKept
<1>18. ASSUME NEW p \in Peers, NEW c \in Calls, NEW j \in Job, WriteBody(p, c, j)
       PROVE  \A q \in Peers, d \in Calls : RefuseInv(q, d)'
  <2>1. PICK result \in {"sent", "failed"} : WriteDone(p, c, j, result)
    BY <1>18 DEF WriteBody
  <2>2. job[p][c][j].at # "off"
    BY <1>18 DEF WriteBody
  <2>3. spc' = spc /\ cur' = cur /\ "refuse" \in Job
    BY <2>1 DEF WriteDone, serveVars, Job
  <2>4. \A q \in Peers, d \in Calls : job'[q][d]["refuse"].at # "off" =>
          job[q][d]["refuse"].at # "off" /\ job'[q][d]["refuse"].pkt = job[q][d]["refuse"].pkt
    BY <2>1, <2>2, <2>3, DoneJob
  <2> QED
    BY <2>3, <2>4, RefusalsKept
<1>19. ASSUME NEW p \in Peers, NEW c \in Calls, NEW j \in Job, WriteFails(p, c, j)
       PROVE  \A q \in Peers, d \in Calls : RefuseInv(q, d)'
  <2>1. PICK result \in {"sent", "failed"} : WriteDone(p, c, j, result)
    BY <1>19 DEF WriteFails
  <2>2. job[p][c][j].at # "off"
    BY <1>19 DEF WriteFails
  <2>3. spc' = spc /\ cur' = cur /\ "refuse" \in Job
    BY <2>1 DEF WriteDone, serveVars, Job
  <2>4. \A q \in Peers, d \in Calls : job'[q][d]["refuse"].at # "off" =>
          job[q][d]["refuse"].at # "off" /\ job'[q][d]["refuse"].pkt = job[q][d]["refuse"].pkt
    BY <2>1, <2>2, <2>3, DoneJob
  <2> QED
    BY <2>3, <2>4, RefusalsKept
<1>20. ASSUME NEW c \in Calls, start(c) PROVE \A q \in Peers, d \in Calls : RefuseInv(q, d)'
  <2> DEFINE p == CallerOf[c]
  <2>1. p \in Peers /\ Begin(p, c, "write", "call")
    BY <1>20, BackpressureAssumption DEF start
  <2> HIDE DEF p
  <2>2. "write" \in Job /\ "call" \in PktKind /\ "refuse" \in Job
    BY DEF Job, PktKind
  <2>3. \A q \in Peers, d \in Calls : job'[q][d]["refuse"] = job[q][d]["refuse"]
    BY <2>1, <2>2, BeginJob
  <2>4. spc' = spc /\ cur' = cur
    BY <1>20 DEF start, serveVars
  <2> QED
    BY <2>3, <2>4, RefusalsKept
<1>21. ASSUME UNCHANGED vars PROVE UNCHANGED <<job, spc, cur>>
  BY <1>21 DEF vars, jobVars, serveVars
<1>22. ASSUME UNCHANGED <<job, spc, cur>>
       PROVE  \A q \in Peers, d \in Calls : RefuseInv(q, d)'
  BY <1>22, RefusalsKept
<1> QED
  BY <1>1, <1>2, <1>fetch, <1>3, <1>4, <1>5, <1>6, <1>7, <1>8, <1>9, <1>10, <1>11, <1>12, <1>13,
     <1>14, <1>15, <1>16, <1>17, <1>18, <1>19, <1>20, <1>21, <1>22
  DEF Next, ServeStep, TerminateStep, WritePacket

-------------------------------------------------------------------------------
(* The steps: the wire.                                                    *)

(* A packet stays what it is while its header is out and its body is not.  *)
SamePkt ==
  \A q \in Peers, d \in Calls, k \in Job :
    job[q][d][k].at = "body" /\ job'[q][d][k].at = "body" =>
      job'[q][d][k].pkt = job[q][d][k].pkt

(* Every step leaves such a packet what it is.                             *)
LEMMA PktStep ==
  ASSUME IInv, [Next]_vars, JobsOK, SinksOK
  PROVE  SamePkt
<1>1. ASSUME NEW p \in Peers, ReadHeader(p) PROVE UNCHANGED <<job>>
  BY <1>1 DEF ReadHeader, jobVars
<1>2. ASSUME NEW p \in Peers, Lookup(p) PROVE UNCHANGED <<job>>
  BY <1>2 DEF Lookup, jobVars
<1>fetch. ASSUME NEW p \in Peers, fetchRequest(p) PROVE UNCHANGED <<job>>
  BY <1>fetch DEF fetchRequest, jobVars
<1>3. ASSUME NEW p \in Peers, ReadBody(p) PROVE SamePkt
  <2>1. PICK c \in Calls : c = cur[p].call
    BY <1>3, CurCall DEF ReadBody
  <2>2. job' = job \/ Begin(p, c, "refuse", "err")
    BY <1>3, <2>1 DEF ReadBody
  <2>3. "refuse" \in Job /\ "err" \in PktKind
    BY DEF Job, PktKind
  <2>4. CASE job' = job
    BY <2>4 DEF SamePkt
  <2>5. CASE Begin(p, c, "refuse", "err")
    BY <2>3, <2>5, BeginJob DEF SamePkt
  <2> QED
    BY <2>2, <2>4, <2>5
<1>4. ASSUME NEW p \in Peers, ReadFails(p) PROVE UNCHANGED <<job>>
  BY <1>4 DEF ReadFails, jobVars
<1>5. ASSUME NEW p \in Peers, noSuchMethod(p) PROVE SamePkt
  <2>1. PICK c \in Calls : c = cur[p].call
    BY <1>5, CurCall DEF noSuchMethod
  <2>2. job' = [job EXCEPT ![p][c]["refuse"] = Off] /\ "refuse" \in Job
    BY <1>5, <2>1 DEF noSuchMethod, Job
  <2> QED
    BY <2>2, OffState, JobUpdate DEF SamePkt
<1>6. ASSUME NEW p \in Peers, closeStream(p) PROVE SamePkt
  <2>0. PICK c \in Calls : c = cur[p].call
    BY <1>6, CurCall DEF closeStream
  <2>1. (\E err \in BOOLEAN : sinkClose(p, c, "serve", err)) \/ job' = job
    BY <2>0, <1>6 DEF closeStream
  <2>2. "serve" \in Closer
    BY DEF Closer
  <2>3. CASE \E err \in BOOLEAN : sinkClose(p, c, "serve", err)
    BY <2>2, <2>3, CloseEffect DEF SamePkt
  <2>4. CASE job' = job
    BY <2>4 DEF SamePkt
  <2> QED
    BY <2>1, <2>3, <2>4
<1>7. ASSUME NEW p \in Peers, closeStreamReturns(p) PROVE SamePkt
  <2>0. PICK c \in Calls : c = cur[p].call
    BY <1>7, CurCall DEF closeStreamReturns
  <2>1. sinkCloseReturns(p, c, "serve")
    BY <2>0, <1>7 DEF closeStreamReturns
  <2>2. "serve" \in Closer
    BY DEF Closer
  <2> QED
    BY <2>1, <2>2, CloseReturnsEffect DEF SamePkt, Finished
<1>8. ASSUME NEW p \in Peers, closeStreamForget(p) PROVE UNCHANGED <<job>>
  BY <1>8 DEF closeStreamForget, jobVars
<1>9. ASSUME NEW p \in Peers, Terminate(p) PROVE UNCHANGED <<job>>
  BY <1>9 DEF Terminate, jobVars
<1>10. ASSUME NEW p \in Peers, TerminateLock(p) PROVE UNCHANGED <<job>>
  BY <1>10 DEF TerminateLock, jobVars
<1>11. ASSUME NEW p \in Peers, TerminateClose(p) PROVE UNCHANGED <<job>>
  BY <1>11 DEF TerminateClose, jobVars
<1>12. ASSUME NEW p \in Peers, NEW c \in Calls, TerminateSweep(p, c) PROVE SamePkt
  <2>1. (\E err \in BOOLEAN : sinkClose(p, c, "term", err)) \/ job' = job
    BY <1>12 DEF TerminateSweep
  <2>2. "term" \in Closer
    BY DEF Closer
  <2>3. CASE \E err \in BOOLEAN : sinkClose(p, c, "term", err)
    BY <2>2, <2>3, CloseEffect DEF SamePkt
  <2>4. CASE job' = job
    BY <2>4 DEF SamePkt
  <2> QED
    BY <2>1, <2>3, <2>4
<1>13. ASSUME NEW p \in Peers, NEW c \in Calls, TerminateSweepReturns(p, c) PROVE SamePkt
  <2>1. sinkCloseReturns(p, c, "term")
    BY <1>13 DEF TerminateSweepReturns
  <2>2. "term" \in Closer
    BY DEF Closer
  <2> QED
    BY <2>1, <2>2, CloseReturnsEffect DEF SamePkt, Finished
<1>14. ASSUME NEW p \in Peers, NEW c \in Calls, Write(p, c) PROVE SamePkt
  <2>1. job' = job \/ Begin(p, c, "write", "data")
    BY <1>14 DEF Write
  <2>2. "write" \in Job /\ "data" \in PktKind
    BY DEF Job, PktKind
  <2>3. CASE job' = job
    BY <2>3 DEF SamePkt
  <2>4. CASE Begin(p, c, "write", "data")
    BY <2>2, <2>4, BeginJob DEF SamePkt
  <2> QED
    BY <2>1, <2>3, <2>4
<1>15. ASSUME NEW p \in Peers, NEW c \in Calls, CloseWithError(p, c) PROVE SamePkt
  <2>1. \E err \in BOOLEAN : sinkClose(p, c, "app", err)
    BY <1>15 DEF CloseWithError
  <2>2. "app" \in Closer
    BY DEF Closer
  <2>3. CASE \E err \in BOOLEAN : sinkClose(p, c, "app", err)
    BY <2>2, <2>3, CloseEffect DEF SamePkt
  <2>4. CASE job' = job
    BY <2>4 DEF SamePkt
  <2> QED
    BY <2>1, <2>3, <2>4
<1>16. ASSUME NEW p \in Peers, NEW c \in Calls, CloseReturns(p, c) PROVE SamePkt
  <2>1. sinkCloseReturns(p, c, "app")
    BY <1>16 DEF CloseReturns
  <2>2. "app" \in Closer
    BY DEF Closer
  <2> QED
    BY <2>1, <2>2, CloseReturnsEffect DEF SamePkt, Finished
<1>17. ASSUME NEW p \in Peers, NEW c \in Calls, NEW j \in Job, WriteHeader(p, c, j)
       PROVE  SamePkt
  BY <1>17, HeaderJob DEF SamePkt
<1>18. ASSUME NEW p \in Peers, NEW c \in Calls, NEW j \in Job, WriteBody(p, c, j)
       PROVE  SamePkt
  <2>1. WriteDone(p, c, j, "sent") /\ "sent" \in {"sent", "failed"}
    BY <1>18 DEF WriteBody
  <2> QED
    BY <2>1, DoneJob DEF SamePkt
<1>19. ASSUME NEW p \in Peers, NEW c \in Calls, NEW j \in Job, WriteFails(p, c, j)
       PROVE  SamePkt
  <2>1. WriteDone(p, c, j, "failed") /\ "failed" \in {"sent", "failed"}
    BY <1>19 DEF WriteFails
  <2> QED
    BY <2>1, DoneJob DEF SamePkt
<1>20. ASSUME NEW c \in Calls, start(c) PROVE SamePkt
  <2> DEFINE p == CallerOf[c]
  <2>1. p \in Peers /\ Begin(p, c, "write", "call")
    BY <1>20, BackpressureAssumption DEF start
  <2> HIDE DEF p
  <2>2. "write" \in Job /\ "call" \in PktKind
    BY DEF Job, PktKind
  <2> QED
    BY <2>1, <2>2, BeginJob DEF SamePkt
<1>21. ASSUME UNCHANGED vars PROVE UNCHANGED <<job>>
  BY <1>21 DEF vars, jobVars
<1>22. ASSUME UNCHANGED <<job>> PROVE SamePkt
  BY <1>22 DEF SamePkt
<1> QED
  BY <1>1, <1>2, <1>fetch, <1>3, <1>4, <1>5, <1>6, <1>7, <1>8, <1>9, <1>10, <1>11, <1>12, <1>13,
     <1>14, <1>15, <1>16, <1>17, <1>18, <1>19, <1>20, <1>21, <1>22
  DEF Next, ServeStep, TerminateStep, WritePacket

(* A part that fits what its reader has, or will have, before it.          *)
LEMMA PutWhole ==
  ASSUME Types, WholeInv, UNCHANGED <<spc, cur>>,
         NEW p \in Peers, NEW c \in Calls, NEW j \in Job, NEW part \in {"header", "body"},
         job[p][c][j].pkt \in PktKind, Put(p, c, j, part),
         NEW x, x = [part |-> part, pkt |-> job[p][c][j].pkt, call |-> c],
         ~connClosed[p] /\ ~connClosed[Other(p)] =>
           LET w == wire[Other(p)] IN
           /\ w # << >> /\ w[Len(w)].part = "header" => x = BodyOf(w[Len(w)])
           /\ w = << >> /\ InHand(Other(p)) => x = BodyOf(cur[Other(p)])
  PROVE  WholeInv'
<1> DEFINE q == Other(p)
           w == wire[q]
<1>1. q \in Peers /\ \A r \in Peers : r = p \/ r = q
  BY OtherPeer
<1>2. w \in Seq(Packet) /\ x \in Packet
  BY <1>1 DEF Types, ConnOK, Packet
<1>3. /\ wire'[p] = wire[p] /\ ~connClosed[p]
      /\ wire'[q] = IF connClosed[q] THEN w ELSE Append(w, x)
  BY PutWire
<1>4. /\ \A i \in 1 .. Len(w) - 1 : w[i].part = "header" => w[i + 1] = BodyOf(w[i])
      /\ InHand(q) /\ w # << >> => w[1] = BodyOf(cur[q])
  BY <1>1 DEF WholeInv
<1>5. ~connClosed[q] => /\ w # << >> /\ w[Len(w)].part = "header" => x = BodyOf(w[Len(w)])
                        /\ w = << >> /\ InHand(q) => x = BodyOf(cur[q])
  BY <1>3
<1>6. /\ \A i \in 1 .. Len(wire'[p]) - 1 :
           wire'[p][i].part = "header" => wire'[p][i + 1] = BodyOf(wire'[p][i])
      /\ InHand(p)' /\ wire'[p] # << >> => wire'[p][1] = BodyOf(cur'[p])
  BY <1>3 DEF WholeInv, InHand, BodyOf
<1>7. InHand(q)' <=> InHand(q)
  BY DEF InHand, q, Other
<1>8. cur'[q] = cur[q]
  OBVIOUS
<1> HIDE DEF q, w
<1>9. CASE connClosed[q]
  <2>1. wire'[q] = w
    BY <1>3, <1>9
  <2>2. /\ \A i \in 1 .. Len(wire'[q]) - 1 :
             wire'[q][i].part = "header" => wire'[q][i + 1] = BodyOf(wire'[q][i])
        /\ InHand(q)' /\ wire'[q] # << >> => wire'[q][1] = BodyOf(cur'[q])
    BY <1>4, <1>7, <1>8, <2>1
  <2> QED
    BY <1>1, <1>6, <2>2 DEF WholeInv, BodyOf, InHand
<1>10. CASE ~connClosed[q]
  <2> DEFINE v == Append(w, x)
  <2>1. /\ Len(w) \in Nat /\ Len(v) = Len(w) + 1 /\ v[Len(w) + 1] = x
        /\ \A i \in 1 .. Len(w) : v[i] = w[i]
    BY <1>2, AppendProperties
  <2>2. wire'[q] = v
    BY <1>3, <1>10
  <2>3. w = << >> <=> Len(w) = 0
    BY <1>2
  <2> HIDE DEF v
  <2>4. ASSUME NEW i \in 1 .. Len(v) - 1, v[i].part = "header"
        PROVE  v[i + 1] = BodyOf(v[i])
    <3>1. i \in 1 .. Len(w) /\ v[i] = w[i] /\ (i = Len(w) \/ i \in 1 .. Len(w) - 1)
      BY <2>1
    <3>2. CASE i = Len(w)
      BY <1>5, <1>10, <2>1, <2>3, <2>4, <3>1, <3>2
    <3>3. CASE i \in 1 .. Len(w) - 1
      <4>1. i + 1 \in 1 .. Len(w)
        BY <2>1, <3>3
      <4> QED
        BY <1>4, <2>1, <2>4, <3>1, <3>3, <4>1
    <3> QED
      BY <3>1, <3>2, <3>3
  <2>5. InHand(q) => v[1] = BodyOf(cur[q])
    <3>1. CASE w = << >>
      BY <1>5, <1>10, <2>1, <2>3, <3>1
    <3>2. CASE w # << >>
      <4>1. 1 \in 1 .. Len(w)
        BY <2>1, <2>3, <3>2
      <4> QED
        BY <1>4, <2>1, <3>2, <4>1
    <3> QED
      BY <3>1, <3>2
  <2>6. /\ \A i \in 1 .. Len(wire'[q]) - 1 :
             wire'[q][i].part = "header" => wire'[q][i + 1] = BodyOf(wire'[q][i])
        /\ InHand(q)' /\ wire'[q] # << >> => wire'[q][1] = BodyOf(cur'[q])
    BY <1>7, <1>8, <2>2, <2>4, <2>5
  <2> QED
    BY <1>1, <1>6, <2>6 DEF WholeInv, BodyOf, InHand
<1> QED
  BY <1>9, <1>10

(* A step that leaves the wire alone, after which no other header is in    *)
(* hand.                                                                   *)
LEMMA WholeKept ==
  ASSUME WholeInv, wire' = wire,
         \A q \in Peers : InHand(q)' => InHand(q) /\ cur'[q] = cur[q]
  PROVE  WholeInv'
BY DEF WholeInv, BodyOf

(* A part is taken from the wire: the next one fits it.                    *)
LEMMA TakeWhole ==
  ASSUME Types, WholeInv, NEW p \in Peers, wire[p] # << >>, wire' = [wire EXCEPT ![p] = Tail(@)],
         InHand(p)' => cur'[p] = wire[p][1] /\ wire[p][1].part = "header",
         \A q \in Peers \ {p} : InHand(q)' => InHand(q) /\ cur'[q] = cur[q]
  PROVE  WholeInv'
<1>1. /\ wire' \in [Peers -> Seq(Packet)]
      /\ Len(wire[p]) \in Nat /\ Len(wire[p]) >= 1 /\ Len(wire'[p]) = Len(wire[p]) - 1
      /\ \A i \in 1 .. Len(wire'[p]) : wire'[p][i] = wire[p][i + 1]
      /\ \A q \in Peers \ {p} : wire'[q] = wire[q]
  BY TakeWire
<1>2. \A i \in 1 .. Len(wire[p]) - 1 : wire[p][i].part = "header" => wire[p][i + 1] = BodyOf(wire[p][i])
  BY DEF WholeInv
<1>3. ASSUME NEW i \in 1 .. Len(wire'[p]) - 1, wire'[p][i].part = "header"
      PROVE  wire'[p][i + 1] = BodyOf(wire'[p][i])
  <2>1. /\ i \in 1 .. Len(wire'[p]) /\ i + 1 \in 1 .. Len(wire'[p])
        /\ i + 1 \in 1 .. Len(wire[p]) - 1
    BY <1>1
  <2>2. wire'[p][i] = wire[p][i + 1] /\ wire'[p][i + 1] = wire[p][(i + 1) + 1]
    BY <1>1, <2>1
  <2> QED
    BY <1>2, <1>3, <2>1, <2>2
<1>4. InHand(p)' /\ wire'[p] # << >> => wire'[p][1] = BodyOf(cur'[p])
  <2>1. wire'[p] # << >> => 1 \in 1 .. Len(wire'[p]) /\ 1 \in 1 .. Len(wire[p]) - 1
    BY <1>1
  <2> QED
    BY <1>1, <1>2, <2>1
<1>5. \A q \in Peers \ {p} :
        /\ \A i \in 1 .. Len(wire'[q]) - 1 :
             wire'[q][i].part = "header" => wire'[q][i + 1] = BodyOf(wire'[q][i])
        /\ InHand(q)' /\ wire'[q] # << >> => wire'[q][1] = BodyOf(cur'[q])
  BY <1>1 DEF WholeInv
<1>6. ASSUME NEW q \in Peers
      PROVE  /\ \A i \in 1 .. Len(wire'[q]) - 1 :
                  wire'[q][i].part = "header" => wire'[q][i + 1] = BodyOf(wire'[q][i])
             /\ InHand(q)' /\ wire'[q] # << >> => wire'[q][1] = BodyOf(cur'[q])
  BY <1>3, <1>4, <1>5
<1> QED
  BY <1>6 DEF WholeInv, BodyOf

(* A header stays followed by its body.                                    *)
LEMMA WholeStep ==
  ASSUME IInv, [Next]_vars, Types, PlacesOK, WriterInv, WholeInv, LastInv
  PROVE  WholeInv'
<1>1. ASSUME NEW p \in Peers, ReadHeader(p) PROVE WholeInv'
  <2>1. wire[p] # << >> /\ wire' = [wire EXCEPT ![p] = Tail(@)]
    BY <1>1 DEF ReadHeader
  <2>2. Head(wire[p]) = wire[p][1]
    BY <2>1, TakeWire
  <2>3. InHand(p)' => cur'[p] = wire[p][1] /\ wire[p][1].part = "header"
    BY <1>1, <2>2 DEF ReadHeader, InHand, PlacesOK
  <2>4. \A q \in Peers \ {p} : InHand(q)' => InHand(q) /\ cur'[q] = cur[q]
    BY <1>1 DEF ReadHeader, InHand, PlacesOK
  <2> QED
    BY <2>1, <2>3, <2>4, TakeWhole
<1>2. ASSUME NEW p \in Peers, Lookup(p) PROVE WholeInv'
  <2>1. wire' = wire /\ \A q \in Peers : InHand(q)' => InHand(q) /\ cur'[q] = cur[q]
    BY <1>2 DEF Lookup, connVars, ServeGoto, InHand, PlacesOK
  <2> QED
    BY <2>1, WholeKept
<1>fetch. ASSUME NEW p \in Peers, fetchRequest(p) PROVE WholeInv'
  <2>1. wire' = wire /\ \A q \in Peers : InHand(q)' => InHand(q) /\ cur'[q] = cur[q]
    BY <1>fetch DEF fetchRequest, connVars, ServeGoto, InHand, PlacesOK
  <2> QED
    BY <2>1, WholeKept
<1>3. ASSUME NEW p \in Peers, ReadBody(p) PROVE WholeInv'
  <2>1. wire[p] # << >> /\ wire' = [wire EXCEPT ![p] = Tail(@)]
    BY <1>3 DEF ReadBody
  <2>2. ~InHand(p)'
    BY <1>3 DEF ReadBody, ServeGoto, InHand, PlacesOK
  <2>3. \A q \in Peers \ {p} : InHand(q)' => InHand(q) /\ cur'[q] = cur[q]
    BY <1>3 DEF ReadBody, ServeGoto, InHand, PlacesOK
  <2> QED
    BY <2>1, <2>2, <2>3, TakeWhole
<1>4. ASSUME NEW p \in Peers, ReadFails(p) PROVE WholeInv'
  <2>1. wire' = wire /\ \A q \in Peers : InHand(q)' => InHand(q) /\ cur'[q] = cur[q]
    BY <1>4 DEF ReadFails, connVars, ServeGoto, InHand, PlacesOK
  <2> QED
    BY <2>1, WholeKept
<1>5. ASSUME NEW p \in Peers, noSuchMethod(p) PROVE WholeInv'
  <2>1. wire' = wire /\ \A q \in Peers : InHand(q)' => InHand(q) /\ cur'[q] = cur[q]
    BY <1>5 DEF noSuchMethod, connVars, ServeGoto, InHand, PlacesOK
  <2> QED
    BY <2>1, WholeKept
<1>6. ASSUME NEW p \in Peers, closeStream(p) PROVE WholeInv'
  <2>1. wire' = wire /\ \A q \in Peers : InHand(q)' => InHand(q) /\ cur'[q] = cur[q]
    BY <1>6 DEF closeStream, connVars, ServeGoto, InHand, PlacesOK
  <2> QED
    BY <2>1, WholeKept
<1>7. ASSUME NEW p \in Peers, closeStreamReturns(p) PROVE WholeInv'
  <2>1. wire' = wire /\ \A q \in Peers : InHand(q)' => InHand(q) /\ cur'[q] = cur[q]
    BY <1>7 DEF closeStreamReturns, connVars, ServeGoto, InHand, PlacesOK
  <2> QED
    BY <2>1, WholeKept
<1>8. ASSUME NEW p \in Peers, closeStreamForget(p) PROVE WholeInv'
  <2>1. wire' = wire /\ \A q \in Peers : InHand(q)' => InHand(q) /\ cur'[q] = cur[q]
    BY <1>8 DEF closeStreamForget, connVars, ServeGoto, InHand, PlacesOK
  <2> QED
    BY <2>1, WholeKept
<1>9. ASSUME NEW p \in Peers, Terminate(p) PROVE UNCHANGED <<wire, spc, cur>>
  BY <1>9 DEF Terminate, connVars, serveVars
<1>10. ASSUME NEW p \in Peers, TerminateLock(p) PROVE UNCHANGED <<wire, spc, cur>>
  BY <1>10 DEF TerminateLock, connVars, serveVars
<1>11. ASSUME NEW p \in Peers, TerminateClose(p) PROVE UNCHANGED <<wire, spc, cur>>
  BY <1>11 DEF TerminateClose, connVars, serveVars
<1>12. ASSUME NEW p \in Peers, NEW c \in Calls, TerminateSweep(p, c)
       PROVE  UNCHANGED <<wire, spc, cur>>
  BY <1>12 DEF TerminateSweep, connVars, serveVars
<1>13. ASSUME NEW p \in Peers, NEW c \in Calls, TerminateSweepReturns(p, c)
       PROVE  UNCHANGED <<wire, spc, cur>>
  BY <1>13 DEF TerminateSweepReturns, connVars, serveVars
<1>14. ASSUME NEW p \in Peers, NEW c \in Calls, Write(p, c)
       PROVE  UNCHANGED <<wire, spc, cur>>
  BY <1>14 DEF Write, connVars, serveVars
<1>15. ASSUME NEW p \in Peers, NEW c \in Calls, CloseWithError(p, c)
       PROVE  UNCHANGED <<wire, spc, cur>>
  BY <1>15 DEF CloseWithError, connVars, serveVars
<1>16. ASSUME NEW p \in Peers, NEW c \in Calls, CloseReturns(p, c)
       PROVE  UNCHANGED <<wire, spc, cur>>
  BY <1>16 DEF CloseReturns, connVars, serveVars
<1>17. ASSUME NEW p \in Peers, NEW c \in Calls, NEW j \in Job, WriteHeader(p, c, j)
       PROVE  WholeInv'
  <2>1. /\ job[p][c][j].at # "off" /\ Put(p, c, j, "header") /\ UNCHANGED <<spc, cur>>
    BY <1>17 DEF WriteHeader, WriteDone, serveVars
  <2>2. job[p][c][j].pkt \in PktKind
    BY <2>1, JobPkt DEF IInv
  <2> DEFINE x == [part |-> "header", pkt |-> job[p][c][j].pkt, call |-> c]
  <2>3. \A h : ~HeaderOf(p, h)
    BY <1>17 DEF WriteHeader, HeaderOf, Nobody, Job, Closer
  <2>4. ~connClosed[p] /\ ~connClosed[Other(p)] =>
          LET w == wire[Other(p)] IN
          /\ w # << >> /\ w[Len(w)].part = "header" => x = BodyOf(w[Len(w)])
          /\ w = << >> /\ InHand(Other(p)) => x = BodyOf(cur[Other(p)])
    BY <2>3 DEF LastInv, LastOf
  <2>5. "header" \in {"header", "body"}
    OBVIOUS
  <2> QED
    BY <2>1, <2>2, <2>4, <2>5, PutWhole
<1>18. ASSUME NEW p \in Peers, NEW c \in Calls, NEW j \in Job, WriteBody(p, c, j)
       PROVE  WholeInv'
  <2>1. /\ job[p][c][j].at # "off" /\ Put(p, c, j, "body") /\ UNCHANGED <<spc, cur>>
    BY <1>18 DEF WriteBody, WriteDone, serveVars
  <2>2. job[p][c][j].pkt \in PktKind
    BY <2>1, JobPkt DEF IInv
  <2> DEFINE x == [part |-> "body", pkt |-> job[p][c][j].pkt, call |-> c]
  <2>3. ASSUME NEW h, HeaderOf(p, h) PROVE x = BodyOf(h)
    <3>1. wmu[p] = <<c, j>>
      BY <1>18 DEF WriteBody, WriterInv
    <3>2. h = [part |-> "header", pkt |-> job[p][c][j].pkt, call |-> c]
      BY <2>3, <3>1 DEF HeaderOf
    <3> QED
      BY <3>2 DEF BodyOf
  <2>4. ~connClosed[p] /\ ~connClosed[Other(p)] =>
          LET w == wire[Other(p)] IN
          /\ w # << >> /\ w[Len(w)].part = "header" => x = BodyOf(w[Len(w)])
          /\ w = << >> /\ InHand(Other(p)) => x = BodyOf(cur[Other(p)])
    BY <2>3 DEF LastInv, LastOf
  <2>5. "body" \in {"header", "body"}
    OBVIOUS
  <2> QED
    BY <2>1, <2>2, <2>4, <2>5, PutWhole
<1>19. ASSUME NEW p \in Peers, NEW c \in Calls, NEW j \in Job, WriteFails(p, c, j)
       PROVE  UNCHANGED <<wire, spc, cur>>
  BY <1>19 DEF WriteFails, WriteDone, connVars, serveVars
<1>20. ASSUME NEW c \in Calls, start(c) PROVE UNCHANGED <<wire, spc, cur>>
  BY <1>20 DEF start, connVars, serveVars
<1>21. ASSUME UNCHANGED vars PROVE UNCHANGED <<wire, spc, cur>>
  BY <1>21 DEF vars, connVars, serveVars
<1>22. ASSUME UNCHANGED <<wire, spc, cur>> PROVE WholeInv'
  <2>1. \A q \in Peers : InHand(q)' => InHand(q) /\ cur'[q] = cur[q]
    BY <1>22 DEF InHand
  <2> QED
    BY <1>22, <2>1, WholeKept
<1> QED
  BY <1>1, <1>2, <1>fetch, <1>3, <1>4, <1>5, <1>6, <1>7, <1>8, <1>9, <1>10, <1>11, <1>12, <1>13,
     <1>14, <1>15, <1>16, <1>17, <1>18, <1>19, <1>20, <1>21, <1>22
  DEF Next, ServeStep, TerminateStep, WritePacket

(* The packet whose header is last on the wire is still the holder's.      *)
LEMMA HeaderKept ==
  ASSUME WriterInv, WriterInv', SamePkt, NEW p \in Peers, wmu'[p] = wmu[p]
  PROVE  \A h : HeaderOf(p, h) =>
           \E c \in Calls, j \in Job :
             wmu'[p] = <<c, j>> /\ h = [part |-> "header", pkt |-> job'[p][c][j].pkt, call |-> c]
<1> SUFFICES ASSUME NEW h, HeaderOf(p, h)
             PROVE  \E c \in Calls, j \in Job :
               wmu'[p] = <<c, j>> /\ h = [part |-> "header", pkt |-> job'[p][c][j].pkt, call |-> c]
  OBVIOUS
<1>1. PICK c \in Calls, j \in Job :
        wmu[p] = <<c, j>> /\ h = [part |-> "header", pkt |-> job[p][c][j].pkt, call |-> c]
  BY DEF HeaderOf
<1>2. job[p][c][j].at = "body" /\ job'[p][c][j].at = "body"
  BY <1>1 DEF WriterInv
<1>3. job'[p][c][j].pkt = job[p][c][j].pkt
  BY <1>2 DEF SamePkt
<1> QED
  BY <1>1, <1>3

(* A step that leaves alone Writer.mu at p and what p has sent.            *)
LEMMA LastKept ==
  ASSUME WriterInv, WriterInv', SamePkt, NEW p \in Peers, NEW q \in Peers, LastOf(p, q),
         wire'[q] = wire[q], wmu'[p] = wmu[p],
         \A r \in Peers : connClosed[r] => connClosed'[r],
         InHand(q)' => InHand(q) /\ cur'[q] = cur[q]
  PROVE  LastOf(p, q)'
<1> DEFINE HO(h) == \E c \in Calls, j \in Job :
             wmu'[p] = <<c, j>> /\ h = [part |-> "header", pkt |-> job'[p][c][j].pkt, call |-> c]
<1>1. \A h : HeaderOf(p, h) => HO(h)
  BY HeaderKept
<1> HIDE DEF HO
<1>2. ~connClosed'[p] /\ ~connClosed'[q] =>
        /\ wire'[q] # << >> /\ wire'[q][Len(wire'[q])].part = "header" => HO(wire'[q][Len(wire'[q])])
        /\ wire'[q] = << >> /\ InHand(q)' => HO(cur'[q])
  BY <1>1 DEF LastOf
<1> QED
  BY <1>2 DEF LastOf, HeaderOf, HO

(* What the other end takes from the wire.                                 *)
LEMMA LastTaken ==
  ASSUME Types, WriterInv, WriterInv', SamePkt, LastInv, NEW p \in Peers, wire[p] # << >>,
         wire' = [wire EXCEPT ![p] = Tail(@)], wmu' = wmu, connClosed' = connClosed,
         InHand(p)' => cur'[p] = wire[p][1] /\ wire[p][1].part = "header",
         \A q \in Peers \ {p} : InHand(q)' => InHand(q) /\ cur'[q] = cur[q]
  PROVE  LastInv'
<1> DEFINE r == Other(p)
           w == wire[p]
           v == wire'[p]
           HO(h) == \E c \in Calls, j \in Job :
             wmu'[r] = <<c, j>> /\ h = [part |-> "header", pkt |-> job'[r][c][j].pkt, call |-> c]
<1>1. r \in Peers /\ r # p /\ Other(r) = p /\ \A q \in Peers : q = p \/ q = r
  BY OtherPeer
<1>2. /\ v \in Seq(Packet) /\ w \in Seq(Packet)
      /\ Len(w) \in Nat /\ Len(w) >= 1 /\ Len(v) = Len(w) - 1
      /\ \A i \in 1 .. Len(v) : v[i] = w[i + 1]
      /\ \A q \in Peers \ {p} : wire'[q] = wire[q]
  BY TakeWire DEF Types, ConnOK
<1>3. LastOf(p, r)'
  BY <1>1, <1>2, LastKept DEF LastInv
<1>4. \A h : HeaderOf(r, h) => HO(h)
  BY <1>1, HeaderKept
<1>5. w # << >>
  OBVIOUS
<1>6. LastOf(r, p)
  BY <1>1 DEF LastInv
<1> HIDE DEF r, HO
<1>7. ~connClosed[r] /\ ~connClosed[p] => (w[Len(w)].part = "header" => HeaderOf(r, w[Len(w)]))
  BY <1>5, <1>6 DEF LastOf
<1> HIDE DEF w, v
<1>8. v # << >> => v[Len(v)] = w[Len(w)]
  <2>1. v # << >> => Len(v) \in 1 .. Len(v) /\ Len(v) + 1 = Len(w)
    BY <1>2
  <2> QED
    BY <1>2, <2>1
<1>9. v = << >> => w[1] = w[Len(w)]
  <2>1. v = << >> => Len(v) = 0
    OBVIOUS
  <2>2. v = << >> => Len(w) = 1
    BY <1>2, <2>1
  <2> QED
    BY <2>2
<1>10. ~connClosed'[r] /\ ~connClosed'[p] =>
         /\ v # << >> /\ v[Len(v)].part = "header" => HO(v[Len(v)])
         /\ v = << >> /\ InHand(p)' => HO(cur'[p])
  BY <1>4, <1>7, <1>8, <1>9 DEF w
<1>11. LastOf(r, p)'
  BY <1>10 DEF LastOf, HeaderOf, HO, v
<1> QED
  BY <1>1, <1>3, <1>11 DEF LastInv, r

(* A header at the end stays that of the holder of Writer.mu.              *)
LEMMA LastStep ==
  ASSUME IInv, [Next]_vars, Types, PlacesOK, JobsOK, WriterInv, WriterInv', SamePkt, LastInv
  PROVE  LastInv'
<1>1. ASSUME NEW p \in Peers, ReadHeader(p) PROVE LastInv'
  <2>1. wire[p] # << >> /\ wire' = [wire EXCEPT ![p] = Tail(@)] /\ wmu' = wmu /\ connClosed' = connClosed
    BY <1>1 DEF ReadHeader, jobVars
  <2>2. Head(wire[p]) = wire[p][1]
    BY <2>1, TakeWire
  <2>3. InHand(p)' => cur'[p] = wire[p][1] /\ wire[p][1].part = "header"
    BY <1>1, <2>2 DEF ReadHeader, InHand, PlacesOK
  <2>4. \A q \in Peers \ {p} : InHand(q)' => InHand(q) /\ cur'[q] = cur[q]
    BY <1>1 DEF ReadHeader, InHand, PlacesOK
  <2> QED
    BY <2>1, <2>3, <2>4, LastTaken
<1>2. ASSUME NEW p \in Peers, Lookup(p) PROVE LastInv'
  <2>1. wire' = wire /\ wmu' = wmu /\ connClosed' = connClosed
    BY <1>2 DEF Lookup, connVars, jobVars
  <2>2. \A q \in Peers : InHand(q)' => InHand(q) /\ cur'[q] = cur[q]
    BY <1>2 DEF Lookup, ServeGoto, InHand, PlacesOK
  <2> QED
    BY <2>1, <2>2, OtherPeer, LastKept DEF LastInv
<1>fetch. ASSUME NEW p \in Peers, fetchRequest(p) PROVE LastInv'
  <2>1. wire' = wire /\ wmu' = wmu /\ connClosed' = connClosed
    BY <1>fetch DEF fetchRequest, connVars, jobVars
  <2>2. \A q \in Peers : InHand(q)' => InHand(q) /\ cur'[q] = cur[q]
    BY <1>fetch DEF fetchRequest, ServeGoto, InHand, PlacesOK
  <2> QED
    BY <2>1, <2>2, OtherPeer, LastKept DEF LastInv
<1>3. ASSUME NEW p \in Peers, ReadBody(p) PROVE LastInv'
  <2>1. wire[p] # << >> /\ wire' = [wire EXCEPT ![p] = Tail(@)] /\ wmu' = wmu /\ connClosed' = connClosed
    BY <1>3 DEF ReadBody
  <2>2. ~InHand(p)'
    BY <1>3 DEF ReadBody, ServeGoto, InHand, PlacesOK
  <2>3. \A q \in Peers \ {p} : InHand(q)' => InHand(q) /\ cur'[q] = cur[q]
    BY <1>3 DEF ReadBody, ServeGoto, InHand, PlacesOK
  <2> QED
    BY <2>1, <2>2, <2>3, LastTaken
<1>4. ASSUME NEW p \in Peers, ReadFails(p) PROVE LastInv'
  <2>1. wire' = wire /\ wmu' = wmu /\ connClosed' = connClosed
    BY <1>4 DEF ReadFails, connVars, jobVars
  <2>2. \A q \in Peers : InHand(q)' => InHand(q) /\ cur'[q] = cur[q]
    BY <1>4 DEF ReadFails, ServeGoto, InHand, PlacesOK
  <2> QED
    BY <2>1, <2>2, OtherPeer, LastKept DEF LastInv
<1>5. ASSUME NEW p \in Peers, noSuchMethod(p) PROVE LastInv'
  <2>1. wire' = wire /\ wmu' = wmu /\ connClosed' = connClosed
    BY <1>5 DEF noSuchMethod, connVars, jobVars
  <2>2. \A q \in Peers : InHand(q)' => InHand(q) /\ cur'[q] = cur[q]
    BY <1>5 DEF noSuchMethod, ServeGoto, InHand, PlacesOK
  <2> QED
    BY <2>1, <2>2, OtherPeer, LastKept DEF LastInv
<1>6. ASSUME NEW p \in Peers, closeStream(p) PROVE LastInv'
  <2>1. wire' = wire /\ wmu' = wmu /\ connClosed' = connClosed
    BY <1>6 DEF closeStream, connVars, jobVars
  <2>2. \A q \in Peers : InHand(q)' => InHand(q) /\ cur'[q] = cur[q]
    BY <1>6 DEF closeStream, ServeGoto, InHand, PlacesOK
  <2> QED
    BY <2>1, <2>2, OtherPeer, LastKept DEF LastInv
<1>7. ASSUME NEW p \in Peers, closeStreamReturns(p) PROVE LastInv'
  <2>1. wire' = wire /\ wmu' = wmu /\ connClosed' = connClosed
    BY <1>7 DEF closeStreamReturns, connVars, jobVars
  <2>2. \A q \in Peers : InHand(q)' => InHand(q) /\ cur'[q] = cur[q]
    BY <1>7 DEF closeStreamReturns, ServeGoto, InHand, PlacesOK
  <2> QED
    BY <2>1, <2>2, OtherPeer, LastKept DEF LastInv
<1>8. ASSUME NEW p \in Peers, closeStreamForget(p) PROVE LastInv'
  <2>1. wire' = wire /\ wmu' = wmu /\ connClosed' = connClosed
    BY <1>8 DEF closeStreamForget, connVars, jobVars
  <2>2. \A q \in Peers : InHand(q)' => InHand(q) /\ cur'[q] = cur[q]
    BY <1>8 DEF closeStreamForget, ServeGoto, InHand, PlacesOK
  <2> QED
    BY <2>1, <2>2, OtherPeer, LastKept DEF LastInv
<1>9. ASSUME NEW p \in Peers, Terminate(p)
      PROVE  UNCHANGED <<wire, wmu, connClosed, spc, cur>>
  BY <1>9 DEF Terminate, connVars, jobVars, serveVars
<1>10. ASSUME NEW p \in Peers, TerminateLock(p)
       PROVE  UNCHANGED <<wire, wmu, connClosed, spc, cur>>
  BY <1>10 DEF TerminateLock, connVars, jobVars, serveVars
<1>11. ASSUME NEW p \in Peers, TerminateClose(p) PROVE LastInv'
  <2>1. wire' = wire /\ wmu' = wmu /\ spc' = spc /\ cur' = cur
    BY <1>11 DEF TerminateClose, jobVars, serveVars
  <2>2. \A q \in Peers : connClosed[q] => connClosed'[q]
    BY <1>11 DEF TerminateClose, Types, ConnOK
  <2>3. \A q \in Peers : InHand(q)' => InHand(q) /\ cur'[q] = cur[q]
    BY <2>1 DEF InHand
  <2> QED
    BY <2>1, <2>2, <2>3, OtherPeer, LastKept DEF LastInv
<1>12. ASSUME NEW p \in Peers, NEW c \in Calls, TerminateSweep(p, c)
       PROVE  UNCHANGED <<wire, wmu, connClosed, spc, cur>>
  BY <1>12 DEF TerminateSweep, connVars, jobVars, serveVars
<1>13. ASSUME NEW p \in Peers, NEW c \in Calls, TerminateSweepReturns(p, c)
       PROVE  UNCHANGED <<wire, wmu, connClosed, spc, cur>>
  BY <1>13 DEF TerminateSweepReturns, connVars, jobVars, serveVars
<1>14. ASSUME NEW p \in Peers, NEW c \in Calls, Write(p, c)
       PROVE  UNCHANGED <<wire, wmu, connClosed, spc, cur>>
  BY <1>14 DEF Write, connVars, jobVars, serveVars
<1>15. ASSUME NEW p \in Peers, NEW c \in Calls, CloseWithError(p, c)
       PROVE  UNCHANGED <<wire, wmu, connClosed, spc, cur>>
  BY <1>15 DEF CloseWithError, connVars, jobVars, serveVars
<1>16. ASSUME NEW p \in Peers, NEW c \in Calls, CloseReturns(p, c)
       PROVE  UNCHANGED <<wire, wmu, connClosed, spc, cur>>
  BY <1>16 DEF CloseReturns, connVars, jobVars, serveVars
<1>17. ASSUME NEW p \in Peers, NEW c \in Calls, NEW j \in Job, WriteHeader(p, c, j)
       PROVE  LastInv'
  <2>1. /\ job[p][c][j].at # "off" /\ Put(p, c, j, "header")
        /\ UNCHANGED <<spc, cur, connClosed>> /\ wmu' = [wmu EXCEPT ![p] = <<c, j>>]
    BY <1>17 DEF WriteHeader, WriteDone, serveVars
  <2>2. job[p][c][j].pkt \in PktKind /\ "header" \in {"header", "body"}
    BY <2>1, JobPkt DEF IInv
  <2> DEFINE r == Other(p)
             x == [part |-> "header", pkt |-> job[p][c][j].pkt, call |-> c]
  <2>3. r \in Peers /\ r # p /\ Other(r) = p /\ \A q \in Peers : q = p \/ q = r
    BY OtherPeer
  <2>4. /\ wire' \in [Peers -> Seq(Packet)] /\ wire'[p] = wire[p]
        /\ ~connClosed[r] => wire'[r] = Append(wire[r], x)
    BY <2>1, <2>2, PutWire
  <2>5. wmu'[r] = wmu[r] /\ wmu'[p] = <<c, j>>
    BY <2>1, <2>3 DEF JobsOK
  <2>6. InHand(p)' => InHand(p) /\ cur'[p] = cur[p]
    BY <2>1 DEF InHand
  <2> HIDE DEF r
  <2>7. LastOf(r, p)'
    BY <2>1, <2>3, <2>4, <2>5, <2>6, LastKept DEF LastInv
  <2>8. wire[r] \in Seq(Packet) /\ x \in Packet
    BY <2>2, <2>3 DEF Types, ConnOK, Packet
  <2>9. /\ Append(wire[r], x) # << >>
        /\ Append(wire[r], x)[Len(Append(wire[r], x))] = x
    <3> HIDE DEF x
    <3> QED
      BY <2>8, AppendProperties
  <2>10. x = [part |-> "header", pkt |-> job'[p][c][j].pkt, call |-> c] /\ wmu'[p] = <<c, j>>
    BY <1>17, <2>5, HeaderJob
  <2>11. LastOf(p, r)'
    BY <2>1, <2>4, <2>9, <2>10 DEF LastOf, HeaderOf
  <2> QED
    BY <2>3, <2>7, <2>11 DEF LastInv, r
<1>18. ASSUME NEW p \in Peers, NEW c \in Calls, NEW j \in Job, WriteBody(p, c, j)
       PROVE  LastInv'
  <2>1. /\ job[p][c][j].at # "off" /\ Put(p, c, j, "body")
        /\ UNCHANGED <<spc, cur, connClosed>> /\ wmu' = [wmu EXCEPT ![p] = Nobody]
    BY <1>18 DEF WriteBody, WriteDone, serveVars
  <2>2. job[p][c][j].pkt \in PktKind /\ "body" \in {"header", "body"}
    BY <2>1, JobPkt DEF IInv
  <2> DEFINE r == Other(p)
             x == [part |-> "body", pkt |-> job[p][c][j].pkt, call |-> c]
  <2>3. r \in Peers /\ r # p /\ Other(r) = p /\ \A q \in Peers : q = p \/ q = r
    BY OtherPeer
  <2>4. /\ wire' \in [Peers -> Seq(Packet)] /\ wire'[p] = wire[p]
        /\ ~connClosed[r] => wire'[r] = Append(wire[r], x)
    BY <2>1, <2>2, PutWire
  <2>5. wmu'[r] = wmu[r] /\ wmu'[p] = Nobody
    BY <2>1, <2>3 DEF JobsOK
  <2>6. InHand(p)' => InHand(p) /\ cur'[p] = cur[p]
    BY <2>1 DEF InHand
  <2> HIDE DEF r
  <2>7. LastOf(r, p)'
    BY <2>1, <2>3, <2>4, <2>5, <2>6, LastKept DEF LastInv
  <2>8. wire[r] \in Seq(Packet) /\ x \in Packet
    BY <2>2, <2>3 DEF Types, ConnOK, Packet
  <2>9. /\ Append(wire[r], x) # << >>
        /\ Append(wire[r], x)[Len(Append(wire[r], x))] = x
    <3> HIDE DEF x
    <3> QED
      BY <2>8, AppendProperties
  <2>10. x.part # "header"
    OBVIOUS
  <2>11. LastOf(p, r)'
    BY <2>1, <2>4, <2>9, <2>10 DEF LastOf, HeaderOf
  <2> QED
    BY <2>3, <2>7, <2>11 DEF LastInv, r
<1>19. ASSUME NEW p \in Peers, NEW c \in Calls, NEW j \in Job, WriteFails(p, c, j)
       PROVE  LastInv'
  <2>1. Broken(p) /\ connClosed' = connClosed
    BY <1>19 DEF WriteFails, WriteDone
  <2>2. \A q \in Peers : q = p \/ q = Other(p)
    BY OtherPeer
  <2>3. Other(Other(p)) = p
    BY OtherPeer
  <2>4. \A q \in Peers : connClosed'[q] \/ connClosed'[Other(q)]
    BY <2>1, <2>2, <2>3 DEF Broken
  <2> QED
    BY <2>4 DEF LastInv, LastOf
<1>20. ASSUME NEW c \in Calls, start(c) PROVE UNCHANGED <<wire, wmu, connClosed, spc, cur>>
  BY <1>20 DEF start, connVars, jobVars, serveVars
<1>21. ASSUME UNCHANGED vars PROVE UNCHANGED <<wire, wmu, connClosed, spc, cur>>
  BY <1>21 DEF vars, connVars, jobVars, serveVars
<1>22. ASSUME UNCHANGED <<wire, wmu, connClosed, spc, cur>> PROVE LastInv'
  <2>1. \A q \in Peers : InHand(q)' => InHand(q) /\ cur'[q] = cur[q]
    BY <1>22 DEF InHand
  <2> QED
    BY <1>22, <2>1, OtherPeer, LastKept DEF LastInv
<1> QED
  BY <1>1, <1>2, <1>fetch, <1>3, <1>4, <1>5, <1>6, <1>7, <1>8, <1>9, <1>10, <1>11, <1>12, <1>13,
     <1>14, <1>15, <1>16, <1>17, <1>18, <1>19, <1>20, <1>21, <1>22
  DEF Next, ServeStep, TerminateStep, WritePacket

-------------------------------------------------------------------------------
(* The invariant, and the theorems.                                        *)

(* It holds at the start, ...                                             *)
LEMMA InitInv == Init => IInv
<1> SUFFICES ASSUME Init PROVE IInv
  OBVIOUS
<1>1. Off \in JobState
  BY OffState
<1>2. \A p \in Peers, c \in Calls, j \in Job : job[p][c][j] = Off
  BY DEF Init
<1>3. /\ << >> \in Seq(Packet) /\ Len(<< >>) = 0
      /\ Capacity \in Nat /\ MaxData \in Nat /\ 0 \in 0 .. MaxData
  BY BackpressureAssumption
<1>4. ConnOK
  BY <1>3 DEF Init, ConnOK
<1>5. JobsOK
  BY <1>1 DEF Init, JobsOK
<1>6. SinksOK
  BY DEF Init, SinksOK
<1>7. TablesOK
  BY DEF Init, TablesOK
<1>8. PlacesOK
  BY <1>3 DEF Init, PlacesOK
<1>9. LockInv
  BY DEF Init, LockInv
<1>10. WriterInv
  BY <1>2 DEF Init, WriterInv, Off, Nobody, Job, Closer
<1>11. CurInv /\ CallInv
  BY <1>3 DEF Init, CurInv, CallInv
<1>12. ASSUME NEW p \in Peers, NEW c \in Calls
       PROVE  SinkOK(p, c) /\ RefuseInv(p, c)
  <2>1. \A j \in Job : ~Active(p, c, j)
    BY <1>2, OffState DEF Active
  <2>2. "write" \in Job /\ "refuse" \in Job /\ Closer \subseteq Job
    BY DEF Job
  <2>3. c \notin erred[p] /\ smu[p][c] = "none"
    BY DEF Init
  <2> QED
    BY <2>1, <2>2, <2>3 DEF SinkOK, KindInv, SinkInv, ErrInv, RefuseInv
<1>13. WholeInv
  <2>1. \A p \in Peers : wire[p] = << >> /\ ~InHand(p)
    BY DEF Init, InHand
  <2>2. \A i \in 1 .. Len(<< >>) - 1 : FALSE
    OBVIOUS
  <2> QED
    BY <2>1, <2>2 DEF WholeInv
<1>14. LastInv
  <2>1. \A p \in Peers : wire[p] = << >> /\ ~InHand(p)
    BY DEF Init, InHand
  <2> QED
    BY <2>1, OtherPeer DEF LastInv, LastOf
<1> QED
  BY <1>4, <1>5, <1>6, <1>7, <1>8, <1>9, <1>10, <1>11, <1>12, <1>13, <1>14 DEF IInv, Types

(* ... every step keeps it, ...                                            *)
LEMMA NextInv == IInv /\ [Next]_vars => IInv'
<1> SUFFICES ASSUME IInv, [Next]_vars PROVE IInv'
  OBVIOUS
<1>1. /\ Types /\ JobsOK /\ SinksOK /\ TablesOK /\ PlacesOK
      /\ LockInv /\ WriterInv /\ CurInv /\ CallInv /\ WholeInv /\ LastInv
  BY DEF IInv, Types
<1>2. ConnOK'
  BY ConnStep
<1>3. (JobsOK /\ SinksOK)'
  BY <1>1, JobsStep
<1>4. TablesOK' /\ PlacesOK'
  BY <1>1, TablesStep, PlacesStep
<1>5. LockInv' /\ WriterInv'
  BY <1>1, LockStep, WriterStep
<1>6. CurInv' /\ CallInv'
  BY <1>1, CurStep, CallStep
<1>7. \A p \in Peers, c \in Calls : SinkOK(p, c)'
  BY <1>1, SinkStep
<1>8. \A p \in Peers, c \in Calls : RefuseInv(p, c)'
  BY <1>1, RefuseStep
<1>9. WholeInv'
  BY <1>1, WholeStep
<1>10. SamePkt
  BY <1>1, PktStep
<1>11. LastInv'
  BY <1>1, <1>5, <1>10, LastStep
<1> QED
  BY <1>2, <1>3, <1>4, <1>5, <1>6, <1>7, <1>8, <1>9, <1>11 DEF IInv, Types

(* ... and so it always holds.                                             *)
LEMMA Invariance == Spec => []IInv
<1> QED
  BY InitInv, NextInv, PTL DEF Spec

(* Whatever the applications, the transport and the Terminates do, every   *)
(* variable keeps its type, the transport holds what it can hold, r.rLock  *)
(* is held by the goroutine whose place in the code says so, and Writer.mu *)
(* by the one packet whose header is out and whose body is not.            *)
THEOREM TypeCorrect == Spec => []TypeOK
<1>1. IInv => TypeOK
  <2> SUFFICES ASSUME IInv PROVE TypeOK
    OBVIOUS
  <2>1. /\ ConnOK /\ JobsOK /\ SinksOK /\ TablesOK /\ PlacesOK /\ LockInv /\ WriterInv
    BY DEF IInv, Types
  <2>2. {"none"} \cup PktKind = {"none", "call", "data", "ok", "err"}
    BY DEF PktKind
  <2>3. Packet = [part : {"header", "body"}, pkt : {"call", "data", "ok", "err"}, call : Calls]
    BY DEF Packet, PktKind
  <2>4. JobState = [at : {"off", "header", "body", "sent", "failed"},
                    pkt : {"none", "call", "data", "ok", "err"}]
    BY <2>2 DEF JobState
  <2>5. \A p \in Peers :
          /\ tpc[p] = "sweep" <=> rlock[p] = "term"
          /\ spc[p] \in {"discard", "parse", "refuse"} <=> rlock[p] = "serve"
          /\ \A c \in Calls, j \in Job : job[p][c][j].at = "body" <=> wmu[p] = <<c, j>>
    BY <2>1 DEF LockInv, WriterInv
  <2>6. \A p \in Peers :
          /\ wire[p] \in Seq([part : {"header", "body"}, pkt : {"call", "data", "ok", "err"}, call : Calls])
          /\ Len(wire[p]) <= Capacity
    BY <2>1, <2>3 DEF ConnOK
  <2>7. /\ wmu \in [Peers -> (Calls \X Job) \cup {Nobody}]
        /\ job \in [Peers -> [Calls -> [Job ->
             [at : {"off", "header", "body", "sent", "failed"},
              pkt : {"none", "call", "data", "ok", "err"}]]]]
    BY <2>1, <2>4 DEF JobsOK
  <2> QED
    BY <2>1, <2>5, <2>6, <2>7 DEF TypeOK, ConnOK, SinksOK, TablesOK, PlacesOK
<1> QED
  BY <1>1, Invariance, PTL

(* No packet of a session is torn apart: a reader that has a header finds  *)
(* the body of the same packet behind it, although streams, refusals and   *)
(* close goroutines that nobody waits for share the connection, and either *)
(* end may close it between the two writes.                                *)
THEOREM PacketsStayWhole == Spec => []PacketsAreWhole
<1>1. IInv => PacketsAreWhole
  <2> SUFFICES ASSUME IInv, NEW p \in Peers
               PROVE  LET w == IF spc[p] \in {"lookup", "fetch", "body", "discard", "parse"}
                               THEN <<cur[p]>> \o wire[p] ELSE wire[p]
                      IN \A i \in 1 .. Len(w) - 1 :
                           w[i].part = "header" => w[i + 1] = [w[i] EXCEPT !.part = "body"]
    BY DEF PacketsAreWhole
  <2>1. /\ \A i \in 1 .. Len(wire[p]) - 1 :
             wire[p][i].part = "header" => wire[p][i + 1] = BodyOf(wire[p][i])
        /\ InHand(p) /\ wire[p] # << >> => wire[p][1] = BodyOf(cur[p])
    BY DEF IInv, WholeInv
  <2>2. CASE ~InHand(p)
    BY <2>1, <2>2 DEF InHand, BodyOf
  <2>3. CASE InHand(p)
    <3> DEFINE v == wire[p]
               h == cur[p]
               w == <<h>> \o v
    <3>1. v \in Seq(Packet) /\ h \in Packet
      BY <2>3, CurCall DEF IInv, Types, ConnOK, InHand
    <3> HIDE DEF v, h
    <3>2. /\ Len(v) \in Nat /\ Len(w) = Len(v) + 1 /\ w[1] = h
          /\ \A i \in 1 .. Len(v) : w[i + 1] = v[i]
      <4>1. <<h>> \in Seq(Packet) /\ Len(<<h>>) = 1 /\ <<h>>[1] = h
        BY <3>1
      <4>2. /\ Len(w) = 1 + Len(v)
            /\ \A i \in 1 .. Len(w) : w[i] = IF i <= 1 THEN <<h>>[i] ELSE v[i - 1]
        BY <3>1, <4>1, ConcatProperties
      <4>3. Len(v) \in Nat
        BY <3>1
      <4>4. \A i \in 1 .. Len(v) : i + 1 \in 1 .. Len(w) /\ ~(i + 1 <= 1) /\ (i + 1) - 1 = i
        BY <4>2, <4>3
      <4>5. 1 \in 1 .. Len(w)
        BY <4>2, <4>3
      <4> QED
        BY <4>1, <4>2, <4>3, <4>4, <4>5
    <3> HIDE DEF w
    <3>3. ASSUME NEW i \in 1 .. Len(w) - 1, w[i].part = "header"
          PROVE  w[i + 1] = BodyOf(w[i])
      <4>1. i \in 1 .. Len(v) /\ w[i + 1] = v[i]
        BY <3>2
      <4>2. CASE i = 1
        <5>1. v # << >>
          BY <4>1
        <5> QED
          BY <2>1, <2>3, <3>2, <4>1, <4>2, <5>1 DEF v, h
      <4>3. CASE i # 1
        <5>1. i - 1 \in 1 .. Len(v) - 1 /\ i - 1 \in 1 .. Len(v) /\ (i - 1) + 1 = i
          BY <3>2, <4>1, <4>3
        <5>2. w[i] = v[i - 1]
          BY <3>2, <5>1
        <5> QED
          BY <2>1, <3>3, <4>1, <5>1, <5>2 DEF v
      <4> QED
        BY <4>2, <4>3
    <3> QED
      BY <2>3, <3>3 DEF w, v, h, InHand, BodyOf
  <2> QED
    BY <2>2, <2>3
<1> QED
  BY <1>1, Invariance, PTL

(* Once an end with an error has left a sink, whoever closed it and        *)
(* whether or not its caller still waits, no Write of the application is   *)
(* under way or can start on that sink.                                    *)
THEOREM NoDataFollowsError == Spec => []NoDataAfterError
<1>1. IInv => NoDataAfterError
  <2> SUFFICES ASSUME IInv, NEW p \in Peers, NEW c \in Calls \ Refused, c \in erred[p]
               PROVE  job[p][c]["write"].at \notin {"header", "body"}
    BY DEF NoDataAfterError
  <2>1. SinkOK(p, c)
    BY DEF IInv
  <2> QED
    BY <2>1 DEF SinkOK, ErrInv, Active
<1> QED
  BY <1>1, Invariance, PTL

===============================================================================
