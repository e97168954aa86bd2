# A formal model of go-muxrpc

TLA+ specifications of `github.com/ssbc/go-muxrpc/v2`: many calls (async,
source, sink, duplex) multiplexed over one ordered connection. TLC checks them
on small instances, and TLAPS proves the safety properties for every value of the
constants. Paths below are relative to the root of the repository, `src/`.

## The system

Two endpoints hold the ends of one connection. `Handle` builds an `rpc`, starts
its **serve** goroutine, asks the other side for its **manifest** and, when that
is over, hands the endpoint out.

| part | state it keeps | operations |
|---|---|---|
| `rpc`, the session (`rpc_server.go`) | `reqs`, `reqsClosed`, `highest` (under `rLock`), `terminated` (under `tLock`), `serveCtx` | `serve`, `fetchRequest`, `maybeDiscardPacket`, `parseNewRequest`, `closeStream`, `Terminate` |
| calls (`rpc_client.go`) | one `Request` per call | `Async`, `Source`, `Sink`, `Duplex`, `start` |
| requests (`request.go`) | source, sink, `abort` | `ResponseSink`, `ResponseSource`, `Return`, `CloseWithError` |
| stream source and frame buffer (`stream2_source.go`) | `failed`, `closed`; `store`, `frames`, `waiting` | `Next`, `Bytes`, `Reader`, `Err`, `Cancel`, `consume`; `copyBody`, `waitForMore`, `getNextFrameReader` |
| stream sink (`stream2_sink.go`) | `closed` under `closedMu` | `Write`, `Close`, `CloseWithError`, `SetEncoding` |
| packer and codec (`packer.go`, `codec/`) | `closing`; the lock of the `Writer` | `NextHeader`, `Close`; `WritePacket`, `ReadHeader`, `ReadBodyInto` |
| manifest (`rpc_manifest.go`) | `missing`, `methods` | `retreiveManifest`, `Handled` |
| multiplexers and stubs (`handler.go`, `typemux/`) | the registered handlers | `Handled`, `HandleCall`, `HandleConnect` |
| buffer pool (`karrick/bufpool`, used by `rpc_server.go` and `stream2_source.go`) | free buffers | `Get`, `Put` |
| legacy streams (`stream.go`, `stream2_legacy.go`) | `hdrFlag` of the source, `pkt.Flag` of the sink | `Next`, `Pour`, `CloseWithError`, the end packets |
| byte streams (`rwc.go`) | the unread rest of a frame | `Write`, `Close`, `Read` |

How they interact. An application goroutine calls `start`, which enters the
request in `reqs` and then writes the first packet. The serve loop of the other
side finds an unknown id, parses the request and starts a goroutine for its
handler. From then on each side writes through its sink, and each serve loop
moves the bodies it reads into the source of the request, where a reader waits in
`Next`. An end packet (`FlagEndErr`) makes the serve loop run `closeStream`:
cancel the source, answer with an end of its own, end the context, move the id
from `reqs` to `reqsClosed`. Everything shares one connection, one reader
goroutine per side, and one writer lock per side.

What is hard in it:

- **interleaving**: `Next` gives up its lock before it registers for a wake-up;
  `start` before it writes; the serve loop between the discard check and the
  lookup; three goroutines may close one stream.
- **ordering**: data behind the end of its stream, two ends crossing, a context
  that ends before the source is told why.
- **failure**: a body cut short, a peer that dies, stalls or never answers.
- **waiting**: locks (`rLock`, `closedMu`, the writer's) are held over writes
  that block while the other side does not read.
- **framing**: a body that nobody reads is taken for a header.
- **reuse**: frames share one buffer and its read position, streams share a pool of
  buffers, and one flag stands for the type of every frame.

## Modules

| module | stands for | form |
|---|---|---|
| `Stream` | what a stream promises: frames taken in while it is open come out in order, once; closing is for ever | abstract specification |
| `ByteSource` | `stream2_source.go`: one reader, the serve loop, `Terminate`, a cancelling user, two contexts | one action per critical section |
| `ByteSourceProofs` | theorems about `ByteSource` | TLAPS |
| `Session` | `rpc_server.go`, `rpc_client.go`, `request.go`: two endpoints over an unbounded ordered connection | one action per critical section or packet |
| `SessionProofs` | theorems about `Session`: types; the tables of requests; the calls of a closed connection; the data of a source; framing | TLAPS |
| `Backpressure` | `stream2_sink.go`, `codec/writer.go` and what serve and `Terminate` do while they hold `rLock`, over a transport that fills up | one action per header, body or lock |
| `BackpressureProofs` | theorems about `Backpressure` | TLAPS |
| `Routing` | `rpc_manifest.go`, `handler.go`, `typemux/`: which code a call reaches and what its caller learns | one action per decision |
| `RoutingProofs` | theorems about `Routing` | TLAPS |
| `FrameBuffer` | the frame buffer of a source byte by byte, `Reader`, and the locks `bs.mu` and `buf.mu` | one action per byte, lock or return |
| `FrameBufferProofs` | theorems about `FrameBuffer` | TLAPS |
| `BufPool` | `rpc.bpool`: the stores of all sources, and the buffer of `serve` for end bodies | one action per `Get`, `Put` and use |
| `BufPoolProofs` | theorems about `BufPool` | TLAPS |
| `LegacyStream` | `SetEncoding`, `Pour`, `Return` and the adapters of `stream2_legacy.go`: what type a value has on each side | one action per packet |
| `LegacyStreamProofs` | theorems about `LegacyStream` | TLAPS |
| `ByteStream` | `rwc.go`: a writer that cuts and a reader that joins | one action per block or critical section |
| `ByteStreamProofs` | theorems about `ByteStream` | TLAPS |
| `MCByteSource`, `MCSession`, ... | the instances for TLC | |

Definitions keep the names of the functions they translate (`copyBody`,
`waitForMore`, `closeStream`, `noSuchMethod`, ...). A definition whose name has a
suffix after an underscore (`waitForMore_Blind`) is not part of a specification:
it is what the definition below it would be with a plausible mistake, and is kept to
show that the properties notice the mistake.

### ByteSource

`store` is the byte buffer as a sequence of frames, each named by its arrival
number; the entry `Torn` is a length prefix whose body never came in full.
`frames` is the `uint32` counter, modulo `Uint32`. A wake-up channel is a
number; `waiting` are the channels on the list, `signalled` those closed. `Next` is four
steps: `NextCheck` (under `bs.mu`), `waitForMore` (under `buf.mu`), the blocked
select, and one of four `Wake` actions, of which Go may take any that is ready. `serve` walks
through `consume` (whole, torn or refused), `closeStreamCancel` and
`closeStreamAbort`. A reader calls `Bytes` after a `Next` that was true, which is
how all callers in the library use it. A `Next` that finds the stream over and empty at
its first check gives the store back to the pool, so `NextCheck` empties it.

### Session

A call stands for its request id on both sides. A packet is a kind (first
packet, data, clean end, end with an error) and a call; `unread` says that its
body is still in front of the reader, so framing is a property and not an
assumption. The serve loop is a program counter `spc` with a step for every section between
two releases of a lock. `closeStream` is three steps (source, sink, tables), as is
`Request.CloseWithError`, which does the first two twice. There are two `Terminate`s per
endpoint, the user's and the one `serve` defers; `holder` is the pair of locks
they hold while they sweep. `CallerMay` and `HandlerMay` say what applications
do in a run; within that they do anything in any order, and write after their own clean
`Close` too (`cpc` or `hpc` "done" means that the application has closed its sink). A loop that
took a body for a header is `garbled`: it ends with an error, or goes on for as long as the
connection lives. Bodies are opaque, and none of them spells the id of an open request.
A call in `Unhandled` may be refused or handled. A second `Close` of one sink by its
application is left to `LegacyStream`, and `TerminateSweep` cancels the source and
closes the sink of a request in one step, between which nothing looks at either. A crash closes
an end and stops the goroutines of that side. Packets may be lost or cut short once one
end is closed, never before.

### Backpressure

The transport holds `Capacity` headers or bodies in each direction.
A `WritePacket` is a job with a header step and a body step under `wmu`, the
lock of the `Writer`. `sinkClose` hands the end packet to a goroutine and holds
`closedMu` (`smu`) until the goroutine answers or the timer fires
(`sinkCloseReturns`); after the timer the job lives on and may still send. The serve
loop holds `rLock` while it discards a body and while it parses and refuses a
call; the discard check (`Lookup`) and the search for the request (`fetchRequest`) are
two sections. `Terminate` holds `rLock` during the whole sweep, in which `source.Cancel` waits for
a body that is being read (`Consuming`). The `source.Cancel` of `closeStream` has nothing to
wait for, since only the loop itself holds that lock over a body. Applications may write after
their own clean close. Peers in `Stalled` may stop reading for ever without closing.

### Routing

A method is a sequence of elements and an element a sequence of dotted parts,
so that `["a.b"]` and `["a","b"]` differ and have the same `String`. `Root` and
`Stub` are the registered plugins and their stubs, `Manifest` what the server
answers if it answers well. `writeManifestRequest` is the write of the manifest call, which
has no deadline (`rpc_manifest.go:67`); the minute begins after it. `Call` passes or fails the gate of the
caller's manifest, `Receive` the gate of the receiver, `HandleCall` the two
searches, `stubHandleCall` the check of the call type, `Return` the end of the
handler function.

### FrameBuffer

A cell of `store` is a length prefix (`pos` 0) or a byte of a body, named by its
frame. `consume` takes `bs.mu`, `copyBodyLock` takes `buf.mu` and writes the prefix,
`copyBody` one byte each time the network delivers one, `copyBodyDone` counts the
frame and releases both; `copyBodyTorn` is the connection that ends in between.
`getNextFrameReader` drops what is left of the last frame (`Skipped`), reads four
bytes as a prefix, whatever they are, and sets up the `LimitReader` (`limit`) and the
`countingReader` (`total`, `read`). `ReaderLock` to `fnReturn` is `Reader` with the
function of the caller, which may stop anywhere in the frame. Another goroutine calls
`Cancel`, as `Terminate` does. Wake-ups and the end are left to `ByteSource`.

### BufPool

A buffer is a number; `content` is what it holds and `array` what its memory begins
with, since `Put` resets a buffer and keeps its memory. `store[s]` is the buffer that
`newByteSource` takes; `NextPuts` is a false `Next` that gives it back, as each one does that
finds the stream over and empty at its first check. `puts` counts them, up to `MaxPuts`. A
`Next` that is false after its select changes nothing here. `ServeEnd`, `ReadBodyInto`, `ServePut` and
`ServeParse` are the four things `serve` does with an end packet, in the order of the
code: the buffer is back in the pool before its bytes are parsed.

### LegacyStream

One sink of one call, and the source at its other side. `kind` is the type of the call, `by`
whose sink it is: a caller's sink begins with the encoding of the call, and has the stream bit
only in a sink or duplex call (`rpc_client.go:137`); a handler's begins with the stream bit of
the request. A value is its native type and the encoding of its body; `Sends` lists how an
application sends one and what the code in between tells `SetEncoding`. `flag` is
`bs.pkt.Flag`, a set of bits. After a clean close the sink can be written to and
closed again (`MaxEnds`), which sends a further end. `Next_Decides` looks at `hdrFlag` and
`Next_Reads` takes the frame, with any number of `consume` between them; for an async call `Async`
decides by the encoding it was given. With `Mixed` a stream carries values of any encoding;
without it, those of the encoding the call was made with.

### ByteStream

A byte is its number, a packet a sequence of them. `WriteBlock` sends at most
`ChunkSize` bytes and may fail, and `WriteCounts` adds them to what `Write` will return; `Read` returns what is buffered or goes through `Next`
(`NextCheck`, `NextSelect`) and `Bytes`. The reader gives `Next` the context of the stream
itself, which `closeStreamAbort` and `Terminate` end, so the three cases of the select
race in the way `NextSelect` says.

## Runs

Instances are small, and each was chosen so that the interesting case is in it;
`tlc -config X.cfg MCModule` repeats any of them in at most a few minutes.

| run | instance | what it shows |
|---|---|---|
| `source` (`ByteSource.cfg`) | 3 frames, 2 false `Next`s, counter modulo 8 | order, no lost wake-up, no double close, the first cause stays, the end comes after the frames and is told, refinement of `Stream` |
| `frame_buffer` | 4 frames with bodies of 0 or 2 bytes, any partial reads, a torn body, a body that never comes, a `Cancel` | each function reads its own frame from its start, the position fits the store, no lock is left behind; `Cancel` and `consume` return if bodies arrive and functions return |
| `buf_pool` | 3 streams, a frame and an end each, `MaxPuts` 1 | a buffer has one owner, readers get their own frames, end bodies are parsed intact, as long as no reader asks twice after the end |
| `session_calls` | an async call of one side, answered or refused, a duplex call of the other, closed from both sides | late packets are never taken for new calls, the connection stays in step, the async call returns |
| `session_early_close` | a duplex call, handled or refused, with everything either side may do, and a crash | types and tables stay consistent even where framing is lost |
| `session_shutdown` | a source call whose context may end, `Terminate` on one side, a crash on the other | no call is left waiting, no broken stream looks complete, both sides end; an end is answered, except by a sink that was closed without one |
| `backpressure` | a transport of one slot, one duplex call; `b` writes and closes it and may stall, `a` may call `Terminate` | locks are held by who is at work under them, nothing follows an error end, `Terminate` comes back |
| `backpressure_refused` | a refused call each way, and a call on which both sides write and `b` closes | packets are whole; a loop keeps reading as long as the other side takes what it is sent |
| `routing` | two plugins, one below the other, nine methods, four call types, four fates of the manifest | no call reaches the wrong stub, a refusal by the caller's manifest is right, refusals are told, `Handle` returns once the manifest request is out |
| `legacy_stream` | 3 values, 2 ends, the three encodings, async calls and streams, both sinks of a call | flags say what a packet is, the receiver decodes what was sent |
| `byte_stream` | 8 bytes in chunks of 3, reads of 1 or 2, a failing block, `Terminate` | bytes come out in order and once, the count of `Write` is right, the end is read |
| `session_cancel` | violation: a caller cancels a source that is being written | `InSync` |

Six more configurations are kept because they show what the code does at the edge of
these runs. They are not part of the runs: each ends in a counterexample, explained
under "Disagreements found".

| configuration | instance | TLC's counterexample |
|---|---|---|
| `BackpressureMutual.cfg` | that of `backpressure_refused` | `ServeDrains`: both loops stop reading, each at a write the other would have to read |
| `BackpressureTerminate.cfg` | `a` writes to a stalled peer, then calls `Terminate` | `TerminateReturns` |
| `BufPoolTwice.cfg` | `buf_pool` with `MaxPuts` 2 | `OwnFrames`: a stream's `Bytes` returns a frame of another stream |
| `FrameBufferStalled.cfg` | that of `frame_buffer` | `CancelStopsReading`: `Cancel` waits for a body that never comes |
| `LegacyMixed.cfg` | `Mixed`, 2 values | `FlagsTellType`: the flag of an earlier value stays on |
| `LegacyLatestFlag.cfg` | `Mixed`, 2 values | `DecodedByItsFlag`: a stored frame is decoded by the flag of a later one |

Bounds, and why they are enough. Frames and data packets (`MaxFrames`,
`MaxData`): the code never looks at more than the oldest frame and whether there
is one, so three frames have a first, a middle and a last; the theorems of
`ByteSourceProofs` hold for any number. Calls: two share a connection in every
way the code distinguishes, since requests only meet in the tables, the locks
and the connection. `Uint32` only has to be larger than the number of frames for
the wrap from 0 to be seen. `MaxPuts` of `ByteSource` bounds a loop that goes on after
the end. In `FrameBuffer` a body is empty or has a first and a last byte, and four frames
let an unread rest, an empty frame and a torn one meet. Three streams let a buffer go from
one stream to `serve` and on to another while a third waits; they are interchangeable
(symmetry). Eight bytes are two whole chunks and a short one, and no read ends
where a chunk does.
`Capacity` of one is the tightest transport; a larger one only delays the moment
it is full. In `Routing` calls do not influence each other, so one is enough; it
ranges over every method and type.

Deadlock is checked in `source` only: in the other runs a session that is over, or
whose applications are done, has nothing left to do.

Fairness. `ByteSource`: a goroutine inside `Next` or `closeStream` is scheduled
again; `LoopSpec`, which `source` uses, adds a reader that keeps looping over `Next` and
`Bytes` and is needed for `EndIsTold` only. `Session`: serve, a `Terminate` once
called, a `start`, `Async` and `CloseWithError` go on; a loop that has lost its place is only
obliged to end when the connection breaks. Handlers are not obliged to anything, except in
`AnswerSpec` for `AsyncReturns`, where they answer.
`Backpressure`: a write that can proceed does, a timer fires, the serve loop of a
peer that is not stalled reads. `Routing`: the library's steps, and the minute of
the manifest call passes; nothing is assumed of the transport that takes the request, so
`HandleReturns` begins when it is out or has failed. `ByteStream`: the receiver's loop and
its reader go on. All of it
is weak fairness and is what the Go runtime, the ten second and one minute timers
give. `FrameBuffer` needs strong fairness for its two locks, because a `sync.Mutex` does
not starve a waiter, and weak fairness for `copyBodyDone`, which waits for nothing; that a body
arrives, or the function given to `Reader` returns, is a condition of `CancelReturns` and not
assumed. Properties that need no fairness are invariants or box formulas.

## What is proved

`ByteSourceProofs` proves, for every `MaxFrames`, `MaxPuts` and `Uint32`:

| theorem | property |
|---|---|
| `TypeCorrect` | `TypeOK` |
| `FramesInOrder` | `FIFO`: also that the frame counter counts the frames in the store, so it never wraps |
| `TrueMeansFrame` | `NextTrueMeansFrame` |
| `WakeupKept` | `NoLostWakeup` |
| `CloseOnce`, `WaitsOnce` | `NoDoubleClose`, `OneWaiter` |
| `EndAfterFrames` | `EndIsComplete` |
| `FirstCause` | `FirstCauseWins` |
| `Refinement` | `ImplementsStream` |

Assumption: `BoundsAssumption` (the constants are naturals and the counter can hold
all frames).

The argument. None of the invariants is inductive alone. `IInv` joins them with
what the code relies on without saying so:

- `TornIsLast`: as long as the serve loop goes on, the store holds counted frames
  only, so `consume` may append (`FIFO` alone would allow a torn body in between);
- `ReadyMeansFrame`: every way out of the select that makes `Next` true has seen
  a positive counter, so `Bytes` takes a counted frame and the counter does not wrap;
- `NoChannelLeft` and `SignalMeansFrame`: a reader between `NextCheck` and the select has
  left no channel behind, and a closed channel means a frame; with them
  `NoLostWakeup`, `OneWaiter` and `NoDoubleClose` support one another;
- being told of an end means that there was one, which with `FIFO` gives `EndIsComplete`.

`InitInv`, then one lemma per conjunct (`TypeStep`, `StoreStep`, `WakeStep`,
`EndStep`), each with a step per action, give `NextInv`, and `Invariance`
follows; the single theorems are read off it. `Refinement` uses it for the one
interesting step, `Bytes`, where the abstract stream must find the delivered
frame next in order. `FirstCause` needs no invariant.

`SessionProofs` proves, for any set of calls of any types, any `MaxData`, and whatever callers,
handlers, `Terminate`s and crashes do:

| theorem | property |
|---|---|
| `TypeCorrect` | `TypeOK` |
| `ClosedForGood` | `ClosedStaysClosed` |
| `NobodyStranded` | `NoStrandedCall` |
| `CleanEnds` | `CleanEndIsComplete` |
| `HeadersOnly` | `InSync`, if `StreamsEndByPacket` |
| `CallsDoNotClash` | `NoProtocolError`, if `StreamsEndByPacket` |

Assumption: `SessionAssumption` (two different peers, and the constants have their types).
`StreamsEndByPacket` says that callers neither cancel a source nor end the context of a call, and
that handlers do not use `Request.CloseWithError`; `Terminate`s, crashes, closes, ends and refusals are not
restricted. The instance of `session_calls` meets it. All three parts are needed: TLC finds
`NoProtocolError` violated when any one of them is dropped. A source that its caller cancelled, or whose
context ended, refuses data that is still under way and leaves its body unread
(`session_cancel`), and a `CloseWithError` may drop a request between the discard check and the
lookup (the first difference listed below).

The argument. `TypeOK` becomes inductive with `CurInv`: from the header to the end
of its work the loop has a packet in hand. `ClosedStaysClosed` looks like a fact
about two maps and is one about the connection: a closed request could come back
only through the first packet of its call. `FirstInv` says that this packet is unsent,
or on its way once, or in the loop's hand, or gone, and never two of these. `Fresh` says
that a peer has still to register the call, which is never true again once it
was false; `FreshInv` says that a fresh call is in neither table and that no loop works on it,
`RunsInv` that a running handler's call is not fresh. The lemmas `NetStep`, `TableStep`,
`LoopStep` and `AppStep` go through the actions once each, and say what a step may do to
one queue, one pair of tables, one loop and one call; the rest is reasoned from these
shapes. `NoStrandedCall` needs three more facts: a call that left the caller's
table has failed (`LeftInv`), a loop that closes a sink has cancelled its source
(`CancelInv`, from the order inside `closeStream`), and behind a closed
connection no open call is in the table (`SweptInv`: `Terminate` closes under the lock
under which it has emptied the table, and a later first write fails).

`CleanEndIsComplete` is a balance. As long as the caller listens, the data packets it took, the
one its loop has in hand, and those in the queue in front of the first end (`Due`) add
up to what the handler wrote before it ended the stream (`Promised`); that is `DueInv`. `MarkInv`
says that a written end is under way until the source has failed, `KindInv` that only a clean end
takes the loop to a close without an error, `SentInv` that a caller gets packets of its calls
only after sending them. `EventStep` shows that, seen from one call, a step is quiet, or
moves the caller's loop, or stops the caller, or sends a packet to it, and only the last
three disturb the balance (`DueAppend`, `DueTail`).

For framing, the question is whether a packet that the loop looks up finds a request that takes its
body. `WayInv` follows the first packet of a call: it is in the caller's table when it goes out
(`MadeInv`), then on its way or known to the receiver (`PathInv`), and no other packet of the call
overtakes it (`OrphanInv`, `KnownInv`), because `start` writes it before it hands out the sink.
So the lookup succeeds (`FetchInv`); a request in the table takes data, unless the loop
itself is closing it or the session has ended (`OpenInv`, the only place where
`StreamsEndByPacket` matters, with `PlainInv`); hence a body is left unread only when the session has
ended (`FrameInv`).

`FrameBufferProofs` proves, for any number of frames of any lengths and any reader:

| theorem | property |
|---|---|
| `TypeCorrect` | `TypeOK`: in particular that each lock is held by the goroutine at work under it |
| `FunctionsReadTheirFrame` | `OwnFrame` |
| `StoreIsOneRun` | `Contiguous` |
| `Refinement` | `ImplementsStream`, which no run checks |

Assumption: `FrameBufferAssumption` (fewer frames than the counter can count).

The argument. A reader that skips an unread rest trusts three numbers of its own to say
where in the store it stands; `OwnFrame` is true because they always do. `HeadInv` says
so: the store begins with what is left of the current frame and then with a prefix.
`RunInv` says that each prefix is followed by its whole body and then by the next prefix;
it counts from the prefix, because neighbours alone would need an induction over
the frame that is skipped. `ChainInv` is the relation of neighbours, `EndInv` says that
the store ends with the byte that arrived last, and `CountInv` that the counter is the
number of whole frames not yet taken, so that a true `Next` finds a prefix and all
of its body (`NextFrame`, `FrameTaken`). The locks are `ServeInv`, and the functions'
past is `SeenInv`. `StoreGrows` and `StoreDrops` carry `RunInv` and `ChainInv`
through a byte that arrives and one that is read; all other steps are `StoreKept`.
`Refinement` maps the frames that were counted (taken or not) to those `Stream` accepted, and each
`Reader` to the frame of the first byte its function read. `SeenInv` gives the order, `CountInv` that only
what was counted is handed out, and `OpenInv` that the source has not failed while a body
arrives, because `Cancel` and `closeStream` wait for `bs.mu`. So both models of the source, `ByteSource` with
its wake-ups and `FrameBuffer` with its bytes, implement the same `Stream`.

`BufPoolProofs` proves, for any set of streams and any number of frames:

| theorem | property |
|---|---|
| `BuffersHaveOneOwner` | `OneOwner` |
| `ReadersGetOwnFrames` | `OwnFrames` |

Assumptions: `BufPoolAssumption`, and `MaxPuts = 1`: no reader asks again once `Next` has given
its store back. The condition is needed; see `BufPoolTwice.cfg`.

The argument. `GetFacts`, `PutFacts` and `WriteFacts` say what the three operations do to the
pool and to all other buffers. `StoreInv` adds to `OneOwner` that only a failed stream
has given its store back: `consume` looks at `failed` and so never writes to a buffer that
may have a new owner. `ServeInv` follows the buffer of an end packet: serve's alone up to
`Put`, and with the end body in its memory up to the parse, because only the serve loop
writes and it is busy. `ContentInv` says that a store holds just the frames of its stream
that were not delivered, which is what makes `OwnFrames` go through `Bytes`.

`BackpressureProofs` proves, for any calls, any `Capacity`, any set of refused calls and
of stalled peers, and any number of packets:

| theorem | property |
|---|---|
| `TypeCorrect` | `TypeOK`: in particular that each lock is held by a goroutine at work under it |
| `PacketsStayWhole` | `PacketsAreWhole` |
| `NoDataFollowsError` | `NoDataAfterError` |

Assumption: `BackpressureAssumption` (two different peers, a transport that holds
something).

The argument. `LockInv` and `WriterInv` tie `rLock` and `Writer.mu` to the places of the
goroutines: a packet whose header is out holds the writer. For `PacketsAreWhole` the
wire alone does not say enough: `LastInv` adds that a header at the end of the wire, or in
the hand of a reader with nothing behind it, is that of the packet whose writer
has the lock, so that the next part can only be its body. That fails once one end is closed,
and then nothing is put on the wire any more. `NoDataAfterError` needs the owner of
`closedMu` and is not about it alone: a close whose caller timed out goes on without the
lock. `SinkInv` says what replaces it: a `Write` excludes every closer; a closer that is
under way without the lock has left `bs.closed` set, and nobody closes such a sink again.
`ErrInv` says that an error end, sent or only begun, has closed the sink and that no `Write` is
under way. `KindInv`, `RefuseInv`, `CurInv` and `CallInv` say which writer a packet comes from
and what the loop has in hand. One lemma per conjunct goes through all actions.

`ByteStreamProofs` proves, for any amount of data, any sizes of chunks and of the buffers
given to `Read`:

| theorem | property |
|---|---|
| `BytesComeInOrder` | `BytesInOrder` |

Assumption: `ByteStreamAssumption`.

The argument. What was read, the reader's buffer, the store of the source and the wire
are one run of bytes: each block begins where the one before it ends (`ReadInv`,
`StoreInv`, `PipeInv`), and the last ends at `accepted`. What `Write` counts is one block behind that while the
sink answers, and equal to it before and after (`CountInv`). The wire belongs to the run only while
the source takes what comes; once it has failed nothing enters the store, and the rest of the
wire is of no account. `Next` says TRUE only if there is a block, and is asked only when the
buffer is empty, so a block never overtakes the rest of another.

`RoutingProofs` proves, for any plugins, names, methods and manifests:

| theorem | property |
|---|---|
| `TypeCorrect` | `TypeOK`: in particular that the flat manifest is whole or missing |
| `NamesApartNeverMisrouted` | `NeverMisrouted`, if no plugin's key continues the name of a handler (`NamesApart`) |
| `RefusedHereIsRefusedThere` | `LocalRefusalIsRight` |
| `HandledIsAnswered` | `NoSilentCall` |

Assumption: `RoutingAssumption` (a plugin handles names below its own key, no other key lies
between, and the manifest is that of what is handled).

The argument. Both muxes look for the longest beginning of a method that they have, in steps
of its elements, and the gate looks at the whole name. `KeysArePrefixes` says that the
beginnings of a method have strings that its own string begins with, `PickIsGreatest` that the
search finds the longest, `RightStub` puts them together: a root key shorter than that of
the right plugin can be found (a method with a dot in an element skips keys), but its plugin
then has nothing to offer, because what it has below that method would lie before or behind
the right key. Before it is `NamesApart` that excludes it, and the condition is needed: see the
last but one of the differences below. The instance of `routing` meets it. `Strings` is an induction
over the elements of a method, made with the least element of a set (`Induct`), since
the library's induction theorems cannot be instantiated here.

`LegacyStreamProofs` proves, for any set of encodings and any number of values:

| theorem | property |
|---|---|
| `TypesTold` | `FlagsTellType`, if streams carry values of one encoding (`~Mixed`) |
| `DecodedRight` | `DecodedAsSent`, if moreover no handler gives a `[]byte` to `Return` |

Assumption: `LegacyStreamAssumption`. The conditions are those of the run, and both are needed:
`LegacyMixed.cfg` drops the first, and the second is one of the differences listed below
(`request.go:158`). `FlagsTellType` leaves out the stream bit of the end that the sink of a source call
sends for the caller, which the code does not set.

The argument. A sink never gets a type bit of another encoding than that of the call, and one of an
async call has no bits before its only value (`FlagInv`), so each frame on the wire tells its
encoding (`WireInv`). What is under way and stored is of the encoding of the call
(`WayInv`), so the flag of any frame is right for all of them, and in particular the one that `Next`
happens to see (`HeldInv`). `CountInv` counts the frames that are decoded, stored and
on the wire; they are never more than the values sent, which gives the place of each one.

Only model-checked: liveness (`NextReturns`, `EndIsTold`, `EndConverges`,
`AsyncReturns`, `SessionEnds`, `TerminateReturns`, `ServeDrainsToReader`,
`HandleReturns`, `RefusalIsTold`, `CancelReturns`, `EndIsRead`), because the prover
handles neither fairness nor `ENABLED`. Every other property of a passing run is
proved. The prover cannot use
recursive operators; the modules with theorems have none.

## Disagreements found

One run ends in a counterexample to what the repository says of itself, and six further
configurations (see "Runs") show others.

- **A cancelled source breaks the session** (`session_cancel`). After
  `ByteSource.Cancel` by a caller, `consume` returns without reading the body
  (`stream2_source.go:165`), and the loop reads it as a header. The comment on
  `Cancel` offers it for closing "a query early before it is drained".
- **Two loops wait for each other** (`BackpressureMutual.cfg`). `fetchRequest` writes its
  refusal from the serve loop with `rLock` held (`rpc_server.go:239`), and `closeStream`, in the
  same loop, waits for the lock of a sink whose `Write` is stuck (`stream2_sink.go:95`), without
  the timeout that covers the packet. When both sides do one of the two on a full transport,
  neither reads again, though "Serve drains the incoming packets" (`rpc_server.go:334`).
- **`Terminate` waits for a stuck `Write`** (`BackpressureTerminate.cfg`): for the lock of its
  sink (`rpc_server.go:497`), and so does not get to closing the connection, which is
  what would free the `Write`. `TerminateReturns` holds where the terminating side writes nothing.
- **A store is given back twice** (`BufPoolTwice.cfg`). Each `Next` that finds the stream over
  and empty puts the same store into the pool (`stream2_source.go:100`); after two of them two
  later streams share it, and a reader gets a frame of another stream.
- **`Cancel` waits for the network** (`FrameBufferStalled.cfg`). `consume` holds `bs.mu` while
  the body arrives (`stream2_source.go:171`), without a deadline: if a peer stalls after a
  header, `Cancel`, which "stops reading" (`stream2_source.go:64`), waits, and with it the sweep
  of the `Terminate` that would close the connection.
- **Types leak** (`LegacyMixed.cfg`). `SetEncoding` clears the JSON bit only for `TypeBinary`
  and the string bit never (`stream2_sink.go:52-63`): a stream that changes its encoding sends
  wrong flags.
- **A frame is decoded by a later flag** (`LegacyLatestFlag.cfg`). `hdrFlag` is that of the latest
  frame (`stream2_source.go:169`), so on such a stream older frames are decoded by a newer flag;
  `stream2_legacy.go:47` takes it not to change.

Further differences met while reading and modelling; each bullet says how to meet it.

Sessions and locks:

- If a handler's `closeStream` falls between the discard check and the lookup
  (`rpc_server.go:430` and `443`), a data packet is parsed as a new request and the
  error ends the session. `CloseWithError` inside a handler does it
  (`HandlerMay`); so does a sweep of `Terminate`, which makes `Serve` return a parse error.
- A function given to `Reader` that calls `Cancel` waits for `bs.mu`, whose holder may
  wait in `copyBody` for the `buf.mu` that `Reader` holds: both stop for good, and the serve
  loop is one of them. In `FrameBuffer` another goroutine cancels.
- The interface comment on `Cancel` (`stream2_source.go:29-30`) says that it sends
  an EndErr packet; it sends nothing.
- The write of the manifest request has no deadline (`rpc_manifest.go:67`), so on a
  transport that takes nothing `Handle` waits before the minute of `rpc_manifest.go:73` begins.

Ends:

- A sink that a done context or a failed write has closed sends no end, and answers none:
  the remote keeps the request until the session ends. `EndConverges` excludes it (`Mute`).
- The caller's sink of a source call has no stream bit (`rpc_client.go:137`), and so the end it
  answers with has none; `FlagsTellType` excludes it.
- A sink that is closed cleanly can still be written to and closed again, which sends another
  end: the assignment at `stream2_sink.go:132` is never reached. `Session`, `Backpressure` and
  `LegacyStream` let applications write after it, `LegacyStream` also lets them close again.
- `Err` turns `context.Canceled` into nil (`stream2_source.go:87`) while its
  comment says it returns an error when the context was cancelled; since `Terminate`
  cancels the context first, a handler may see a clean end, and a byte stream `io.EOF`,
  where `errors.go:18` promises `ErrSessionTerminated`.
- `srcReader` gives `Next` the context of the stream (`rwc.go:70`), and that case of the
  select does not look at the frames: `io.EOF` may come before the last chunks, though
  `stream2_source.go:98` says "don't return buffer before stream is empty". `BytesInOrder`
  and `EndIsRead` allow it.
- An async handler called as a stream, or returning a value that JSON cannot
  encode, never answers (`typemux/async.go:42`, beside its "TODO: check call
  type?"). `NoSilentCall` names these as the only such cases.

Buffers, types and names:

- `Bytes` or `Reader` without `Next` may return a torn frame without an error; and when
  no prefix follows, the skip of an unread rest is forgotten
  (`stream2_source.go:252-261`) and made again on the next frame. `FrameBuffer` asks `Next` before
  each `Reader`, as the callers in the library do, so a prefix always follows there.
- `Return` of a `[]byte` makes JSON of it (`request.go:158`), and `Async` with `TypeBinary`
  hands out that text.
- The gate compares a whole name (`rpc_server.go:234`), the muxes compare names cut at the
  elements of the method (`handler.go:59`). With a handler `a.b` of a plugin `a` and
  a handler `a.b.c.d` of a plugin `a.b.c`, the method `["a","b","c.d"]` passes the gate by the
  name of the second and is served by the first. `NamesApart` excludes such names.
- `highest` is an `int32` incremented without a check (`rpc_client.go:258`).

## What is not modelled

The numbering of requests: an id is its call, which is what distinct numbers give
as long as there are fewer than 2^31, and the sign flip of `NextHeader` with it. The JSON
of requests and the text of errors. In the adapters `WithType` (the Go type JSON is
decoded into) and `WithReq`, which only set options, and the packet builders of `stream.go`
that nothing calls. `withError` (`ctx.go`), which only its test calls. The limit on the
length of a body. Registering handlers, which happens before a session starts, and
`HandleConnect`, which starts goroutines. Not worth a model: logging and
debug wrappers (`debug/`, `codec/rpctrace`), commands (`cmd/`), the example, the
generated fakes and templates, the JavaScript used in interoperability tests.

## Plan

Done, in this order: `Stream`, `ByteSource`, its proofs, `Session`,
`Backpressure`, `Routing`, the first proofs about `Session`, `FrameBuffer` and `BufPool` with
their proofs, `LegacyStream`, `ByteStream`, the proofs about `Backpressure`, `ByteStream` and
`Routing`, those about the ends and the framing of `Session`, and those about `LegacyStream`, the
refinement from `FrameBuffer` to `Stream`. Next: a refinement from `Session` to an
abstract call, whose caller sees a prefix of what the handler wrote, then one end.
