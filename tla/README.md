# A model of Pure Reactive Protocol

TLA+ modules that model the protocol runtime of this repository, TLC
configurations that check them on small instances, and proofs, checked by TLAPS,
of what they state for every value of their constants. Source paths are relative
to the repository; "session.ts" alone is `src/core/session.ts`.

## Inventory

PRP/1 lets two peers exchange logical streams over one carrier. A stream has two
directions; items flow in each only within the demand its receiver has granted.

| Component | State | Operations | Meets |
|---|---|---|---|
| Native session, streams (session.ts 110-340, 518-965, 1139-1190, 1256-1325) | stream table, tombstones, id frontiers, counters and byte budgets, credits, reassembly, two levels of write queue, sequence numbers | open, request, send, complete, cancel, fail, close; one handler per frame | the lane, the application, the profiles |
| Lifecycle and negotiation (session.ts 418-516, 967-1076, 1122-1137; runtime.ts) | session state, offered and negotiated capabilities, extensions | attach, HELLO, WELCOME, handshake timeout, abort, extension attach and dispose | session, transports, extensions |
| Liveness (session.ts 1215-1254; liveness.ts) | time of the last inbound frame, probe timer | tick, PING, PONG, timeout | the session's write queue |
| Signals (session.ts 549-559, 1192-1213) | pending bytes, handler slots, queue | signal, handle, consume | read loop, acceptors |
| Datagrams (session.ts 561-579, 1058-1120; datagram.ts) | optional lane, queue, latest-wins sender | send, receive, lane loss | session, routing profile |
| Capabilities and limits (capabilities.ts, limits.ts) | none: functions of both peers' offers | negotiate, encode, decode | negotiation |
| Codecs (codec.ts, compact.ts, attributes.ts) | none | encode, decode, validate | session |
| Queues (async-queue.ts, transport/incoming.ts) | values, waiters, end; byte and frame bounds | push, next, end | every component that hands items over |
| Carriers (transport/, browser/, node/) | partial frames, sockets, windows | connect, write, close, chunk | session |
| RPC profile (profile/rpc) | calls, handlers | unary, server and client stream, duplex, cancel | streams |
| Datagram routing (profile/datagram-routing) | routes, correlation | send, receive | datagrams |
| RxJS adapter (rxjs) | demand window of one subscription | subscribe, pump, unsubscribe | streams, RPC |
| RSocket session (compatibility/rsocket-v1) | streams, wire ids, allowances, fragments, leases of memory, keepalive | the same stream interface over RSocket frames | carriers, profiles |
| Rust kernel (rust-kernel) | credit and sequence counters | not called by the runtime | nothing |

How they interact: the application calls stream and session operations at any
time; each operation changes the session's state at once and then waits for its
frame to be written. Frames are written one at a time (`writeTail`), and
`await lane.write` suspends, so the peer may already have answered when the code
after the await runs. The read loop handles one frame at a time and, to refuse a
stream or an item, waits for its own ERROR to be written behind everything that is
queued. Peers share nothing but the frames on the wire.

What is hard, in order of weight: state used after an await; two levels of write
queue (a stream's `writeTail` inside the session's); endings that cross (COMPLETE
with CANCEL, CLOSE with anything); late frames told from illegal ones by bounded
tombstones; rollback of an OPEN that fails; credit counted independently at both
ends and saturating; budgets whose decrements are clamped by `Math.max(0, ..)`, so
that a wrong one does not show. `PROJECT.json` lists each hazard at its line with
the properties that watch over it.

What makes the components correct:

- streams: items within demand, each exactly once, whole, in order, and all there on
  COMPLETE; no violation between two correct peers; endings reach the other side;
  table, counters, budgets, ids and sequences agree;
- lifecycle: one outcome per attach; `ready` does not outlast an ending; a
  peer is ready only with the capabilities it requires;
- liveness: a silent peer is detached, a peer that talks is not;
- signals and datagrams: budgets return to zero; loss of the optional lane never
  ends the session;
- codecs and framing: decoding inverts encoding, whatever the chunking;
- queues: an item handed in is handed out once, in order, unless the end discards it;
- RPC, routing, RxJS: one answer per call, demand never beyond what the consumer
  asked for, cancellation reaches the other side;
- RSocket: the properties of streams with RSocket's ids and allowances.

## Plan

Done: streams (`PrpSession`, its abstraction and proofs), then what a session needs to
come up and go down (`PrpLifecycle`, `Capabilities`), the second implementation of the
stream interface (`RSocketSession`), and the edges of both (`CarrierLane`, `RpcCall`,
`DatagramRouting`).

Proved: see "What is proved". Open: proofs of `QuietPeersAgree`, of `AssembliesExact`,
`CreditConserved` and `NoViolation` of `RSocketSession` and of `RpcKept`, which are
model-checked. `NoViolation` of `PrpSession` is no theorem of the specification as it
stands: the `tombstone` and `saturation` runs refute it once a retired id is evicted and
retired again, or a counter saturates. Only a theorem under the two hypotheses that neither
happens is possible, and it is open. Also left: session signals; a bounded wire with writes
that wait for it, for the two hazards that need one; the codecs against reference definitions.

## The modules

| Module | Content |
|---|---|
| `PrpSession` | two sessions after HELLO and WELCOME: state, one action per operation, frame handler or continuation, properties |
| `DemandFlow` | a direction of a stream as its users see it: demand asked, items started and published, how it ended |
| `PrpSessionFlow` | the refinement mapping from `PrpSession` to `DemandFlow` |
| `PrpLifecycle` | two sessions from attach to end: HELLO, WELCOME, extensions, probes, close, loss |
| `Capabilities` | negotiation as functions of two offers; used by `PrpLifecycle` |
| `RSocketSession` | two RSocket compatibility sessions; each direction against `DemandFlow` |
| `ReliableLane` | what a session expects of its lane |
| `CarrierLane` | the base lane of the six carriers, shown to implement `ReliableLane` |
| `RpcCall` | one RPC call, or one call of the RxJS adapter, with both sides |
| `DatagramRouting` | routed and raw datagrams over a lane that loses, repeats and reorders |
| `LaneLimits`, `RpcCalls`, `RouteTables` | the constants of the three modules above, with their assumptions |
| `MCPrpSession`, `MCPrpLifecycle`, `MCRSocketSession`, `MCEdges` | instances for the runs |
| `PrpSessionTableProofs` | every state has the right types, counters and budgets are exact, the table holds open streams, ids are never used again |
| `PrpSessionLaneProofs` | the lane carries an unbroken sequence, both ends count the same streams, every published item is whole and from one `send` |
| `PrpSessionCreditProofs` | credit is never overstated and never lost |
| `PrpSessionCompletionProofs` | COMPLETE means that every sent item has arrived |
| `PrpSessionFlowProofs` | `PrpSession` implements `DemandFlow`, step by step |
| `RSocketSessionProofs` | every state of `RSocketSession` has the right types, its table, counters, ids and writes agree |
| `PrpLifecycleProofs` | one round of negotiation is enough, two ready sessions agree, disposers are accounted for, an ended session is silent |
| `DatagramRoutingProofs` | datagrams stay on their routes, `sendLatest` keeps its word |

### PrpSession and the code

Variables are the fields of `ReactiveSessionImpl` (named in the comment of each)
for both peers; `stream` holds the `StreamState` objects, `live` the keys of the
`streams` map. A value of `jobs` is the chain behind `writeTail`: a job is one call
of `writeFrame` or `writeDataItem`. `stream[p][i].tail` is the stream's own
`writeTail`.

A write takes two steps: `WriteFrame` is `writeFrameNow` up to the await, with the
frame on the wire from then on; the `..Written` actions are the continuation after
the last await of a job (the id consumed by `openNext`, the direction closed by
`complete`, `finishClosed` after CLOSE, the read loop resumed). Between the two
everything else may happen. `jobs` keeps a job until it is done, `written` counts
the fragments of the first one.

The read loop is `Read`: one action per frame kind and outcome. `Illegal` collects
every condition that throws `ProtocolViolationError`; `Tolerated` the late frames
that are dropped. An action whose code awaits a rejection sets `parked`, and the loop
reads nothing until `EndingWritten` clears it.

`Over` is the synchronous part of `detach` and `finishClosed`. The continuations of
the writes and waits it rejects find their streams cancelled and the lane gone and
change nothing but `busy`, which `Over` clears.

`RollBackOpen` and `DropReason` are the catch branches after a frame that cannot be
encoded: OPEN is undone, an ending is queued again without its reason.
`Encodable` says whether the run lets that happen.

Abstractions. Payload bytes are units of one frame each; attributes are a weight;
sequences, ids and credit are bounded by constants in place of 2^64-1 and 2^32-1.
`iterator.next()` is `request(1)` followed by taking an item, `iterator.return()` is
`cancel()`: they are not actions of their own. Reading items from `incoming` changes
nothing the session sees. Acceptors look at a stream in `accepts()` without using
it. Both peers have the same limits, so a peer's `outboundLimits` and `remoteMax..`
fields are the constants. A failed allocation of a reassembly buffer (session.ts 917)
takes the path of an exhausted budget. PING, PONG, SIGNAL and datagrams share
nothing with streams but the write queue and the sequence numbers.

Definitions marked "Mutant", here and in the other modules, are mistakes the runs must
notice; they are part of no behaviour.

### PrpLifecycle and the code

`s[p]` is one session with a program counter for each of its activities: `attach` for
the awaits of `attach()`, `reader` for those of the read loop and the handlers it calls,
`timer` for the liveness timer, `jobs` and `writing` for the write queue, `disposing` for
the disposers of an ended session. Every await is a step boundary, so that `detach` may
come between any two. `physical` is what really is open, `held` what the session's fields
refer to: a connection that opens after `attach()` gave up is open and held by nobody
(`LateOpening` is the hook that closes it, session.ts 437 and 443-447).

`Detach` and `FinishClosed` are the code's, up to their first await. A write that ends
and the code that awaited it are one step; a break of the carrier is seen by the read
loop and by the writer separately. `HandshakeTimeout` may fire whenever `attach()` waits
for `ready`. Time is abstract: `Expire` fires only when no answer can come any more
(`Forsaken`), which is what a timeout longer than a round trip means.

Abstractions: session ids, handshake attributes and peer limits are valid; closing the
carrier discards what was not read; `close()` is not tried a second time with a shorter
reason (that is `DropReason` of `PrpSession`). What the model shows and no property
forbids: a session detached while its handler waits becomes `ready` for a moment
(990, 1011) until its liveness timer or a failing write detaches it again, which is why
`PeersEndTogether` is an eventuality; what an acceptor's own policy requires but its
carrier cannot offer is not checked again by the acceptor (1007 is the initiator's
check), so `ReadyPeersAgree` speaks of what it could offer.

### RSocketSession and the code

As in `PrpSession`, with RSocket's differences: a stream gets its wire id only when its
request is written (`StartRequest`, chained by `startTail`), is in `pendingLocalStreams`
until then, and is retired when both directions are closed. A request carries the
initial demand. `sends` are calls of `send()` in the order they were made, `sending` says
where the first of them waits. The reassembly budget counts fragments.

Two things the code does not guard against are excepted in the properties by `Excepted`
and nowhere else. `hasty`: `complete()` is not chained behind a `send()` that waits
(501-521 against 480-499), so an application that does not await its sends closes the
direction under them. `revived`: `cancel()` or `fail()` of a request that waits on
`startTail` (523-536) ends it locally, yet the request is written later and its responder
never learns that nobody is there. Further observations without a property: a unary
responder that completes without an item sends nothing, so its requester waits (the
exception of `QuietPeersAgree`); the responder of a notification keeps the stream until the
application completes it; an initiator detached while it writes SETUP becomes ready
(409-413) until keepalive ends it.

### CarrierLane, RpcCall, DatagramRouting and the code

`CarrierLane` has one variable for each stage between `write()` and the read loop: the
wire (frames, or units of a byte stream delivered in chunks of any size), the glue of the
carrier (the decoder with its partial prefix and frame, frames kept before `openLane()`, a
pump that waits in `pushWait`), the queue, and the promise of `next()`. `Decode` is the
loop of `LengthPrefixedFrameDecoder.push`. `LaneKept` has two exceptions, named in
`Excepted`: a MessagePort told of the other side's close discards frames it has received
but not handed over (message-port.ts 23-29), although transport/types.ts 43 calls the
lane "authoritative for draining protocol input"; and a WebSocket or MessagePort that
ended before `openLane()` gives out a queue that nobody will end (`glue.late`).

`RpcCall` has a pump and a reader at each side, over a stream with credit, an inbound
queue and two directions. A source is a generator that is pulled, or an Observable that
pushes into the bridge of rxjs/index.ts. `RpcEnds` excepts `Leaks`: when the request of a
unary call or notification cannot be encoded (index.ts 288, 313), the call rejects and
nothing cancels its stream. Not shown as errors: `fireAndForget` resolves even if the
stream was cancelled between `send` and `complete`; an Observable that fails with
`undefined` looks complete, since `stop` tells errors by their value (rxjs 39).

`DatagramRouting` numbers the calls of the client; the n-th sends the value n. `air` is
what the carrier accepted: anything in it may arrive any number of times, in any order,
or never. `latest[r]` is the `LatestEntry` of a route with the turn of `drainLatest` it is
in. The recursion of `drainLatest` (274-277) cannot be reached and has no action. The code
tells a routed datagram by the first four bytes of its content (116-119, 158-161), the model by a
tag: it takes for granted that no application sends a raw datagram that begins with these
bytes. `sendDatagram` (session.ts 561-579) does not refuse one, and the profile of the other side
would take it for its own (159: "the routing profile owns the packet"), so that a handler could be
given it, or it would be dropped, and `RoutesKept` would not hold.

## The runs

The first eight runs use `MCPrpSession`. Applications make the calls of the script whenever the
code accepts them, any number of times within `MaxAsked` (demand per direction),
`MaxItems` (sends per direction) and `MaxJobs` (writes queued when an application
calls). These three bound the state space; every other constant is a limit the
code has, set so low that it is reached.

| Run | Question | Bounds that matter |
|---|---|---|
| `stream` | does a stream deliver what it promises? | 1 stream, items of 1, 2 and 3 units with 2 allowed, 2 items, demand 2: both a fragmented and a refused item with demand left over |
| `table` | do table, counters, budgets, ids and sequences agree? | ids up to 3 (two streams of the initiator, one of the acceptor), one stream, pending stream, tombstone and attribute unit at a time; the sequence space runs out after three frames a peer |
| `fragments` | does reassembly stay right when items are broken off? | 2 streams with 3-unit items, budget 4: the source cancels a stream with an item under way, and the next item is refused before the CANCEL arrives |
| `overload` | what happens when demand exceeds a credit? | credit saturates at 2, demand up to 4, 3 items |
| `endings` | does every ending get through? (liveness) | 1 stream, unencodable reasons, a failing carrier, throwing acceptors |
| `tombstone` | is late DATA dropped after cancel()? | violated, see below |
| `saturation` | is every item within the demand accepted? | violated, see below |
| `detachment` | is a clean close ever reported as a loss? | violated, see below |
| `lifecycle` | do sessions come up agreed and go down together? | 6 pairs of runtimes, up to 2 events each out of those listed with the pair |
| `early` | are compatible runtimes ever refused? | violated, see below |
| `rsocket` | do RSocket streams keep the promise of native ones? | 10 pairs of applications, 1 or 2 streams, items of up to 3 fragments, 2 fragments reassembled at once, up to 2 events |
| `edges` | do lanes, calls and datagrams keep theirs? | 3 frames of 1 or 2 units behind a prefix of 2, a queue of 1 frame or 2 units, 1 early frame; 10 kinds of call, bridge of 1; 2 pairs of tables, 3 and 2 calls, queue of 1 |

The properties:

- `NoViolation`: two peers that run this code never detach each other for a
  violation, however calls, frames and endings cross. That is so within two bounds, which
  the `stream` and `fragments` runs keep: no credit saturates (`MaxAsked` is not above
  `MaxCredit`) and no tombstone is evicted (`MaxRetired` is 2, for two streams at most).
  Outside them it is false: see `saturation` and `tombstone` below.
- `CreditConserved`, and `CreditNotOverstated` where credit saturates: the receiver's
  count is the sender's plus grants and items underway.
- `CompleteMeansAll`: when the receiver sees the end it has every item whose `send`
  resolved. `ItemsIntact`: each published item is whole and from one `send`.
- `FlowKept`: every direction implements `DemandFlow`.
- `QuietPeersAgree`: when nothing is underway both peers hold the same streams in
  matching states.
- `CountsExact`, `BudgetsExact`, `TableIsOpen`: counters and budgets equal what the
  table holds, so no `Math.max(0, ..)` ever acts; the table holds only open streams.
- `SequenceUnbroken`, `FrontiersAgree`, `NoReuse`: sequence numbers and ids have no gap
  and no double use, also after a failed OPEN.
- `EndingsReachPeer`, `CompletedIsReleased`, `ReaderReturns`, `SessionsEndTogether`,
  `CloseSettles`: liveness of endings.
- `ReadyPeersAgree`: two ready sessions agree on every capability and version, with
  what their policies require. `DisposersAccounted`: an attached extension's disposer is
  in one place and runs once, also when the session ended meanwhile. `SilentOnceEnded`: an
  ended session puts nothing on the wire.
- `AttachSettles`, `PeersEndTogether`, `ConnectionReleased`: attach has an
  outcome if the carrier settles `connect`, `openLane` and the write of HELLO, no session is left behind when the other has ended or the carrier is silent,
  no connection outlives its session.
- for RSocket, besides the properties of the same names above: `AssembliesExact`, the
  budget is what the assemblies hold and each is the beginning of one item or the rest
  of one nobody wants; `EverythingEnds`, no session and no `send()` is left behind.
- `LaneKept`, `LaneSettles`: a lane implements `ReliableLane`, and the read loop is told
  when it ends. `RpcKept`, `RpcEnds`: a call never passes for complete when something is
  missing, and ends at both sides. `DatagramsKept`: see its three parts.

Streams are independent but for ids, tombstones, budgets and the write queue; two
of one peer and one of the other meet all of these. One item in flight, one queued
and one refused meet all transitions of a direction. With one tombstone and two
streams every eviction happens.

A configuration of `lifecycle` or `rsocket` is a pair of applications with one to two
events: enough for every handler to meet every other one's await, since an activity has
one await at a time and each event ends one. A queue of one frame or two units is full,
empty and full by bytes within three frames; with a prefix of two units a chunk can end
in it. Two calls of `sendLatest` replace one another, a third waits behind the write.
`MCEdges` puts three unconnected subjects into one run, each with the others at rest;
its state graph is the sum of theirs.

Fairness (`endings`): the continuation of a write, the read loop and the calls on a
stream's tail run when they can, since the event loop runs every ready promise and a
working carrier resolves its writes or fails. A carrier that may fail need not: the read loop
is fair only while there is a frame to read or the other session has ended (`Roused`).
`CloseDetached` is fair once `close()`
was called, being the rest of that call. Nothing is assumed of the applications:
they need not call anything. `lifecycle` and `rsocket` are weakly fair to `Passing` of
both peers: promises that can settle do, timers fire, queued frames are read. Aborts,
refusals, closes, breaks and silence (`Happening`) are not. `CarrierLane` and `RpcCall` are
fair to `Passing` likewise: a carrier delivers what it accepted or is lost, the calls of
generators and of the profile's own loops go on; in `CarrierLane` a session whose lane
was closed by the other one closes it too, as `detach` does. One weak fairness over all
is enough because no activity can repeat a step for ever within the bounds. Nothing is
assumed of datagrams.

`CHECK_DEADLOCK FALSE` everywhere: a system whose applications have made their calls
rests, and two ended sessions stay so.

### Where code and documents disagree

- `tombstone`: a stream is cancelled while its COMPLETE is being written. When that
  write resolves (session.ts 267-269) the stream is retired a second time, without
  leave for late DATA; if the first tombstone was evicted meanwhile the second one
  stands, and late DATA then detaches the session instead of being dropped.
- `saturation`: PROTOCOL.md section 6 lets a receiver grant `n` more items with
  every DEMAND. `addCredit` cuts sums off at 2^32-1 at both ends, at different
  moments; an item within the granted demand can be refused as a violation.
- `detachment`: PROTOCOL.md section 11 keeps attachment loss for carriers that
  vanish without CLOSE. `close()` closes the carrier as soon as its CLOSE is written,
  so a peer that is writing sees its write fail first and detaches.

- `early`: the read loop starts (session.ts 449) before the datagram lane is open (464)
  and the offer is known (487). A HELLO that waits already is negotiated against an
  empty offer (973), and the acceptor refuses with `CapabilityMismatchError` a peer that
  PROTOCOL.md section 8 calls compatible, for the sake of a lane that section 9 calls
  optional. Carriers without a datagram lane are not affected: there the code between
  449 and 487 has no await.

## What is proved

Assumptions: `BoundsAssumption` (limits are positive, the reassembly budget holds the
largest item, as `resolveProtocolLimits` guarantees) and `CallsAssumption` (the types of
the inputs). Nothing bounds them from above.

`TypeCorrect` (`PrpSessionTableProofs`): `Spec => []TypeOK`. `TypeOK` is not inductive: `Head`
of an empty queue has no type, so a frame taken from the queue needs a job. `TypeInv`
adds `WritesFirst`: while a write is pending, or a fragment written, there is a first
job, and only DATA has several frames. The credit of a stream stays in
`0..MaxCredit` because `HasCredit` and `Illegal` guard every decrement and `AddCredit`
cuts off every sum. The proof has one lemma for each operator that changes the
table, one for each action, and one for each of `Init` and `Next`.

`PrpSessionTableProofs` also proves what the table's counters and ids promise:

- `IdsAlwaysInOrder`: `Spec => []IdInv`. One OPEN at most waits in a write queue and it
  is for `nextStreamId` (`OneOpen`, the effect of `openTail`); ids in the table do not run
  ahead of `nextStreamId` and `highestRemoteStreamId`, which keep their parity
  (`IdsInOrder`).
- `IdsNeverReused`: `Spec => NoReuse`.
- `CountsAlwaysExact`: `Spec => []CountsExact`.
- `TableAlwaysOpen`: `Spec => []TableIsOpen`.
- `BudgetsAlwaysExact`: `Spec => []BudgetsExact`.

`CountsExact` is not inductive: when an id enters the table the counter goes up by one,
but the number of streams only if the id was not there. That it never is needs the
order of the ids, and for the ids opened here also that the OPEN of the last one is
done, since its id is in the table before `nextStreamId` moves past it. `StepKinds` sorts
the actions by what they do to the table: the twenty-odd that only let a stream go or
leave the table alone are one case (`Quietly`), the endings of a session one, and
`Open`, `OpenWritten`, `RollBackOpen` and the two outcomes of a remote OPEN one each.
Each theorem then has one lemma per kind.

`TableIsOpen` and `BudgetsExact` look at the streams themselves. `TableInv` says what a live
stream may look like (`StreamSound`: it is open, and reserves units only while it is in the
table with its inbound direction open; no call of it writes behind its own COMPLETE), what one that was never opened looks like (`Untouched`), and that no more than one
call of a stream is in the write queue (`OneCall`): without it, the continuation of a
COMPLETE could find that another one has closed the stream already. A budget is the sum
over the table of what each stream has reserved; the model counts it as the number of
pairs of a stream and a reserved unit, which a proof can reason about with the library's
theorems on cardinality alone. The proof finds each reservation with the stream that gives
it back, so that no `Math.max(0, ..)` of the code ever hides a wrong decrement.

`SequenceNeverBreaks` and `FrontiersAlwaysAgree` (`PrpSessionLaneProofs`): the frames on the
wire are numbered from the reader's next number to the writer's, with room left below the
largest number; an OPEN on the wire is for the next id of its reader, so that the writer's
frontier is the reader's plus the OPENs underway. Both rest on `LaneKinds`, which sorts
every step by what it does to the wire: seven kinds.

`ItemsAlwaysIntact` (`PrpSessionLaneProofs`): what is published is whole and from one
`send`. `ItemInv` adds to `TableInv` that the fragments between the two ends of a stream and
in its reassembly are the beginning, continued, of one item (`LaneIntact`, `Assembled`), that
the items of a direction are numbered in the order of their calls (`Increases`), and that a
job's fragments have the sizes of its item (`Sized`). `ItemKinds` shows that a step is calm
(no fragment moves) or is one of six that move one: a call of `send`, a fragment written,
the last one of its item, and three outcomes of reading one.

`CreditNeverOverstated` and `CreditAlwaysConserved` (`PrpSessionCreditProofs`): what a reader
still expects on a stream is never more than what may still reach it (`Due`: what its writer may
send, with the DEMAND and the items underway between them), and it is exactly that as long as no
sum of demand is cut off at the largest credit (`Unsaturated`; the second part of the
theorem gives the constants for which that is always so). Where a sum is cut off the two
are not equal and only this direction holds: with a credit of at most 2 and a demand of 2
and 2 more, the reader expects 2 while 4 are on their way to be granted. The two ends of a stream
learn of it, and of its end, at different times, so the invariant speaks of the ids both
peers may still use (`Joined`). There the reader's credit is at most what is due, and equal to it
while nothing was cut off (`Balance`); a peer expects no more than it asked for, and nothing
of a stream it has not opened or read of (`Covered`); and what is due was asked for, also
when one end has dropped the stream (`Ledger`). The
amounts are cardinalities of sets of pairs, again because a prover can reason about those.
`CreditKinds` shows that a step leaves the amounts of a stream alone, or lets the reader
go (`Passive`), or is one of four moves: demand asked, DEMAND read, an item sent, an item
read. An OPEN that is rolled back, or comes to a peer that refuses it, is the case where most
has to be known: that nothing else of that stream is anywhere.

`CompleteAlwaysMeansAll` (`PrpSessionCompletionProofs`): `Spec => []CompleteMeansAll`. The
property speaks of the moment after the last frame was read, so the invariant (`WayInv`) has to
say where the items are before: until a reader has COMPLETE, what the writer has sent is
what the reader has published, the item it is reassembling, and what is on the wire
(`Tallied`, as a sum of cardinalities); no item comes behind a COMPLETE on the lane, and a
writer that has written it has no call left in its two queues (`Finished`, `Shut`). The last
of these is where `complete()` could go wrong: it waits in the stream's `writeTail` behind
every `send`, but their frames and its own then share the session's queue with everything
else. Each step leaves the items of a direction alone at the writer's end and at the reader's
(`Outbound`, `Inbound`), or sends, takes or ends there; one lemma per action says which.

`DirectionsKeepFlow` (`PrpSessionFlowProofs`): `Spec => FlowKept`, where `FlowKept` is
`DemandFlow`'s specification of every direction of every stream under the mapping of
`PrpSessionFlow`. Initial states map to initial states, and a step of `PrpSession` maps, in
each direction, to asking, starting, delivering, completing or cutting, or to nothing. A
session that ends cuts all its directions in one step, which is why `DemandFlow` lets several
move at once. `FlowInv` is what the guards of `DemandFlow` need:

- an item is begun within the demand asked for: what a reader has, and what credit, DEMAND
  and items may still bring it, was asked for (`Paid`). The balance of
  `CreditAlwaysConserved` would say so of open streams without saturation; `Paid` also holds
  while `addCredit` cuts sums off and after one end has dropped the stream, since neither
  makes the amounts underway larger;
- nothing happens to a direction that has ended. In the model an id whose OPEN was rolled
  back gets a new record when it is used again, which would be a step back from "cut";
  `Unmet` says that no direction has ended on an id that was never given away. It
  rests on the other peer: it ends only streams whose OPEN it has read (`Endings`, `Known`),
  and a stream that is out of the table and has not ended has no demand (`Gone`).

`TypesKept` and `AlwaysSound` (`RSocketSessionProofs`): `Spec => []TypeOK` of
`RSocketSession`, by the invariant `SessionsSound`. That a stream of the table has its wire
id, that no credit falls below zero, that `startTail` still has its first call when its
request is written, each depends on how far another activity of the stream has come; `Sound`
says how they go together in one session, and `SessionsSound` that the frames between two
sessions name only streams of the run. A handler of this model is an operator from one session
record to another, so there is a lemma for each operator (`DetachSound`, `DropSound`,
`PopSound`, `ResumeSound`, ..); the many ways to end a stream share two of them, since
what they leave is `Quieter` or `Calmer` than what they found. The proof found two `CASE`
expressions with guards that overlapped (in `RSocketSession` and in `Decode` of
`CarrierLane`): TLC takes the first branch that fits, as the code does, but TLA+ leaves the
choice open, so the guards are disjoint now.

`DatagramsAlwaysKept` (`DatagramRoutingProofs`): `Spec => []DatagramsKept`, from
`RoutingAssumption` (tables are finite sets of positive numbers, the queue holds at least
one). `DatagramsKept` is not inductive: that a value reaches only its route needs that an
id in the air is the sender's id of that route, and that both ends count the same
routes, so that equal ids mean equal routes; that no caller is forgotten needs that the
values waiting at a route are later than those being written. `Inv` adds `CallsRouted`,
`EntriesInOrder` and `AirAddressed`, and there is one lemma per action.

`LifecycleTyped`, `NoDisposerLost` and `EndedIsSilent` (`PrpLifecycleProofs`): `TypeOK`,
`DisposersAccounted` and `SilentOnceEnded` of `PrpLifecycle`. The session is one record with
a program counter for each activity, so the invariant is stated of one record (`Orderly`: which counters
go together; `Sound`: where each disposer is), each operation is shown to lead from such a
record to another (`Becomes`), and an action only adds which peer's record it replaces.
A disposer is held, being run or was run, also when the session ends between
`attachExtension` and its result: that is what the awaits of session.ts 1030-1058 make hard.

`ReadyAgree` (`PrpLifecycleProofs`): `Spec => []ReadyPeersAgree`. The first offer of the
initiator settles everything: what the acceptor may agree to, what WELCOME then says, and
by `WelcomeAgrees` what the initiator makes of it. The invariant follows the offer from
HELLO on the wire to the acceptor's agreement (`Settled`), to WELCOME on the wire and to the
initiator's (`Confirmed`); every other step leaves offers and agreements alone (`GoesOn`).

`WelcomeAgrees` (`PrpLifecycleProofs`): for any two offers the acceptor can agree to, the
initiator that negotiates its own offer against the exact versions of WELCOME gets the
same function and no mismatch. It is why `handleWelcome` may negotiate again, with other
inputs than `handleHello`, and why `ReadyPeersAgree` holds for ranges of any size. What
it needs of the runtimes is `Constructible`: what the constructor and the base profile make
of any options.

Only model-checked: liveness, which is outside the prover's reach (the properties of the
`endings` run, `AttachSettles`, `PeersEndTogether`, `ConnectionReleased`, `EverythingEnds`,
`LaneSettles`, `RpcEnds`); `NoViolation` (within its two bounds) and `QuietPeersAgree` of `PrpSession`; what `RSocketSession`
promises beyond `TypeOK`; all of `CarrierLane` and `RpcCall`.

## Not modelled

The components of `PROJECT.json` with status `not_modelled`, and the parts named in the
notes of those that are `partly`. In short:

- session signals (session.ts 549-559, 1192-1213): a sender has no credit for them and
  the receiver detaches when its limits are exceeded; nothing documents a promise. The
  counters are clamped and reset by the endings while handlers still run (1206), which
  is harmless since they are read nowhere else;
- a wire with bounded buffers, and writes that never settle: HELLO written before the
  handshake timer starts (489), a probe that awaits its write (1239), and two read loops
  that wait for each other's buffers (1218) have no property for that reason;
- the codecs (codec.ts, compact.ts, attributes.ts, RSocket's codec, metadata and framing):
  functions on bytes;
- METADATA_PUSH and signals of RSocket, whose queue is unbounded; requests without route
  metadata;
- carrier selection, limits, errors, and the Rust kernel, which the runtime does not call.
