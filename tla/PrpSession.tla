------------------------------ MODULE PrpSession ------------------------------
(***************************************************************************)
(* Two native PRP/1 sessions (src/core/session.ts) that have negotiated     *)
(* and talk over one reliable ordered lane.                                *)
(*                                                                         *)
(* A peer's session owns a table of logical streams, a serial write queue  *)
(* (`writeTail`) and a read loop that handles one frame at a time.  A       *)
(* write is two steps, because `await lane.write(..)` suspends: the frame   *)
(* reaches the carrier when the write begins, and the code after the await  *)
(* runs when it resolves; the other peer may have answered in between.      *)
(*                                                                         *)
(* Abstracted: payload bytes (an item is a number of frame-sized units),    *)
(* attributes (a weight), encodings, PING/PONG, SIGNAL and datagrams.       *)
(* JavaScript continuations that run to completion before the next event    *)
(* of the loop are part of the step that triggers them.                     *)
(***************************************************************************)
EXTENDS Integers, Sequences, FiniteSets

(* A definition marked "Mutant" is a plausible mistake in the one that      *)
(* follows it and belongs to no behaviour of the code: README.md says which *)
(* property notices it.                                                     *)

CONSTANTS
  MaxStreamId,         \* MAX_U64 as the bound of the stream id space
  MaxSequence,         \* MAX_U64 as the bound of the sequence space
  MaxCredit,           \* 0xffffffff, where addCredit saturates
  MaxInboundStreams,   \* limits.maxInboundStreams, the same at both peers
  MaxPendingIncoming,  \* limits.maxPendingIncomingStreams
  MaxRetired,          \* limits.maxRetiredStreams
  MaxItemUnits,        \* limits.maxInboundItemBytes
  MaxReassembly,       \* limits.maxInFlightReassemblyBytes
  MaxAttributeWeight,  \* limits.maxRetainedStreamAttributeBytes
  \* What the applications and the carrier do:
  Script,              \* the calls each application makes: <<peer, call>>
  Weights,             \* attribute weights of OPENs
  Acceptances,         \* what handleOpen finds: "handler", "none", "throws"
  Demands,             \* counts passed to stream.request()
  ItemSizes,           \* sizes passed to stream.send()
  Encodable,           \* can an OPEN, or a reason text, be encoded?
  Lossy,               \* may the carrier fail by itself?
  MaxAsked,            \* bound: demand requested per stream and direction
  MaxItems,            \* bound: send() calls per stream and direction
  MaxJobs              \* bound: queued writes when the application calls

Peer == {"initiator", "acceptor"}
Other(p) == IF p = "initiator" THEN "acceptor" ELSE "initiator"
StreamId == 1..MaxStreamId
Own(p) == {i \in StreamId : i % 2 = IF p = "initiator" THEN 1 ELSE 0}

ASSUME BoundsAssumption ==
  /\ {MaxStreamId, MaxSequence, MaxCredit, MaxInboundStreams,
      MaxPendingIncoming, MaxRetired, MaxItemUnits, MaxReassembly, MaxJobs}
       \subseteq Nat \ {0}
  /\ {MaxAttributeWeight, MaxAsked, MaxItems} \subseteq Nat
  /\ MaxItemUnits <= MaxReassembly
ASSUME CallsAssumption ==
  /\ Script \subseteq Peer \X {"open", "request", "send", "complete", "cancel",
                               "fail", "close"}
  /\ Weights \subseteq Nat
  /\ Acceptances \subseteq {"handler", "none", "throws"}
  /\ Demands \subseteq 1..MaxCredit
  /\ ItemSizes \subseteq Nat \ {0}
  /\ Encodable \subseteq BOOLEAN
  /\ Lossy \in BOOLEAN

VARIABLES
  session,       \* sessionState of each peer
  fault,         \* why a peer detached
  stream,        \* the StreamState objects, by id
  live,          \* keys of the `streams` map
  retired,       \* tombstones, oldest first
  nextId,        \* nextStreamId
  highestRemote, \* highestRemoteStreamId
  localActive,   \* localActiveStreams
  remoteActive,  \* remoteActiveStreams
  retained,      \* retainedStreamAttributeBytes
  reassembling,  \* inFlightReassemblyBytes
  pending,       \* incomingStreams: accepted ids the application has not taken
  opening,       \* is openTail occupied?
  closing,       \* has the application called close()?
  jobs,          \* writeTail: the writes queued on the session
  written,       \* frames of the first job already written
  flying,        \* is lane.write pending?
  outSeq,        \* outgoingSequence
  inSeq,         \* expectedIncomingSequence
  parked,        \* does the read loop await a write of its own?
  wire           \* frames a peer has written and the other has not read

tableVars == <<stream, live, retired, localActive, remoteActive, retained,
               reassembling>>
idVars == <<nextId, highestRemote, opening, pending>>
writerVars == <<jobs, written, flying, outSeq>>
readerVars == <<inSeq, parked, wire>>
stateVars == <<session, fault, closing>>
vars == <<tableVars, idVars, writerVars, readerVars, stateVars>>

-----------------------------------------------------------------------------
(* Data                                                                    *)

\* One unit of payload: the item it belongs to, its place, the item's length.
Unit == [item : Nat, part : Nat, of : Nat]
\* A call waiting on the stream's own writeTail.
Op == [kind : {"send", "complete"}, item : Nat, size : Nat]

Stream ==
  [handle : BOOLEAN,         \* does the application hold the stream?
   weight : Nat,             \* retainedAttributeBytes
   inCredit : 0..MaxCredit, outCredit : 0..MaxCredit,
   inClosed : BOOLEAN, outClosed : BOOLEAN, cancelled : BOOLEAN,
   tail : Seq(Op),           \* calls waiting on the stream's writeTail
   busy : BOOLEAN,           \* is a call of the stream writing?
   expected : Nat,           \* reassembly.data.byteLength, 0 without one
   partial : Seq(Unit),      \* reassembly.data up to reassembly.offset
   got : Seq(Seq(Unit)),     \* every item pushed into `incoming`
   asked : Nat,              \* demand the application has requested
   calls : Nat,              \* send() calls so far
   sent : Nat]               \* send() calls that resolved

NewStream(w) ==
  [handle |-> FALSE, weight |-> w, inCredit |-> 0, outCredit |-> 0,
   inClosed |-> FALSE, outClosed |-> FALSE, cancelled |-> FALSE,
   tail |-> <<>>, busy |-> FALSE, expected |-> 0, partial |-> <<>>,
   got |-> <<>>, asked |-> 0, calls |-> 0, sent |-> 0]

JobKind == {"OPEN", "DEMAND", "DATA", "COMPLETE", "CANCEL", "ERROR", "CLOSE"}
\* A write queued on the session.  `amount` is the weight of an OPEN and the
\* credit of a DEMAND; `fits` says whether the frame can be encoded within
\* the negotiated limits; `reader` marks a write the read loop awaits.
JobOf(kinds, ids) == [kind : kinds, id : ids, amount : Nat, item : Nat,
                      size : Nat, fits : BOOLEAN, reader : BOOLEAN]
Job == JobOf(JobKind \ {"CLOSE"}, StreamId) \cup JobOf({"CLOSE"}, {0})
Plain(kind, i) == [kind |-> kind, id |-> i, amount |-> 0, item |-> 0,
                   size |-> 1, fits |-> TRUE, reader |-> FALSE]

FrameOf(kinds, ids) == [kind : kinds, id : ids, seq : Nat, amount : Nat,
                        item : Nat, size : Nat, part : Nat]
Frame == FrameOf((JobKind \cup {"FRAGMENT"}) \ {"CLOSE"}, StreamId)
         \cup FrameOf({"CLOSE"}, {0})

\* Mutant: the credit window grows past what a DEMAND can carry.
AddCreditUnbounded(current, amount) == current + amount
AddCredit(current, amount) ==
  IF current + amount > MaxCredit THEN MaxCredit ELSE current + amount
\* Math.max(0, a - b)
Less(a, b) == IF b \in 0..a THEN a - b ELSE 0

\* The sum of one field over some streams, jobs or frames: the number of pairs
\* of one of them and one of the units it has.
Total(s, field, ids) == Cardinality(UNION {{i} \X (1..s[i][field]) : i \in ids})

Ready(p) == session[p] = "ready"
\* ReactiveStreamImpl.closed
IsClosed(s) == s.cancelled \/ (s.inClosed /\ s.outClosed)
IsPast(p, i) == IF i \in Own(p) THEN i < nextId[p] ELSE i <= highestRemote[p]

-----------------------------------------------------------------------------
(* The stream table                                                        *)

Tombstones(q, i) == {k \in DOMAIN q : q[k].id = i}
\* retire: the first tombstone of an id stands, the oldest makes room.
Retire(q, i, late) ==
  IF Tombstones(q, i) # {} THEN q
  ELSE LET longer == Append(q, [id |-> i, late |-> late])
       IN IF Len(longer) > MaxRetired THEN Tail(longer) ELSE longer

\* streams.set and the counters that go with it.
Enter(p, i) ==
  /\ live' = [live EXCEPT ![p] = @ \cup {i}]
  /\ retained' = [retained EXCEPT ![p] = @ + stream'[p][i].weight]
  /\ IF i \in Own(p)
     THEN /\ localActive' = [localActive EXCEPT ![p] = @ + 1]
          /\ UNCHANGED remoteActive
     ELSE /\ remoteActive' = [remoteActive EXCEPT ![p] = @ + 1]
          /\ UNCHANGED localActive

\* `if (streams.delete(id))` and the counters that go with it.
Leave(p, i) ==
  IF i \notin live[p] THEN UNCHANGED <<live, retained, localActive, remoteActive>>
  ELSE /\ live' = [live EXCEPT ![p] = @ \ {i}]
       /\ retained' = [retained EXCEPT ![p] = Less(@, stream[p][i].weight)]
       /\ IF i \in Own(p)
          THEN /\ localActive' = [localActive EXCEPT ![p] = Less(@, 1)]
               /\ UNCHANGED remoteActive
          ELSE /\ remoteActive' = [remoteActive EXCEPT ![p] = Less(@, 1)]
               /\ UNCHANGED localActive

\* What cancelStream does to the stream itself.  Waiting calls are rejected,
\* a call that is writing ends with its job.
Cancelled(s) ==
  [s EXCEPT !.cancelled = TRUE, !.inClosed = TRUE, !.outClosed = TRUE,
            !.expected = 0, !.partial = <<>>, !.tail = <<>>]

\* Mutant: the bytes reserved for an incomplete item stay reserved.
CancelStreamOnly(p, i, s, late) ==
  /\ stream' = [stream EXCEPT ![p][i] = Cancelled(s)]
  /\ Leave(p, i)
  /\ retired' = [retired EXCEPT ![p] = Retire(@, i, late)]
  /\ UNCHANGED reassembling
\* cancelStream for a stream that is not cancelled yet; s is its state.
CancelStream(p, i, s, late) ==
  /\ stream' = [stream EXCEPT ![p][i] = Cancelled(s)]
  /\ reassembling' = [reassembling EXCEPT ![p] = Less(@, s.expected)]
  /\ Leave(p, i)
  /\ retired' = [retired EXCEPT ![p] = Retire(@, i, late)]

\* The stream's state becomes s, and releaseStream runs.
Release(p, i, s) ==
  /\ stream' = [stream EXCEPT ![p][i] = s]
  /\ UNCHANGED reassembling
  /\ IF IsClosed(s)
     THEN /\ Leave(p, i)
          /\ retired' = [retired EXCEPT ![p] = Retire(@, i, FALSE)]
     ELSE UNCHANGED <<live, retained, localActive, remoteActive, retired>>

\* The stream's state becomes s, the table stays.
Update(p, i, s) ==
  /\ stream' = [stream EXCEPT ![p][i] = s]
  /\ UNCHANGED <<live, retired, localActive, remoteActive, retained, reassembling>>

\* detach and finishClosed: every live stream is cancelled, queues are
\* discarded.  The queued writes fail without a lane, and their continuations
\* find the streams already cancelled.  Tombstones no longer matter: no frame
\* is handled outside "ready".
Over(p, state, why) ==
  /\ session' = [session EXCEPT ![p] = state]
  /\ fault' = [fault EXCEPT ![p] = why]
  /\ stream' = [stream EXCEPT ![p] =
       [i \in StreamId |-> IF i \in live[p]
                           THEN [Cancelled(@[i]) EXCEPT !.busy = FALSE]
                           ELSE [@[i] EXCEPT !.busy = FALSE]]]
  /\ live' = [live EXCEPT ![p] = {}]
  /\ localActive' = [localActive EXCEPT ![p] =
                       Less(@, Cardinality(live[p] \cap Own(p)))]
  /\ remoteActive' = [remoteActive EXCEPT ![p] =
                       Less(@, Cardinality(live[p] \ Own(p)))]
  /\ retained' = [retained EXCEPT ![p] = Less(@, Total(stream[p], "weight", live[p]))]
  /\ reassembling' = [reassembling EXCEPT ![p] = Less(@, Total(stream[p], "expected", live[p]))]
  /\ pending' = [pending EXCEPT ![p] = <<>>]
  /\ opening' = [opening EXCEPT ![p] = FALSE]
  /\ jobs' = [jobs EXCEPT ![p] = <<>>]
  /\ written' = [written EXCEPT ![p] = 0]
  /\ flying' = [flying EXCEPT ![p] = FALSE]
  /\ parked' = [parked EXCEPT ![p] = FALSE]
  /\ UNCHANGED retired

Queue(p, job) == jobs' = [jobs EXCEPT ![p] = Append(@, job)]

-----------------------------------------------------------------------------
(* What the application calls                                              *)

\* A call finds the session ready and, for a stream, a handle on it.
Calls(p, call) == <<p, call>> \in Script /\ Ready(p) /\ Len(jobs[p]) < MaxJobs
Holds(p, i, call) == Calls(p, call) /\ stream[p][i].handle

\* open: openNext up to its first await.  openTail runs one at a time.
Open(p) ==
  /\ Calls(p, "open") /\ ~opening[p]
  /\ nextId[p] \in StreamId
  /\ localActive[p] < MaxInboundStreams
  /\ LET i == nextId[p] IN
     \E w \in Weights, fits \in Encodable :
       /\ retained[p] + w <= MaxAttributeWeight
       /\ stream' = [stream EXCEPT ![p][i] = NewStream(w)]
       /\ Enter(p, i)
       /\ Queue(p, [Plain("OPEN", i) EXCEPT !.amount = w, !.fits = fits])
  /\ opening' = [opening EXCEPT ![p] = TRUE]
  /\ UNCHANGED <<retired, reassembling, nextId, highestRemote, pending, written,
                 flying, outSeq, readerVars, stateVars>>

\* stream.request(n)
Request(p, i, n) ==
  LET s == stream[p][i] IN
  /\ Holds(p, i, "request") /\ ~s.cancelled /\ ~s.inClosed
  /\ s.asked + n <= MaxAsked
  /\ Update(p, i, [s EXCEPT !.inCredit = AddCredit(@, n), !.asked = @ + n])
  /\ Queue(p, [Plain("DEMAND", i) EXCEPT !.amount = n])
  /\ UNCHANGED <<idVars, written, flying, outSeq, readerVars, stateVars>>

\* stream.send(item): the call joins the stream's writeTail.
Send(p, i, size) ==
  LET s == stream[p][i] IN
  /\ Holds(p, i, "send") /\ ~s.cancelled /\ ~s.outClosed
  /\ s.calls < MaxItems
  /\ Update(p, i, [s EXCEPT !.calls = @ + 1,
       !.tail = Append(@, [kind |-> "send", item |-> s.calls + 1, size |-> size])])
  /\ UNCHANGED <<idVars, writerVars, readerVars, stateVars>>

Writing(p, i, kind) ==
  \E k \in DOMAIN jobs[p] : jobs[p][k].kind = kind /\ jobs[p][k].id = i

\* stream.complete(); bound: one call at a time, a second one only finds the
\* direction closed when its turn comes.
Complete(p, i) ==
  LET s == stream[p][i] IN
  /\ Holds(p, i, "complete")
  /\ ~s.outClosed /\ ~s.cancelled
  /\ \A k \in DOMAIN s.tail : s.tail[k].kind # "complete"
  /\ ~Writing(p, i, "COMPLETE")
  /\ Update(p, i, [s EXCEPT
       !.tail = Append(@, [kind |-> "complete", item |-> 0, size |-> 1])])
  /\ UNCHANGED <<idVars, writerVars, readerVars, stateVars>>

\* stream.cancel() and stream.fail(): the stream dies at once, the peer
\* learns of it when the frame is written.
End(p, i, call, kind) ==
  LET s == stream[p][i] IN
  /\ Holds(p, i, call) /\ ~IsClosed(s)
  /\ CancelStream(p, i, s, TRUE)
  /\ \E fits \in Encodable : Queue(p, [Plain(kind, i) EXCEPT !.fits = fits])
  /\ UNCHANGED <<idVars, written, flying, outSeq, readerVars, stateVars>>
Cancel(p, i) == End(p, i, "cancel", "CANCEL")
Fail(p, i) == End(p, i, "fail", "ERROR")

\* The next stream of the session's async iterator.
TakeIncoming(p) ==
  /\ Ready(p) /\ pending[p] # <<>>
  /\ LET i == Head(pending[p])
     IN Update(p, i, [stream[p][i] EXCEPT !.handle = TRUE])
  /\ pending' = [pending EXCEPT ![p] = Tail(@)]
  /\ UNCHANGED <<nextId, highestRemote, opening, writerVars, readerVars, stateVars>>

\* session.close() while ready: CLOSE joins the write queue.
Close(p) ==
  /\ Calls(p, "close") /\ ~closing[p]
  /\ closing' = [closing EXCEPT ![p] = TRUE]
  /\ \E fits \in Encodable : Queue(p, [Plain("CLOSE", 0) EXCEPT !.fits = fits])
  /\ UNCHANGED <<tableVars, idVars, written, flying, outSeq, readerVars,
                 session, fault>>

\* Mutant: a close() whose CLOSE could not be written is forgotten.
CloseDetachedAnew(p) ==
  /\ session[p] = "detached" /\ ~closing[p] /\ <<p, "close">> \in Script
  /\ session' = [session EXCEPT ![p] = "closed"]
  /\ closing' = [closing EXCEPT ![p] = TRUE]
  /\ UNCHANGED <<tableVars, idVars, writerVars, readerVars, fault>>
\* close() on a session that has detached, or that detached while CLOSE
\* was queued: finishClosed has nothing left to end.
CloseDetached(p) ==
  /\ session[p] = "detached" /\ (closing[p] \/ <<p, "close">> \in Script)
  /\ session' = [session EXCEPT ![p] = "closed"]
  /\ closing' = [closing EXCEPT ![p] = TRUE]
  /\ UNCHANGED <<tableVars, idVars, writerVars, readerVars, fault>>

-----------------------------------------------------------------------------
(* A stream's writeTail                                                    *)

Waiting(p, i, kind) ==
  LET s == stream[p][i] IN
  /\ Ready(p) /\ s.tail # <<>> /\ ~s.busy /\ Head(s.tail).kind = kind
  /\ ~s.cancelled /\ ~s.outClosed

\* Mutant: a woken call does not look at the credit again.
Woken(s) == TRUE
HasCredit(s) == s.outCredit > 0
\* A send that has credit takes one unit and queues its DATA job.
SendNext(p, i) ==
  LET s == stream[p][i] IN
  /\ Waiting(p, i, "send") /\ HasCredit(s)
  /\ Head(s.tail).size <= MaxItemUnits
  /\ Update(p, i, [s EXCEPT !.outCredit = @ - 1, !.tail = Tail(@),
                       !.busy = TRUE])
  /\ Queue(p, [Plain("DATA", i) EXCEPT !.item = Head(s.tail).item,
                                       !.size = Head(s.tail).size])
  /\ UNCHANGED <<idVars, written, flying, outSeq, readerVars, stateVars>>

\* Mutant: the credit of a refused item is lost.
NoRefund(s) == s.outCredit - 1
Refund(s) == AddCredit(s.outCredit - 1, 1)
\* An item above the peer's limit is refused before anything is written,
\* and its credit goes back.
SendTooLarge(p, i) ==
  LET s == stream[p][i] IN
  /\ Waiting(p, i, "send") /\ HasCredit(s)
  /\ Head(s.tail).size > MaxItemUnits
  /\ Update(p, i, [s EXCEPT !.outCredit = Refund(s), !.tail = Tail(@)])
  /\ UNCHANGED <<idVars, writerVars, readerVars, stateVars>>

CompleteNext(p, i) ==
  /\ Waiting(p, i, "complete")
  /\ Update(p, i, [stream[p][i] EXCEPT !.tail = Tail(@), !.busy = TRUE])
  /\ Queue(p, Plain("COMPLETE", i))
  /\ UNCHANGED <<idVars, written, flying, outSeq, readerVars, stateVars>>

StreamTail(p, i) == SendNext(p, i) \/ SendTooLarge(p, i) \/ CompleteNext(p, i)

-----------------------------------------------------------------------------
(* The session's write queue                                               *)

FrameCount(job) == IF job.kind = "DATA" THEN job.size ELSE 1
HasReason(job) == job.kind \in {"CANCEL", "ERROR", "CLOSE"}
\* The first job may start its next frame.
CanWrite(p) == Ready(p) /\ jobs[p] # <<>> /\ ~flying[p]
\* No sequence is left for the whole job; asked once, before its first frame.
Exhausted(p) ==
  written[p] = 0 /\ outSeq[p] + FrameCount(Head(jobs[p])) - 1 > MaxSequence
\* DATA is not written, or not written further, once its stream has ended.
Abandoned(p) ==
  LET j == Head(jobs[p])
  IN j.kind = "DATA" /\ (stream[p][j.id].cancelled \/ stream[p][j.id].outClosed)

\* SEQUENCE_EXHAUSTED ends the attachment.
Exhaust(p) ==
  /\ CanWrite(p) /\ Exhausted(p)
  /\ Over(p, "detached", "exhausted")
  /\ UNCHANGED <<nextId, highestRemote, outSeq, inSeq, wire, closing>>

\* The send() whose stream ended rejects and frees the stream's tail.
Abandon(p) ==
  /\ CanWrite(p) /\ ~Exhausted(p) /\ Abandoned(p)
  /\ LET i == Head(jobs[p]).id
     IN Update(p, i, [stream[p][i] EXCEPT !.busy = FALSE])
  /\ jobs' = [jobs EXCEPT ![p] = Tail(@)]
  /\ written' = [written EXCEPT ![p] = 0]
  /\ UNCHANGED <<idVars, flying, outSeq, readerVars, stateVars>>

\* Mutant: the rollback forgets the counters.
RollBackTableOnly(p) ==
  LET j == Head(jobs[p]) IN
  /\ CanWrite(p) /\ ~Exhausted(p) /\ j.kind = "OPEN" /\ ~j.fits
  /\ live' = [live EXCEPT ![p] = @ \ {j.id}]
  /\ opening' = [opening EXCEPT ![p] = FALSE]
  /\ jobs' = [jobs EXCEPT ![p] = Tail(@)]
  /\ UNCHANGED <<stream, retired, reassembling, localActive, remoteActive, retained,
                 nextId, highestRemote, pending, written, flying, outSeq,
                 readerVars, stateVars>>
\* Mutant: the id and the sequence are taken before the OPEN is encoded.
RollBackTooLate(p) ==
  LET j == Head(jobs[p]) IN
  /\ CanWrite(p) /\ ~Exhausted(p) /\ j.kind = "OPEN" /\ ~j.fits
  /\ Leave(p, j.id)
  /\ nextId' = [nextId EXCEPT ![p] = @ + 2]
  /\ opening' = [opening EXCEPT ![p] = FALSE]
  /\ jobs' = [jobs EXCEPT ![p] = Tail(@)]
  /\ outSeq' = [outSeq EXCEPT ![p] = @ + 1]
  /\ UNCHANGED <<stream, retired, reassembling, highestRemote, pending, written,
                 flying, readerVars, stateVars>>
\* Mutant: the rollback takes back an id that was never given out.
RollBackTwice(p) ==
  LET j == Head(jobs[p]) IN
  /\ CanWrite(p) /\ ~Exhausted(p) /\ j.kind = "OPEN" /\ ~j.fits
  /\ Leave(p, j.id)
  /\ nextId' = [nextId EXCEPT ![p] = @ - 2]
  /\ opening' = [opening EXCEPT ![p] = FALSE]
  /\ jobs' = [jobs EXCEPT ![p] = Tail(@)]
  /\ UNCHANGED <<stream, retired, reassembling, highestRemote, pending, written,
                 flying, outSeq, readerVars, stateVars>>
\* An OPEN that cannot be encoded is rolled back and takes no id.
RollBackOpen(p) ==
  LET j == Head(jobs[p]) IN
  /\ CanWrite(p) /\ ~Exhausted(p) /\ j.kind = "OPEN" /\ ~j.fits
  /\ Leave(p, j.id)
  /\ opening' = [opening EXCEPT ![p] = FALSE]
  /\ jobs' = [jobs EXCEPT ![p] = Tail(@)]
  /\ UNCHANGED <<stream, retired, reassembling, nextId, highestRemote, pending,
                 written, flying, outSeq, readerVars, stateVars>>

\* Mutant: the frame is left out with its reason.
DropEnding(p) ==
  LET j == Head(jobs[p]) IN
  /\ CanWrite(p) /\ ~Exhausted(p) /\ HasReason(j) /\ ~j.fits
  /\ jobs' = [jobs EXCEPT ![p] = Tail(@)]
  /\ UNCHANGED <<tableVars, idVars, written, flying, outSeq, readerVars, stateVars>>
\* A reason text that does not fit is left out: the same frame without it
\* joins the end of the queue.
DropReason(p) ==
  LET j == Head(jobs[p]) IN
  /\ CanWrite(p) /\ ~Exhausted(p) /\ HasReason(j) /\ ~j.fits
  /\ jobs' = [jobs EXCEPT ![p] = Append(Tail(@), [j EXCEPT !.fits = TRUE])]
  /\ UNCHANGED <<tableVars, idVars, written, flying, outSeq, readerVars, stateVars>>

\* writeFrameNow hands the next frame of the job to the lane.
WriteFrame(p) ==
  LET j == Head(jobs[p]) IN
  /\ CanWrite(p) /\ ~Exhausted(p) /\ ~Abandoned(p) /\ j.fits
  /\ wire' = [wire EXCEPT ![p] = Append(@,
       [kind |-> IF written[p] > 0 THEN "FRAGMENT" ELSE j.kind, id |-> j.id,
        seq |-> outSeq[p], amount |-> j.amount, item |-> j.item,
        size |-> j.size, part |-> written[p] + 1])]
  /\ flying' = [flying EXCEPT ![p] = TRUE]
  /\ UNCHANGED <<tableVars, idVars, jobs, written, outSeq, inSeq, parked, stateVars>>

\* lane.write resolves and the job has more fragments.
FragmentWritten(p) ==
  /\ Ready(p) /\ flying[p] /\ written[p] + 1 < FrameCount(Head(jobs[p]))
  /\ flying' = [flying EXCEPT ![p] = FALSE]
  /\ outSeq' = [outSeq EXCEPT ![p] = @ + 1]
  /\ written' = [written EXCEPT ![p] = @ + 1]
  /\ UNCHANGED <<tableVars, idVars, jobs, readerVars, stateVars>>

\* lane.write resolves for the last frame of a job of one of these kinds.
JobWritten(p, kinds) ==
  /\ Ready(p) /\ flying[p] /\ Head(jobs[p]).kind \in kinds
  /\ written[p] + 1 = FrameCount(Head(jobs[p]))
JobDone(p) ==
  /\ flying' = [flying EXCEPT ![p] = FALSE]
  /\ outSeq' = [outSeq EXCEPT ![p] = @ + 1]
  /\ written' = [written EXCEPT ![p] = 0]
  /\ jobs' = [jobs EXCEPT ![p] = Tail(@)]

\* open() resolves with the stream, and only now is the id consumed.
OpenWritten(p) ==
  /\ JobWritten(p, {"OPEN"}) /\ JobDone(p)
  /\ LET i == Head(jobs[p]).id
     IN Update(p, i, [stream[p][i] EXCEPT !.handle = TRUE])
  /\ nextId' = [nextId EXCEPT ![p] = @ + 2]
  /\ opening' = [opening EXCEPT ![p] = FALSE]
  /\ UNCHANGED <<highestRemote, pending, readerVars, stateVars>>

DemandWritten(p) ==
  /\ JobWritten(p, {"DEMAND"}) /\ JobDone(p)
  /\ UNCHANGED <<tableVars, idVars, readerVars, stateVars>>

\* send() resolves and the stream's next call may run.
DataWritten(p) ==
  /\ JobWritten(p, {"DATA"}) /\ JobDone(p)
  /\ LET i == Head(jobs[p]).id
     IN Update(p, i, [stream[p][i] EXCEPT !.busy = FALSE, !.sent = @ + 1])
  /\ UNCHANGED <<idVars, readerVars, stateVars>>

\* Mutant: a stream whose other direction had closed before is not released.
CompleteWrittenOnly(p) ==
  /\ JobWritten(p, {"COMPLETE"}) /\ JobDone(p)
  /\ LET i == Head(jobs[p]).id
     IN Update(p, i, [stream[p][i] EXCEPT !.outClosed = TRUE, !.tail = <<>>,
                                          !.busy = FALSE])
  /\ UNCHANGED <<idVars, readerVars, stateVars>>
\* The outbound direction closes only when COMPLETE has been written; calls
\* that waited behind it are rejected.
CompleteWritten(p) ==
  /\ JobWritten(p, {"COMPLETE"}) /\ JobDone(p)
  /\ LET i == Head(jobs[p]).id
     IN Release(p, i, [stream[p][i] EXCEPT !.outClosed = TRUE, !.tail = <<>>,
                                           !.busy = FALSE])
  /\ UNCHANGED <<idVars, readerVars, stateVars>>

\* The read loop goes on after a rejection it was writing.
EndingWritten(p) ==
  /\ JobWritten(p, {"CANCEL", "ERROR"}) /\ JobDone(p)
  /\ parked' = [parked EXCEPT ![p] = @ /\ ~Head(jobs[p]).reader]
  /\ UNCHANGED <<tableVars, idVars, inSeq, wire, stateVars>>

\* close() goes on with finishClosed.
CloseWritten(p) ==
  /\ JobWritten(p, {"CLOSE"})
  /\ Over(p, "closed", fault[p])
  /\ outSeq' = [outSeq EXCEPT ![p] = @ + 1]
  /\ UNCHANGED <<nextId, highestRemote, inSeq, wire, closing>>

Write(p) ==
  \/ Exhaust(p) \/ Abandon(p) \/ RollBackOpen(p) \/ DropReason(p)
  \/ WriteFrame(p) \/ FragmentWritten(p)
  \/ OpenWritten(p) \/ DemandWritten(p) \/ DataWritten(p)
  \/ CompleteWritten(p) \/ EndingWritten(p) \/ CloseWritten(p)

\* lane.write rejects: the carrier fails, or the other peer has closed it.
LaneFails(p) ==
  /\ Ready(p) /\ flying[p]
  /\ Lossy \/ ~Ready(Other(p))
  /\ Over(p, "detached", "lost")
  /\ UNCHANGED <<nextId, highestRemote, outSeq, inSeq, wire, closing>>
-----------------------------------------------------------------------------
(* The read loop                                                           *)

Incoming(p) == Head(wire[Other(p)])
\* A frame has arrived and the previous one has been handled.
CanRead(p) == Ready(p) /\ ~parked[p] /\ wire[Other(p)] # <<>>
Consume(p) ==
  /\ wire' = [wire EXCEPT ![Other(p)] = Tail(@)]
  /\ inSeq' = [inSeq EXCEPT ![p] = @ + 1]

ExpectedId(p) ==
  IF highestRemote[p] = 0 THEN IF p = "initiator" THEN 2 ELSE 1
  ELSE highestRemote[p] + 2

\* Mutant: a tombstone refuses all late DATA.
ToleratedUnlessRetired(p, f) ==
  /\ IsPast(p, f.id)
  /\ f.kind \in {"DATA", "FRAGMENT"} => Tombstones(retired[p], f.id) = {}
\* A frame for a stream that is no longer in the table is dropped ...
Tolerated(p, f) ==
  LET marks == Tombstones(retired[p], f.id) IN
  IF f.kind \in {"DATA", "FRAGMENT"}
  THEN IF marks = {} THEN IsPast(p, f.id) ELSE \E k \in marks : retired[p][k].late
  ELSE IsPast(p, f.id)
\* ... and everything else that throws ProtocolViolationError.
IllegalHere(p, f) ==
  LET s == stream[p][f.id] IN
  \/ f.kind = "DATA" /\ (s.inClosed \/ s.cancelled \/ s.expected > 0
                         \/ s.inCredit = 0 \/ f.size > MaxItemUnits)
  \/ f.kind = "FRAGMENT" /\ (s.inClosed \/ s.cancelled
                             \/ Len(s.partial) + 1 > s.expected)
  \/ f.kind = "COMPLETE" /\ s.expected > 0
Illegal(p, f) ==
  IF f.seq # inSeq[p] THEN TRUE
  ELSE IF f.kind = "OPEN" THEN f.id # ExpectedId(p)
  ELSE IF f.kind = "CLOSE" THEN FALSE
  ELSE IF f.id \in live[p] THEN IllegalHere(p, f)
  ELSE ~Tolerated(p, f)

ReadIllegal(p) ==
  /\ CanRead(p) /\ Illegal(p, Incoming(p))
  /\ wire' = [wire EXCEPT ![Other(p)] = Tail(@)]
  /\ inSeq' = [inSeq EXCEPT ![p] = IF Incoming(p).seq = @ THEN @ + 1 ELSE @]
  /\ Over(p, "detached", "violation")
  /\ UNCHANGED <<nextId, highestRemote, outSeq, closing>>

\* A legal frame of one of these kinds, for a stream of the table or not.
Reads(p, kinds) ==
  /\ CanRead(p) /\ Incoming(p).kind \in kinds /\ ~Illegal(p, Incoming(p))
  /\ Consume(p)
ReadsLive(p, kinds) == Reads(p, kinds) /\ Incoming(p).id \in live[p]

ReadLate(p) ==
  /\ Reads(p, {"DATA", "FRAGMENT", "DEMAND", "COMPLETE", "CANCEL", "ERROR"})
  /\ Incoming(p).id \notin live[p]
  /\ UNCHANGED <<tableVars, idVars, writerVars, parked, stateVars>>

\* The read loop queues an ERROR and waits until it is written.
Refuse(p, i) ==
  /\ \E fits \in Encodable :
       Queue(p, [Plain("ERROR", i) EXCEPT !.fits = fits, !.reader = TRUE])
  /\ parked' = [parked EXCEPT ![p] = TRUE]

ReadsOpen(p) ==
  /\ Reads(p, {"OPEN"})
  /\ highestRemote' = [highestRemote EXCEPT ![p] = Incoming(p).id]
  /\ UNCHANGED <<reassembling, nextId, opening, written, flying, outSeq, stateVars>>
Admissible(p) ==
  /\ remoteActive[p] < MaxInboundStreams
  /\ retained[p] + Incoming(p).amount <= MaxAttributeWeight

\* rejectRemoteOpen: a limit is reached.
RejectOpen(p) ==
  /\ ReadsOpen(p)
  /\ \/ ~Admissible(p)
     \/ "none" \in Acceptances /\ Len(pending[p]) >= MaxPendingIncoming
  /\ retired' = [retired EXCEPT ![p] = Retire(@, Incoming(p).id, FALSE)]
  /\ Refuse(p, Incoming(p).id)
  /\ UNCHANGED <<stream, live, localActive, remoteActive, retained, pending>>

\* An acceptor throws from accepts(): the stream fails before it is entered.
AcceptorThrows(p) ==
  /\ ReadsOpen(p) /\ Admissible(p) /\ "throws" \in Acceptances
  /\ LET i == Incoming(p).id IN
     /\ stream' = [stream EXCEPT ![p][i] = Cancelled(NewStream(Incoming(p).amount))]
     /\ retired' = [retired EXCEPT ![p] = Retire(@, i, TRUE)]
     /\ Refuse(p, i)
  /\ UNCHANGED <<live, localActive, remoteActive, retained, pending>>

\* An acceptor takes the stream and its handler gets it.
HandleOpen(p) ==
  /\ ReadsOpen(p) /\ Admissible(p) /\ "handler" \in Acceptances
  /\ LET i == Incoming(p).id IN
     /\ stream' = [stream EXCEPT ![p][i] =
                     [NewStream(Incoming(p).amount) EXCEPT !.handle = TRUE]]
     /\ Enter(p, i)
  /\ UNCHANGED <<retired, pending, jobs, parked>>

\* No acceptor takes the stream: it waits in session.incomingStreams.
PendOpen(p) ==
  /\ ReadsOpen(p) /\ Admissible(p) /\ "none" \in Acceptances
  /\ Len(pending[p]) < MaxPendingIncoming
  /\ LET i == Incoming(p).id IN
     /\ stream' = [stream EXCEPT ![p][i] = NewStream(Incoming(p).amount)]
     /\ Enter(p, i)
     /\ pending' = [pending EXCEPT ![p] = Append(@, i)]
  /\ UNCHANGED <<retired, jobs, parked>>

\* Mutant: a grant replaces the credit that is left.
ReadDemandAnew(p) ==
  /\ ReadsLive(p, {"DEMAND"})
  /\ LET f == Incoming(p)
     IN Update(p, f.id, [stream[p][f.id] EXCEPT !.outCredit = f.amount])
  /\ UNCHANGED <<idVars, writerVars, parked, stateVars>>
ReadDemand(p) ==
  /\ ReadsLive(p, {"DEMAND"})
  /\ LET f == Incoming(p)
     IN Update(p, f.id, [stream[p][f.id] EXCEPT !.outCredit = AddCredit(@, f.amount)])
  /\ UNCHANGED <<idVars, writerVars, parked, stateVars>>

\* Mutant: a peer that has completed its own direction takes no more items.
PushUnlessComplete(s, data) == IF s.outClosed THEN s.got ELSE Append(s.got, data)
Push(s, data) == Append(s.got, data)
Payload(f) == [item |-> f.item, part |-> f.part, of |-> f.size]
\* An item that fits one frame is pushed into `incoming` at once.
ReadData(p) ==
  LET f == Incoming(p) IN
  /\ ReadsLive(p, {"DATA"}) /\ f.size = 1
  /\ Update(p, f.id, [stream[p][f.id] EXCEPT
       !.inCredit = @ - 1, !.got = Push(stream[p][f.id], <<Payload(f)>>)])
  /\ UNCHANGED <<idVars, writerVars, parked, stateVars>>

\* The first frame of a fragmented item reserves the declared length.
StartReassembly(p) ==
  LET f == Incoming(p) IN
  /\ ReadsLive(p, {"DATA"}) /\ f.size > 1
  /\ reassembling[p] + f.size <= MaxReassembly
  /\ stream' = [stream EXCEPT ![p][f.id].inCredit = @ - 1,
                              ![p][f.id].expected = f.size,
                              ![p][f.id].partial = <<Payload(f)>>]
  /\ reassembling' = [reassembling EXCEPT ![p] = @ + f.size]
  /\ UNCHANGED <<live, retired, localActive, remoteActive, retained, idVars,
                 writerVars, parked, stateVars>>

\* Mutant: the refused stream is forgotten like one the peer has ended.
RefuseReassemblyForGood(p) ==
  LET f == Incoming(p) IN
  /\ ReadsLive(p, {"DATA"}) /\ f.size > 1
  /\ reassembling[p] + f.size > MaxReassembly
  /\ CancelStream(p, f.id, [stream[p][f.id] EXCEPT !.inCredit = @ - 1], FALSE)
  /\ Refuse(p, f.id)
  /\ UNCHANGED <<idVars, written, flying, outSeq, stateVars>>
\* failInboundStream: the budget for incomplete items is exhausted.
RefuseReassembly(p) ==
  LET f == Incoming(p) IN
  /\ ReadsLive(p, {"DATA"}) /\ f.size > 1
  /\ reassembling[p] + f.size > MaxReassembly
  /\ CancelStream(p, f.id, [stream[p][f.id] EXCEPT !.inCredit = @ - 1], TRUE)
  /\ Refuse(p, f.id)
  /\ UNCHANGED <<idVars, written, flying, outSeq, stateVars>>

\* Mutant: an item is published one unit early.
WholeEarly(data, s) == Len(data) + 1 >= s.expected
Whole(data, s) == Len(data) >= s.expected
ReadFragment(p) ==
  LET f == Incoming(p)
      s == stream[p][f.id]
      data == Append(s.partial, Payload(f))
  IN
  /\ ReadsLive(p, {"FRAGMENT"})
  /\ IF ~Whole(data, s)
     THEN Update(p, f.id, [s EXCEPT !.partial = data])
     ELSE /\ stream' = [stream EXCEPT ![p][f.id] =
               [s EXCEPT !.expected = 0, !.partial = <<>>, !.got = Push(s, data)]]
          /\ reassembling' = [reassembling EXCEPT ![p] = Less(@, s.expected)]
          /\ UNCHANGED <<live, retired, localActive, remoteActive, retained>>
  /\ UNCHANGED <<idVars, writerVars, parked, stateVars>>

ReadComplete(p) ==
  /\ ReadsLive(p, {"COMPLETE"})
  /\ LET i == Incoming(p).id
     IN Release(p, i, [stream[p][i] EXCEPT !.inClosed = TRUE])
  /\ UNCHANGED <<idVars, writerVars, parked, stateVars>>

\* Mutant: the stream is cancelled where it stands, in the table.
ReadEndingOnly(p) ==
  /\ ReadsLive(p, {"CANCEL", "ERROR"})
  /\ LET i == Incoming(p).id IN Update(p, i, Cancelled(stream[p][i]))
  /\ UNCHANGED <<idVars, writerVars, parked, stateVars>>
\* The peer has cancelled or failed the stream: it sends no more DATA.
ReadEnding(p) ==
  /\ ReadsLive(p, {"CANCEL", "ERROR"})
  /\ LET i == Incoming(p).id IN CancelStream(p, i, stream[p][i], FALSE)
  /\ UNCHANGED <<idVars, writerVars, parked, stateVars>>

ReadClose(p) ==
  /\ Reads(p, {"CLOSE"})
  /\ Over(p, "closed", fault[p])
  /\ UNCHANGED <<nextId, highestRemote, outSeq, closing>>

\* Mutant: the end of the lane's frames goes unnoticed.
CarrierUnwatched(p) == FALSE
\* The lane's frames end because the other peer closed the carrier, when all it
\* wrote has been read, or because the carrier failed, at any time.
CarrierEnds(p) ==
  /\ Ready(p) /\ ~parked[p]
  /\ Lossy \/ (~Ready(Other(p)) /\ wire[Other(p)] = <<>>)
  /\ Over(p, "detached", "lost")
  /\ UNCHANGED <<nextId, highestRemote, outSeq, inSeq, wire, closing>>

Read(p) ==
  \/ ReadIllegal(p) \/ ReadLate(p)
  \/ RejectOpen(p) \/ AcceptorThrows(p) \/ HandleOpen(p) \/ PendOpen(p)
  \/ ReadDemand(p) \/ ReadData(p) \/ StartReassembly(p) \/ RefuseReassembly(p)
  \/ ReadFragment(p) \/ ReadComplete(p) \/ ReadEnding(p) \/ ReadClose(p)
  \/ CarrierEnds(p)

-----------------------------------------------------------------------------
\* Both sessions are ready: HELLO and WELCOME took sequence 1.
Init ==
  /\ session = [p \in Peer |-> "ready"]
  /\ fault = [p \in Peer |-> "none"]
  /\ stream = [p \in Peer |-> [i \in StreamId |-> NewStream(0)]]
  /\ live = [p \in Peer |-> {}]
  /\ retired = [p \in Peer |-> <<>>]
  /\ nextId = [p \in Peer |-> IF p = "initiator" THEN 1 ELSE 2]
  /\ highestRemote = [p \in Peer |-> 0]
  /\ localActive = [p \in Peer |-> 0]
  /\ remoteActive = [p \in Peer |-> 0]
  /\ retained = [p \in Peer |-> 0]
  /\ reassembling = [p \in Peer |-> 0]
  /\ pending = [p \in Peer |-> <<>>]
  /\ opening = [p \in Peer |-> FALSE]
  /\ closing = [p \in Peer |-> FALSE]
  /\ jobs = [p \in Peer |-> <<>>]
  /\ written = [p \in Peer |-> 0]
  /\ flying = [p \in Peer |-> FALSE]
  /\ outSeq = [p \in Peer |-> 2]
  /\ inSeq = [p \in Peer |-> 2]
  /\ parked = [p \in Peer |-> FALSE]
  /\ wire = [p \in Peer |-> <<>>]

Application(p) ==
  \/ Open(p) \/ TakeIncoming(p) \/ Close(p) \/ CloseDetached(p)
  \/ \E i \in StreamId :
       \/ \E n \in Demands : Request(p, i, n)
       \/ \E size \in ItemSizes : Send(p, i, size)
       \/ Complete(p, i) \/ Cancel(p, i) \/ Fail(p, i)

Next == \E p \in Peer :
  \/ Application(p) \/ Write(p) \/ LaneFails(p) \/ Read(p)
  \/ \E i \in StreamId : StreamTail(p, i)

Spec == Init /\ [][Next]_vars

\* The read loop has something to find: a frame, or that the other end is gone.
Roused(p) == CanRead(p) \/ ~Ready(Other(p))

\* The event loop runs what is ready, and a lane that has not failed takes
\* what is written.  Nothing is assumed of the applications, and a carrier that may
\* fail need not.
Fairness == \A p \in Peer :
  /\ WF_vars(CloseDetached(p) /\ closing[p])
  /\ WF_vars(Write(p)) /\ WF_vars(Read(p) /\ Roused(p))
  /\ \A i \in StreamId : WF_vars(StreamTail(p, i))
FairSpec == Spec /\ Fairness
-----------------------------------------------------------------------------
(* Properties                                                              *)

StateType ==
  /\ session \in [Peer -> {"ready", "closed", "detached"}]
  /\ fault \in [Peer -> {"none", "lost", "violation", "exhausted"}]
  /\ closing \in [Peer -> BOOLEAN]
TableType ==
  /\ stream \in [Peer -> [StreamId -> Stream]]
  /\ live \in [Peer -> SUBSET StreamId]
  /\ retired \in [Peer -> Seq([id : StreamId, late : BOOLEAN])]
  /\ localActive \in [Peer -> Nat] /\ remoteActive \in [Peer -> Nat]
  /\ retained \in [Peer -> Nat] /\ reassembling \in [Peer -> Nat]
IdType ==
  /\ nextId \in [Peer -> Nat] /\ highestRemote \in [Peer -> Nat]
  /\ opening \in [Peer -> BOOLEAN]
  /\ pending \in [Peer -> Seq(StreamId)]
WriterType ==
  /\ jobs \in [Peer -> Seq(Job)]
  /\ written \in [Peer -> Nat] /\ flying \in [Peer -> BOOLEAN]
  /\ outSeq \in [Peer -> Nat]
ReaderType ==
  /\ inSeq \in [Peer -> Nat] /\ parked \in [Peer -> BOOLEAN]
  /\ wire \in [Peer -> Seq(Frame)]
\* Every variable holds a value the code could hold there: credits stay within
\* 32 bits, items are made of units of the item, CLOSE names no stream.
TypeOK == StateType /\ TableType /\ IdType /\ WriterType /\ ReaderType

\* Two peers that both run this code never detach each other for a protocol
\* violation, however calls, cancellations and frames cross: as long as no credit
\* saturates (see DemandHonoured) and no stream is retired anew after its tombstone
\* was evicted (see LateDataDropped).
NoViolation == \A p \in Peer : fault[p] # "violation"

\* The counters kept beside the stream table agree with it through every
\* rollback, refusal and ending, so the Math.max(0, ..) around each decrement
\* hides nothing, and the limits on streams hold.
CountsExact == \A p \in Peer :
  /\ localActive[p] = Cardinality(live[p] \cap Own(p))
  /\ remoteActive[p] = Cardinality(live[p] \ Own(p))
  /\ localActive[p] <= MaxInboundStreams /\ remoteActive[p] <= MaxInboundStreams

\* So do the two byte budgets: nothing that was reserved for attributes or
\* for an incomplete item stays reserved once its stream is gone.
BudgetsExact == \A p \in Peer :
  /\ retained[p] = Total(stream[p], "weight", live[p])
  /\ reassembling[p] = Total(stream[p], "expected", live[p])
  /\ retained[p] <= MaxAttributeWeight /\ reassembling[p] <= MaxReassembly

\* The table holds open streams only, and a session that has ended holds none.
TableIsOpen == \A p \in Peer :
  /\ \A i \in live[p] : ~IsClosed(stream[p][i])
  /\ \A i \in StreamId \ live[p] : stream[p][i].expected = 0
  /\ ~Ready(p) => live[p] = {} /\ jobs[p] = <<>>

BothReady == \A p \in Peer : Ready(p)
\* Jobs no frame of which is on the wire yet.
Unwritten(p) == {k \in DOMAIN jobs[p] : k > 1 \/ (written[p] = 0 /\ ~flying[p])}
\* What p has granted on stream i and the other peer has not read.
DemandUnderway(p, i) ==
  Total(jobs[p], "amount",
    {k \in Unwritten(p) : jobs[p][k].kind = "DEMAND" /\ jobs[p][k].id = i})
  + Total(wire[p], "amount",
      {k \in DOMAIN wire[p] : wire[p][k].kind = "DEMAND" /\ wire[p][k].id = i})
\* Items p has spent credit on and whose DATA the other peer has not read.
ItemsUnderway(p, i) ==
  Cardinality({k \in Unwritten(p) : jobs[p][k].kind = "DATA" /\ jobs[p][k].id = i})
  + Cardinality({k \in DOMAIN wire[p] : wire[p][k].kind = "DATA" /\ wire[p][k].id = i})

\* No credit is lost or invented while addCredit does not saturate: what the
\* receiver still expects on a stream is what the sender may still send, plus
\* grants and items underway.
CreditConserved == \A p \in Peer : BothReady =>
  \A i \in live[p] \cap live[Other(p)] :
    stream[p][i].inCredit =
      stream[Other(p)][i].outCredit + DemandUnderway(p, i) + ItemsUnderway(Other(p), i)

\* Once it does, the receiver may expect less than the sender may send, never
\* more: a sender is not left waiting for credit the receiver thinks it has.
CreditNotOverstated == \A p \in Peer : BothReady =>
  \A i \in live[p] \cap live[Other(p)] :
    stream[p][i].inCredit <=
      stream[Other(p)][i].outCredit + DemandUnderway(p, i) + ItemsUnderway(Other(p), i)

\* DEMAND(n) permits n more items: one within what the application asked for
\* is not refused (PROTOCOL.md, section 6).
DemandHonoured == \A p \in Peer :
  LET f == Incoming(p)
      s == stream[p][f.id]
  IN CanRead(p) /\ f.kind = "DATA" /\ f.id \in live[p] /\ Len(s.got) < s.asked
       => ~Illegal(p, f)

\* Cancelling a stream ends the stream, not the session: late DATA for it is
\* dropped (session.ts passes allowLateData; PROTOCOL.md, section 6).
LateDataDropped == \A p \in Peer :
  LET f == Incoming(p)
  IN CanRead(p) /\ f.kind \in {"DATA", "FRAGMENT"} /\ stream[p][f.id].cancelled
       => ~Illegal(p, f)

\* A clean shutdown is not an attachment loss (PROTOCOL.md, section 11): with a
\* carrier that does not fail, no peer sees one.
NoAttachmentLoss == \A p \in Peer : fault[p] # "lost"

\* A published item is whole, in order, from one send() call, and later than
\* the one before it: fragments of two items never mix and none is doubled.
ItemsIntact == \A p \in Peer, i \in StreamId :
  LET got == stream[p][i].got IN
  \A k \in DOMAIN got :
    /\ got[k] = [u \in 1..got[k][1].of |->
                   [item |-> got[k][1].item, part |-> u, of |-> got[k][1].of]]
    /\ k > 1 => got[k - 1][1].item < got[k][1].item

\* COMPLETE tells the receiver that it has every item whose send() resolved.
CompleteMeansAll == \A p \in Peer, i \in StreamId :
  stream[p][i].inClosed /\ ~stream[p][i].cancelled
    => Len(stream[p][i].got) = stream[Other(p)][i].sent

\* The frames between two ready peers carry consecutive sequences, from the
\* one the reader expects to the last one the writer used.
SequenceUnbroken == \A p \in Peer : BothReady =>
  /\ \A k \in DOMAIN wire[p] : wire[p][k].seq = inSeq[Other(p)] + k - 1
  /\ inSeq[Other(p)] + Len(wire[p]) = outSeq[p] + IF flying[p] THEN 1 ELSE 0
  /\ outSeq[p] <= MaxSequence + 1

\* The frontier the acceptor of streams expects is the opener's, less the
\* OPENs underway: an OPEN that failed to encode leaves no gap.
FrontiersAgree == \A p \in Peer : BothReady =>
  LET opens == {k \in DOMAIN wire[p] : wire[p][k].kind = "OPEN"}
      begun == flying[p] /\ Head(jobs[p]).kind = "OPEN"
  IN nextId[p] + (IF begun THEN 2 ELSE 0)
       = ExpectedId(Other(p)) + 2 * Cardinality(opens)

Quiet == BothReady /\ \A p \in Peer : jobs[p] = <<>> /\ wire[p] = <<>>
\* When nothing is underway the peers hold the same streams in matching
\* states: no interleaving of endings leaves one half open behind.
QuietPeersAgree == Quiet =>
  /\ live["initiator"] = live["acceptor"]
  /\ \A p \in Peer : \A i \in live[p] :
       /\ stream[p][i].inClosed = stream[Other(p)][i].outClosed
       /\ stream[p][i].inCredit = stream[Other(p)][i].outCredit

\* An id that was used stays used, and is never in the table again: neither a
\* rolled back OPEN nor an eviction of tombstones gives it back.
NoReuse == [][\A p \in Peer : \A i \in StreamId :
                IsPast(p, i) => /\ IsPast(p, i)'
                                /\ i \notin live[p] => i \notin live'[p]]_vars

\* A stream cancelled or failed at one peer ends at the other.
EndingsReachPeer == \A p \in Peer, i \in StreamId :
  stream[p][i].cancelled ~> [](i \notin live[Other(p)])

\* When one session has ended the other does not linger, and close() always
\* reaches "closed".
SessionsEndTogether == (\E p \in Peer : ~Ready(p)) ~> (\A p \in Peer : ~Ready(p))
CloseSettles == \A p \in Peer : closing[p] ~> session[p] = "closed"

\* The read loop always comes back from writing a rejection.
ReaderReturns == \A p \in Peer : parked[p] ~> ~parked[p]

\* When both sides have called complete() with no send() left waiting for
\* credit, both sides forget the stream.
Completing(p, i) ==
  LET s == stream[p][i] IN
  \/ s.outClosed
  \/ s.tail # <<>> /\ Head(s.tail).kind = "complete"
  \/ Writing(p, i, "COMPLETE")
CompletedIsReleased == \A i \in StreamId :
  (\A p \in Peer : Completing(p, i)) ~> [](\A p \in Peer : i \notin live[p])
=============================================================================
