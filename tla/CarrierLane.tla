---------------------------- MODULE CarrierLane ----------------------------
(***************************************************************************)
(* One direction of a base lane, from write() at one session to the         *)
(* iterator the read loop of the other one consumes, for every carrier:     *)
(* src/transport, src/browser/message-port.ts and src/node/duplex.ts over   *)
(* the queues of core/async-queue.ts and transport/incoming.ts.             *)
(*                                                                         *)
(* A frame is its number and its size.  On a byte stream it is Prefix units *)
(* of length and `size` units of content, each naming the frame it is of;   *)
(* the stream delivers any number of units at a time.                      *)
(***************************************************************************)
EXTENDS LaneLimits, Integers, Sequences, SequencesExt

ByteStreams == {"byte-stream", "webtransport", "duplex"}
Carriers == ByteStreams \cup {"memory", "websocket", "message-port"}

VARIABLES
  carrier,   \* which one this is, never changed
  sent,      \* sizes of the frames written
  writer,    \* the other side: "open", "closed", or "broken" with the carrier
  wire,      \* what is on its way: frames or units, then Ended or Lost
  queue,     \* the queue behind lane.incoming, see NewQueue
  glue,      \* what the carrier does between wire and queue, see NewGlue
  own,       \* has the reading session closed the lane?
  reader,    \* the read loop's next(): "busy" elsewhere, "waiting", "settled" or "done"
  outcome,   \* what a settled next() gave
  got, told  \* what the read loop has been given: frames, and the end

vars == <<carrier, sent, writer, wire, queue, glue, own, reader, outcome, got, told>>

Frame(n, size) == [n |-> n, size |-> size]

\* What ends a lane, and what a next() gives when it ends or while it has nothing.
Ended == Frame(-1, 0)
Lost == Frame(-2, 0)
Nothing == Frame(0, 0)

---------------------------------------------------------------------------
(* The queue and the next() that may wait for it.  A pair is the queue and  *)
(* what that next() gives.                                                 *)

NewQueue == [values |-> <<>>, bytes |-> 0, ended |-> FALSE, failure |-> FALSE,
             space |-> "none"]   \* a pushWait(): "none", "waiting", "woken" or "refused"

HasSpace(q, f) == Len(q.values) < MaxFrames /\ q.bytes + f.size <= MaxBytes

Store(q, f) == [q EXCEPT !.values = Append(@, f), !.bytes = @ + f.size]

\* A frame goes to the next() that waits, if there is one, and into the queue if not.
Put(q, waits, f) == IF waits THEN <<q, f>> ELSE <<Store(q, f), Nothing>>

\* end(): whoever waits is told.
EndQueue(q, waits, failure, discard) ==
  IF q.ended THEN <<q, Nothing>>
  ELSE <<[q EXCEPT !.ended = TRUE, !.failure = failure,
                   !.values = IF discard THEN <<>> ELSE @,
                   !.bytes = IF discard THEN 0 ELSE @,
                   !.space = IF @ = "waiting" THEN "refused" ELSE @],
         IF waits THEN IF failure THEN Lost ELSE Ended ELSE Nothing>>

\* Mutant: whoever waits for space is not told that there is some.
TakeNextQuietly(q) ==
  CASE q.values # <<>> ->
         <<[q EXCEPT !.values = Tail(@), !.bytes = @ - Head(q.values).size], Head(q.values)>>
    [] q.values = <<>> /\ q.ended -> <<q, IF q.failure THEN Lost ELSE Ended>>
    [] OTHER -> <<q, Nothing>>

\* next()
TakeNext(q) ==
  CASE q.values # <<>> ->
         <<[q EXCEPT !.values = Tail(@), !.bytes = @ - Head(q.values).size,
                     !.space = IF @ = "waiting" THEN "woken" ELSE @], Head(q.values)>>
    [] q.values = <<>> /\ q.ended -> <<q, IF q.failure THEN Lost ELSE Ended>>
    [] OTHER -> <<q, Nothing>>

---------------------------------------------------------------------------
(* LengthPrefixedFrameDecoder.                                             *)

NewDecoder == [prefix |-> 0, need |-> 0, body |-> <<>>]

\* One unit: d is the decoder and the frames complete so far.
DecodeUnit(d, u) ==
  LET body == Append(d[1].body, u.n)
      whole == ToSet(body) = {u.n}
  IN CASE d[1].need = 0 /\ d[1].prefix + 1 < Prefix -> <<[d[1] EXCEPT !.prefix = @ + 1], d[2]>>
       [] d[1].need = 0 /\ d[1].prefix + 1 >= Prefix ->
            <<[prefix |-> 0, need |-> u.size, body |-> <<>>], d[2]>>
       [] Len(body) < d[1].need -> <<[d[1] EXCEPT !.body = body], d[2]>>
       [] OTHER -> <<NewDecoder, Append(d[2], Frame(IF whole THEN u.n ELSE 0, d[1].need))>>

\* Mutant: a prefix split between two chunks is forgotten.
DecodeAnew(d, chunk) == FoldLeft(DecodeUnit, <<[d EXCEPT !.prefix = 0], <<>>>>, chunk)

\* push(): what a chunk completes, and the decoder after it.
Decode(d, chunk) == FoldLeft(DecodeUnit, <<d, <<>>>>, chunk)

\* encodeLengthPrefixedFrame
Encode(f) == [i \in 1..(Prefix + f.size) |-> f]

---------------------------------------------------------------------------

NewGlue == [open |-> TRUE,           \* does the carrier still deliver?
            failed |-> FALSE,        \* WebSocket: has fail() run?
            opened |-> FALSE,        \* has openLane() been called?
            early |-> <<>>,          \* WebSocket: preLaneFrames
            decoder |-> NewDecoder,
            pump |-> <<>>,           \* frames of the last chunk that pushWait() has still to take
            late |-> FALSE]          \* did openLane() come after the end?

Init ==
  /\ carrier \in Carriers
  /\ sent = <<>> /\ writer = "open" /\ wire = <<>>
  /\ queue = NewQueue
  /\ glue = NewGlue
  /\ own = FALSE
  /\ reader = "busy" /\ outcome = Nothing
  /\ got = <<>> /\ told = "nothing"

\* The queue and the next() are as in the pair.
Becomes(pair) ==
  /\ queue' = pair[1]
  /\ IF pair[2] = Nothing THEN UNCHANGED <<reader, outcome>>
     ELSE reader' = "settled" /\ outcome' = pair[2]

Waiting == reader = "waiting"

---------------------------------------------------------------------------
(* The session that writes, and the carrier.                               *)

\* lane.write(); a memory endpoint puts the frame into its peer's queue.
Write ==
  /\ writer = "open"
  /\ Len(sent) < Frames
  /\ \E size \in Sizes :
       LET f == Frame(Len(sent) + 1, size)
       IN /\ sent' = Append(sent, size)
          /\ IF carrier = "memory" THEN Becomes(Put(queue, Waiting, f)) /\ UNCHANGED wire
             ELSE /\ wire' = wire \o IF carrier \in ByteStreams THEN Encode(f) ELSE <<f>>
                  /\ UNCHANGED <<queue, reader, outcome>>
  /\ UNCHANGED <<carrier, writer, glue, own, got, told>>

\* lane.close() over there; a memory endpoint ends its peer's queues at once.
WriterCloses ==
  /\ writer = "open"
  /\ writer' = "closed"
  /\ IF carrier = "memory"
     THEN Becomes(EndQueue(queue, Waiting, FALSE, FALSE)) /\ UNCHANGED wire
     ELSE wire' = Append(wire, Ended) /\ UNCHANGED <<queue, reader, outcome>>
  /\ UNCHANGED <<carrier, sent, glue, own, got, told>>

\* The carrier fails: any tail of what is on its way is lost.
Break ==
  /\ writer = "open"
  /\ carrier \notin {"memory", "message-port"}
  /\ writer' = "broken"
  /\ \E kept \in 0..Len(wire) :
       wire' = SubSeq(wire, 1, kept)
               \o IF carrier = "websocket" THEN <<Lost, Ended>> ELSE <<Lost>>
  /\ UNCHANGED <<carrier, sent, queue, glue, own, reader, outcome, got, told>>

---------------------------------------------------------------------------
(* What the carrier delivers.                                              *)

Calm == UNCHANGED <<carrier, sent, writer, own, got, told>>

Marks == {Ended, Lost}

\* A chunk for the read loop, which pushes its frames before it reads again.
Chunk ==
  /\ carrier \in ByteStreams
  /\ glue.opened /\ glue.open
  /\ glue.pump = <<>>
  /\ \E k \in {i \in DOMAIN wire : \A j \in 1..i : wire[j] \notin Marks} :
       LET decoded == Decode(glue.decoder, SubSeq(wire, 1, k))
       IN /\ wire' = SubSeq(wire, k + 1, Len(wire))
          /\ glue' = [glue EXCEPT !.decoder = decoded[1], !.pump = decoded[2]]
  /\ UNCHANGED <<queue, reader, outcome>>
  /\ Calm

\* pushWait() of the next frame: to the next() that waits, or into the queue if it has
\* space, or it waits.
PushWait ==
  /\ glue.pump # <<>>
  /\ queue.space = "none"
  /\ LET f == Head(glue.pump)
     IN CASE queue.ended ->
               glue' = [glue EXCEPT !.pump = <<>>, !.open = FALSE] /\ UNCHANGED <<queue, reader, outcome>>
          [] ~queue.ended /\ (Waiting \/ HasSpace(queue, f)) ->
               glue' = [glue EXCEPT !.pump = Tail(@)] /\ Becomes(Put(queue, Waiting, f))
          [] OTHER -> queue' = [queue EXCEPT !.space = "waiting"]
                      /\ UNCHANGED <<glue, reader, outcome>>
  /\ UNCHANGED wire
  /\ Calm

\* It goes on: a next() may have come to wait since it was woken.
PushWaitResumes ==
  /\ queue.space \in {"woken", "refused"}
  /\ LET f == Head(glue.pump)
         q == [queue EXCEPT !.space = "none"]
     IN CASE queue.ended ->
               /\ glue' = [glue EXCEPT !.pump = <<>>, !.open = FALSE]
               /\ Becomes(<<q, Nothing>>)
          [] ~queue.ended /\ (Waiting \/ HasSpace(q, f)) ->
               glue' = [glue EXCEPT !.pump = Tail(@)] /\ Becomes(Put(q, Waiting, f))
          [] OTHER -> queue' = [q EXCEPT !.space = "waiting"] /\ UNCHANGED <<glue, reader, outcome>>
  /\ UNCHANGED wire
  /\ Calm

\* The readable side ends, after everything read before it has been pushed; an error of
\* a Node stream does not wait.
StreamEnds ==
  /\ carrier \in ByteStreams
  /\ glue.opened /\ glue.open
  /\ wire # <<>> /\ Head(wire) \in Marks
  /\ glue.pump = <<>> \/ (carrier = "duplex" /\ Head(wire) = Lost)
  /\ wire' = Tail(wire)
  /\ glue' = [glue EXCEPT !.open = FALSE]
  /\ Becomes(IF Head(wire) = Ended THEN EndQueue(queue, Waiting, FALSE, FALSE)
             ELSE EndQueue(queue, Waiting, TRUE, carrier # "byte-stream"))
  /\ Calm

\* A WebSocket message: pushOrThrow(), or kept until there is a lane; what does not fit
\* fails the connection.
SocketMessage ==
  /\ carrier = "websocket"
  /\ wire # <<>> /\ Head(wire) \notin Marks
  /\ wire' = Tail(wire)
  /\ LET f == Head(wire)
         fits == IF glue.opened THEN ~queue.ended /\ (Waiting \/ HasSpace(queue, f))
                 ELSE Len(glue.early) < MaxEarly
     IN CASE glue.failed -> UNCHANGED <<glue, queue, reader, outcome>>
          [] ~glue.failed /\ fits /\ glue.opened ->
               Becomes(Put(queue, Waiting, f)) /\ UNCHANGED glue
          [] ~glue.failed /\ fits /\ ~glue.opened ->
               glue' = [glue EXCEPT !.early = Append(@, f)] /\ UNCHANGED <<queue, reader, outcome>>
          [] OTHER ->
               /\ glue' = [glue EXCEPT !.failed = TRUE]
               /\ IF glue.opened THEN Becomes(EndQueue(queue, Waiting, TRUE, TRUE))
                  ELSE UNCHANGED <<queue, reader, outcome>>
  /\ Calm

\* Its "error" and "close" events: without a lane there is no queue to end.
SocketEvent ==
  /\ carrier = "websocket"
  /\ wire # <<>> /\ Head(wire) \in Marks
  /\ wire' = Tail(wire)
  /\ LET lost == Head(wire) = Lost
     IN /\ glue' = [glue EXCEPT !.failed = @ \/ lost, !.open = @ /\ lost]
        /\ IF glue.opened /\ ~(lost /\ glue.failed)
           THEN Becomes(EndQueue(queue, Waiting, lost, lost))
           ELSE UNCHANGED <<queue, reader, outcome>>
  /\ Calm

\* finish() of a MessagePort: what has not been read is discarded.
PortMessage ==
  /\ carrier = "message-port"
  /\ glue.open
  /\ wire # <<>>
  /\ wire' = Tail(wire)
  /\ LET f == Head(wire)
         frame == f \notin Marks
         fits == glue.opened /\ ~queue.ended /\ (Waiting \/ HasSpace(queue, f))
     IN IF frame /\ fits THEN Becomes(Put(queue, Waiting, f)) /\ UNCHANGED glue
        ELSE /\ glue' = [glue EXCEPT !.open = FALSE, !.failed = frame]
             /\ IF glue.opened THEN Becomes(EndQueue(queue, Waiting, frame, TRUE))
                ELSE UNCHANGED <<queue, reader, outcome>>
  /\ Calm

---------------------------------------------------------------------------
(* The session that reads.                                                 *)

\* openLane(); kept frames that do not fit fail the call.
OpenLane ==
  /\ ~glue.opened
  /\ LET late == ~glue.open \/ (carrier = "websocket" /\ glue.failed)
         stored == FoldLeft(Store, NewQueue, glue.early)
     IN /\ glue' = [glue EXCEPT !.opened = TRUE, !.early = <<>>, !.late = late]
        /\ IF carrier = "memory" THEN UNCHANGED <<queue, reader>>
           ELSE IF Len(stored.values) <= MaxFrames /\ stored.bytes <= MaxBytes
                THEN queue' = stored /\ UNCHANGED reader
                ELSE reader' = "done" /\ UNCHANGED queue
  /\ UNCHANGED <<wire, outcome>>
  /\ Calm

\* The read loop asks for the next frame.
Next1 ==
  /\ glue.opened
  /\ reader = "busy"
  /\ LET taken == TakeNext(queue)
     IN /\ queue' = taken[1]
        /\ reader' = IF taken[2] = Nothing THEN "waiting" ELSE "settled"
        /\ outcome' = taken[2]
  /\ UNCHANGED <<wire, glue>>
  /\ Calm

\* The promise has settled and the read loop goes on.
Receive ==
  /\ reader = "settled"
  /\ outcome' = Nothing
  /\ IF outcome \in Marks
     THEN /\ reader' = "done" /\ UNCHANGED got
          /\ told' = IF outcome = Ended THEN "end" ELSE "failure"
     ELSE reader' = "busy" /\ got' = Append(got, outcome.n) /\ UNCHANGED told
  /\ UNCHANGED <<carrier, sent, writer, wire, queue, glue, own>>

\* lane.close() here.  A socket and a Node stream go on delivering until the other side
\* has ended as well.
ReaderCloses ==
  /\ glue.opened
  /\ ~own
  /\ own' = TRUE
  /\ CASE carrier = "memory" ->
            /\ writer' = IF writer = "open" THEN "closed" ELSE writer
            /\ Becomes(EndQueue(queue, Waiting, FALSE, FALSE))
            /\ UNCHANGED glue
       [] carrier \in {"byte-stream", "webtransport"} ->
            /\ Becomes(EndQueue(queue, Waiting, FALSE, TRUE))
            /\ glue' = [glue EXCEPT !.open = @ /\ glue.pump # <<>>]
            /\ UNCHANGED writer
       [] carrier = "message-port" ->
            /\ Becomes(IF glue.open THEN EndQueue(queue, Waiting, FALSE, TRUE)
                       ELSE <<queue, Nothing>>)
            /\ glue' = [glue EXCEPT !.open = FALSE]
            /\ UNCHANGED writer
       [] OTHER -> UNCHANGED <<queue, reader, outcome, glue, writer>>
  /\ UNCHANGED <<carrier, sent, wire, got, told>>

Delivering ==
  Chunk \/ PushWait \/ PushWaitResumes \/ StreamEnds \/ SocketMessage \/ SocketEvent \/ PortMessage

Reading == OpenLane \/ Next1 \/ Receive

\* The other session closes in the end once this one has.
Answering == own /\ WriterCloses

Passing == Delivering \/ Reading \/ Answering
Next == Passing \/ Write \/ WriterCloses \/ Break \/ ReaderCloses

---------------------------------------------------------------------------
(* Properties.                                                             *)

\* A MessagePort that is told of the other side's close discards what it has not read,
\* and a connection that failed before its lane was opened is opened all the same.
Excepted == carrier = "message-port" \/ glue.late

Lane ==
  [sent |-> Len(sent), got |-> got, own |-> own, told |-> told,
   over |-> IF writer = "open" THEN "no" ELSE writer]

Promise == INSTANCE ReliableLane WITH lane <- Lane

Spec == Init /\ [][Next]_vars /\ WF_vars(Passing)

\* Every step of a lane is one that ReliableLane allows: frames are read whole, once and
\* in order whatever the chunks, the queue's limits and the endings, and the read loop is
\* told of a clean end only after it was given everything, or closed the lane itself.
LaneKept == [][Excepted' \/ Promise!Next \/ UNCHANGED Lane]_vars

\* Once either side has ended the lane, or the carrier was lost, the read loop does not
\* wait for ever, with a producer that waits for space or without.
LaneSettles == (writer # "open" \/ own) ~> (reader = "done" \/ glue.late)
=============================================================================
