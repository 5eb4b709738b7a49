------------------------ MODULE PrpSessionLaneProofs ------------------------
(***************************************************************************)
(* What crosses the lane between two ready sessions, for every value of    *)
(* the constants: frames in an unbroken sequence, the stream ids both ends *)
(* count alike, and items whole, from one send() call each, in the order   *)
(* of the calls.                                                           *)
(*                                                                         *)
(* For the lane a step is of one of seven kinds (LaneKinds): it leaves the *)
(* lane alone, drops the first job, begins a frame, ends one of several    *)
(* frames of a job, ends a job, takes the next frame in, or ends the       *)
(* session.  A job reserves its sequences before its first frame, so the   *)
(* last of them is within MAX_U64 (Room).                                  *)
(*                                                                         *)
(* ItemInv follows an item on its way: it waits in its stream's writeTail, *)
(* then as a job, its frames follow each other on the lane (FramesSound),  *)
(* and what the reader has put together of it fits the frames that come    *)
(* next, or the job that is still being written (LaneIntact).  Along that  *)
(* way the numbers of a stream's items increase (Increasing).              *)
(***************************************************************************)
EXTENDS PrpSessionTableProofs

-----------------------------------------------------------------------------
(* What a step does to the lane                                            *)

\* The first job of a queue stays first, whatever joins the queue.
HeadsKept == \A q \in Peer :
  jobs[q] # <<>> => jobs'[q] # <<>> /\ Head(jobs'[q]) = Head(jobs[q])
\* No session becomes ready.
NoneReadied == \A q \in Peer : Ready(q)' => Ready(q)

Stays ==
  /\ HeadsKept /\ NoneReadied
  /\ UNCHANGED <<written, flying, outSeq, nextId, highestRemote, inSeq, wire>>
Drops(p) ==
  /\ CanWrite(p) /\ written' = [written EXCEPT ![p] = 0]
  /\ \A q \in Peer \ {p} : jobs'[q] = jobs[q]
  /\ UNCHANGED <<flying, outSeq, nextId, highestRemote, inSeq, wire, session>>
Finishes(p) ==
  /\ JobWritten(p, JobKind \ {"CLOSE"}) /\ JobDone(p)
  /\ nextId' = IF Head(jobs[p]).kind = "OPEN" THEN [nextId EXCEPT ![p] = @ + 2] ELSE nextId
  /\ UNCHANGED <<highestRemote, inSeq, wire, session>>
Receives(p) ==
  /\ CanRead(p) /\ ~Illegal(p, Incoming(p)) /\ Consume(p) /\ HeadsKept
  /\ highestRemote' = IF Incoming(p).kind = "OPEN"
                      THEN [highestRemote EXCEPT ![p] = Incoming(p).id] ELSE highestRemote
  /\ UNCHANGED <<written, flying, outSeq, nextId, session>>
\* What is read or written last does not count any more.
EndsLane(p) ==
  /\ Ends(p)
  /\ \/ UNCHANGED outSeq
     \/ JobWritten(p, {"CLOSE"}) /\ outSeq' = [outSeq EXCEPT ![p] = @ + 1]
  /\ \/ UNCHANGED <<wire, inSeq>>
     \/ /\ wire[Other(p)] # <<>> /\ wire' = [wire EXCEPT ![Other(p)] = Tail(@)]
        /\ \A q \in Peer \ {p} : inSeq'[q] = inSeq[q]

LEMMA HeadsKeptSame ==
  ASSUME UNCHANGED jobs
  PROVE  HeadsKept
  BY DEF HeadsKept

LEMMA HeadsKeptQueue ==
  ASSUME TypeInv, NEW p \in Peer, NEW job \in Job, Queue(p, job)
  PROVE  HeadsKept
  BY QueueType DEF TypeInv, TypeOK, HeadsKept

LEMMA CallsStay ==
  ASSUME TypeInv, NEW p \in Peer, NEW i \in StreamId,
         \/ \E n \in Demands : Request(p, i, n)
         \/ \E size \in ItemSizes : Send(p, i, size)
         \/ Complete(p, i) \/ Cancel(p, i) \/ Fail(p, i)
  PROVE  Stays
  <1>1. ASSUME NEW n \in Demands, Request(p, i, n) PROVE Stays
    <2>1. n \in Nat
      BY CallsAssumption, BoundsAssumption, SMTT(30)
    <2>2. [Plain("DEMAND", i) EXCEPT !.amount = n] \in Job
      BY <2>1, PlainType, JobChanges DEF JobKind
    <2>3. Queue(p, [Plain("DEMAND", i) EXCEPT !.amount = n])
      BY <1>1 DEF Request
    <2>4. HeadsKept
      BY <2>2, <2>3, HeadsKeptQueue, SMTT(30)
    <2> QED  BY <1>1, <2>4 DEF Request, Stays, NoneReadied, Ready, idVars, readerVars, stateVars
  <1>2. ASSUME NEW size \in ItemSizes, Send(p, i, size) PROVE Stays
    BY <1>2, HeadsKeptSame
       DEF Send, Stays, NoneReadied, Ready, idVars, writerVars, readerVars, stateVars
  <1>3. CASE Complete(p, i)
    BY <1>3, HeadsKeptSame
       DEF Complete, Stays, NoneReadied, Ready, idVars, writerVars, readerVars, stateVars
  <1>4. CASE Cancel(p, i) \/ Fail(p, i)
    <2>1. PICK call \in {"cancel", "fail"}, kind \in {"CANCEL", "ERROR"} : End(p, i, call, kind)
      BY <1>4 DEF Cancel, Fail
    <2>2. PICK fits \in Encodable : Queue(p, [Plain(kind, i) EXCEPT !.fits = fits])
      BY <2>1, SMTT(30) DEF End
    <2>3. [Plain(kind, i) EXCEPT !.fits = fits] \in Job
      BY PlainType, JobChanges, CallsAssumption DEF JobKind
    <2>4. HeadsKept
      BY <2>2, <2>3, HeadsKeptQueue
    <2> QED  BY <2>1, <2>4 DEF End, Stays, NoneReadied, Ready, idVars, readerVars, stateVars
  <1> QED  BY <1>1, <1>2, <1>3, <1>4

LEMMA SessionStays ==
  ASSUME TypeInv, NEW p \in Peer, TakeIncoming(p) \/ Close(p) \/ CloseDetached(p) \/ Open(p)
  PROVE  Stays
  <1>1. CASE TakeIncoming(p)
    BY <1>1, HeadsKeptSame DEF TakeIncoming, Stays, NoneReadied, Ready, writerVars, readerVars, stateVars
  <1>2. CASE Close(p)
    <2>1. PICK fits \in Encodable : Queue(p, [Plain("CLOSE", 0) EXCEPT !.fits = fits])
      BY <1>2 DEF Close
    <2>2. [Plain("CLOSE", 0) EXCEPT !.fits = fits] \in Job
      BY CloseJobType, CallsAssumption
    <2>3. HeadsKept
      BY <2>1, <2>2, HeadsKeptQueue
    <2> QED  BY <1>2, <2>3 DEF Close, Stays, NoneReadied, Ready, tableVars, idVars, readerVars
  <1>3. CASE CloseDetached(p)
    <2>1. \A q \in Peer : Ready(q)' => Ready(q)
      BY <1>3 DEF CloseDetached, Ready, TypeInv, TypeOK, StateType
    <2> QED  BY <1>3, <2>1, HeadsKeptSame
             DEF CloseDetached, Stays, NoneReadied, idVars, writerVars, readerVars
  <1>4. CASE Open(p)
    <2>1. PICK w \in Weights, fits \in Encodable :
            Queue(p, [Plain("OPEN", nextId[p]) EXCEPT !.amount = w, !.fits = fits])
      BY <1>4 DEF Open
    <2>2. nextId[p] \in StreamId /\ w \in Nat /\ fits \in BOOLEAN
      BY <1>4, CallsAssumption DEF Open
    <2>3. [Plain("OPEN", nextId[p]) EXCEPT !.amount = w, !.fits = fits] \in Job
      BY <2>2, PlainType, JobChanges DEF JobKind
    <2>4. HeadsKept
      BY <2>1, <2>3, HeadsKeptQueue
    <2> QED  BY <1>4, <2>4 DEF Open, Stays, NoneReadied, Ready, readerVars, stateVars
  <1> QED  BY <1>1, <1>2, <1>3, <1>4

LEMMA TailStays ==
  ASSUME TypeInv, NEW p \in Peer, NEW i \in StreamId, StreamTail(p, i)
  PROVE  Stays
  <1>1. CASE SendNext(p, i)
    <2> DEFINE op == Head(stream[p][i].tail)
               job == [Plain("DATA", i) EXCEPT !.item = op.item, !.size = op.size]
    <2>1. stream[p][i].tail \in Seq(Op) /\ stream[p][i].tail # <<>>
      BY <1>1, StreamOf DEF TypeInv, TypeOK, Stream, SendNext, Waiting
    <2>2. op \in Op
      BY <2>1, HeadTailProperties, SMTT(30)
    <2>3. job \in Job
      BY <2>2, PlainType, JobChanges DEF JobKind, Op
    <2>4. Queue(p, job)
      BY <1>1 DEF SendNext
    <2> HIDE DEF job
    <2>5. HeadsKept
      BY <2>3, <2>4, HeadsKeptQueue
    <2> QED  BY <1>1, <2>5 DEF SendNext, Stays, NoneReadied, Ready, idVars, readerVars, stateVars
  <1>2. CASE SendTooLarge(p, i)
    BY <1>2, HeadsKeptSame
       DEF SendTooLarge, Stays, NoneReadied, Ready, idVars, writerVars, readerVars, stateVars
  <1>3. CASE CompleteNext(p, i)
    <2>1. Plain("COMPLETE", i) \in Job
      BY PlainType, JobChanges DEF JobKind
    <2>2. HeadsKept
      BY <1>3, <2>1, HeadsKeptQueue DEF CompleteNext
    <2> QED  BY <1>3, <2>2, SMTT(30) DEF CompleteNext, Stays, NoneReadied, Ready, idVars, readerVars, stateVars
  <1> QED  BY <1>1, <1>2, <1>3 DEF StreamTail

LEMMA WriteKinds ==
  ASSUME TypeInv, NEW p \in Peer, Write(p)
  PROVE  Drops(p) \/ WriteFrame(p) \/ FragmentWritten(p) \/ Finishes(p) \/ EndsLane(p)
  <1>1. \A q \in Peer \ {p} : \A r : [jobs EXCEPT ![p] = r][q] = jobs[q]
    BY DEF TypeInv, TypeOK, WriterType
  <1>2. written[p] = 0 \/ Head(jobs[p]).kind = "DATA"
    BY DEF TypeInv, TypeOK, WriterType, WritesFirst
  <1>3. CASE Abandon(p)
    BY <1>1, <1>3 DEF Abandon, Drops, idVars, readerVars, stateVars
  <1>4. CASE RollBackOpen(p)
    <2>1. written' = [written EXCEPT ![p] = 0]
      BY <1>2, <1>4 DEF RollBackOpen, TypeInv, TypeOK, WriterType
    <2> QED  BY <1>1, <1>4, <2>1 DEF RollBackOpen, Drops, readerVars, stateVars
  <1>5. CASE DropReason(p)
    <2>1. written' = [written EXCEPT ![p] = 0]
      BY <1>2, <1>5 DEF DropReason, HasReason, TypeInv, TypeOK, WriterType
    <2> QED  BY <1>1, <1>5, <2>1 DEF DropReason, Drops, idVars, readerVars, stateVars
  <1>6. CASE OpenWritten(p)
    <2>1. JobWritten(p, JobKind \ {"CLOSE"}) /\ Head(jobs[p]).kind = "OPEN"
      BY <1>6 DEF OpenWritten, JobWritten, JobKind
    <2> QED  BY <1>6, <2>1 DEF OpenWritten, Finishes, readerVars, stateVars
  <1>7. CASE DemandWritten(p)
    <2>1. JobWritten(p, JobKind \ {"CLOSE"}) /\ Head(jobs[p]).kind # "OPEN"
      BY <1>7 DEF DemandWritten, JobWritten, JobKind
    <2> QED  BY <1>7, <2>1 DEF DemandWritten, Finishes, idVars, readerVars, stateVars
  <1>8. CASE DataWritten(p)
    <2>1. JobWritten(p, JobKind \ {"CLOSE"}) /\ Head(jobs[p]).kind # "OPEN"
      BY <1>8 DEF DataWritten, JobWritten, JobKind
    <2> QED  BY <1>8, <2>1 DEF DataWritten, Finishes, idVars, readerVars, stateVars
  <1>9. CASE CompleteWritten(p)
    <2>1. JobWritten(p, JobKind \ {"CLOSE"}) /\ Head(jobs[p]).kind # "OPEN"
      BY <1>9 DEF CompleteWritten, JobWritten, JobKind
    <2> QED  BY <1>9, <2>1 DEF CompleteWritten, Finishes, idVars, readerVars, stateVars
  <1>10. CASE EndingWritten(p)
    <2>1. JobWritten(p, JobKind \ {"CLOSE"}) /\ Head(jobs[p]).kind # "OPEN"
      BY <1>10 DEF EndingWritten, JobWritten, JobKind
    <2> QED  BY <1>10, <2>1 DEF EndingWritten, Finishes, idVars, stateVars
  <1>11. CASE Exhaust(p) \/ CloseWritten(p)
    BY <1>11, SessionEnds DEF EndsLane, Exhaust, CloseWritten
  <1> QED  BY <1>3, <1>4, <1>5, <1>6, <1>7, <1>8, <1>9, <1>10, <1>11 DEF Write

LEMMA RefusalKeepsHeads ==
  ASSUME TypeInv, NEW p \in Peer, NEW i \in StreamId, Refuse(p, i)
  PROVE  HeadsKept
  <1>1. PICK fits \in Encodable :
          Queue(p, [Plain("ERROR", i) EXCEPT !.fits = fits, !.reader = TRUE])
    BY DEF Refuse
  <1>2. [Plain("ERROR", i) EXCEPT !.fits = fits, !.reader = TRUE] \in Job
    BY PlainType, JobChanges, CallsAssumption DEF JobKind
  <1> QED  BY <1>1, <1>2, HeadsKeptQueue

LEMMA ReadKinds ==
  ASSUME TypeInv, NEW p \in Peer, Read(p)
  PROVE  Receives(p) \/ EndsLane(p)
  <1>1. CASE ReadLate(p) \/ ReadDemand(p) \/ ReadData(p) \/ StartReassembly(p) \/ ReadFragment(p)
             \/ ReadComplete(p) \/ ReadEnding(p)
    <2>1. /\ Reads(p, {"DATA", "FRAGMENT", "DEMAND", "COMPLETE", "CANCEL", "ERROR"})
          /\ UNCHANGED <<idVars, writerVars, parked, stateVars>>
      BY <1>1 DEF ReadLate, ReadDemand, ReadData, StartReassembly, ReadFragment, ReadComplete,
                  ReadEnding, ReadsLive, Reads
    <2> QED  BY <2>1, HeadsKeptSame, SMTT(30) DEF Receives, Reads, idVars, writerVars, stateVars
  <1>2. CASE RefuseReassembly(p)
    <2>1. Reads(p, {"DATA"}) /\ Refuse(p, Incoming(p).id)
      BY <1>2 DEF RefuseReassembly, ReadsLive
    <2>2. HeadsKept
      BY <2>1, ReadsType, RefusalKeepsHeads
    <2> QED  BY <1>2, <2>1, <2>2 DEF RefuseReassembly, Receives, Reads, idVars, stateVars
  <1>3. CASE TurnsAway(p) \/ Admits(p)
    <2>1. /\ ReadsOpen(p) /\ UNCHANGED <<written, flying, outSeq, nextId, session>>
          /\ Reads(p, {"OPEN"}) /\ Incoming(p).kind = "OPEN"
      BY <1>3 DEF TurnsAway, Admits, RejectOpen, AcceptorThrows, HandleOpen, PendOpen, ReadsOpen,
                  Reads, stateVars
    <2>2. HeadsKept
      <3>1. CASE TurnsAway(p)
        BY <2>1, <3>1, ReadsType, RefusalKeepsHeads DEF TurnsAway, RejectOpen, AcceptorThrows
      <3>2. CASE Admits(p)
        BY <3>2, HeadsKeptSame DEF Admits, HandleOpen, PendOpen
      <3> QED  BY <1>3, <3>1, <3>2
    <2> QED  BY <2>1, <2>2 DEF Receives, Reads, ReadsOpen
  <1>4. CASE ReadIllegal(p) \/ ReadClose(p) \/ CarrierEnds(p)
    <2>1. Ends(p) /\ UNCHANGED outSeq
      BY <1>4, SessionEnds DEF ReadIllegal, ReadClose, CarrierEnds
    <2>2. \/ UNCHANGED <<wire, inSeq>>
          \/ /\ wire[Other(p)] # <<>> /\ wire' = [wire EXCEPT ![Other(p)] = Tail(@)]
             /\ \A q \in Peer \ {p} : inSeq'[q] = inSeq[q]
      BY <1>4 DEF ReadIllegal, ReadClose, CarrierEnds, Reads, CanRead, Consume,
                  TypeInv, TypeOK, ReaderType
    <2> QED  BY <2>1, <2>2 DEF EndsLane
  <1> QED  BY <1>1, <1>2, <1>3, <1>4 DEF Read, TurnsAway, Admits

LEMMA LaneKinds ==
  ASSUME TypeInv, Next
  PROVE  \E p \in Peer : \/ Stays \/ Drops(p) \/ WriteFrame(p) \/ FragmentWritten(p)
                         \/ Finishes(p) \/ Receives(p) \/ EndsLane(p)
  <1>1. PICK p \in Peer : \/ Application(p) \/ Write(p) \/ LaneFails(p) \/ Read(p)
                          \/ \E i \in StreamId : StreamTail(p, i)
    BY DEF Next
  <1>2. CASE Application(p)
    BY <1>2, CallsStay, SessionStays, Zenon DEF Application
  <1>3. CASE LaneFails(p)
    BY <1>3, SessionEnds DEF LaneFails, EndsLane
  <1>4. CASE \E i \in StreamId : StreamTail(p, i)
    BY <1>4, TailStays
  <1> QED  BY <1>1, <1>2, <1>3, <1>4, WriteKinds, ReadKinds

-----------------------------------------------------------------------------
(* Sequences                                                               *)

Begun(p) == flying[p] \/ written[p] > 0
\* The sequences of a job that has begun are within the space.
Room(p) ==
  /\ outSeq[p] <= MaxSequence + 1
  /\ Begun(p) => outSeq[p] + FrameCount(Head(jobs[p])) - 1 - written[p] <= MaxSequence
\* The frames a ready reader has still to read carry the sequences it expects,
\* up to the one its ready peer used last.
InSequence(p) ==
  LET q == Other(p) IN
  Ready(q) =>
    /\ \A k \in DOMAIN wire[p] : wire[p][k].seq = inSeq[q] + k - 1
    /\ Ready(p) => inSeq[q] + Len(wire[p]) = outSeq[p] + IF flying[p] THEN 1 ELSE 0
SeqInv == TypeInv /\ \A p \in Peer : Room(p) /\ InSequence(p)

LEMMA SeqFacts ==
  ASSUME TypeInv, NEW p \in Peer
  PROVE  /\ outSeq[p] \in Nat /\ written[p] \in Nat /\ flying[p] \in BOOLEAN
         /\ inSeq[p] \in Nat /\ wire[p] \in Seq(Frame) /\ MaxSequence \in Nat
         /\ jobs[p] # <<>> => FrameCount(Head(jobs[p])) \in Nat
  <1>1. MaxSequence \in Nat
    BY BoundsAssumption
  <1>2. jobs[p] # <<>> => FrameCount(Head(jobs[p])) \in Nat
    <2>1. \A j \in Job : FrameCount(j) \in Nat
      BY DEF Job, JobOf, FrameCount
    <2> QED  BY <2>1, FirstJob DEF TypeInv, TypeOK
  <1> QED  BY <1>1, <1>2 DEF TypeInv, TypeOK, WriterType, ReaderType

\* The kinds of step, one by one.
LEMMA RoomStays ==
  ASSUME SeqInv, HeadsKept, UNCHANGED <<written, flying, outSeq>>
  PROVE  \A q \in Peer : Room(q)'
  <1> SUFFICES ASSUME NEW q \in Peer PROVE Room(q)'
    OBVIOUS
  <1>1. Room(q) /\ (Begun(q) => jobs[q] # <<>>)
    BY DEF SeqInv, TypeInv, WritesFirst, Begun
  <1>2. Begun(q)' <=> Begun(q)
    BY DEF Begun
  <1>3. Begun(q) => Head(jobs'[q]) = Head(jobs[q])
    BY <1>1 DEF HeadsKept
  <1> QED  BY <1>1, <1>2, <1>3 DEF Room

LEMMA InSequenceStays ==
  ASSUME SeqInv, NoneReadied, UNCHANGED <<flying, outSeq, inSeq, wire>>
  PROVE  \A q \in Peer : InSequence(q)'
  <1> SUFFICES ASSUME NEW q \in Peer PROVE InSequence(q)'
    OBVIOUS
  <1>1. InSequence(q) /\ Other(q) \in Peer
    BY PeerFacts DEF SeqInv
  <1>2. Ready(q)' => Ready(q)
    BY DEF NoneReadied
  <1>3. Ready(Other(q))' => Ready(Other(q))
    BY <1>1 DEF NoneReadied
  <1> QED  BY <1>1, <1>2, <1>3 DEF InSequence, Ready

LEMMA SeqStays ==
  ASSUME SeqInv, Stays
  PROVE  \A q \in Peer : Room(q)' /\ InSequence(q)'
  BY RoomStays, InSequenceStays DEF Stays

LEMMA SeqDrops ==
  ASSUME SeqInv, NEW p \in Peer, Drops(p)
  PROVE  \A q \in Peer : Room(q)' /\ InSequence(q)'
  <1>1. NoneReadied /\ UNCHANGED <<flying, outSeq, inSeq, wire>>
    BY DEF Drops, NoneReadied, Ready
  <1>2. ASSUME NEW q \in Peer PROVE Room(q)'
    <2>1. Room(q) /\ TypeInv
      BY DEF SeqInv
    <2>2. CASE q = p
      <3>1. ~flying[p] /\ written'[p] = 0
        BY <2>1 DEF Drops, CanWrite, TypeInv, TypeOK, WriterType
      <3>2. ~Begun(p)'
        BY <1>1, <3>1 DEF Begun
      <3> QED  BY <1>1, <2>1, <2>2, <3>2 DEF Room
    <2>3. CASE q # p
      <3>1. written'[q] = written[q] /\ jobs'[q] = jobs[q]
        BY <2>1, <2>3 DEF Drops, TypeInv, TypeOK, WriterType
      <3>2. Begun(q)' <=> Begun(q)
        BY <1>1, <3>1 DEF Begun
      <3> QED  BY <1>1, <2>1, <3>1, <3>2 DEF Room
    <2> QED  BY <2>2, <2>3
  <1> QED  BY <1>1, <1>2, InSequenceStays

\* A frame takes the next sequence, and the write ends with the sequence used.
LEMMA SeqWriteFrame ==
  ASSUME SeqInv, NEW p \in Peer, WriteFrame(p)
  PROVE  \A q \in Peer : Room(q)' /\ InSequence(q)'
  <1>1. /\ TypeInv /\ Room(p) /\ CanWrite(p) /\ ~Exhausted(p)
        /\ UNCHANGED <<jobs, written, outSeq, inSeq, session>>
        /\ flying' = [flying EXCEPT ![p] = TRUE] /\ ~flying[p]
    BY DEF SeqInv, WriteFrame, CanWrite, stateVars
  <1> DEFINE j == Head(jobs[p])
             f == [kind |-> IF written[p] > 0 THEN "FRAGMENT" ELSE j.kind, id |-> j.id,
                   seq |-> outSeq[p], amount |-> j.amount, item |-> j.item,
                   size |-> j.size, part |-> written[p] + 1]
  <1>2. f.seq = outSeq[p] /\ wire' = [wire EXCEPT ![p] = Append(@, f)]
    BY DEF WriteFrame
  <1> HIDE DEF f, j
  <1>3. flying'[p] = TRUE /\ \A q \in Peer \ {p} : flying'[q] = flying[q]
    BY <1>1 DEF TypeInv, TypeOK, WriterType
  <1>4. wire'[p] = Append(wire[p], f) /\ \A q \in Peer \ {p} : wire'[q] = wire[q]
    BY <1>1, <1>2 DEF TypeInv, TypeOK, ReaderType
  <1>5. /\ outSeq[p] \in Nat /\ written[p] \in Nat /\ MaxSequence \in Nat
        /\ FrameCount(Head(jobs[p])) \in Nat /\ wire[p] \in Seq(Frame)
    BY <1>1, SeqFacts DEF CanWrite
  <1>6. ASSUME NEW q \in Peer PROVE Room(q)'
    <2>1. CASE q = p
      <3>1. outSeq[p] + FrameCount(Head(jobs[p])) - 1 - written[p] <= MaxSequence
        <4>1. CASE written[p] = 0
          BY <1>1, <1>5, <4>1 DEF Exhausted
        <4>2. CASE written[p] > 0
          BY <1>1, <4>2 DEF Room, Begun
        <4> QED  BY <1>5, <4>1, <4>2
      <3> QED  BY <1>1, <2>1, <3>1 DEF Room
    <2>2. CASE q # p
      <3>1. Room(q) /\ (Begun(q)' <=> Begun(q))
        BY <1>1, <1>3, <2>2 DEF SeqInv, Begun
      <3> QED  BY <1>1, <3>1 DEF Room
    <2> QED  BY <2>1, <2>2
  <1>7. ASSUME NEW q \in Peer PROVE InSequence(q)'
    <2>1. InSequence(q) /\ inSeq[Other(q)] \in Nat /\ Other(q) \in Peer
      BY <1>1, PeerFacts, SeqFacts DEF SeqInv
    <2>2. CASE q # p
      BY <1>1, <1>3, <1>4, <2>1, <2>2 DEF InSequence, Ready
    <2>3. CASE q = p
      <3> SUFFICES ASSUME Ready(Other(p))
                   PROVE  /\ \A k \in DOMAIN wire'[p] : wire'[p][k].seq = inSeq[Other(p)] + k - 1
                          /\ inSeq[Other(p)] + Len(wire'[p]) = outSeq[p] + 1
        BY <1>1, <1>3, <2>1, <2>3 DEF InSequence, Ready
      <3>1. /\ \A k \in DOMAIN wire[p] : wire[p][k].seq = inSeq[Other(p)] + k - 1
            /\ inSeq[Other(p)] + Len(wire[p]) = outSeq[p]
        BY <1>1, <1>5, <2>1, <2>3 DEF InSequence, CanWrite
      <3> DEFINE w == Append(wire[p], f)
      <3>2. /\ Len(w) = Len(wire[p]) + 1 /\ Len(wire[p]) \in Nat /\ DOMAIN w = 1..Len(wire[p]) + 1
            /\ \A k \in 1..Len(wire[p]) : w[k] = wire[p][k]
            /\ w[Len(wire[p]) + 1] = f /\ DOMAIN wire[p] = 1..Len(wire[p])
        BY <1>5
      <3>3. wire'[p] = w
        BY <1>4
      <3> HIDE DEF w
      <3>4. inSeq[Other(p)] \in Nat
        BY <2>1, <2>3
      <3>5. \A k \in DOMAIN w : w[k].seq = inSeq[Other(p)] + k - 1
        <4> SUFFICES ASSUME NEW k \in DOMAIN w PROVE w[k].seq = inSeq[Other(p)] + k - 1
          OBVIOUS
        <4>1. CASE k \in 1..Len(wire[p])
          BY <3>1, <3>2, <4>1
        <4>2. CASE k = Len(wire[p]) + 1
          BY <1>2, <1>5, <3>1, <3>2, <3>4, <4>2
        <4> QED  BY <3>2, <4>1, <4>2
      <3>6. inSeq[Other(p)] + Len(w) = outSeq[p] + 1
        BY <1>5, <3>1, <3>2, <3>4
      <3> QED  BY <3>3, <3>5, <3>6, Zenon
    <2> QED  BY <2>2, <2>3
  <1> QED  BY <1>6, <1>7

\* A write that resolves, of a frame that is the last of its job or not.
LEMMA SeqAdvances ==
  ASSUME SeqInv, NEW p \in Peer, flying[p],
         outSeq' = [outSeq EXCEPT ![p] = @ + 1], flying' = [flying EXCEPT ![p] = FALSE],
         \A q \in Peer \ {p} : jobs'[q] = jobs[q] /\ written'[q] = written[q],
         UNCHANGED <<inSeq, wire, session>>,
         \/ jobs'[p] = jobs[p] /\ written'[p] = written[p] + 1
            /\ written[p] + 1 < FrameCount(Head(jobs[p]))
         \/ written'[p] = 0 /\ written[p] + 1 = FrameCount(Head(jobs[p]))
  PROVE  \A q \in Peer : Room(q)' /\ InSequence(q)'
  <1>1. TypeInv /\ Room(p)
    BY DEF SeqInv
  <1>2. /\ outSeq'[p] = outSeq[p] + 1 /\ \A q \in Peer \ {p} : outSeq'[q] = outSeq[q]
        /\ flying'[p] = FALSE /\ \A q \in Peer \ {p} : flying'[q] = flying[q]
    BY <1>1 DEF TypeInv, TypeOK, WriterType
  <1>3. /\ outSeq[p] \in Nat /\ written[p] \in Nat /\ MaxSequence \in Nat
        /\ FrameCount(Head(jobs[p])) \in Nat
    BY <1>1, SeqFacts DEF TypeInv, WritesFirst
  <1>4. outSeq[p] + FrameCount(Head(jobs[p])) - 1 - written[p] <= MaxSequence
    BY <1>1 DEF Room, Begun
  <1>5. ASSUME NEW q \in Peer PROVE Room(q)'
    <2>1. CASE q = p
      <3>1. outSeq'[p] <= MaxSequence + 1
        BY <1>2, <1>3, <1>4
      <3>2. CASE jobs'[p] = jobs[p] /\ written'[p] = written[p] + 1
        BY <1>2, <1>3, <1>4, <2>1, <3>1, <3>2 DEF Room
      <3>3. CASE written'[p] = 0
        <4>1. ~Begun(p)'
          BY <1>2, <3>3 DEF Begun
        <4> QED  BY <2>1, <3>1, <4>1 DEF Room
      <3> QED  BY <3>2, <3>3
    <2>2. CASE q # p
      <3>1. Room(q) /\ (Begun(q)' <=> Begun(q))
        BY <1>2, <2>2 DEF SeqInv, Begun
      <3> QED  BY <1>2, <2>2, <3>1 DEF Room
    <2> QED  BY <2>1, <2>2
  <1>6. ASSUME NEW q \in Peer PROVE InSequence(q)'
    <2>1. InSequence(q)
      BY DEF SeqInv
    <2>2. outSeq'[q] + (IF flying'[q] THEN 1 ELSE 0) = outSeq[q] + (IF flying[q] THEN 1 ELSE 0)
      BY <1>2, <1>3
    <2> QED  BY <2>1, <2>2 DEF InSequence, Ready
  <1> QED  BY <1>5, <1>6

LEMMA SeqFragmentWritten ==
  ASSUME SeqInv, NEW p \in Peer, FragmentWritten(p)
  PROVE  \A q \in Peer : Room(q)' /\ InSequence(q)'
  <1>1. /\ jobs' = jobs /\ written'[p] = written[p] + 1
        /\ \A q \in Peer \ {p} : written'[q] = written[q]
    BY DEF FragmentWritten, SeqInv, TypeInv, TypeOK, WriterType
  <1> QED  BY <1>1, SeqAdvances DEF FragmentWritten, readerVars, stateVars

LEMMA SeqFinishes ==
  ASSUME SeqInv, NEW p \in Peer, Finishes(p)
  PROVE  \A q \in Peer : Room(q)' /\ InSequence(q)'
  <1>1. /\ written'[p] = 0
        /\ \A q \in Peer \ {p} : written'[q] = written[q] /\ jobs'[q] = jobs[q]
    BY DEF Finishes, JobDone, SeqInv, TypeInv, TypeOK, WriterType
  <1> QED  BY <1>1, SeqAdvances DEF Finishes, JobDone, JobWritten

\* What a sequence is after its first element.
LEMMA TailElements ==
  ASSUME NEW S, NEW w \in Seq(S), w # <<>>
  PROVE  /\ Len(w) \in Nat \ {0} /\ Len(Tail(w)) = Len(w) - 1 /\ Tail(w) \in Seq(S)
         /\ \A k \in DOMAIN Tail(w) :
              k \in Nat \ {0} /\ k + 1 \in DOMAIN w /\ Tail(w)[k] = w[k + 1]
         /\ 1 \in DOMAIN w /\ w[1] = Head(w)
         /\ \A k \in DOMAIN w \ {1} : k - 1 \in DOMAIN Tail(w) /\ Tail(w)[k - 1] = w[k]
  <1>1. Len(w) \in Nat \ {0}
    BY EmptySeq
  <1> QED  BY <1>1

LEMMA SeqReceives ==
  ASSUME SeqInv, NEW p \in Peer, Receives(p)
  PROVE  \A q \in Peer : Room(q)' /\ InSequence(q)'
  <1> DEFINE o == Other(p)
  <1>1. /\ TypeInv /\ o \in Peer /\ o # p /\ Other(o) = p /\ UNCHANGED session
        /\ \A q \in Peer : Other(q) = p => q = o
    BY PeerFacts DEF SeqInv, Peer, Other, Receives
  <1>2. /\ wire[o] # <<>> /\ wire' = [wire EXCEPT ![o] = Tail(@)]
        /\ inSeq' = [inSeq EXCEPT ![p] = @ + 1] /\ UNCHANGED <<flying, outSeq, written>>
    BY DEF Receives, CanRead, Consume
  <1>3. /\ wire'[o] = Tail(wire[o]) /\ \A q \in Peer \ {o} : wire'[q] = wire[q]
        /\ inSeq'[p] = inSeq[p] + 1 /\ \A q \in Peer \ {p} : inSeq'[q] = inSeq[q]
    BY <1>1, <1>2 DEF TypeInv, TypeOK, ReaderType
  <1>4. ASSUME NEW q \in Peer PROVE InSequence(q)'
    <2>1. InSequence(q) /\ Other(q) \in Peer
      BY PeerFacts DEF SeqInv
    <2>2. CASE q # o
      <3>1. wire'[q] = wire[q] /\ inSeq'[Other(q)] = inSeq[Other(q)]
        BY <1>1, <1>3, <2>1, <2>2
      <3> QED  BY <1>1, <1>2, <2>1, <3>1 DEF InSequence, Ready
    <2>3. CASE q = o
      <3> DEFINE w == wire[o]
                 v == Tail(w)
      <3>1. /\ Len(w) \in Nat \ {0} /\ Len(v) = Len(w) - 1
            /\ \A k \in DOMAIN v : k \in Nat \ {0} /\ k + 1 \in DOMAIN w /\ v[k] = w[k + 1]
        BY <1>1, <1>2, TailElements DEF TypeInv, TypeOK, ReaderType
      <3>2. inSeq[p] \in Nat /\ outSeq[o] \in Nat
        BY <1>1, SeqFacts
      <3> HIDE DEF w, v
      <3>3. Ready(p) => \A k \in DOMAIN v : v[k].seq = inSeq[p] + 1 + k - 1
        BY <1>1, <2>1, <2>3, <3>1, <3>2, SMTT(30) DEF InSequence, w
      <3>4. Ready(p) /\ Ready(o) => inSeq[p] + 1 + Len(v) = outSeq[o] + IF flying[o] THEN 1 ELSE 0
        <4> DEFINE last == outSeq[o] + IF flying[o] THEN 1 ELSE 0
        <4>1. Ready(p) /\ Ready(o) => inSeq[p] + Len(w) = last
          BY <1>1, <2>1, <2>3 DEF InSequence, w
        <4>2. inSeq[p] + 1 + Len(v) = inSeq[p] + Len(w)
          BY <3>1, <3>2
        <4> HIDE DEF last
        <4>3. Ready(p) /\ Ready(o) => inSeq[p] + 1 + Len(v) = last
          BY <4>1, <4>2
        <4> QED  BY <4>3 DEF last
      <3>5. wire'[o] = v /\ (Ready(p)' <=> Ready(p)) /\ (Ready(o)' <=> Ready(o))
        BY <1>1, <1>3 DEF v, w, Ready
      <3>6. InSequence(o)'
        BY <1>1, <1>2, <1>3, <3>3, <3>4, <3>5 DEF InSequence
      <3> QED  BY <2>3, <3>6
    <2> QED  BY <2>2, <2>3
  <1> QED  BY <1>2, <1>4, RoomStays DEF Receives

LEMMA SeqEnds ==
  ASSUME SeqInv, NEW p \in Peer, EndsLane(p)
  PROVE  \A q \in Peer : Room(q)' /\ InSequence(q)'
  <1> DEFINE o == Other(p)
  <1>1. PICK state \in {"closed", "detached"}, why \in {"none", "lost", "violation", "exhausted"} :
          Over(p, state, why)
    BY DEF EndsLane, Ends
  <1>2. /\ TypeInv /\ o \in Peer /\ o # p /\ Other(o) = p
        /\ \A q \in Peer : q = p \/ q = o
    BY PeerFacts DEF SeqInv, Peer, Other
  <1>3. /\ ~Ready(p)' /\ flying'[p] = FALSE /\ written'[p] = 0
        /\ \A q \in Peer \ {p} : /\ flying'[q] = flying[q] /\ written'[q] = written[q]
                                 /\ session'[q] = session[q] /\ jobs'[q] = jobs[q]
    BY <1>1, <1>2 DEF Over, Ready, TypeInv, TypeOK, WriterType, StateType
  <1>4. outSeq'[p] <= MaxSequence + 1 /\ \A q \in Peer \ {p} : outSeq'[q] = outSeq[q]
    <2>1. Room(p) /\ outSeq[p] \in Nat /\ MaxSequence \in Nat /\ written[p] \in Nat
      BY <1>2, SeqFacts DEF SeqInv
    <2>2. CASE UNCHANGED outSeq
      BY <2>1, <2>2 DEF Room
    <2>3. CASE JobWritten(p, {"CLOSE"}) /\ outSeq' = [outSeq EXCEPT ![p] = @ + 1]
      <3>1. Begun(p) /\ written[p] + 1 = FrameCount(Head(jobs[p]))
        BY <2>3 DEF JobWritten, Begun
      <3>2. outSeq[p] <= MaxSequence
        BY <2>1, <3>1 DEF Room
      <3>3. outSeq'[p] = outSeq[p] + 1 /\ \A q \in Peer \ {p} : outSeq'[q] = outSeq[q]
        BY <1>2, <2>3 DEF TypeInv, TypeOK, WriterType
      <3> QED  BY <2>1, <3>2, <3>3
    <2> QED  BY <2>2, <2>3 DEF EndsLane
  <1>5. Room(p)'
    BY <1>3, <1>4 DEF Room, Begun
  <1>6. Room(o)'
    <2>1. Room(o) /\ (Begun(o)' <=> Begun(o))
      BY <1>2, <1>3 DEF SeqInv, Begun
    <2> QED  BY <1>2, <1>3, <1>4, <2>1 DEF Room
  <1>7. InSequence(o)'
    BY <1>2, <1>3 DEF InSequence
  <1>8. InSequence(p)'
    <2>1. InSequence(p)
      BY DEF SeqInv
    <2>2. wire'[p] = wire[p] /\ inSeq'[o] = inSeq[o]
      BY <1>2 DEF EndsLane, TypeInv, TypeOK, ReaderType
    <2>3. Ready(o)' <=> Ready(o)
      BY <1>2, <1>3 DEF Ready
    <2> QED  BY <1>3, <2>1, <2>2, <2>3 DEF InSequence
  <1> QED  BY <1>2, <1>5, <1>6, <1>7, <1>8

LEMMA InitSeq == Init => SeqInv
  <1> SUFFICES ASSUME Init PROVE SeqInv
    OBVIOUS
  <1>1. MaxSequence \in Nat \ {0}
    BY BoundsAssumption
  <1>2. TypeInv
    BY InitType
  <1>3. ASSUME NEW p \in Peer PROVE Room(p) /\ InSequence(p)
    <2>1. /\ outSeq[p] = 2 /\ flying[p] = FALSE /\ written[p] = 0 /\ wire[p] = <<>>
          /\ inSeq[Other(p)] = 2
      BY PeerFacts DEF Init
    <2> QED  BY <1>1, <2>1 DEF Room, Begun, InSequence
  <1> QED  BY <1>2, <1>3 DEF SeqInv

LEMMA NextSeq ==
  ASSUME SeqInv, [Next]_vars
  PROVE  SeqInv'
  <1>1. TypeInv /\ TypeInv'
    BY NextType DEF SeqInv
  <1>2. \A q \in Peer : Room(q)' /\ InSequence(q)'
    <2>1. CASE Next
      BY <1>1, <2>1, LaneKinds, SeqStays, SeqDrops, SeqWriteFrame, SeqFragmentWritten,
         SeqFinishes, SeqReceives, SeqEnds
    <2>2. CASE UNCHANGED vars
      <3>1. HeadsKept /\ NoneReadied /\ UNCHANGED <<written, flying, outSeq, inSeq, wire>>
        BY <2>2 DEF vars, writerVars, readerVars, stateVars, HeadsKept, NoneReadied, Ready
      <3> QED  BY <3>1, RoomStays, InSequenceStays
    <2> QED  BY <2>1, <2>2
  <1> QED  BY <1>1, <1>2 DEF SeqInv

\* The frames between two ready peers carry consecutive sequences, from the one the
\* reader expects to the one the writer used last, and the sequence space is never
\* left: writeFrame asks for room for the whole job, and a write that waits, an
\* abandoned item or a rolled back OPEN takes no sequence.
THEOREM SequenceNeverBreaks == Spec => []SequenceUnbroken
  <1>1. SeqInv => SequenceUnbroken
    BY PeerFacts DEF SeqInv, SequenceUnbroken, BothReady, Room, InSequence
  <1> QED  BY <1>1, InitSeq, NextSeq, PTL DEF Spec

-----------------------------------------------------------------------------
(* Frontiers                                                               *)

\* The OPEN is with the lane, and the code after the await has not run.
OpenBegun(p) == flying[p] /\ Head(jobs[p]).kind = "OPEN"
\* The next id of p, the OPENs on their way and the id the other peer expects.
Frontier(p) ==
  Ready(p) /\ Ready(Other(p)) =>
    nextId[p] + (IF OpenBegun(p) THEN 2 ELSE 0)
      = ExpectedId(Other(p)) + 2 * Cardinality(OpenAt(wire[p]))
FrontierInv == TypeInv /\ \A p \in Peer : Frontier(p)

\* A set of places keeps its size when a sequence loses its first element.
LEMMA ShiftedPlaces ==
  ASSUME NEW A \in SUBSET Int, IsFiniteSet(A)
  PROVE  LET B == {k - 1 : k \in A}
         IN IsFiniteSet(B) /\ Cardinality(B) = Cardinality(A)
  <1> DEFINE B == {k - 1 : k \in A}
             f == [k \in A |-> k - 1]
  <1>1. f \in Bijection(A, B)
    <2>1. f \in [A -> B] /\ \A k, m \in A : f[k] = f[m] => k = m
      OBVIOUS
    <2>2. \A b \in B : \E k \in A : f[k] = b
      OBVIOUS
    <2> HIDE DEF f, B
    <2> QED  BY <2>1, <2>2 DEF Bijection, Injection, IsInjective, Surjection
  <1>2. ExistsBijection(A, B)
    BY <1>1 DEF ExistsBijection
  <1> QED  BY <1>2, FS_Bijection

LEMMA OpensFinite ==
  ASSUME NEW w \in Seq(Frame)
  PROVE  IsFiniteSet(OpenAt(w)) /\ Cardinality(OpenAt(w)) \in Nat
  <1>1. IsFiniteSet(1..Len(w)) /\ OpenAt(w) \in SUBSET (1..Len(w))
    BY FS_Interval DEF OpenAt
  <1> QED  BY <1>1, FS_Subset, FS_CardinalityType

LEMMA OpensWritten ==
  ASSUME NEW w \in Seq(Frame), NEW f
  PROVE  Cardinality(OpenAt(Append(w, f)))
           = Cardinality(OpenAt(w)) + IF f.kind = "OPEN" THEN 1 ELSE 0
  <1>1. /\ Len(w) \in Nat /\ DOMAIN Append(w, f) = 1..Len(w) + 1 /\ DOMAIN w = 1..Len(w)
        /\ \A k \in 1..Len(w) : Append(w, f)[k] = w[k]
        /\ Append(w, f)[Len(w) + 1] = f
    OBVIOUS
  <1>2. Len(w) + 1 \notin OpenAt(w)
    BY <1>1 DEF OpenAt
  <1>3. CASE f.kind = "OPEN"
    <2>1. OpenAt(Append(w, f)) = OpenAt(w) \cup {Len(w) + 1}
      BY <1>1, <1>3 DEF OpenAt
    <2> QED  BY <1>2, <1>3, <2>1, OpensFinite, FS_AddElement
  <1>4. CASE f.kind # "OPEN"
    <2>1. OpenAt(Append(w, f)) = OpenAt(w)
      BY <1>1, <1>4 DEF OpenAt
    <2> QED  BY <1>4, <2>1, OpensFinite
  <1> QED  BY <1>3, <1>4

LEMMA OpensRead ==
  ASSUME NEW w \in Seq(Frame), w # <<>>
  PROVE  Cardinality(OpenAt(w))
           = Cardinality(OpenAt(Tail(w))) + IF Head(w).kind = "OPEN" THEN 1 ELSE 0
  <1>1. /\ \A k \in DOMAIN Tail(w) : k \in Nat \ {0} /\ k + 1 \in DOMAIN w /\ Tail(w)[k] = w[k + 1]
        /\ 1 \in DOMAIN w /\ w[1] = Head(w) /\ Tail(w) \in Seq(Frame)
        /\ \A k \in DOMAIN w \ {1} : k - 1 \in DOMAIN Tail(w) /\ Tail(w)[k - 1] = w[k]
    BY TailElements
  <1> DEFINE A == OpenAt(w) \ {1}
  <1>2. OpenAt(w) \in SUBSET Int
    BY DEF OpenAt
  <1>3. OpenAt(Tail(w)) = {k - 1 : k \in A}
    <2>1. \A k \in OpenAt(Tail(w)) : k + 1 \in A /\ (k + 1) - 1 = k
      BY <1>1 DEF OpenAt
    <2>2. \A k \in A : k - 1 \in OpenAt(Tail(w))
      BY <1>1 DEF OpenAt
    <2> QED  BY <2>1, <2>2
  <1>4. IsFiniteSet(OpenAt(w)) /\ Cardinality(OpenAt(w)) \in Nat
    BY OpensFinite
  <1>5. /\ IsFiniteSet(A)
        /\ Cardinality(A) = IF 1 \in OpenAt(w) THEN Cardinality(OpenAt(w)) - 1
                                               ELSE Cardinality(OpenAt(w))
    BY <1>4, FS_RemoveElement
  <1>6. Cardinality(OpenAt(Tail(w))) = Cardinality(A)
    BY <1>2, <1>3, <1>5, ShiftedPlaces
  <1>7. 1 \in OpenAt(w) <=> Head(w).kind = "OPEN"
    BY <1>1 DEF OpenAt
  <1> QED  BY <1>4, <1>5, <1>6, <1>7

\* A step that leaves the ids, the lane and what is flying alone.
LEMMA FrontierStays ==
  ASSUME FrontierInv, NoneReadied, UNCHANGED <<nextId, highestRemote, wire>>,
         \A q \in Peer : OpenBegun(q)' <=> OpenBegun(q)
  PROVE  \A q \in Peer : Frontier(q)'
  <1> SUFFICES ASSUME NEW q \in Peer PROVE Frontier(q)'
    OBVIOUS
  <1>1. Frontier(q) /\ Other(q) \in Peer
    BY PeerFacts DEF FrontierInv
  <1>2. (Ready(q)' => Ready(q)) /\ (Ready(Other(q))' => Ready(Other(q)))
    BY <1>1 DEF NoneReadied
  <1>3. ExpectedId(Other(q))' = ExpectedId(Other(q))
    BY DEF ExpectedId
  <1> QED  BY <1>1, <1>2, <1>3 DEF Frontier

LEMMA BegunKept ==
  ASSUME TypeInv, HeadsKept, UNCHANGED flying
  PROVE  \A q \in Peer : OpenBegun(q)' <=> OpenBegun(q)
  BY DEF TypeInv, WritesFirst, HeadsKept, OpenBegun

LEMMA NumbersOf ==
  ASSUME TypeInv, NEW p \in Peer
  PROVE  nextId[p] \in Nat /\ ExpectedId(p) \in Nat /\ wire[p] \in Seq(Frame)
  BY DEF TypeInv, TypeOK, IdType, ReaderType, ExpectedId

LEMMA FrontierWriteFrame ==
  ASSUME FrontierInv, NEW p \in Peer, WriteFrame(p)
  PROVE  \A q \in Peer : Frontier(q)'
  <1> DEFINE j == Head(jobs[p])
             f == [kind |-> IF written[p] > 0 THEN "FRAGMENT" ELSE j.kind, id |-> j.id,
                   seq |-> outSeq[p], amount |-> j.amount, item |-> j.item,
                   size |-> j.size, part |-> written[p] + 1]
  <1>1. wire' = [wire EXCEPT ![p] = Append(@, f)]
    BY DEF WriteFrame
  <1>2. /\ TypeInv /\ ~flying[p] /\ flying' = [flying EXCEPT ![p] = TRUE]
        /\ UNCHANGED <<jobs, nextId, highestRemote, session>>
    BY DEF FrontierInv, WriteFrame, CanWrite, idVars, stateVars
  <1>3. f.kind = "OPEN" <=> Head(jobs[p]).kind = "OPEN"
    BY <1>2 DEF TypeInv, TypeOK, WriterType, WritesFirst
  <1> HIDE DEF f, j
  <1>4. /\ wire'[p] = Append(wire[p], f) /\ \A q \in Peer \ {p} : wire'[q] = wire[q]
        /\ flying'[p] = TRUE /\ \A q \in Peer \ {p} : flying'[q] = flying[q]
    BY <1>1, <1>2 DEF TypeInv, TypeOK, ReaderType, WriterType
  <1>5. ASSUME NEW q \in Peer PROVE Frontier(q)'
    <2>1. Frontier(q) /\ Other(q) \in Peer /\ ExpectedId(Other(q))' = ExpectedId(Other(q))
      BY <1>2, PeerFacts DEF FrontierInv, ExpectedId
    <2>2. CASE q # p
      <3>1. OpenBegun(q)' <=> OpenBegun(q)
        BY <1>2, <1>4, <2>2 DEF OpenBegun
      <3> QED  BY <1>2, <1>4, <2>1, <2>2, <3>1 DEF Frontier, Ready
    <2>3. CASE q = p
      <3> DEFINE n == Cardinality(OpenAt(wire[p]))
                 e == ExpectedId(Other(p))
      <3>1. /\ ~OpenBegun(p) /\ (OpenBegun(p)' <=> Head(jobs[p]).kind = "OPEN")
            /\ nextId'[p] = nextId[p] /\ (Ready(p)' <=> Ready(p))
            /\ (Ready(Other(p))' <=> Ready(Other(p)))
        BY <1>2, <1>4 DEF OpenBegun, Ready
      <3>2. nextId[p] \in Nat /\ e \in Nat /\ n \in Nat
        BY <1>2, <2>1, <2>3, NumbersOf, OpensFinite
      <3>3. Cardinality(OpenAt(wire[p]))' = n + IF Head(jobs[p]).kind = "OPEN" THEN 1 ELSE 0
        <4>1. wire[p] \in Seq(Frame)
          BY <1>2, NumbersOf
        <4>2. Cardinality(OpenAt(Append(wire[p], f))) = n + IF f.kind = "OPEN" THEN 1 ELSE 0
          BY <4>1, OpensWritten
        <4> QED  BY <1>3, <1>4, <4>2
      <3>4. Ready(p) /\ Ready(Other(p)) => nextId[p] = e + 2 * n
        BY <2>1, <2>3, <3>1, <3>2 DEF Frontier
      <3>5. ExpectedId(Other(p))' = e
        BY <2>1, <2>3
      <3> HIDE DEF e, n
      <3>6. CASE Head(jobs[p]).kind = "OPEN"
        <4>1. Ready(p) /\ Ready(Other(p)) => nextId[p] + 2 = e + 2 * (n + 1)
          BY <3>2, <3>4
        <4> QED  BY <2>3, <3>1, <3>3, <3>5, <3>6, <4>1 DEF Frontier
      <3>7. CASE Head(jobs[p]).kind # "OPEN"
        <4>1. Ready(p) /\ Ready(Other(p)) => nextId[p] + 0 = e + 2 * (n + 0)
          BY <3>2, <3>4
        <4> QED  BY <2>3, <3>1, <3>3, <3>5, <3>7, <4>1 DEF Frontier
      <3> QED  BY <3>6, <3>7
    <2> QED  BY <2>2, <2>3
  <1> QED  BY <1>5

LEMMA FrontierFinishes ==
  ASSUME FrontierInv, NEW p \in Peer, Finishes(p)
  PROVE  \A q \in Peer : Frontier(q)'
  <1>1. /\ TypeInv /\ flying[p] /\ UNCHANGED <<highestRemote, wire, session>>
        /\ flying'[p] = FALSE /\ \A q \in Peer \ {p} : /\ flying'[q] = flying[q]
                                                       /\ jobs'[q] = jobs[q]
    BY DEF FrontierInv, Finishes, JobWritten, JobDone, TypeInv, TypeOK, WriterType
  <1>2. /\ nextId'[p] = nextId[p] + (IF OpenBegun(p) THEN 2 ELSE 0)
        /\ \A q \in Peer \ {p} : nextId'[q] = nextId[q]
    BY <1>1 DEF Finishes, OpenBegun, TypeInv, TypeOK, IdType
  <1>3. ASSUME NEW q \in Peer PROVE Frontier(q)'
    <2>1. Frontier(q) /\ ExpectedId(Other(q))' = ExpectedId(Other(q))
      BY <1>1 DEF FrontierInv, ExpectedId
    <2>2. nextId[q] \in Nat
      BY <1>1, NumbersOf
    <2>3. nextId'[q] + (IF OpenBegun(q)' THEN 2 ELSE 0) = nextId[q] + (IF OpenBegun(q) THEN 2 ELSE 0)
      <3>1. CASE q # p
        BY <1>1, <1>2, <3>1 DEF OpenBegun
      <3>2. CASE q = p
        BY <1>1, <1>2, <2>2, <3>2 DEF OpenBegun
      <3> QED  BY <3>1, <3>2
    <2> QED  BY <1>1, <2>1, <2>3 DEF Frontier, Ready
  <1> QED  BY <1>3

LEMMA FrontierReceives ==
  ASSUME FrontierInv, NEW p \in Peer, Receives(p)
  PROVE  \A q \in Peer : Frontier(q)'
  <1> DEFINE o == Other(p)
             f == Incoming(p)
             d == IF f.kind = "OPEN" THEN 1 ELSE 0
  <1>1. /\ TypeInv /\ o \in Peer /\ o # p /\ Other(o) = p
        /\ UNCHANGED <<flying, nextId, session>> /\ HeadsKept
        /\ \A q \in Peer : q = p \/ q = o
    BY PeerFacts DEF FrontierInv, Peer, Other, Receives
  <1>2. wire[o] # <<>> /\ f = Head(wire[o]) /\ wire' = [wire EXCEPT ![o] = Tail(@)]
    BY DEF Receives, CanRead, Consume, Incoming
  <1>3. wire'[o] = Tail(wire[o]) /\ wire'[p] = wire[p]
    BY <1>1, <1>2 DEF TypeInv, TypeOK, ReaderType
  <1>4. highestRemote'[o] = highestRemote[o] /\ ExpectedId(o)' = ExpectedId(o)
    BY <1>1 DEF Receives, TypeInv, TypeOK, IdType, ExpectedId
  <1>5. ExpectedId(p)' = ExpectedId(p) + 2 * d
    <2>1. CASE f.kind = "OPEN"
      <3>1. f.id = ExpectedId(p)
        BY <2>1 DEF Receives, Illegal
      <3>2. f.id \in StreamId
        BY <1>1, <1>2, <2>1, FirstFrame DEF TypeInv, TypeOK, ReaderType
      <3>3. highestRemote'[p] = f.id
        BY <1>1, <2>1 DEF Receives, TypeInv, TypeOK, IdType
      <3>4. f.id \in Nat /\ f.id # 0
        BY <3>2 DEF StreamId
      <3>5. ExpectedId(p)' = f.id + 2
        BY <3>3, <3>4 DEF ExpectedId
      <3> QED  BY <2>1, <3>1, <3>4, <3>5
    <2>2. CASE f.kind # "OPEN"
      <3>1. ExpectedId(p)' = ExpectedId(p)
        BY <2>2 DEF Receives, ExpectedId
      <3> QED  BY <1>1, <2>2, <3>1, NumbersOf
    <2> QED  BY <2>1, <2>2
  <1>6. Cardinality(OpenAt(wire[o])) = Cardinality(OpenAt(Tail(wire[o]))) + d
    BY <1>1, <1>2, NumbersOf, OpensRead
  <1>7. OpenBegun(o)' <=> OpenBegun(o)
    BY <1>1, BegunKept
  <1>8. OpenBegun(p)' <=> OpenBegun(p)
    BY <1>1, BegunKept
  <1>9. Frontier(p)'
    <2>1. Frontier(p)
      BY DEF FrontierInv
    <2> QED  BY <1>1, <1>3, <1>4, <1>8, <2>1 DEF Frontier, Ready
  <1>10. Frontier(o)'
    <2> DEFINE n == Cardinality(OpenAt(wire[o]))
               m == Cardinality(OpenAt(Tail(wire[o])))
               e == ExpectedId(p)
    <2>1. Ready(p) /\ Ready(o) => nextId[o] + (IF OpenBegun(o) THEN 2 ELSE 0) = e + 2 * n
      BY <1>1 DEF FrontierInv, Frontier
    <2>2. n \in Nat /\ m \in Nat /\ e \in Nat /\ d \in Nat
      <3>1. wire[o] \in Seq(Frame) /\ e \in Nat
        BY <1>1, NumbersOf
      <3>2. Tail(wire[o]) \in Seq(Frame)
        BY <1>2, <3>1
      <3> QED  BY <3>1, <3>2, OpensFinite
    <2>3. e + 2 * n = (e + 2 * d) + 2 * m
      BY <1>6, <2>2
    <2>4. Cardinality(OpenAt(wire[o]))' = m
      BY <1>3
    <2> HIDE DEF n, m, e, d
    <2>5. ExpectedId(p)' = e + 2 * d
      BY <1>5 DEF e
    <2>6. (Ready(p)' <=> Ready(p)) /\ (Ready(o)' <=> Ready(o)) /\ nextId'[o] = nextId[o]
      BY <1>1 DEF Ready
    <2> QED  BY <1>1, <1>7, <2>1, <2>3, <2>4, <2>5, <2>6 DEF Frontier
  <1> QED  BY <1>1, <1>9, <1>10

LEMMA FrontierEnds ==
  ASSUME FrontierInv, NEW p \in Peer, EndsLane(p)
  PROVE  \A q \in Peer : Frontier(q)'
  <1>1. PICK state \in {"closed", "detached"}, why \in {"none", "lost", "violation", "exhausted"} :
          Over(p, state, why)
    BY DEF EndsLane, Ends
  <1>2. ~Ready(p)'
    BY <1>1 DEF Over, Ready, FrontierInv, TypeInv, TypeOK, StateType
  <1>3. \A q \in Peer : q = p \/ Other(q) = p
    BY DEF Peer, Other
  <1> QED  BY <1>2, <1>3 DEF Frontier

LEMMA InitFrontiers == Init => FrontierInv
  <1> SUFFICES ASSUME Init PROVE FrontierInv
    OBVIOUS
  <1>1. ASSUME NEW p \in Peer PROVE Frontier(p)
    <2>1. flying[p] = FALSE /\ wire[p] = <<>> /\ Other(p) \in Peer /\ highestRemote[Other(p)] = 0
      BY PeerFacts DEF Init
    <2>2. nextId[p] = ExpectedId(Other(p)) /\ nextId[p] \in Nat
      BY <2>1 DEF Init, ExpectedId, Peer, Other
    <2>3. OpenAt(wire[p]) = {}
      BY <2>1 DEF OpenAt
    <2>4. Cardinality(OpenAt(wire[p])) = 0 /\ ~OpenBegun(p)
      BY <2>1, <2>3, FS_EmptySet DEF OpenBegun
    <2>5. nextId[p] + (IF OpenBegun(p) THEN 2 ELSE 0) = nextId[p]
      BY <2>2, <2>4
    <2>6. ExpectedId(Other(p)) + 2 * Cardinality(OpenAt(wire[p])) = ExpectedId(Other(p))
      BY <2>2, <2>4
    <2> QED  BY <2>2, <2>5, <2>6 DEF Frontier
  <1> QED  BY <1>1, InitType DEF FrontierInv

LEMMA NextFrontiers ==
  ASSUME FrontierInv, [Next]_vars
  PROVE  FrontierInv'
  <1>1. TypeInv /\ TypeInv'
    BY NextType DEF FrontierInv
  <1>2. \A q \in Peer : Frontier(q)'
    <2>1. CASE Stays
      BY <1>1, <2>1, FrontierStays, BegunKept DEF Stays
    <2>2. ASSUME NEW p \in Peer, Drops(p) PROVE \A q \in Peer : Frontier(q)'
      <3>1. \A q \in Peer : OpenBegun(q)' <=> OpenBegun(q)
        BY <2>2 DEF Drops, CanWrite, OpenBegun
      <3> QED  BY <2>2, <3>1, FrontierStays DEF Drops, NoneReadied, Ready
    <2>3. ASSUME NEW p \in Peer, FragmentWritten(p) PROVE \A q \in Peer : Frontier(q)'
      <3>1. /\ Head(jobs[p]).kind = "DATA" /\ UNCHANGED jobs /\ flying'[p] = FALSE
            /\ \A q \in Peer \ {p} : flying'[q] = flying[q]
        <4>1. written[p] \in Nat /\ written[p] + 1 < FrameCount(Head(jobs[p]))
          BY <1>1, <2>3 DEF FragmentWritten, TypeInv, TypeOK, WriterType
        <4> QED  BY <1>1, <2>3, <4>1 DEF FragmentWritten, FrameCount, TypeInv, TypeOK, WriterType
      <3>2. \A q \in Peer : OpenBegun(q)' <=> OpenBegun(q)
        BY <3>1 DEF OpenBegun
      <3> QED  BY <2>3, <3>2, FrontierStays
               DEF FragmentWritten, NoneReadied, Ready, idVars, readerVars, stateVars
    <2>4. CASE UNCHANGED vars
      <3>1. /\ HeadsKept /\ NoneReadied
            /\ UNCHANGED <<flying, nextId, highestRemote, wire>>
        BY <2>4 DEF vars, idVars, writerVars, readerVars, stateVars, HeadsKept, NoneReadied, Ready
      <3> QED  BY <1>1, <3>1, FrontierStays, BegunKept
    <2> QED  BY <1>1, <2>1, <2>2, <2>3, <2>4, LaneKinds, FrontierWriteFrame, FrontierFinishes,
                FrontierReceives, FrontierEnds
  <1> QED  BY <1>1, <1>2 DEF FrontierInv

\* The id a ready peer expects for the next stream its ready peer opens is that
\* peer's next id, less the OPENs underway: an OPEN whose encoding failed, or whose
\* write has not resolved, leaves no gap and is counted once.
THEOREM FrontiersAlwaysAgree == Spec => []FrontiersAgree
  <1>1. FrontierInv => FrontiersAgree
    BY PeerFacts DEF FrontierInv, FrontiersAgree, BothReady, Frontier, OpenBegun, OpenAt
  <1> QED  BY <1>1, InitFrontiers, NextFrontiers, PTL DEF Spec

-----------------------------------------------------------------------------
(* Frames of one item                                                      *)

Carries(f) == f.kind \in {"DATA", "FRAGMENT"}
UnitsOf(item, size, n) == [u \in 1..n |-> [item |-> item, part |-> u, of |-> size]]
\* Frame g carries the next unit of the item of f.
Continues(f, g) ==
  Carries(f) /\ g.id = f.id /\ g.item = f.item /\ g.size = f.size /\ g.part = f.part + 1
FramesSound(w) == \A k \in DOMAIN w :
  /\ w[k].kind = "DATA" => w[k].part = 1 /\ w[k].size >= 1
  /\ w[k].kind = "FRAGMENT" => w[k].part \in 2..w[k].size
  /\ w[k].kind = "FRAGMENT" /\ k > 1 => Continues(w[k - 1], w[k])
\* If the reader reserves anything for the stream, it is for the first n units of
\* this item.
Matches(s, item, size, n) ==
  s.expected > 0 => s.expected = size /\ s.partial = UnitsOf(item, size, n)
\* The lane w and what its reader holds, with d frames of job j written or with the
\* carrier and n of them written.
IntactLane(w, reader, j, n, d) ==
  /\ FramesSound(w)
  /\ w # <<>> /\ Head(w).kind = "FRAGMENT"
       => Matches(reader[Head(w).id], Head(w).item, Head(w).size, Head(w).part - 1)
  /\ d > 0 /\ j.kind = "DATA" =>
       /\ n < j.size
       /\ w # <<>> => /\ Carries(w[Len(w)]) /\ w[Len(w)].id = j.id
                      /\ w[Len(w)].item = j.item /\ w[Len(w)].size = j.size
                      /\ w[Len(w)].part = d
       /\ w = <<>> => Matches(reader[j.id], j.item, j.size, d)

\* A reader's state t holds what s did, or less.
Lessened(s, t) ==
  /\ t.got = s.got \/ t.got = <<>>
  /\ \/ t.expected = s.expected /\ t.partial = s.partial
     \/ t.expected = 0 /\ t.partial = <<>>

LEMMA CarriedIds ==
  ASSUME NEW w \in Seq(Frame), w # <<>>
  PROVE  /\ Len(w) \in Nat \ {0} /\ DOMAIN w = 1..Len(w) /\ w[1] = Head(w)
         /\ \A k \in DOMAIN w : /\ w[k] \in Frame /\ w[k].part \in Nat /\ w[k].item \in Nat
                                /\ w[k].size \in Nat
                                /\ Carries(w[k]) => w[k].id \in StreamId
  <1>1. \A f \in Frame : /\ f.part \in Nat /\ f.item \in Nat /\ f.size \in Nat
                         /\ Carries(f) => f.id \in StreamId
    BY DEF Frame, FrameOf, JobKind, Carries
  <1>2. Len(w) \in Nat \ {0} /\ DOMAIN w = 1..Len(w) /\ w[1] = Head(w)
    BY EmptySeq
  <1>3. \A k \in DOMAIN w : w[k] \in Frame
    OBVIOUS
  <1> QED  BY <1>1, <1>2, <1>3

LEMMA AppendElements ==
  ASSUME NEW S, NEW w \in Seq(S), NEW f
  PROVE  /\ Len(w) \in Nat /\ Append(w, f) # <<>> /\ Len(Append(w, f)) = Len(w) + 1
         /\ DOMAIN Append(w, f) = 1..Len(w) + 1 /\ DOMAIN w = 1..Len(w)
         /\ Append(w, f)[Len(w) + 1] = f /\ \A k \in 1..Len(w) : Append(w, f)[k] = w[k]
         /\ w = <<>> => Len(w) = 0 /\ Head(Append(w, f)) = f
         /\ w # <<>> => Len(w) > 0 /\ Head(Append(w, f)) = Head(w)
  <1>1. /\ Len(w) \in Nat /\ Append(w, f) # <<>> /\ Len(Append(w, f)) = Len(w) + 1
        /\ DOMAIN Append(w, f) = 1..Len(w) + 1 /\ DOMAIN w = 1..Len(w)
        /\ Append(w, f)[Len(w) + 1] = f /\ \A k \in 1..Len(w) : Append(w, f)[k] = w[k]
    OBVIOUS
  <1>2. w = <<>> => Len(w) = 0 /\ Head(Append(w, f)) = f
    OBVIOUS
  <1>3. w # <<>> => Len(w) > 0 /\ Head(Append(w, f)) = Head(w)
    OBVIOUS
  <1> QED  BY <1>1, <1>2, <1>3

LEMMA IntactLess ==
  ASSUME NEW w \in Seq(Frame), NEW r, NEW t, NEW j, NEW n, NEW d,
         IntactLane(w, r, j, n, d), \A i \in StreamId : Lessened(r[i], t[i]),
         d > 0 /\ j.kind = "DATA" => j.id \in StreamId
  PROVE  IntactLane(w, t, j, n, d)
  <1>1. \A i \in StreamId : \A item, size, k :
          Matches(r[i], item, size, k) => Matches(t[i], item, size, k)
    BY DEF Matches, Lessened
  <1>2. w # <<>> /\ Head(w).kind = "FRAGMENT" => Head(w).id \in StreamId
    BY CarriedIds DEF Carries
  <1> QED  BY <1>1, <1>2 DEF IntactLane

LEMMA IntactIdle ==
  ASSUME NEW w, NEW r, NEW j, NEW n, NEW d, NEW h, NEW m, IntactLane(w, r, j, n, d)
  PROVE  IntactLane(w, r, h, m, 0)
  BY DEF IntactLane

LEMMA IntactWritten ==
  ASSUME NEW w, NEW r, NEW j, NEW n \in Nat, IntactLane(w, r, j, n, n + 1), n + 1 < j.size
  PROVE  IntactLane(w, r, j, n + 1, n + 1)
  BY DEF IntactLane

LEMMA IntactWrite ==
  ASSUME NEW w \in Seq(Frame), NEW r, NEW j, NEW n \in Nat, IntactLane(w, r, j, n, n),
         j.kind = "DATA" => j.size \in Nat /\ n < j.size, n > 0 => j.kind = "DATA",
         j.kind # "FRAGMENT",
         NEW f, f.kind = (IF n > 0 THEN "FRAGMENT" ELSE j.kind), f.id = j.id,
         f.item = j.item, f.size = j.size, f.part = n + 1
  PROVE  IntactLane(Append(w, f), r, j, n, n + 1)
  <1>1. /\ f.kind = IF n > 0 THEN "FRAGMENT" ELSE j.kind
        /\ f.id = j.id /\ f.item = j.item /\ f.size = j.size /\ f.part = n + 1
    OBVIOUS
  <1> DEFINE v == Append(w, f)
  <1>2. /\ Len(w) \in Nat /\ v # <<>> /\ Len(v) = Len(w) + 1 /\ DOMAIN v = 1..Len(w) + 1
        /\ DOMAIN w = 1..Len(w) /\ v[Len(w) + 1] = f
        /\ \A k \in 1..Len(w) : v[k] = w[k]
        /\ w = <<>> => Len(w) = 0 /\ Head(v) = f
        /\ w # <<>> => Len(w) > 0 /\ Head(v) = Head(w)
    <2>1. /\ Len(w) \in Nat /\ v # <<>> /\ Len(v) = Len(w) + 1
          /\ DOMAIN v = 1..Len(w) + 1 /\ DOMAIN w = 1..Len(w)
      BY AppendElements
    <2>2. v[Len(w) + 1] = f /\ \A k \in 1..Len(w) : v[k] = w[k]
      BY AppendElements
    <2>3. w = <<>> => Len(w) = 0 /\ Head(v) = f
      BY AppendElements
    <2>4. w # <<>> => Len(w) > 0 /\ Head(v) = Head(w)
      BY AppendElements
    <2> QED  BY <2>1, <2>2, <2>3, <2>4
  <1> HIDE DEF v
  <1>4. FramesSound(v)
    <2> SUFFICES ASSUME NEW k \in DOMAIN v
                 PROVE  /\ v[k].kind = "DATA" => v[k].part = 1 /\ v[k].size >= 1
                        /\ v[k].kind = "FRAGMENT" => v[k].part \in 2..v[k].size
                        /\ v[k].kind = "FRAGMENT" /\ k > 1 => Continues(v[k - 1], v[k])
      BY DEF FramesSound
    <2>1. CASE k \in 1..Len(w)
      <3>1. k > 1 => v[k - 1] = w[k - 1]
        BY <1>2, <2>1
      <3> QED  BY <1>2, <2>1, <3>1 DEF IntactLane, FramesSound
    <2>2. CASE k = Len(w) + 1
      <3>1. v[k] = f
        BY <1>2, <2>2
      <3>2. f.kind = "DATA" => f.part = 1 /\ f.size >= 1
        BY <1>1
      <3>3. f.kind = "FRAGMENT" => n > 0 /\ f.part \in 2..f.size
        BY <1>1
      <3>4. ASSUME f.kind = "FRAGMENT", k > 1 PROVE Continues(v[k - 1], f)
        <4>1. w # <<>> /\ v[k - 1] = w[Len(w)]
          BY <1>2, <2>2, <3>4
        <4>2. n > 0 /\ j.kind = "DATA"
          BY <3>3, <3>4
        <4> QED  BY <1>1, <4>1, <4>2 DEF IntactLane, Continues
      <3> QED  BY <3>1, <3>2, <3>3, <3>4
    <2> QED  BY <1>2, <2>1, <2>2
  <1>5. v # <<>> /\ Head(v).kind = "FRAGMENT"
          => Matches(r[Head(v).id], Head(v).item, Head(v).size, Head(v).part - 1)
    <2>1. CASE w # <<>>
      BY <1>2, <2>1 DEF IntactLane
    <2>2. CASE w = <<>>
      <3>1. f.kind = "FRAGMENT" => Matches(r[j.id], j.item, j.size, n)
        BY <1>1, <2>2 DEF IntactLane
      <3>2. f.part - 1 = n
        BY <1>1
      <3> QED  BY <1>1, <1>2, <2>2, <3>1, <3>2
    <2> QED  BY <2>1, <2>2
  <1>6. j.kind = "DATA" => Carries(f)
    BY <1>1 DEF Carries
  <1>7. v[Len(v)] = f
    BY <1>2
  <1>8. IntactLane(v, r, j, n, n + 1)
    BY <1>1, <1>2, <1>4, <1>5, <1>6, <1>7 DEF IntactLane
  <1> QED  BY <1>8 DEF v

\* The reader has taken the first frame: what it holds for its stream fits the next.
LEMMA IntactRead ==
  ASSUME NEW w \in Seq(Frame), w # <<>>, NEW r, NEW t, NEW j, NEW n, NEW d,
         IntactLane(w, r, j, n, d),
         LET f == Head(w) IN Carries(f) => Matches(t[f.id], f.item, f.size, f.part)
  PROVE  IntactLane(Tail(w), t, j, n, d)
  <1> DEFINE f == Head(w)
             v == Tail(w)
  <1>1. /\ Len(w) \in Nat \ {0} /\ Len(v) = Len(w) - 1 /\ v \in Seq(Frame)
        /\ \A k \in DOMAIN v : k \in Nat \ {0} /\ k + 1 \in DOMAIN w /\ v[k] = w[k + 1]
        /\ 1 \in DOMAIN w /\ w[1] = f
    BY TailElements
  <1>2. /\ f.part \in Nat /\ DOMAIN w = 1..Len(w) /\ \A k \in DOMAIN w : w[k].part \in Nat
    BY <1>1, CarriedIds
  <1>3. /\ v # <<>> => /\ Head(v) = w[2] /\ 2 \in DOMAIN w /\ v[Len(v)] = w[Len(w)]
        /\ v = <<>> => w[Len(w)] = f
    <2>1. v # <<>> => Len(v) \in Nat \ {0} /\ DOMAIN v = 1..Len(v) /\ Head(v) = v[1]
      BY <1>1, EmptySeq
    <2> HIDE DEF v, f
    <2>2. v = <<>> => Len(v) = 0
      OBVIOUS
    <2> QED  BY <1>1, <2>1, <2>2
  <1> HIDE DEF v, f
  <1>4. FramesSound(v)
    <2> SUFFICES ASSUME NEW k \in DOMAIN v
                 PROVE  /\ v[k].kind = "DATA" => v[k].part = 1 /\ v[k].size >= 1
                        /\ v[k].kind = "FRAGMENT" => v[k].part \in 2..v[k].size
                        /\ v[k].kind = "FRAGMENT" /\ k > 1 => Continues(v[k - 1], v[k])
      BY DEF FramesSound
    <2>1. k \in Nat \ {0} /\ k + 1 \in DOMAIN w /\ v[k] = w[k + 1] /\ k + 1 > 1 /\ (k + 1) - 1 = k
      BY <1>1
    <2>2. k > 1 => v[k - 1] = w[k]
      <3>1. k > 1 => k - 1 \in DOMAIN v /\ (k - 1) + 1 = k
        BY <1>1, <2>1
      <3> QED  BY <1>1, <3>1
    <2>3. FramesSound(w)
      BY DEF IntactLane
    <2> QED  BY <2>1, <2>2, <2>3 DEF FramesSound
  <1>5. v # <<>> /\ Head(v).kind = "FRAGMENT"
          => Matches(t[Head(v).id], Head(v).item, Head(v).size, Head(v).part - 1)
    <2> SUFFICES ASSUME v # <<>>, Head(v).kind = "FRAGMENT"
                 PROVE  Matches(t[Head(v).id], Head(v).item, Head(v).size, Head(v).part - 1)
      OBVIOUS
    <2>1. Continues(f, Head(v))
      <3>1. FramesSound(w)
        BY DEF IntactLane
      <3>2. Continues(w[2 - 1], w[2])
        BY <1>3, <3>1 DEF FramesSound
      <3> QED  BY <1>1, <1>3, <3>2
    <2>2. Head(v).part - 1 = f.part
      BY <1>2, <2>1 DEF Continues
    <2> QED  BY <2>1, <2>2 DEF Continues, f
  <1>6. IntactLane(v, t, j, n, d)
    BY <1>3, <1>4, <1>5 DEF IntactLane, f
  <1> QED  BY <1>6 DEF v

-----------------------------------------------------------------------------
(* What the reader has put together                                        *)

Assembled(s) ==
  /\ s.expected = 0 => s.partial = <<>>
  /\ s.expected > 0 =>
       /\ Len(s.partial) \in 1..(s.expected - 1)
       /\ s.partial = UnitsOf(s.partial[1].item, s.expected, Len(s.partial))
  /\ \A k \in DOMAIN s.got :
       /\ Len(s.got[k]) > 0
       /\ s.got[k] = UnitsOf(s.got[k][1].item, s.got[k][1].of, s.got[k][1].of)

LEMMA AssembledLess ==
  ASSUME NEW s, NEW t, Assembled(s), Lessened(s, t)
  PROVE  Assembled(t)
  BY DEF Assembled, Lessened

\* One more unit of the item is put behind the n units there are.
LEMMA NextUnit ==
  ASSUME NEW item \in Nat, NEW size \in Nat, NEW n \in Nat
  PROVE  /\ UnitsOf(item, size, n) \in Seq(Unit) /\ Len(UnitsOf(item, size, n)) = n
         /\ Append(UnitsOf(item, size, n), [item |-> item, part |-> n + 1, of |-> size])
              = UnitsOf(item, size, n + 1)
         /\ UnitsOf(item, size, n + 1)[1] = [item |-> item, part |-> 1, of |-> size]
         /\ <<[item |-> item, part |-> 1, of |-> size]>> = UnitsOf(item, size, 1)
  <1>1. \A m \in Nat : UnitsOf(item, size, m) \in Seq(Unit) /\ Len(UnitsOf(item, size, m)) = m
    BY DEF UnitsOf, Unit
  <1> DEFINE u == [item |-> item, part |-> n + 1, of |-> size]
             a == UnitsOf(item, size, n)
             b == UnitsOf(item, size, n + 1)
  <1>2. Append(a, u) = b
    <2>1. /\ Append(a, u) \in Seq(Unit) /\ b \in Seq(Unit) /\ a \in Seq(Unit)
          /\ Len(Append(a, u)) = n + 1 /\ Len(b) = n + 1 /\ Len(a) = n
      BY <1>1 DEF Unit
    <2>2. ASSUME NEW k \in 1..n + 1 PROVE Append(a, u)[k] = b[k]
      <3>1. b[k] = [item |-> item, part |-> k, of |-> size]
        BY DEF UnitsOf
      <3>2. CASE k \in 1..n
        <4>1. a[k] = [item |-> item, part |-> k, of |-> size]
          BY <3>2 DEF UnitsOf
        <4>2. Append(a, u)[k] = a[k]
          BY <2>1, <3>2
        <4> QED  BY <3>1, <4>1, <4>2
      <3>3. CASE k = n + 1
        <4>1. Append(a, u)[n + 1] = u
          BY <2>1
        <4>2. n + 1 \in 1..n + 1 /\ b[n + 1] = u
          BY DEF UnitsOf
        <4> HIDE DEF a, b, u
        <4> QED  BY <3>3, <4>1, <4>2
      <3>4. k \in 1..n \/ k = n + 1
        OBVIOUS
      <3> QED  BY <3>2, <3>3, <3>4, Zenon
    <2> HIDE DEF a, b, u
    <2> QED  BY <2>1, <2>2, SeqEqual
  <1>3. b[1] = [item |-> item, part |-> 1, of |-> size]
    BY DEF UnitsOf
  <1>4. <<[item |-> item, part |-> 1, of |-> size]>> = UnitsOf(item, size, 1)
    BY DEF UnitsOf
  <1> QED  BY <1>1, <1>2, <1>3, <1>4

\* What an item that is put together says of its units.
LEMMA UnitNumbers ==
  ASSUME NEW s \in Stream, Assembled(s)
  PROVE  /\ \A k \in DOMAIN s.got : s.got[k][1].item \in Nat
         /\ s.expected > 0 => s.partial[1].item \in Nat
         /\ Len(s.got) \in Nat /\ DOMAIN s.got = 1..Len(s.got)
  <1>1. s.partial \in Seq(Unit) /\ s.got \in Seq(Seq(Unit)) /\ s.expected \in Nat
    BY DEF Stream
  <1>2. \A q \in Seq(Unit) : Len(q) \in Nat /\ (Len(q) > 0 => q[1] \in Unit)
    OBVIOUS
  <1>3. \A u \in Unit : u.item \in Nat
    BY DEF Unit
  <1>4. \A k \in DOMAIN s.got : s.got[k] \in Seq(Unit)
    BY <1>1
  <1>5. Len(s.got) \in Nat /\ DOMAIN s.got = 1..Len(s.got)
    BY <1>1
  <1>6. s.expected > 0 => Len(s.partial) > 0
    BY <1>1 DEF Assembled
  <1> QED  BY <1>1, <1>2, <1>3, <1>4, <1>5, <1>6 DEF Assembled

-----------------------------------------------------------------------------
(* The order of a stream's items                                           *)

DataOf(w, i) == {k \in DOMAIN w : w[k].kind = "DATA" /\ w[k].id = i}
SendAt(tail) == {k \in DOMAIN tail : tail[k].kind = "send"}
\* Whatever reader r has published, or has a part of, is before item n ...
Published(r, n) ==
  /\ \A k \in DOMAIN r.got : r.got[k][1].item < n
  /\ r.expected > 0 => r.partial[1].item < n
\* ... and whatever is on its way to it.
AllBefore(r, w, i, n) == Published(r, n) /\ \A k \in DataOf(w, i) : w[k].item < n
\* The items of stream i: published by r, on the lane w, jobs not begun (their
\* numbers are `queued`), and calls of s still in its writeTail.
Increasing(r, w, i, queued, s) ==
  /\ \A k, m \in DOMAIN r.got : k < m => r.got[k][1].item < r.got[m][1].item
  /\ r.expected > 0 => \A k \in DOMAIN r.got : r.got[k][1].item < r.partial[1].item
  /\ \A k \in DataOf(w, i) :
       /\ Published(r, w[k].item)
       /\ \A m \in DataOf(w, i) : k < m => w[k].item < w[m].item
  /\ \A n \in queued : AllBefore(r, w, i, n) /\ n <= s.calls
  /\ \A k \in SendAt(s.tail) :
       /\ s.tail[k].item <= s.calls /\ AllBefore(r, w, i, s.tail[k].item)
       /\ \A n \in queued : n < s.tail[k].item
       /\ \A m \in SendAt(s.tail) : k < m => s.tail[k].item < s.tail[m].item
  /\ AllBefore(r, w, i, s.calls + 1)

\* No call and no frame has been added.
Curtailed(s, t) ==
  /\ t.calls = s.calls
  /\ \E d \in {0, 1} : \A k \in SendAt(t.tail) :
       k \in Nat /\ k + d \in SendAt(s.tail) /\ t.tail[k] = s.tail[k + d]
Passed(w, v, i) == \E d \in {0, 1} : \A k \in DataOf(v, i) :
  k \in Nat /\ k + d \in DataOf(w, i) /\ v[k] = w[k + d]

LEMMA PublishedLess ==
  ASSUME NEW r, NEW t, Lessened(r, t), NEW n, Published(r, n)
  PROVE  Published(t, n)
  BY DEF Published, Lessened

LEMMA AllBeforeLess ==
  ASSUME NEW r, NEW t, Lessened(r, t), NEW w, NEW v, NEW i, Passed(w, v, i),
         NEW n, AllBefore(r, w, i, n)
  PROVE  AllBefore(t, v, i, n)
  BY PublishedLess DEF AllBefore, Passed

LEMMA IncreasingLess ==
  ASSUME NEW r, NEW t, Lessened(r, t), NEW w, NEW v, NEW i, Passed(w, v, i),
         NEW queued, NEW left \in SUBSET queued, NEW s, NEW c, Curtailed(s, c),
         Increasing(r, w, i, queued, s)
  PROVE  Increasing(t, v, i, left, c)
  <1>1. /\ \A k, m \in DOMAIN t.got : k < m => t.got[k][1].item < t.got[m][1].item
        /\ t.expected > 0 => \A k \in DOMAIN t.got : t.got[k][1].item < t.partial[1].item
    BY DEF Increasing, Lessened
  <1>2. \A n : AllBefore(r, w, i, n) => AllBefore(t, v, i, n)
    BY AllBeforeLess
  <1>3. ASSUME NEW k \in DataOf(v, i)
        PROVE  /\ Published(t, v[k].item)
               /\ \A m \in DataOf(v, i) : k < m => v[k].item < v[m].item
    <2>1. PICK d \in {0, 1} : \A m \in DataOf(v, i) :
            m \in Nat /\ m + d \in DataOf(w, i) /\ v[m] = w[m + d]
      BY DEF Passed
    <2>2. Published(t, v[k].item)
      BY <2>1, PublishedLess DEF Increasing
    <2>3. ASSUME NEW m \in DataOf(v, i), k < m PROVE v[k].item < v[m].item
      <3>1. k + d < m + d
        BY <2>1, <2>3
      <3> QED  BY <2>1, <3>1 DEF Increasing
    <2> QED  BY <2>2, <2>3
  <1>4. \A n \in left : AllBefore(t, v, i, n) /\ n <= c.calls
    BY <1>2 DEF Increasing, Curtailed
  <1>5. ASSUME NEW k \in SendAt(c.tail)
        PROVE  /\ c.tail[k].item <= c.calls /\ AllBefore(t, v, i, c.tail[k].item)
               /\ \A n \in left : n < c.tail[k].item
               /\ \A m \in SendAt(c.tail) : k < m => c.tail[k].item < c.tail[m].item
    <2>1. PICK d \in {0, 1} : \A m \in SendAt(c.tail) :
            m \in Nat /\ m + d \in SendAt(s.tail) /\ c.tail[m] = s.tail[m + d]
      BY DEF Curtailed
    <2>2. /\ c.tail[k].item <= c.calls /\ AllBefore(t, v, i, c.tail[k].item)
          /\ \A n \in left : n < c.tail[k].item
      BY <1>2, <2>1 DEF Increasing, Curtailed
    <2>3. ASSUME NEW m \in SendAt(c.tail), k < m PROVE c.tail[k].item < c.tail[m].item
      <3>1. k + d < m + d
        BY <2>1, <2>3
      <3> QED  BY <2>1, <3>1 DEF Increasing
    <2> QED  BY <2>2, <2>3
  <1>6. AllBefore(t, v, i, c.calls + 1)
    BY <1>2 DEF Increasing, Curtailed
  <1> QED  BY <1>1, <1>3, <1>4, <1>5, <1>6 DEF Increasing

\* The steps that move an item on.

\* send(): the item gets the next number.
LEMMA IncreasingSend ==
  ASSUME NEW r \in Stream, Assembled(r), NEW w \in Seq(Frame), NEW i, NEW queued \in SUBSET Nat,
         NEW s \in Stream, Increasing(r, w, i, queued, s),
         NEW op, op.kind = "send", op.item = s.calls + 1,
         NEW c, c.calls = s.calls + 1, c.tail = Append(s.tail, op)
  PROVE  Increasing(r, w, i, queued, c)
  <1>1. s.calls \in Nat /\ s.tail \in Seq(Op) /\ \A k \in DOMAIN s.tail : s.tail[k].item \in Nat
    <2>1. s.calls \in Nat /\ s.tail \in Seq(Op)
      BY DEF Stream
    <2>2. \A o \in Op : o.item \in Nat
      BY DEF Op
    <2> QED  BY <2>1, <2>2
  <1> DEFINE v == Append(s.tail, op)
  <1>2. \A k \in SendAt(v) : \/ k \in SendAt(s.tail) /\ v[k] = s.tail[k] /\ k <= Len(s.tail)
                             \/ k = Len(s.tail) + 1 /\ v[k] = op
    <2>1. /\ DOMAIN v = 1..Len(s.tail) + 1 /\ DOMAIN s.tail = 1..Len(s.tail)
          /\ v[Len(s.tail) + 1] = op /\ \A k \in 1..Len(s.tail) : v[k] = s.tail[k]
          /\ Len(s.tail) \in Nat
      BY <1>1, AppendElements
    <2> HIDE DEF v
    <2> QED  BY <2>1 DEF SendAt
  <1>3. \A k \in SendAt(v) : k \in Nat /\ Len(s.tail) \in Nat
    BY <1>1 DEF SendAt
  <1> HIDE DEF v
  <1>4. \A k \in DataOf(w, i) : w[k].item \in Nat
    <2>1. \A f \in Frame : f.item \in Nat
      BY DEF Frame, FrameOf, JobKind
    <2> QED  BY <2>1 DEF DataOf
  <1>5. AllBefore(r, w, i, s.calls + 2)
    <2>1. Published(r, s.calls + 2)
      BY <1>1, UnitNumbers DEF Published, Increasing, AllBefore
    <2> QED  BY <1>1, <1>4, <2>1 DEF Increasing, AllBefore
  <1>6. \A n \in queued : AllBefore(r, w, i, n) /\ n <= c.calls /\ n < s.calls + 1
    BY <1>1 DEF Increasing
  <1>7. ASSUME NEW k \in SendAt(v)
        PROVE  /\ v[k].item <= c.calls /\ AllBefore(r, w, i, v[k].item)
               /\ \A n \in queued : n < v[k].item
               /\ \A m \in SendAt(v) : k < m => v[k].item < v[m].item
    <2>1. CASE k \in SendAt(s.tail) /\ v[k] = s.tail[k] /\ k <= Len(s.tail)
      <3>1. v[k].item \in Nat /\ v[k].item <= s.calls
        BY <1>1, <2>1 DEF Increasing, SendAt
      <3>2. AllBefore(r, w, i, v[k].item) /\ \A n \in queued : n < v[k].item
        BY <2>1 DEF Increasing
      <3>3. ASSUME NEW m \in SendAt(v), k < m PROVE v[k].item < v[m].item
        <4>1. CASE m \in SendAt(s.tail) /\ v[m] = s.tail[m]
          BY <2>1, <3>3, <4>1 DEF Increasing
        <4>2. CASE v[m] = op
          BY <1>1, <3>1, <4>2
        <4> QED  BY <1>2, <4>1, <4>2
      <3> QED  BY <1>1, <3>1, <3>2, <3>3
    <2>2. CASE k = Len(s.tail) + 1 /\ v[k] = op
      <3>1. \A m \in SendAt(v) : ~(k < m)
        BY <1>2, <1>3, <2>2
      <3>2. AllBefore(r, w, i, v[k].item) /\ v[k].item <= c.calls
        BY <1>1, <2>2 DEF Increasing
      <3> QED  BY <1>6, <2>2, <3>1, <3>2
    <2> QED  BY <1>2, <2>1, <2>2
  <1>8. AllBefore(r, w, i, c.calls + 1)
    <2>1. c.calls + 1 = s.calls + 2
      BY <1>1
    <2> QED  BY <1>5, <2>1
  <1> QED  BY <1>6, <1>7, <1>8 DEF Increasing, v

\* A call whose turn has come becomes a job.
LEMMA IncreasingQueued ==
  ASSUME NEW r, NEW w, NEW i, NEW s \in Stream, Increasing(r, w, i, {}, s),
         s.tail # <<>>, Head(s.tail).kind = "send",
         NEW c, c.calls = s.calls, c.tail = Tail(s.tail)
  PROVE  Increasing(r, w, i, {Head(s.tail).item}, c)
  <1> DEFINE u == s.tail
             v == Tail(u)
  <1>1. u \in Seq(Op)
    BY DEF Stream
  <1>2. /\ \A k \in DOMAIN v : k \in Nat \ {0} /\ k + 1 \in DOMAIN u /\ v[k] = u[k + 1]
        /\ 1 \in DOMAIN u /\ u[1] = Head(u)
    BY <1>1, TailElements
  <1> HIDE DEF u, v
  <1>3. 1 \in SendAt(u) /\ u[1] = Head(u)
    BY <1>2 DEF SendAt, u
  <1>4. \A k \in SendAt(v) : k \in Nat \ {0} /\ k + 1 \in SendAt(u) /\ v[k] = u[k + 1]
    BY <1>2 DEF SendAt
  <1>5. AllBefore(r, w, i, u[1].item) /\ u[1].item <= c.calls
    BY <1>3 DEF Increasing, u
  <1>6. ASSUME NEW k \in SendAt(v)
        PROVE  /\ v[k].item <= c.calls /\ AllBefore(r, w, i, v[k].item)
               /\ u[1].item < v[k].item
               /\ \A m \in SendAt(v) : k < m => v[k].item < v[m].item
    <2>1. k + 1 \in SendAt(u) /\ v[k] = u[k + 1] /\ 1 < k + 1
      BY <1>4
    <2>2. /\ v[k].item <= c.calls /\ AllBefore(r, w, i, v[k].item) /\ u[1].item < v[k].item
      BY <1>3, <2>1 DEF Increasing, u
    <2>3. ASSUME NEW m \in SendAt(v), k < m PROVE v[k].item < v[m].item
      <3>1. m + 1 \in SendAt(u) /\ v[m] = u[m + 1] /\ k + 1 < m + 1
        BY <1>4, <2>3
      <3> QED  BY <2>1, <3>1 DEF Increasing, u
    <2> QED  BY <2>2, <2>3
  <1>7. AllBefore(r, w, i, c.calls + 1)
    BY DEF Increasing
  <1> QED  BY <1>3, <1>5, <1>6, <1>7 DEF Increasing, u, v

\* The first frame of a job joins the lane.
LEMMA IncreasingBegun ==
  ASSUME NEW r, NEW w \in Seq(Frame), NEW i, NEW queued, NEW s, Increasing(r, w, i, queued, s),
         NEW n \in queued, n \in Nat, s.calls \in Nat,
         NEW f, f.kind = "DATA", f.id = i, f.item = n
  PROVE  Increasing(r, Append(w, f), i, {}, s)
  <1> DEFINE v == Append(w, f)
  <1>1. \A k \in DataOf(v, i) : \/ k \in DataOf(w, i) /\ v[k] = w[k] /\ k <= Len(w)
                                \/ k = Len(w) + 1 /\ v[k] = f
    <2>1. /\ DOMAIN v = 1..Len(w) + 1 /\ DOMAIN w = 1..Len(w)
          /\ v[Len(w) + 1] = f /\ \A k \in 1..Len(w) : v[k] = w[k]
          /\ Len(w) \in Nat
      BY AppendElements
    <2> HIDE DEF v
    <2> QED  BY <2>1 DEF DataOf
  <1>2. \A k \in DataOf(v, i) : k \in Nat /\ Len(w) \in Nat
    BY DEF DataOf
  <1> HIDE DEF v
  <1>3. AllBefore(r, w, i, n) /\ n <= s.calls
    BY DEF Increasing
  <1>4. ASSUME NEW m, AllBefore(r, w, i, m), n < m PROVE AllBefore(r, v, i, m)
    BY <1>1, <1>4 DEF AllBefore
  <1>5. ASSUME NEW k \in DataOf(v, i)
        PROVE  /\ Published(r, v[k].item)
               /\ \A m \in DataOf(v, i) : k < m => v[k].item < v[m].item
    <2>1. CASE k \in DataOf(w, i) /\ v[k] = w[k]
      <3>1. Published(r, v[k].item) /\ v[k].item < n
        BY <1>3, <2>1 DEF Increasing, AllBefore
      <3>2. ASSUME NEW m \in DataOf(v, i), k < m PROVE v[k].item < v[m].item
        <4>1. CASE m \in DataOf(w, i) /\ v[m] = w[m]
          BY <2>1, <3>2, <4>1 DEF Increasing
        <4>2. CASE v[m] = f
          BY <3>1, <4>2
        <4> QED  BY <1>1, <4>1, <4>2
      <3> QED  BY <3>1, <3>2
    <2>2. CASE k = Len(w) + 1 /\ v[k] = f
      <3>1. \A m \in DataOf(v, i) : ~(k < m)
        BY <1>1, <1>2, <2>2
      <3> QED  BY <1>3, <2>2, <3>1 DEF AllBefore
    <2> QED  BY <1>1, <2>1, <2>2
  <1>6. ASSUME NEW k \in SendAt(s.tail)
        PROVE  /\ s.tail[k].item <= s.calls /\ AllBefore(r, v, i, s.tail[k].item)
               /\ \A m \in SendAt(s.tail) : k < m => s.tail[k].item < s.tail[m].item
    BY <1>4 DEF Increasing
  <1>7. AllBefore(r, v, i, s.calls + 1)
    BY <1>3, <1>4 DEF Increasing
  <1>8. Increasing(r, v, i, {}, s)
    BY <1>5, <1>6, <1>7 DEF Increasing
  <1> QED  BY <1>8 DEF v

\* The reader takes the first frame, and is t afterwards.
LEMMA IncreasingRead ==
  ASSUME NEW r, NEW t, NEW w \in Seq(Frame), w # <<>>, NEW i, NEW queued, NEW s,
         Increasing(r, w, i, queued, s),
         \A k, m \in DOMAIN t.got : k < m => t.got[k][1].item < t.got[m][1].item,
         t.expected > 0 => \A k \in DOMAIN t.got : t.got[k][1].item < t.partial[1].item,
         \A n : Published(r, n) /\ (1 \in DataOf(w, i) => w[1].item < n) => Published(t, n)
  PROVE  Increasing(t, Tail(w), i, queued, s)
  <1> DEFINE v == Tail(w)
  <1>1. \A k \in DataOf(v, i) : k \in Nat \ {0} /\ k + 1 \in DataOf(w, i) /\ v[k] = w[k + 1]
    <2>1. \A k \in DOMAIN v : k \in Nat \ {0} /\ k + 1 \in DOMAIN w /\ v[k] = w[k + 1]
      BY TailElements
    <2> HIDE DEF v
    <2> QED  BY <2>1 DEF DataOf
  <1> HIDE DEF v
  <1>2. \A n : AllBefore(r, w, i, n) => AllBefore(t, v, i, n)
    BY <1>1 DEF AllBefore
  <1>3. ASSUME NEW k \in DataOf(v, i)
        PROVE  /\ Published(t, v[k].item)
               /\ \A m \in DataOf(v, i) : k < m => v[k].item < v[m].item
    <2>1. k \in Nat /\ k + 1 \in DataOf(w, i) /\ v[k] = w[k + 1] /\ 1 < k + 1
      BY <1>1
    <2>2. Published(r, v[k].item) /\ (1 \in DataOf(w, i) => w[1].item < v[k].item)
      BY <2>1 DEF Increasing
    <2>3. ASSUME NEW m \in DataOf(v, i), k < m PROVE v[k].item < v[m].item
      <3>1. m + 1 \in DataOf(w, i) /\ v[m] = w[m + 1] /\ k + 1 < m + 1
        BY <1>1, <2>1, <2>3
      <3> QED  BY <2>1, <3>1 DEF Increasing
    <2> QED  BY <2>2, <2>3
  <1>4. Increasing(t, v, i, queued, s)
    BY <1>2, <1>3 DEF Increasing
  <1> QED  BY <1>4 DEF v

\* A whole item is published: it comes after those before it.
LEMMA PublishedNext ==
  ASSUME NEW r \in Stream, Assembled(r), NEW t, NEW data, data[1].item \in Nat,
         \A k, m \in DOMAIN r.got : k < m => r.got[k][1].item < r.got[m][1].item,
         \A k \in DOMAIN r.got : r.got[k][1].item < data[1].item,
         t.got = Append(r.got, data), t.expected = 0
  PROVE  /\ \A k, m \in DOMAIN t.got : k < m => t.got[k][1].item < t.got[m][1].item
         /\ \A n : Published(r, n) /\ data[1].item < n => Published(t, n)
  <1> DEFINE v == Append(r.got, data)
  <1>1. \A k \in DOMAIN v : \/ k \in DOMAIN r.got /\ v[k] = r.got[k]
                            \/ k = Len(r.got) + 1 /\ v[k] = data
    <2>1. r.got \in Seq(Seq(Unit))
      BY DEF Stream
    <2>2. /\ DOMAIN v = 1..Len(r.got) + 1 /\ DOMAIN r.got = 1..Len(r.got)
          /\ v[Len(r.got) + 1] = data /\ \A k \in 1..Len(r.got) : v[k] = r.got[k]
          /\ Len(r.got) \in Nat
      BY <2>1, AppendElements
    <2> HIDE DEF v
    <2> QED  BY <2>2
  <1>2. Len(r.got) \in Nat /\ DOMAIN r.got = 1..Len(r.got)
    BY UnitNumbers
  <1> HIDE DEF v
  <1>3. ASSUME NEW k \in DOMAIN v, NEW m \in DOMAIN v, k < m PROVE v[k][1].item < v[m][1].item
    <2>1. CASE k \in DOMAIN r.got /\ v[k] = r.got[k]
      BY <1>1, <1>3, <2>1
    <2>2. CASE k = Len(r.got) + 1
      BY <1>1, <1>2, <1>3, <2>2
    <2> QED  BY <1>1, <2>1, <2>2
  <1>4. \A n : Published(r, n) /\ data[1].item < n => Published(t, n)
    BY <1>1 DEF Published, v
  <1> QED  BY <1>3, <1>4 DEF v

-----------------------------------------------------------------------------
(* The invariant, and the steps that move no item on                       *)

\* The items whose job has not begun.
Queued(p, i) ==
  {jobs[p][k].item : k \in {k \in Unwritten(p) : jobs[p][k].kind = "DATA" /\ jobs[p][k].id = i}}
\* The frames of the first job that have been handed to the lane.
Done(p) == written[p] + IF flying[p] THEN 1 ELSE 0
Sized(p) ==
  /\ \A k \in DOMAIN jobs[p] : jobs[p][k].kind = "DATA" => jobs[p][k].size >= 1
  /\ \A i \in StreamId : \A k \in SendAt(stream[p][i].tail) : stream[p][i].tail[k].size >= 1
LaneIntact(p) == IntactLane(wire[p], stream[Other(p)], Head(jobs[p]), written[p], Done(p))
Increases(p, i) == Increasing(stream[Other(p)][i], wire[p], i, Queued(p, i), stream[p][i])
Items(p) ==
  /\ Sized(p) /\ LaneIntact(p)
  /\ \A i \in StreamId : Assembled(stream[p][i]) /\ Increases(p, i)
ItemInv == TableInv /\ \A p \in Peer : Items(p)

\* No DATA joins the queue of p, and none of it is taken back.
Passes(p) ==
  \A k \in DOMAIN jobs'[p] : jobs'[p][k].kind = "DATA" =>
    \E m \in DOMAIN jobs[p] : /\ jobs[p][m] = jobs'[p][k]
                              /\ k \in Unwritten(p)' => m \in Unwritten(p)
\* The streams of p hold what they held, or less: of what is read, of what is to be
\* written, of both.
Sheds(p) == \A i \in StreamId : Lessened(stream[p][i], stream'[p][i])
Curtails(p) == \A i \in StreamId : Curtailed(stream[p][i], stream'[p][i])
Settles(p) == Sheds(p) /\ Curtails(p)
\* The frames that have been handed to the lane are those of the same job still, or
\* there are none.
Rests(p) ==
  \/ written'[p] = 0 /\ ~flying'[p]
  \/ /\ written'[p] = written[p] /\ flying'[p] = flying[p]
     /\ Done(p) > 0 => Head(jobs'[p]) = Head(jobs[p])
  \/ FragmentWritten(p)
\* The next frame may be taken in, if nothing is put together with it.
Takes(p) ==
  /\ wire[Other(p)] # <<>> /\ wire' = [wire EXCEPT ![Other(p)] = Tail(@)]
  /\ Carries(Incoming(p)) => stream'[p][Incoming(p).id].expected = 0
\* What the lane a peer reads holds, and that the lane it writes is left alone.
Advances(p) == UNCHANGED wire \/ Takes(p)
Apart(p) == \A q \in Peer \ {p} :
  /\ stream'[q] = stream[q] /\ jobs'[q] = jobs[q]
  /\ written'[q] = written[q] /\ flying'[q] = flying[q]
Calm(p) ==
  Apart(p) /\ Passes(p) /\ Settles(p) /\ Rests(p) /\ Advances(p)

\* What the invariant says of one lane, and the types of its parts.
LEMMA ItemFacts ==
  ASSUME ItemInv, NEW p \in Peer
  PROVE  /\ TypeInv /\ TableInv /\ Other(p) \in Peer /\ Other(p) # p /\ Other(Other(p)) = p
         /\ wire[p] \in Seq(Frame) /\ jobs[p] \in Seq(Job)
         /\ written[p] \in Nat /\ flying[p] \in BOOLEAN /\ Done(p) \in Nat
         /\ Sized(p) /\ LaneIntact(p)
         /\ \A i \in StreamId : /\ stream[p][i] \in Stream
                                /\ Assembled(stream[p][i]) /\ Increases(p, i)
  <1>1. TypeInv /\ TableInv /\ Items(p)
    BY DEF ItemInv, TableInv, IdInv
  <1>2. /\ wire[p] \in Seq(Frame) /\ jobs[p] \in Seq(Job)
        /\ written[p] \in Nat /\ flying[p] \in BOOLEAN
        /\ \A i \in StreamId : stream[p][i] \in Stream
    BY <1>1 DEF TypeInv, TypeOK, ReaderType, WriterType, TableType
  <1>3. Done(p) \in Nat
    BY <1>2 DEF Done
  <1>4. Other(p) \in Peer /\ Other(p) # p /\ Other(Other(p)) = p
    BY DEF Peer, Other
  <1> QED  BY <1>1, <1>2, <1>3, <1>4 DEF Items

LEMMA Unchanging ==
  ASSUME NEW s \in Stream
  PROVE  Lessened(s, s) /\ Curtailed(s, s)
  <1>1. Lessened(s, s)
    BY DEF Lessened
  <1>2. Curtailed(s, s)
    <2>1. s.tail \in Seq(Op)
      BY DEF Stream
    <2>2. \A k \in SendAt(s.tail) : k \in Nat /\ k + 0 = k
      BY <2>1 DEF SendAt
    <2> QED  BY <2>2 DEF Curtailed
  <1> QED  BY <1>1, <1>2

LEMMA PassedSame ==
  ASSUME NEW w \in Seq(Frame), NEW i
  PROVE  Passed(w, w, i)
  <1>1. \A k \in DataOf(w, i) : k \in Nat /\ k + 0 = k
    BY DEF DataOf
  <1> QED  BY <1>1 DEF Passed

LEMMA PassedTail ==
  ASSUME NEW w \in Seq(Frame), w # <<>>, NEW i
  PROVE  Passed(w, Tail(w), i)
  <1>1. \A k \in DOMAIN Tail(w) : k \in Nat \ {0} /\ k + 1 \in DOMAIN w /\ Tail(w)[k] = w[k + 1]
    BY TailElements
  <1>2. \A k \in DataOf(Tail(w), i) : k \in Nat /\ k + 1 \in DataOf(w, i) /\ Tail(w)[k] = w[k + 1]
    BY <1>1 DEF DataOf
  <1> QED  BY <1>2 DEF Passed

LEMMA PassesSized ==
  ASSUME ItemInv, NEW p \in Peer, Passes(p), Curtails(p)
  PROVE  Sized(p)' /\ \A i \in StreamId : Queued(p, i)' \subseteq Queued(p, i)
  <1>1. Sized(p)
    BY DEF ItemInv, Items
  <1>2. \A k \in DOMAIN jobs'[p] : jobs'[p][k].kind = "DATA" => jobs'[p][k].size >= 1
    BY <1>1 DEF Sized, Passes
  <1>3. ASSUME NEW i \in StreamId, NEW k \in SendAt(stream'[p][i].tail)
        PROVE  stream'[p][i].tail[k].size >= 1
    <2>1. Curtailed(stream[p][i], stream'[p][i])
      BY DEF Curtails
    <2> QED  BY <1>1, <1>3, <2>1 DEF Sized, Curtailed
  <1>4. ASSUME NEW i \in StreamId, NEW n \in Queued(p, i)' PROVE n \in Queued(p, i)
    <2>1. PICK k \in Unwritten(p)' :
            jobs'[p][k].kind = "DATA" /\ jobs'[p][k].id = i /\ n = jobs'[p][k].item
      BY <1>4 DEF Queued
    <2>2. k \in DOMAIN jobs'[p]
      BY <2>1 DEF Unwritten
    <2>3. PICK m \in Unwritten(p) : jobs[p][m] = jobs'[p][k]
      BY <2>1, <2>2 DEF Passes
    <2> QED  BY <2>1, <2>3 DEF Queued
  <1>5. Sized(p)'
    BY <1>2, <1>3 DEF Sized
  <1> QED  BY <1>4, <1>5

\* The lane a calm peer writes ...
LEMMA CalmWriter ==
  ASSUME ItemInv, NEW p \in Peer, Apart(p), Passes(p), Curtails(p), Rests(p),
         wire'[p] = wire[p]
  PROVE  LaneIntact(p)' /\ \A i \in StreamId : Increases(p, i)'
  <1> DEFINE o == Other(p)
  <1>1. /\ o \in Peer \ {p} /\ wire[p] \in Seq(Frame) /\ written[p] \in Nat
        /\ LaneIntact(p) /\ TypeInv
        /\ \A i \in StreamId : Increases(p, i) /\ stream[o][i] \in Stream
    BY ItemFacts
  <1>2. wire'[p] = wire[p] /\ stream'[o] = stream[o]
    BY <1>1 DEF Apart
  <1>3. LaneIntact(p)'
    <2>1. IntactLane(wire[p], stream[o], Head(jobs[p]), written[p], Done(p))
      BY <1>1 DEF LaneIntact
    <2>2. CASE written'[p] = 0 /\ ~flying'[p]
      <3>1. Done(p)' = 0
        BY <2>2 DEF Done
      <3>2. IntactLane(wire[p], stream[o], Head(jobs'[p]), written'[p], 0)
        BY <2>1, IntactIdle
      <3> QED  BY <1>2, <3>1, <3>2 DEF LaneIntact
    <2>3. CASE /\ written'[p] = written[p] /\ flying'[p] = flying[p]
               /\ Done(p) > 0 => Head(jobs'[p]) = Head(jobs[p])
      <3>1. Done(p)' = Done(p)
        BY <2>3 DEF Done
      <3>2. IntactLane(wire[p], stream[o], Head(jobs'[p]), written[p], Done(p))
        BY <2>1, <2>3 DEF IntactLane
      <3> QED  BY <1>2, <2>3, <3>1, <3>2 DEF LaneIntact
    <2>4. CASE FragmentWritten(p)
      <3>1. /\ flying[p] /\ ~flying'[p] /\ written'[p] = written[p] + 1 /\ jobs' = jobs
            /\ written[p] + 1 < FrameCount(Head(jobs[p]))
        BY <1>1, <2>4 DEF FragmentWritten, TypeInv, TypeOK, WriterType
      <3>2. written[p] + 1 < Head(jobs[p]).size
        BY <1>1, <3>1 DEF FrameCount
      <3>3. Done(p) = written[p] + 1 /\ Done(p)' = written[p] + 1
        BY <1>1, <3>1 DEF Done
      <3>4. IntactLane(wire[p], stream[o], Head(jobs[p]), written[p] + 1, written[p] + 1)
        BY <1>1, <2>1, <3>2, <3>3, IntactWritten
      <3> QED  BY <1>2, <3>1, <3>3, <3>4 DEF LaneIntact
    <2> QED  BY <2>2, <2>3, <2>4 DEF Rests
  <1>4. ASSUME NEW i \in StreamId PROVE Increases(p, i)'
    <2>1. Increasing(stream[o][i], wire[p], i, Queued(p, i), stream[p][i])
      BY <1>1 DEF Increases
    <2>2. Lessened(stream[o][i], stream[o][i]) /\ Passed(wire[p], wire[p], i)
      BY <1>1, Unchanging, PassedSame
    <2>3. Queued(p, i)' \subseteq Queued(p, i) /\ Curtailed(stream[p][i], stream'[p][i])
      BY PassesSized DEF Curtails
    <2>4. Increasing(stream[o][i], wire[p], i, Queued(p, i)', stream'[p][i])
      BY <2>1, <2>2, <2>3, IncreasingLess
    <2> QED  BY <1>2, <2>4 DEF Increases
  <1> QED  BY <1>3, <1>4

\* ... and the lane it reads.
LEMMA CalmReader ==
  ASSUME ItemInv, NEW p \in Peer, Apart(p), Sheds(p), Advances(p) \/ wire'[Other(p)] = wire[Other(p)]
  PROVE  LET o == Other(p)
         IN /\ Sized(o)' /\ LaneIntact(o)'
            /\ \A i \in StreamId : Assembled(stream'[o][i]) /\ Increases(o, i)'
  <1> DEFINE o == Other(p)
             w == wire[o]
  <1>1. /\ o \in Peer \ {p} /\ Other(o) = p /\ w \in Seq(Frame) /\ TypeInv
        /\ \A i \in StreamId : stream[o][i] \in Stream
    BY ItemFacts
  <1>2. Sized(o) /\ LaneIntact(o) /\ \A i \in StreamId : Assembled(stream[o][i]) /\ Increases(o, i)
    BY <1>1, ItemFacts
  <1>3. /\ stream'[o] = stream[o] /\ jobs'[o] = jobs[o]
        /\ written'[o] = written[o] /\ flying'[o] = flying[o]
    BY <1>1 DEF Apart
  <1>4. Done(o)' = Done(o) /\ \A i \in StreamId : Queued(o, i)' = Queued(o, i)
    BY <1>3 DEF Done, Queued, Unwritten
  <1>5. Sized(o)'
    BY <1>2, <1>3 DEF Sized
  <1>6. \A i \in StreamId : Lessened(stream[p][i], stream'[p][i])
    BY DEF Sheds
  <1>7. \/ wire'[o] = w
        \/ /\ w # <<>> /\ wire'[o] = Tail(w)
           /\ Carries(Head(w)) => stream'[p][Head(w).id].expected = 0
    BY <1>1 DEF Advances, Takes, Incoming, TypeInv, TypeOK, ReaderType
  <1>8. LaneIntact(o)'
    <2>1. IntactLane(w, stream[p], Head(jobs[o]), written[o], Done(o))
      BY <1>1, <1>2 DEF LaneIntact
    <2>2. CASE wire'[o] = w
      <3>1. Done(o) > 0 /\ Head(jobs[o]).kind = "DATA" => Head(jobs[o]).id \in StreamId
        <4>1. Done(o) > 0 => jobs[o] # <<>>
          BY <1>1 DEF Done, TypeInv, WritesFirst, TypeOK, WriterType
        <4> QED  BY <1>1, <4>1, FirstJob DEF TypeInv, TypeOK
      <3>2. IntactLane(w, stream'[p], Head(jobs[o]), written[o], Done(o))
        BY <1>1, <1>6, <2>1, <3>1, IntactLess
      <3> QED  BY <1>1, <1>3, <1>4, <2>2, <3>2 DEF LaneIntact
    <2>3. CASE /\ w # <<>> /\ wire'[o] = Tail(w)
               /\ Carries(Head(w)) => stream'[p][Head(w).id].expected = 0
      <3>1. LET f == Head(w)
            IN Carries(f) => Matches(stream'[p][f.id], f.item, f.size, f.part)
        BY <2>3 DEF Matches
      <3>2. IntactLane(Tail(w), stream'[p], Head(jobs[o]), written[o], Done(o))
        BY <1>1, <2>1, <2>3, <3>1, IntactRead
      <3> QED  BY <1>1, <1>3, <1>4, <2>3, <3>2 DEF LaneIntact
    <2> QED  BY <1>7, <2>2, <2>3
  <1>9. ASSUME NEW i \in StreamId PROVE Increases(o, i)'
    <2>1. Increasing(stream[p][i], w, i, Queued(o, i), stream[o][i])
      BY <1>1, <1>2 DEF Increases
    <2>2. Passed(w, wire'[o], i) /\ Curtailed(stream[o][i], stream[o][i])
      BY <1>1, <1>7, Unchanging, PassedSame, PassedTail
    <2>3. Increasing(stream'[p][i], wire'[o], i, Queued(o, i), stream[o][i])
      BY <1>6, <2>1, <2>2, IncreasingLess
    <2> QED  BY <1>1, <1>3, <1>4, <2>3 DEF Increases
  <1> QED  BY <1>2, <1>3, <1>5, <1>8, <1>9

LEMMA CalmItems ==
  ASSUME ItemInv, NEW p \in Peer, Calm(p)
  PROVE  \A q \in Peer : Items(q)'
  <1> DEFINE o == Other(p)
  <1>1. \A q \in Peer : q = p \/ q = o
    BY DEF Peer, Other
  <1>2. /\ Apart(p) /\ Passes(p) /\ Sheds(p) /\ Curtails(p) /\ Rests(p) /\ Advances(p)
        /\ o # p /\ TypeInv
    BY ItemFacts DEF Calm, Settles
  <1>3. wire'[p] = wire[p]
    BY <1>2 DEF Advances, Takes, TypeInv, TypeOK, ReaderType
  <1>4. Items(p)'
    <2>1. Sized(p)'
      BY <1>2, PassesSized
    <2>2. \A i \in StreamId : Assembled(stream'[p][i])
      <3>1. \A i \in StreamId : Assembled(stream[p][i])
        BY ItemFacts
      <3> QED  BY <1>2, <3>1, AssembledLess DEF Sheds
    <2>3. LaneIntact(p)' /\ \A i \in StreamId : Increases(p, i)'
      BY <1>2, <1>3, CalmWriter
    <2> QED  BY <2>1, <2>2, <2>3 DEF Items
  <1>5. Items(o)'
    <2>1. /\ Sized(o)' /\ LaneIntact(o)'
          /\ \A i \in StreamId : Assembled(stream'[o][i]) /\ Increases(o, i)'
      BY <1>2, CalmReader
    <2> QED  BY <2>1 DEF Items
  <1> QED  BY <1>1, <1>4, <1>5

\* A step in three parts: the lane, the queue and the streams.
Leaves(p) == Passes(p) /\ \A q \in Peer \ {p} : jobs'[q] = jobs[q]
Gentle(p) == Settles(p) /\ \A q \in Peer \ {p} : stream'[q] = stream[q]

LEMMA LaneRests ==
  ASSUME TypeInv, NEW p \in Peer, \/ Stays \/ Drops(p) \/ FragmentWritten(p) \/ Finishes(p)
                                  \/ Receives(p) \/ EndsLane(p)
  PROVE  /\ Rests(p) /\ \A q \in Peer \ {p} : written'[q] = written[q] /\ flying'[q] = flying[q]
         /\ \/ UNCHANGED wire
            \/ wire[Other(p)] # <<>> /\ wire' = [wire EXCEPT ![Other(p)] = Tail(@)]
  <1>1. Done(p) > 0 => jobs[p] # <<>>
    BY DEF Done, TypeInv, WritesFirst, TypeOK, WriterType
  <1>2. CASE Stays \/ Receives(p)
    <2>1. HeadsKept /\ UNCHANGED <<written, flying>>
      BY <1>2 DEF Stays, Receives
    <2>2. Rests(p)
      BY <1>1, <2>1 DEF HeadsKept, Rests
    <2> QED  BY <1>2, <2>1, <2>2 DEF Stays, Receives, CanRead, Consume
  <1>3. CASE Drops(p)
    BY <1>3 DEF Drops, CanWrite, Rests, TypeInv, TypeOK, WriterType
  <1>4. CASE FragmentWritten(p)
    BY <1>4 DEF FragmentWritten, Rests, readerVars, TypeInv, TypeOK, WriterType
  <1>5. CASE Finishes(p)
    BY <1>5 DEF Finishes, JobDone, Rests, TypeInv, TypeOK, WriterType
  <1>6. CASE EndsLane(p)
    <2>1. written' = [written EXCEPT ![p] = 0] /\ flying' = [flying EXCEPT ![p] = FALSE]
      BY <1>6 DEF EndsLane, Ends, Over
    <2>2. /\ written'[p] = 0 /\ ~flying'[p]
          /\ \A q \in Peer \ {p} : written'[q] = written[q] /\ flying'[q] = flying[q]
      BY <2>1 DEF TypeInv, TypeOK, WriterType
    <2> QED  BY <1>6, <2>2 DEF EndsLane, Rests
  <1> QED  BY <1>2, <1>3, <1>4, <1>5, <1>6

LEMMA CalmBy ==
  ASSUME TypeInv, NEW p \in Peer, Leaves(p), Gentle(p),
         Stays \/ Drops(p) \/ FragmentWritten(p) \/ Finishes(p) \/ Receives(p) \/ EndsLane(p),
         \/ UNCHANGED wire
         \/ Carries(Incoming(p)) => stream'[p][Incoming(p).id].expected = 0
  PROVE  Calm(p)
  BY LaneRests DEF Calm, Apart, Advances, Takes, Leaves, Gentle

\* What may happen to the queue.
LEMMA LeavesSame ==
  ASSUME TypeInv, NEW p \in Peer, UNCHANGED jobs,
         written'[p] = 0 /\ ~flying'[p] => written[p] = 0 /\ ~flying[p]
  PROVE  Leaves(p)
  BY DEF Leaves, Passes, Unwritten

LEMMA LeavesQueue ==
  ASSUME TypeInv, NEW p \in Peer, NEW job, job.kind # "DATA", Queue(p, job),
         UNCHANGED <<written, flying>>
  PROVE  Leaves(p)
  <1> DEFINE v == Append(jobs[p], job)
  <1>1. jobs'[p] = v /\ (\A q \in Peer \ {p} : jobs'[q] = jobs[q]) /\ jobs[p] \in Seq(Job)
    BY DEF Queue, TypeInv, TypeOK, WriterType
  <1>2. \A k \in DOMAIN v : \/ k \in DOMAIN jobs[p] /\ v[k] = jobs[p][k]
                            \/ v[k] = job
    <2>1. /\ DOMAIN v = 1..Len(jobs[p]) + 1 /\ DOMAIN jobs[p] = 1..Len(jobs[p])
          /\ v[Len(jobs[p]) + 1] = job /\ \A k \in 1..Len(jobs[p]) : v[k] = jobs[p][k]
          /\ Len(jobs[p]) \in Nat
      BY <1>1, AppendElements
    <2> HIDE DEF v
    <2> QED  BY <2>1
  <1> HIDE DEF v
  <1>3. Passes(p)
    <2> SUFFICES ASSUME NEW k \in DOMAIN v, v[k].kind = "DATA"
                 PROVE  \E m \in DOMAIN jobs[p] : /\ jobs[p][m] = v[k]
                                                  /\ k \in Unwritten(p)' => m \in Unwritten(p)
      BY <1>1 DEF Passes
    <2>1. k \in DOMAIN jobs[p] /\ jobs[p][k] = v[k]
      BY <1>2
    <2>2. k \in Unwritten(p)' => k \in Unwritten(p)
      BY <2>1 DEF Unwritten
    <2> QED  BY <2>1, <2>2
  <1> QED  BY <1>1, <1>3 DEF Leaves

LEMMA LeavesTail ==
  ASSUME TypeInv, NEW p \in Peer, jobs[p] # <<>>, jobs' = [jobs EXCEPT ![p] = Tail(@)]
  PROVE  Leaves(p)
  <1> DEFINE v == Tail(jobs[p])
  <1>1. jobs'[p] = v /\ (\A q \in Peer \ {p} : jobs'[q] = jobs[q]) /\ jobs[p] \in Seq(Job)
    BY DEF TypeInv, TypeOK, WriterType
  <1>2. \A k \in DOMAIN v : k \in Nat \ {0} /\ k + 1 \in DOMAIN jobs[p] /\ jobs[p][k + 1] = v[k]
    BY <1>1, TailElements
  <1> HIDE DEF v
  <1>3. \A k \in DOMAIN v : k + 1 \in Unwritten(p)
    BY <1>2 DEF Unwritten
  <1> QED  BY <1>1, <1>2, <1>3 DEF Leaves, Passes

LEMMA LeavesAgain ==
  ASSUME TypeInv, NEW p \in Peer, jobs[p] # <<>>, NEW job, job.kind # "DATA",
         jobs' = [jobs EXCEPT ![p] = Append(Tail(@), job)]
  PROVE  Leaves(p)
  <1> DEFINE u == Tail(jobs[p])
             v == Append(u, job)
  <1>1. jobs'[p] = v /\ (\A q \in Peer \ {p} : jobs'[q] = jobs[q]) /\ jobs[p] \in Seq(Job)
    BY DEF TypeInv, TypeOK, WriterType
  <1>2. /\ \A k \in DOMAIN u : k \in Nat \ {0} /\ k + 1 \in DOMAIN jobs[p] /\ jobs[p][k + 1] = u[k]
        /\ u \in Seq(Job)
    BY <1>1, TailElements
  <1> HIDE DEF u
  <1>3. \A k \in DOMAIN v : \/ k \in DOMAIN u /\ v[k] = u[k]
                            \/ v[k] = job
    <2>1. /\ DOMAIN v = 1..Len(u) + 1 /\ DOMAIN u = 1..Len(u)
          /\ v[Len(u) + 1] = job /\ \A k \in 1..Len(u) : v[k] = u[k]
          /\ Len(u) \in Nat
      BY <1>2, AppendElements
    <2> HIDE DEF v
    <2> QED  BY <2>1
  <1> HIDE DEF v
  <1>4. \A k \in DOMAIN u : k + 1 \in Unwritten(p)
    BY <1>2 DEF Unwritten
  <1> QED  BY <1>1, <1>2, <1>3, <1>4 DEF Leaves, Passes

LEMMA LeavesNone ==
  ASSUME TypeInv, NEW p \in Peer, jobs' = [jobs EXCEPT ![p] = <<>>]
  PROVE  Leaves(p)
  BY DEF TypeInv, TypeOK, WriterType, Leaves, Passes

\* What may happen to a stream.
LEMMA GentleStill ==
  ASSUME TypeInv, NEW p \in Peer, UNCHANGED stream
  PROVE  Gentle(p)
  <1>1. \A i \in StreamId : stream[p][i] \in Stream
    BY DEF TypeInv, TypeOK, TableType
  <1>2. \A s \in Stream : Lessened(s, s) /\ Curtailed(s, s)
    BY Unchanging
  <1> QED  BY <1>1, <1>2 DEF Gentle, Settles, Sheds, Curtails

LEMMA CurtailedBy ==
  ASSUME NEW s \in Stream, NEW t, t.calls = s.calls,
         t.tail = s.tail \/ t.tail = <<>> \/ (s.tail # <<>> /\ t.tail = Tail(s.tail))
  PROVE  Curtailed(s, t)
  <1>1. s.tail \in Seq(Op)
    BY DEF Stream
  <1>2. CASE t.tail = s.tail \/ t.tail = <<>>
    <2>1. \A k \in SendAt(t.tail) : k \in Nat /\ k + 0 \in SendAt(s.tail) /\ t.tail[k] = s.tail[k + 0]
      BY <1>1, <1>2 DEF SendAt
    <2> QED  BY <2>1 DEF Curtailed
  <1>3. CASE s.tail # <<>> /\ t.tail = Tail(s.tail)
    <2>1. \A k \in DOMAIN t.tail : /\ k \in Nat \ {0} /\ k + 1 \in DOMAIN s.tail
                                   /\ t.tail[k] = s.tail[k + 1]
      BY <1>1, <1>3, TailElements
    <2>2. \A k \in SendAt(t.tail) : k \in Nat /\ k + 1 \in SendAt(s.tail) /\ t.tail[k] = s.tail[k + 1]
      BY <2>1 DEF SendAt
    <2> QED  BY <2>2 DEF Curtailed
  <1> QED  BY <1>2, <1>3

\* A call of complete() is no item.
LEMMA CurtailedMore ==
  ASSUME NEW s \in Stream, NEW t, t.calls = s.calls,
         NEW op, op.kind # "send", t.tail = Append(s.tail, op)
  PROVE  Curtailed(s, t)
  <1> DEFINE v == Append(s.tail, op)
  <1>1. s.tail \in Seq(Op)
    BY DEF Stream
  <1>2. /\ DOMAIN v = 1..Len(s.tail) + 1 /\ DOMAIN s.tail = 1..Len(s.tail)
        /\ v[Len(s.tail) + 1] = op /\ \A k \in 1..Len(s.tail) : v[k] = s.tail[k]
        /\ Len(s.tail) \in Nat
    BY <1>1, AppendElements
  <1>3. t.tail = v
    OBVIOUS
  <1> HIDE DEF v
  <1>4. \A k \in SendAt(t.tail) : k \in Nat /\ k + 0 \in SendAt(s.tail) /\ t.tail[k] = s.tail[k + 0]
    BY <1>2, <1>3 DEF SendAt
  <1> QED  BY <1>4 DEF Curtailed

LEMMA GentleAt ==
  ASSUME TypeInv, NEW p \in Peer, NEW i \in StreamId, NEW t,
         stream' = [stream EXCEPT ![p][i] = t], Lessened(stream[p][i], t),
         Curtailed(stream[p][i], t)
  PROVE  Gentle(p)
  <1>1. \A k \in StreamId : stream[p][k] \in Stream
    BY DEF TypeInv, TypeOK, TableType
  <1>2. \A s \in Stream : Lessened(s, s) /\ Curtailed(s, s)
    BY Unchanging
  <1>3. stream'[p][i] = t /\ \A k \in StreamId \ {i} : stream'[p][k] = stream[p][k]
    BY ChangedStream
  <1>4. \A q \in Peer \ {p} : stream'[q] = stream[q]
    BY DEF TypeInv, TypeOK, TableType
  <1> QED  BY <1>1, <1>2, <1>3, <1>4 DEF Gentle, Settles, Sheds, Curtails

\* Its items as they were, and its calls as they were or with no more of them.
LEMMA GentleFields ==
  ASSUME TypeInv, NEW p \in Peer, NEW i \in StreamId, NEW t,
         stream' = [stream EXCEPT ![p][i] = t], t.got = stream[p][i].got,
         \/ t.expected = stream[p][i].expected /\ t.partial = stream[p][i].partial
         \/ t.expected = 0 /\ t.partial = <<>>,
         t.calls = stream[p][i].calls,
         \/ t.tail = stream[p][i].tail \/ t.tail = <<>>
         \/ stream[p][i].tail # <<>> /\ t.tail = Tail(stream[p][i].tail)
  PROVE  Gentle(p)
  <1> DEFINE s == stream[p][i]
  <1>1. s \in Stream
    BY DEF TypeInv, TypeOK, TableType
  <1>2. /\ t.calls = s.calls
        /\ t.tail = s.tail \/ t.tail = <<>> \/ (s.tail # <<>> /\ t.tail = Tail(s.tail))
    OBVIOUS
  <1>3. Lessened(s, t)
    BY DEF Lessened
  <1>4. Curtailed(s, t)
    <2> HIDE DEF s
    <2> QED  BY <1>1, <1>2, CurtailedBy
  <1> QED  BY <1>3, <1>4, GentleAt

LEMMA GentleCancel ==
  ASSUME TypeInv, NEW p \in Peer, NEW i \in StreamId, NEW s \in Stream, NEW late,
         CancelStream(p, i, s, late), s.got = stream[p][i].got, s.calls = stream[p][i].calls
  PROVE  Gentle(p) /\ stream'[p][i].expected = 0
  <1> DEFINE t == Cancelled(s)
  <1>1. stream' = [stream EXCEPT ![p][i] = t]
    BY DEF CancelStream
  <1>2. /\ t.got = s.got /\ t.expected = 0 /\ t.partial = <<>>
        /\ t.calls = s.calls /\ t.tail = <<>>
    BY DEF Cancelled, Stream
  <1> HIDE DEF t
  <1>3. stream'[p][i] = t
    BY <1>1, ChangedStream, ZenonT(30)
  <1> QED  BY <1>1, <1>2, <1>3, GentleFields

LEMMA LeavesRefused ==
  ASSUME TypeInv, NEW p \in Peer, NEW i, Refuse(p, i), UNCHANGED <<written, flying>>
  PROVE  Leaves(p)
  <1>1. PICK fits \in Encodable :
          Queue(p, [Plain("ERROR", i) EXCEPT !.fits = fits, !.reader = TRUE])
    BY DEF Refuse
  <1> DEFINE job == [Plain("ERROR", i) EXCEPT !.fits = fits, !.reader = TRUE]
  <1>2. job.kind # "DATA" /\ Queue(p, job)
    BY <1>1 DEF Plain
  <1> HIDE DEF job
  <1> QED  BY <1>2, LeavesQueue

\* The application's calls, but send().
LEMMA CalmRequest ==
  ASSUME TypeInv, NEW p \in Peer, NEW i \in StreamId, NEW n \in Demands, Request(p, i, n)
  PROVE  Calm(p)
  <1> DEFINE s == stream[p][i]
             t == [s EXCEPT !.inCredit = AddCredit(@, n), !.asked = @ + n]
             job == [Plain("DEMAND", i) EXCEPT !.amount = n]
  <1>1. Update(p, i, t) /\ Queue(p, job) /\ UNCHANGED <<written, flying, wire>>
    BY DEF Request, readerVars
  <1>2. s \in Stream /\ job.kind # "DATA"
    BY StreamOf DEF TypeInv, TypeOK, Plain
  <1>3. /\ t.got = s.got /\ t.expected = s.expected /\ t.partial = s.partial
        /\ t.calls = s.calls /\ t.tail = s.tail
    BY <1>2 DEF Stream
  <1> HIDE DEF t, job
  <1>4. stream' = [stream EXCEPT ![p][i] = t]
    BY <1>1 DEF Update
  <1>5. Gentle(p)
    BY <1>3, <1>4, GentleFields
  <1>6. Leaves(p)
    BY <1>1, <1>2, LeavesQueue
  <1>7. Stays
    BY CallsStay
  <1> QED  BY <1>1, <1>5, <1>6, <1>7, CalmBy

LEMMA CalmComplete ==
  ASSUME TypeInv, NEW p \in Peer, NEW i \in StreamId, Complete(p, i)
  PROVE  Calm(p)
  <1> DEFINE s == stream[p][i]
             op == [kind |-> "complete", item |-> 0, size |-> 1]
             t == [s EXCEPT !.tail = Append(@, op)]
  <1>1. Update(p, i, t) /\ UNCHANGED <<jobs, written, flying, wire>>
    BY DEF Complete, readerVars, writerVars
  <1>2. s \in Stream /\ op.kind # "send"
    BY StreamOf DEF TypeInv, TypeOK
  <1>3. /\ t.got = s.got /\ t.expected = s.expected /\ t.partial = s.partial
        /\ t.calls = s.calls /\ t.tail = Append(s.tail, op)
    BY <1>2 DEF Stream
  <1> HIDE DEF t, op
  <1>4. stream' = [stream EXCEPT ![p][i] = t]
    BY <1>1 DEF Update
  <1>5. Gentle(p)
    <2>1. Lessened(s, t)
      BY <1>3 DEF Lessened
    <2>2. Curtailed(s, t)
      <3> HIDE DEF s
      <3> QED  BY <1>2, <1>3, CurtailedMore
    <2> QED  BY <1>4, <2>1, <2>2, GentleAt
  <1>6. Leaves(p)
    BY <1>1, LeavesSame
  <1>7. Stays
    BY CallsStay
  <1> QED  BY <1>1, <1>5, <1>6, <1>7, CalmBy

LEMMA CalmEnd ==
  ASSUME TypeInv, NEW p \in Peer, NEW i \in StreamId, Cancel(p, i) \/ Fail(p, i)
  PROVE  Calm(p)
  <1>1. PICK call \in {"cancel", "fail"}, kind \in {"CANCEL", "ERROR"} : End(p, i, call, kind)
    BY DEF Cancel, Fail
  <1>2. PICK fits \in Encodable : Queue(p, [Plain(kind, i) EXCEPT !.fits = fits])
    BY <1>1 DEF End
  <1>3. /\ CancelStream(p, i, stream[p][i], TRUE) /\ UNCHANGED <<written, flying, wire>>
    BY <1>1 DEF End, readerVars
  <1>4. stream[p][i] \in Stream
    BY StreamOf DEF TypeInv, TypeOK
  <1>5. Gentle(p)
    BY <1>3, <1>4, GentleCancel
  <1>6. Leaves(p)
    <2> DEFINE job == [Plain(kind, i) EXCEPT !.fits = fits]
    <2>1. job.kind # "DATA" /\ Queue(p, job)
      BY <1>2 DEF Plain
    <2> HIDE DEF job
    <2> QED  BY <1>3, <2>1, LeavesQueue
  <1>7. Stays
    BY CallsStay
  <1> QED  BY <1>3, <1>5, <1>6, <1>7, CalmBy

LEMMA CalmSession ==
  ASSUME TypeInv, NEW p \in Peer, TakeIncoming(p) \/ Close(p) \/ CloseDetached(p)
  PROVE  Calm(p)
  <1>1. UNCHANGED <<written, flying, wire>>
    BY DEF TakeIncoming, Close, CloseDetached, writerVars, readerVars
  <1>2. Stays
    BY SessionStays
  <1>3. CASE TakeIncoming(p)
    <2> DEFINE i == Head(pending[p])
               s == stream[p][i]
               t == [s EXCEPT !.handle = TRUE]
    <2>1. Update(p, i, t) /\ pending[p] # <<>> /\ UNCHANGED jobs
      BY <1>3 DEF TakeIncoming, writerVars
    <2>2. pending[p] \in Seq(StreamId)
      BY DEF TypeInv, TypeOK, IdType
    <2>3. i \in StreamId
      BY <2>1, <2>2, HeadTailProperties
    <2>4. s \in Stream
      BY <2>3, StreamOf DEF TypeInv, TypeOK
    <2>5. /\ t.got = s.got /\ t.expected = s.expected /\ t.partial = s.partial
          /\ t.calls = s.calls /\ t.tail = s.tail
      BY <2>4 DEF Stream
    <2> HIDE DEF t, i
    <2>6. stream' = [stream EXCEPT ![p][i] = t]
      BY <2>1 DEF Update
    <2>7. Gentle(p)
      BY <2>3, <2>5, <2>6, GentleFields
    <2>8. Leaves(p)
      BY <1>1, <2>1, LeavesSame
    <2> QED  BY <1>1, <1>2, <2>7, <2>8, CalmBy
  <1>4. CASE Close(p)
    <2>1. PICK fits \in Encodable : Queue(p, [Plain("CLOSE", 0) EXCEPT !.fits = fits])
      BY <1>4 DEF Close
    <2> DEFINE job == [Plain("CLOSE", 0) EXCEPT !.fits = fits]
    <2>2. job.kind # "DATA" /\ Queue(p, job)
      BY <2>1 DEF Plain
    <2> HIDE DEF job
    <2>3. Leaves(p)
      BY <1>1, <2>2, LeavesQueue
    <2>4. Gentle(p)
      BY <1>4, GentleStill DEF Close, tableVars
    <2> QED  BY <1>1, <1>2, <2>3, <2>4, CalmBy
  <1>5. CASE CloseDetached(p)
    <2>1. Leaves(p)
      BY <1>1, <1>5, LeavesSame DEF CloseDetached, writerVars
    <2>2. Gentle(p)
      BY <1>5, GentleStill DEF CloseDetached, tableVars
    <2> QED  BY <1>1, <1>2, <2>1, <2>2, CalmBy
  <1> QED  BY <1>3, <1>4, <1>5

\* A stream that is opened under a new id has nothing to lose.
LEMMA GentleNew ==
  ASSUME TypeInv, NEW p \in Peer, NEW i \in StreamId, Untouched(stream[p][i]), NEW t,
         stream' = [stream EXCEPT ![p][i] = t],
         t.got = <<>>, t.expected = 0, t.partial = <<>>, t.calls = 0, t.tail = <<>>
  PROVE  Gentle(p)
  <1> DEFINE s == stream[p][i]
  <1>1. s \in Stream /\ s.calls = 0
    BY StreamOf DEF TypeInv, TypeOK, Untouched
  <1>2. Lessened(s, t)
    BY DEF Lessened
  <1>3. Curtailed(s, t)
    <2> HIDE DEF s
    <2> QED  BY <1>1, CurtailedBy
  <1> QED  BY <1>2, <1>3, GentleAt

LEMMA CalmOpen ==
  ASSUME TableInv, NEW p \in Peer, Open(p)
  PROVE  Calm(p)
  <1> DEFINE i == nextId[p]
  <1>1. PICK w \in Weights, fits \in Encodable :
          /\ stream' = [stream EXCEPT ![p][i] = NewStream(w)]
          /\ Queue(p, [Plain("OPEN", i) EXCEPT !.amount = w, !.fits = fits])
    BY DEF Open
  <1>2. TypeInv /\ IdInv /\ i \in StreamId /\ ~opening[p] /\ UNCHANGED <<written, flying, wire>>
    BY DEF Open, TableInv, IdInv, readerVars
  <1>3. Untouched(stream[p][i])
    BY <1>2, NextIdFresh, SoundOf
  <1> DEFINE t == NewStream(w)
             job == [Plain("OPEN", i) EXCEPT !.amount = w, !.fits = fits]
  <1>4. /\ t.got = <<>> /\ t.expected = 0 /\ t.partial = <<>> /\ t.calls = 0 /\ t.tail = <<>>
        /\ stream' = [stream EXCEPT ![p][i] = t]
    BY <1>1 DEF NewStream
  <1>5. job.kind # "DATA" /\ Queue(p, job)
    BY <1>1 DEF Plain
  <1> HIDE DEF t, job, i
  <1>6. Gentle(p)
    BY <1>2, <1>3, <1>4, GentleNew
  <1>7. Leaves(p)
    BY <1>2, <1>5, LeavesQueue
  <1>8. Stays
    BY <1>2, SessionStays
  <1> QED  BY <1>2, <1>6, <1>7, <1>8, CalmBy

\* The calls of a stream's writeTail that are refused, or are no item.
LEMMA CalmTail ==
  ASSUME TypeInv, NEW p \in Peer, NEW i \in StreamId, SendTooLarge(p, i) \/ CompleteNext(p, i)
  PROVE  Calm(p)
  <1> DEFINE s == stream[p][i]
  <1>1. s \in Stream /\ s.tail # <<>> /\ UNCHANGED <<written, flying, wire>>
    BY StreamOf DEF TypeInv, TypeOK, SendTooLarge, CompleteNext, Waiting, writerVars, readerVars
  <1>2. Stays
    BY TailStays DEF StreamTail
  <1>3. CASE SendTooLarge(p, i)
    <2> DEFINE t == [s EXCEPT !.outCredit = Refund(s), !.tail = Tail(@)]
    <2>1. Update(p, i, t) /\ UNCHANGED jobs
      BY <1>3 DEF SendTooLarge, writerVars
    <2>2. /\ t.got = s.got /\ t.expected = s.expected /\ t.partial = s.partial
          /\ t.calls = s.calls /\ t.tail = Tail(s.tail)
      BY <1>1 DEF Stream
    <2> HIDE DEF t
    <2>3. stream' = [stream EXCEPT ![p][i] = t]
      BY <2>1 DEF Update
    <2>4. Gentle(p)
      BY <1>1, <2>2, <2>3, GentleFields
    <2>5. Leaves(p)
      BY <1>1, <2>1, LeavesSame
    <2> QED  BY <1>1, <1>2, <2>4, <2>5, CalmBy
  <1>4. CASE CompleteNext(p, i)
    <2> DEFINE t == [s EXCEPT !.tail = Tail(@), !.busy = TRUE]
    <2>1. Update(p, i, t) /\ Queue(p, Plain("COMPLETE", i))
      BY <1>4 DEF CompleteNext
    <2>2. /\ t.got = s.got /\ t.expected = s.expected /\ t.partial = s.partial
          /\ t.calls = s.calls /\ t.tail = Tail(s.tail)
      BY <1>1 DEF Stream
    <2> HIDE DEF t
    <2>3. stream' = [stream EXCEPT ![p][i] = t]
      BY <2>1 DEF Update
    <2>4. Gentle(p)
      BY <1>1, <2>2, <2>3, GentleFields
    <2>5. Plain("COMPLETE", i).kind # "DATA"
      BY DEF Plain
    <2>6. Leaves(p)
      BY <1>1, <2>1, <2>5, LeavesQueue
    <2> QED  BY <1>1, <1>2, <2>4, <2>6, CalmBy
  <1> QED  BY <1>3, <1>4

\* An ended session keeps nothing that is incomplete.
LEMMA CalmEnds ==
  ASSUME TableInv, NEW p \in Peer, EndsLane(p)
  PROVE  Calm(p)
  <1>1. PICK state \in {"closed", "detached"}, why \in {"none", "lost", "violation", "exhausted"} :
          Over(p, state, why)
    BY DEF EndsLane, Ends
  <1>2. TypeInv /\ \A i \in StreamId : i \notin live[p] => stream[p][i].expected = 0
    BY SoundOf DEF TableInv, IdInv, StreamSound
  <1> DEFINE v == [i \in StreamId |-> IF i \in live[p]
                         THEN [Cancelled(stream[p][i]) EXCEPT !.busy = FALSE]
                         ELSE [stream[p][i] EXCEPT !.busy = FALSE]]
  <1>3. stream' = [stream EXCEPT ![p] = v]
    BY <1>1 DEF Over
  <1>4. \A i \in StreamId : \/ v[i] = [Cancelled(stream[p][i]) EXCEPT !.busy = FALSE]
                            \/ i \notin live[p] /\ v[i] = [stream[p][i] EXCEPT !.busy = FALSE]
    OBVIOUS
  <1> HIDE DEF v
  <1>5. stream'[p] = v /\ \A q \in Peer \ {p} : stream'[q] = stream[q]
    BY <1>2, <1>3 DEF TypeInv, TypeOK, TableType
  <1>6. ASSUME NEW i \in StreamId
        PROVE  /\ Lessened(stream[p][i], v[i]) /\ Curtailed(stream[p][i], v[i])
               /\ v[i].expected = 0
    <2> DEFINE s == stream[p][i]
               t == v[i]
    <2>1. s \in Stream
      BY <1>2, StreamOf DEF TypeInv, TypeOK
    <2>2. /\ t.got = s.got /\ t.calls = s.calls
          /\ \/ t.expected = 0 /\ t.partial = <<>> /\ t.tail = <<>>
             \/ t.expected = 0 /\ s.expected = 0 /\ t.partial = s.partial /\ t.tail = s.tail
      BY <1>2, <1>4, <2>1, ZenonT(30) DEF Cancelled, Stream
    <2> HIDE DEF s, t
    <2>3. Curtailed(s, t)
      BY <2>1, <2>2, CurtailedBy
    <2>4. Lessened(s, t) /\ t.expected = 0
      BY <2>2 DEF Lessened
    <2> QED  BY <2>3, <2>4 DEF s, t
  <1>7. Gentle(p)
    BY <1>5, <1>6 DEF Gentle, Settles, Sheds, Curtails
  <1>8. Leaves(p)
    BY <1>1, <1>2, LeavesNone DEF Over
  <1>9. UNCHANGED wire \/ (Carries(Incoming(p)) => stream'[p][Incoming(p).id].expected = 0)
    <2>1. CASE ~UNCHANGED wire
      <3>1. wire[Other(p)] # <<>>
        BY <2>1 DEF EndsLane
      <3>2. Carries(Incoming(p)) => Incoming(p).id \in StreamId
        BY <1>2, <3>1, FirstFrame DEF TypeInv, TypeOK, Carries
      <3> QED  BY <1>5, <1>6, <3>2
    <2> QED  BY <2>1
  <1> QED  BY <1>2, <1>7, <1>8, <1>9, CalmBy

\* The writes, but for a frame that is handed to the lane.
LEMMA CalmWriteStream ==
  ASSUME TypeInv, NEW p \in Peer, NEW i \in StreamId,
         LET s == stream[p][i]
         IN \/ stream' = [stream EXCEPT ![p][i] = [s EXCEPT !.busy = FALSE]]
            \/ stream' = [stream EXCEPT ![p][i] = [s EXCEPT !.handle = TRUE]]
            \/ stream' = [stream EXCEPT ![p][i] = [s EXCEPT !.busy = FALSE, !.sent = @ + 1]]
            \/ stream' = [stream EXCEPT ![p][i] =
                 [s EXCEPT !.outClosed = TRUE, !.tail = <<>>, !.busy = FALSE]]
  PROVE  Gentle(p)
  <1> DEFINE s == stream[p][i]
             a == [s EXCEPT !.busy = FALSE]
             b == [s EXCEPT !.handle = TRUE]
             c == [s EXCEPT !.busy = FALSE, !.sent = @ + 1]
             d == [s EXCEPT !.outClosed = TRUE, !.tail = <<>>, !.busy = FALSE]
  <1>1. s \in Stream
    BY StreamOf DEF TypeInv, TypeOK
  <1>2. \A t \in {a, b, c} : /\ t.got = s.got /\ t.expected = s.expected /\ t.partial = s.partial
                             /\ t.calls = s.calls /\ t.tail = s.tail
    BY <1>1 DEF Stream
  <1>3. /\ d.got = s.got /\ d.expected = s.expected /\ d.partial = s.partial
        /\ d.calls = s.calls /\ d.tail = <<>>
    BY <1>1 DEF Stream
  <1>4. \E t \in {a, b, c, d} : stream' = [stream EXCEPT ![p][i] = t]
    OBVIOUS
  <1> HIDE DEF a, b, c, d
  <1>5. ASSUME NEW t \in {a, b, c, d}, stream' = [stream EXCEPT ![p][i] = t] PROVE Gentle(p)
    <2>1. /\ t.got = s.got /\ t.expected = s.expected /\ t.partial = s.partial
          /\ t.calls = s.calls
          /\ (t.tail = s.tail \/ t.tail = <<>>)
      BY <1>2, <1>3, <1>5
    <2> HIDE DEF s
    <2> QED  BY <1>5, <2>1, GentleFields DEF s
  <1> QED  BY <1>4, <1>5

LEMMA CalmWrite ==
  ASSUME TableInv, NEW p \in Peer, Write(p)
  PROVE  WriteFrame(p) \/ Calm(p)
  <1> DEFINE i == Head(jobs[p]).id
  <1>0. TypeInv
    BY DEF TableInv, IdInv
  <1>1. Drops(p) \/ WriteFrame(p) \/ FragmentWritten(p) \/ Finishes(p) \/ EndsLane(p)
    BY <1>0, WriteKinds
  <1>2. jobs[p] # <<>> /\ Head(jobs[p]).kind # "CLOSE" => i \in StreamId
    BY <1>0, FirstJob DEF TypeInv, TypeOK
  <1>3. flying[p] => jobs[p] # <<>>
    BY <1>0 DEF TypeInv, WritesFirst
  <1> HIDE DEF i
  <1>4. CASE Abandon(p)
    <2>1. /\ jobs[p] # <<>> /\ i \in StreamId /\ jobs' = [jobs EXCEPT ![p] = Tail(@)]
          /\ stream' = [stream EXCEPT ![p][i] = [stream[p][i] EXCEPT !.busy = FALSE]]
          /\ UNCHANGED wire
      BY <1>2, <1>4 DEF Abandon, CanWrite, Abandoned, Update, readerVars, i
    <2> QED  BY <1>0, <1>1, <2>1, LeavesTail, CalmWriteStream, CalmBy
  <1>5. CASE RollBackOpen(p) \/ DemandWritten(p) \/ EndingWritten(p)
    <2>1. /\ jobs[p] # <<>> /\ jobs' = [jobs EXCEPT ![p] = Tail(@)] /\ UNCHANGED <<stream, wire>>
      BY <1>3, <1>5 DEF RollBackOpen, CanWrite, DemandWritten, EndingWritten, JobWritten, JobDone,
                        tableVars, readerVars
    <2> QED  BY <1>0, <1>1, <2>1, LeavesTail, GentleStill, CalmBy
  <1>6. CASE DropReason(p)
    <2> DEFINE job == [Head(jobs[p]) EXCEPT !.fits = TRUE]
    <2>1. /\ jobs[p] # <<>> /\ HasReason(Head(jobs[p])) /\ UNCHANGED <<stream, wire>>
          /\ jobs' = [jobs EXCEPT ![p] = Append(Tail(@), job)]
      BY <1>6 DEF DropReason, CanWrite, tableVars, readerVars
    <2>2. job.kind # "DATA"
      <3>1. Head(jobs[p]) \in Job
        BY <1>0, <2>1, FirstJob DEF TypeInv, TypeOK
      <3> QED  BY <2>1, <3>1 DEF HasReason, Job, JobOf
    <2> HIDE DEF job
    <2> QED  BY <1>0, <1>1, <2>1, <2>2, LeavesAgain, GentleStill, CalmBy
  <1>7. CASE FragmentWritten(p)
    <2>1. UNCHANGED <<stream, wire, jobs>> /\ written'[p] = written[p] + 1 /\ written[p] \in Nat
      BY <1>0, <1>7 DEF FragmentWritten, tableVars, readerVars, TypeInv, TypeOK, WriterType
    <2> QED  BY <1>0, <1>7, <2>1, LeavesSame, GentleStill, CalmBy
  <1>8. CASE OpenWritten(p)
    <2>1. /\ jobs[p] # <<>> /\ i \in StreamId /\ jobs' = [jobs EXCEPT ![p] = Tail(@)]
          /\ stream' = [stream EXCEPT ![p][i] = [stream[p][i] EXCEPT !.handle = TRUE]]
          /\ UNCHANGED wire
      BY <1>2, <1>3, <1>8 DEF OpenWritten, JobWritten, JobDone, Update, readerVars, i
    <2> QED  BY <1>0, <1>1, <2>1, LeavesTail, CalmWriteStream, CalmBy
  <1>9. CASE DataWritten(p)
    <2>1. /\ jobs[p] # <<>> /\ i \in StreamId /\ jobs' = [jobs EXCEPT ![p] = Tail(@)]
          /\ stream' = [stream EXCEPT ![p][i] = [stream[p][i] EXCEPT !.busy = FALSE, !.sent = @ + 1]]
          /\ UNCHANGED wire
      BY <1>2, <1>3, <1>9 DEF DataWritten, JobWritten, JobDone, Update, readerVars, i
    <2> QED  BY <1>0, <1>1, <2>1, LeavesTail, CalmWriteStream, CalmBy
  <1>10. CASE CompleteWritten(p)
    <2>1. /\ jobs[p] # <<>> /\ i \in StreamId /\ jobs' = [jobs EXCEPT ![p] = Tail(@)]
          /\ stream' = [stream EXCEPT ![p][i] =
                         [stream[p][i] EXCEPT !.outClosed = TRUE, !.tail = <<>>, !.busy = FALSE]]
          /\ UNCHANGED wire
      BY <1>2, <1>3, <1>10 DEF CompleteWritten, JobWritten, JobDone, Release, readerVars, i
    <2> QED  BY <1>0, <1>1, <2>1, LeavesTail, CalmWriteStream, CalmBy
  <1>11. CASE Exhaust(p) \/ CloseWritten(p)
    <2>1. EndsLane(p)
      BY <1>0, <1>11, SessionEnds DEF EndsLane, Exhaust, CloseWritten
    <2> QED  BY <2>1, CalmEnds
  <1> QED  BY <1>4, <1>5, <1>6, <1>7, <1>8, <1>9, <1>10, <1>11 DEF Write


\* The frames that bring no unit of an item to a stream of the table.
LEMMA CalmReadStream ==
  ASSUME TypeInv, NEW p \in Peer, ReadDemand(p) \/ ReadComplete(p)
  PROVE  Gentle(p)
  <1> DEFINE i == Incoming(p).id
             s == stream[p][i]
             c == AddCredit(s.outCredit, Incoming(p).amount)
             a == [s EXCEPT !.outCredit = AddCredit(@, Incoming(p).amount)]
             b == [s EXCEPT !.inClosed = TRUE]
  <1>1. i \in StreamId
    BY ReadsType DEF ReadDemand, ReadComplete, ReadsLive
  <1>2. s \in Stream
    BY <1>1, StreamOf DEF TypeInv, TypeOK
  <1>3. \A t \in {a, b} : /\ t.got = s.got /\ t.expected = s.expected /\ t.partial = s.partial
                          /\ t.calls = s.calls /\ t.tail = s.tail
    BY <1>2 DEF Stream
  <1>4. \E t \in {a, b} : stream' = [stream EXCEPT ![p][i] = t]
    BY DEF ReadDemand, ReadComplete, Update, Release
  <1> HIDE DEF a, b, i
  <1> QED  BY <1>1, <1>3, <1>4, GentleFields

LEMMA CalmRead ==
  ASSUME TableInv, NEW p \in Peer,
         \/ ReadLate(p) \/ ReadDemand(p) \/ ReadComplete(p) \/ ReadEnding(p) \/ RefuseReassembly(p)
  PROVE  Calm(p)
  <1> DEFINE f == Incoming(p)
             i == f.id
  <1>0. TypeInv
    BY DEF TableInv, IdInv
  <1>1. /\ Reads(p, {"DATA", "FRAGMENT", "DEMAND", "COMPLETE", "CANCEL", "ERROR"})
        /\ UNCHANGED <<written, flying>>
    BY DEF ReadLate, ReadDemand, ReadComplete, ReadEnding, RefuseReassembly, ReadsLive, Reads,
           writerVars
  <1>2. i \in StreamId /\ Read(p)
    BY <1>0, <1>1, ReadsType DEF Read
  <1>3. stream[p][i] \in Stream
    BY <1>2, SoundOf
  <1>4. Receives(p) \/ EndsLane(p)
    BY <1>0, <1>2, ReadKinds
  <1>5. CASE ReadLate(p)
    <2>1. UNCHANGED <<stream, jobs>> /\ i \notin live[p]
      BY <1>5 DEF ReadLate, tableVars, writerVars
    <2>2. stream'[p][i].expected = 0
      BY <1>2, <2>1, SoundOf DEF StreamSound
    <2> QED  BY <1>0, <1>1, <1>4, <2>1, <2>2, LeavesSame, GentleStill, CalmBy
  <1>6. CASE ReadDemand(p) \/ ReadComplete(p)
    <2>1. UNCHANGED jobs /\ ~Carries(f)
      BY <1>6 DEF ReadDemand, ReadComplete, ReadsLive, Reads, Carries, writerVars
    <2> QED  BY <1>0, <1>1, <1>4, <1>6, <2>1, LeavesSame, CalmReadStream, CalmBy
  <1>7. CASE ReadEnding(p)
    <2>1. UNCHANGED jobs /\ ~Carries(f) /\ CancelStream(p, i, stream[p][i], FALSE)
      BY <1>7 DEF ReadEnding, ReadsLive, Reads, Carries, writerVars
    <2> HIDE DEF i, f
    <2>2. Gentle(p)
      BY <1>0, <1>2, <1>3, <2>1, GentleCancel
    <2> QED  BY <1>0, <1>1, <1>4, <2>1, <2>2, LeavesSame, CalmBy DEF f
  <1>8. CASE RefuseReassembly(p)
    <2> DEFINE u == [stream[p][i] EXCEPT !.inCredit = @ - 1]
    <2>1. ReadsLive(p, {"DATA"}) /\ CancelStream(p, i, u, TRUE) /\ Refuse(p, i)
      BY <1>8 DEF RefuseReassembly
    <2>2. stream[p][i].inCredit - 1 \in 0..MaxCredit
      BY <1>0, <2>1, LegalData
    <2>3. u \in Stream /\ u.got = stream[p][i].got /\ u.calls = stream[p][i].calls
      BY <1>3, <2>2 DEF Stream
    <2> HIDE DEF u, i
    <2>4. Gentle(p) /\ stream'[p][i].expected = 0
      BY <1>0, <1>2, <2>1, <2>3, GentleCancel
    <2>5. Leaves(p)
      BY <1>0, <1>1, <2>1, LeavesRefused
    <2> QED  BY <1>0, <1>4, <2>4, <2>5, CalmBy DEF i
  <1> QED  BY <1>5, <1>6, <1>7, <1>8

LEMMA CalmOpens ==
  ASSUME TableInv, NEW p \in Peer, TurnsAway(p) \/ Admits(p)
  PROVE  Calm(p)
  <1>1. /\ ReadsOpen(p) /\ Reads(p, {"OPEN"}) /\ TypeInv /\ IdInv /\ Read(p)
        /\ UNCHANGED <<written, flying>>
    BY DEF TurnsAway, Admits, RejectOpen, AcceptorThrows, HandleOpen, PendOpen, ReadsOpen,
           TableInv, IdInv, Read
  <1>2. PICK i \in StreamId : i = Incoming(p).id /\ ~IsPast(p, i)
    BY <1>1, RemoteIdFresh
  <1>3. Untouched(stream[p][i]) /\ ~Carries(Incoming(p))
    BY <1>1, <1>2, SoundOf DEF Reads, Carries
  <1>4. Receives(p) \/ EndsLane(p)
    BY <1>1, ReadKinds
  <1>5. Leaves(p)
    <2>1. CASE TurnsAway(p)
      BY <1>1, <1>2, <2>1, LeavesRefused DEF TurnsAway, RejectOpen, AcceptorThrows
    <2>2. CASE Admits(p)
      BY <1>1, <2>2, LeavesSame DEF Admits, HandleOpen, PendOpen
    <2> QED  BY <2>1, <2>2
  <1>6. Gentle(p)
    <2> DEFINE a == NewStream(Incoming(p).amount)
               b == [a EXCEPT !.handle = TRUE]
               c == Cancelled(a)
    <2>1. UNCHANGED stream \/ \E t \in {a, b, c} : stream' = [stream EXCEPT ![p][i] = t]
      BY <1>2 DEF TurnsAway, Admits, RejectOpen, AcceptorThrows, HandleOpen, PendOpen
    <2>2. \A t \in {a, b, c} : /\ t.got = <<>> /\ t.expected = 0 /\ t.partial = <<>>
                               /\ t.calls = 0 /\ t.tail = <<>>
      <3>1. a.got = <<>> /\ a.expected = 0 /\ a.partial = <<>> /\ a.calls = 0 /\ a.tail = <<>>
        BY DEF NewStream
      <3>2. b.got = <<>> /\ b.expected = 0 /\ b.partial = <<>> /\ b.calls = 0 /\ b.tail = <<>>
        BY DEF NewStream
      <3>3. c.got = <<>> /\ c.calls = 0
        BY DEF NewStream, Cancelled
      <3>4. c.expected = 0 /\ c.partial = <<>> /\ c.tail = <<>>
        BY DEF NewStream, Cancelled
      <3> HIDE DEF a, b, c
      <3> QED  BY <3>1, <3>2, <3>3, <3>4
    <2> HIDE DEF a, b, c
    <2> QED  BY <1>1, <1>3, <2>1, <2>2, GentleStill, GentleNew
  <1> QED  BY <1>1, <1>3, <1>4, <1>5, <1>6, CalmBy

\* Every step is calm, or moves an item on.
LEMMA ItemKinds ==
  ASSUME TableInv, Next
  PROVE  \E p \in Peer :
           \/ Calm(p) \/ WriteFrame(p)
           \/ \E i \in StreamId : SendNext(p, i) \/ \E size \in ItemSizes : Send(p, i, size)
           \/ ReadData(p) \/ StartReassembly(p) \/ ReadFragment(p)
  <1>1. PICK p \in Peer : \/ Application(p) \/ Write(p) \/ LaneFails(p) \/ Read(p)
                          \/ \E i \in StreamId : StreamTail(p, i)
    BY DEF Next
  <1>2. TypeInv
    BY DEF TableInv, IdInv
  <1>3. CASE Application(p)
    BY <1>2, <1>3, CalmOpen, CalmSession, CalmRequest, CalmComplete, CalmEnd, Zenon DEF Application
  <1>4. CASE Write(p)
    BY <1>4, CalmWrite
  <1>5. CASE LaneFails(p)
    <2>1. EndsLane(p)
      BY <1>2, <1>5, SessionEnds DEF LaneFails, EndsLane
    <2> QED  BY <2>1, CalmEnds
  <1>6. CASE Read(p)
    <2>1. CASE ReadIllegal(p) \/ ReadClose(p) \/ CarrierEnds(p)
      <3>1. Receives(p) \/ EndsLane(p)
        BY <1>2, <1>6, ReadKinds
      <3>2. Ends(p)
        BY <1>2, <2>1, SessionEnds
      <3>3. ~Receives(p)
        <4>1. ~Ready(p)' /\ Ready(p)
          BY <1>2, <2>1, <3>2 DEF Ends, Over, Ready, TypeInv, TypeOK, StateType, ReadIllegal,
                                  ReadClose, Reads, CanRead, CarrierEnds
        <4> QED  BY <4>1 DEF Receives, Ready
      <3> QED  BY <3>1, <3>3, CalmEnds
    <2>2. CASE TurnsAway(p) \/ Admits(p)
      BY <2>2, CalmOpens
    <2>3. CASE \/ ReadLate(p) \/ ReadDemand(p) \/ ReadComplete(p) \/ ReadEnding(p)
               \/ RefuseReassembly(p)
      BY <2>3, CalmRead
    <2> QED  BY <1>6, <2>1, <2>2, <2>3 DEF Read, TurnsAway, Admits
  <1>7. CASE \E i \in StreamId : StreamTail(p, i)
    BY <1>2, <1>7, CalmTail DEF StreamTail
  <1> QED  BY <1>1, <1>3, <1>4, <1>5, <1>6, <1>7

-----------------------------------------------------------------------------
(* The steps that move an item on                                          *)

\* p moves an item on towards the lane it writes.
LEMMA ItemsWritten ==
  ASSUME ItemInv, NEW p \in Peer, Apart(p), Sheds(p), wire'[Other(p)] = wire[Other(p)],
         Sized(p)', LaneIntact(p)', \A i \in StreamId : Increases(p, i)'
  PROVE  \A q \in Peer : Items(q)'
  <1>1. \A q \in Peer : q = p \/ q = Other(p)
    BY DEF Peer, Other
  <1>2. \A i \in StreamId : Assembled(stream'[p][i])
    BY ItemFacts, AssembledLess DEF Sheds
  <1>3. /\ Sized(Other(p))' /\ LaneIntact(Other(p))'
        /\ \A i \in StreamId : Assembled(stream'[Other(p)][i]) /\ Increases(Other(p), i)'
    BY CalmReader
  <1>4. Items(p)'
    BY <1>2 DEF Items
  <1>5. Items(Other(p))'
    BY <1>3 DEF Items
  <1> QED  BY <1>1, <1>4, <1>5

\* p takes a frame of its stream i, whose state is t afterwards.
LEMMA ItemsTaken ==
  ASSUME ItemInv, NEW p \in Peer, wire[Other(p)] # <<>>,
         wire' = [wire EXCEPT ![Other(p)] = Tail(@)], UNCHANGED <<jobs, written, flying>>,
         NEW i \in StreamId, i = Incoming(p).id, NEW t,
         stream' = [stream EXCEPT ![p][i] = t],
         t.calls = stream[p][i].calls, t.tail = stream[p][i].tail, Assembled(t),
         Matches(t, Incoming(p).item, Incoming(p).size, Incoming(p).part),
         \A k, m \in DOMAIN t.got : k < m => t.got[k][1].item < t.got[m][1].item,
         t.expected > 0 => \A k \in DOMAIN t.got : t.got[k][1].item < t.partial[1].item,
         \A n : (/\ Published(stream[p][i], n)
                 /\ Incoming(p).kind = "DATA" => Incoming(p).item < n) => Published(t, n)
  PROVE  \A q \in Peer : Items(q)'
  <1> DEFINE o == Other(p)
             w == wire[o]
             f == Incoming(p)
             s == stream[p][i]
  <1>1. /\ o \in Peer \ {p} /\ Other(o) = p /\ w \in Seq(Frame) /\ TypeInv
        /\ \A q \in Peer : q = p \/ q = o
        /\ \A k \in StreamId : stream[p][k] \in Stream /\ Assembled(stream[p][k])
    <2>1. \A q \in Peer : q = p \/ q = o
      BY DEF Peer, Other
    <2> QED  BY <2>1, ItemFacts
  <1>2. /\ Sized(o) /\ LaneIntact(o)
        /\ \A k \in StreamId : Assembled(stream[o][k]) /\ Increases(o, k)
    BY <1>1, ItemFacts
  <1>3. /\ stream'[o] = stream[o] /\ stream'[p][i] = t
        /\ \A k \in StreamId \ {i} : stream'[p][k] = stream[p][k]
    BY <1>1 DEF TypeInv, TypeOK, TableType
  <1>4. wire'[o] = Tail(w) /\ wire'[p] = wire[p]
    BY <1>1 DEF TypeInv, TypeOK, ReaderType
  <1>5. Apart(p) /\ Passes(p) /\ Rests(p)
    <2>1. \A q \in Peer \ {p} : stream'[q] = stream[q]
      BY <1>1, <1>3
    <2>2. Passes(p)
      BY <1>1, LeavesSame DEF Leaves
    <2> QED  BY <2>1, <2>2 DEF Apart, Rests
  <1>6. Curtails(p)
    <2>1. Curtailed(s, t)
      BY <1>1, CurtailedBy
    <2> QED  BY <1>1, <1>3, <2>1, Unchanging DEF Curtails
  <1>7. Items(p)'
    <2>1. Sized(p)' /\ LaneIntact(p)' /\ \A k \in StreamId : Increases(p, k)'
      BY <1>4, <1>5, <1>6, PassesSized, CalmWriter
    <2>2. \A k \in StreamId : Assembled(stream'[p][k])
      BY <1>1, <1>3
    <2> QED  BY <2>1, <2>2 DEF Items
  <1>8. /\ Sized(o)' /\ Done(o)' = Done(o) /\ \A k \in StreamId : Queued(o, k)' = Queued(o, k)
    BY <1>2, <1>3 DEF Sized, Done, Queued, Unwritten
  <1>9. LaneIntact(o)'
    <2>1. IntactLane(w, stream[p], Head(jobs[o]), written[o], Done(o))
      BY <1>1, <1>2, SMTT(30) DEF LaneIntact
    <2>2. Head(w) = f
      BY DEF Incoming
    <2>3. Matches(stream'[p][Head(w).id], Head(w).item, Head(w).size, Head(w).part)
      BY <1>3, <2>2
    <2>4. IntactLane(Tail(w), stream'[p], Head(jobs[o]), written[o], Done(o))
      BY <1>1, <2>1, <2>3, IntactRead
    <2> QED  BY <1>1, <1>4, <1>8, <2>4 DEF LaneIntact
  <1>10. ASSUME NEW k \in StreamId PROVE Increases(o, k)'
    <2>1. Increasing(stream[p][k], w, k, Queued(o, k), stream[o][k])
      BY <1>1, <1>2 DEF Increases
    <2>2. Increasing(stream'[p][k], Tail(w), k, Queued(o, k), stream[o][k])
      <3>1. CASE k = i
        <4>1. w[1] = f /\ (f.kind = "DATA" => 1 \in DataOf(w, i))
          BY <1>1, CarriedIds DEF DataOf, Incoming
        <4>2. \A n : Published(s, n) /\ (1 \in DataOf(w, i) => w[1].item < n) => Published(t, n)
          BY <4>1
        <4>3. Increasing(t, Tail(w), i, Queued(o, i), stream[o][i])
          BY <1>1, <2>1, <3>1, <4>2, IncreasingRead
        <4> QED  BY <1>3, <3>1, <4>3, SMTT(30)
      <3>2. CASE k # i
        <4>1. /\ Lessened(stream[p][k], stream[p][k]) /\ Passed(w, Tail(w), k)
              /\ Curtailed(stream[o][k], stream[o][k])
          <5>1. stream[o][k] \in Stream
            BY <1>1, ItemFacts
          <5> QED  BY <1>1, <5>1, Unchanging, PassedTail
        <4>2. Increasing(stream[p][k], Tail(w), k, Queued(o, k), stream[o][k])
          BY <2>1, <4>1, IncreasingLess
        <4> QED  BY <1>3, <3>2, <4>2
      <3> QED  BY <3>1, <3>2
    <2> QED  BY <1>1, <1>3, <1>4, <1>8, <2>2 DEF Increases
  <1>11. Items(o)'
    BY <1>2, <1>3, <1>8, <1>9, <1>10, SMTT(30) DEF Items
  <1> QED  BY <1>1, <1>7, <1>11

\* What is known of a DATA or FRAGMENT that is read.
LEMMA FirstFacts ==
  ASSUME ItemInv, NEW p \in Peer, ReadsLive(p, {"DATA"}) \/ ReadsLive(p, {"FRAGMENT"})
  PROVE  LET f == Incoming(p)
             s == stream[p][f.id]
         IN /\ wire[Other(p)] # <<>> /\ wire' = [wire EXCEPT ![Other(p)] = Tail(@)]
            /\ f.id \in StreamId /\ f.item \in Nat /\ f.size \in Nat /\ f.part \in Nat
            /\ s \in Stream /\ Assembled(s)
            /\ \A k, m \in DOMAIN s.got : k < m => s.got[k][1].item < s.got[m][1].item
            /\ f.kind = "DATA" => f.part = 1 /\ f.size >= 1 /\ Published(s, f.item)
            /\ f.kind = "FRAGMENT" => /\ f.part \in 2..f.size
                                      /\ Matches(s, f.item, f.size, f.part - 1)
  <1> DEFINE o == Other(p)
             w == wire[o]
             f == Incoming(p)
             i == f.id
             s == stream[p][i]
  <1>1. /\ o \in Peer /\ Other(o) = p /\ w \in Seq(Frame) /\ TypeInv
        /\ \A k \in StreamId : stream[p][k] \in Stream /\ Assembled(stream[p][k])
    BY ItemFacts
  <1>2. LaneIntact(o) /\ \A k \in StreamId : Increases(o, k)
    BY <1>1, ItemFacts
  <1>3. w # <<>> /\ wire' = [wire EXCEPT ![o] = Tail(@)]
    BY DEF ReadsLive, Reads, CanRead, Consume
  <1>4. /\ i \in StreamId /\ f.item \in Nat /\ f.size \in Nat /\ f.part \in Nat
        /\ f.kind \in {"DATA", "FRAGMENT"}
    <2>1. CASE ReadsLive(p, {"DATA"})
      BY <1>1, <2>1, ReadsType DEF ReadsLive
    <2>2. CASE ReadsLive(p, {"FRAGMENT"})
      BY <1>1, <2>2, ReadsType DEF ReadsLive
    <2> QED  BY <2>1, <2>2
  <1>5. w[1] = f /\ 1 \in DOMAIN w /\ Head(w) = f
    BY <1>1, <1>3, TailElements DEF Incoming
  <1>6. s \in Stream /\ Assembled(s) /\ Increasing(s, w, i, Queued(o, i), stream[o][i])
    BY <1>1, <1>2, <1>4 DEF Increases
  <1>7. FramesSound(w) /\ (f.kind = "FRAGMENT" => Matches(s, f.item, f.size, f.part - 1))
    <2>1. IntactLane(w, stream[p], Head(jobs[o]), written[o], Done(o))
      BY <1>1, <1>2 DEF LaneIntact
    <2> HIDE DEF w, f
    <2> QED  BY <1>3, <1>5, <2>1 DEF IntactLane
  <1> HIDE DEF w, f, i, s
  <1>8. /\ f.kind = "DATA" => f.part = 1 /\ f.size >= 1
        /\ f.kind = "FRAGMENT" => f.part \in 2..f.size
    BY <1>5, <1>7 DEF FramesSound
  <1>9. /\ \A k, m \in DOMAIN s.got : k < m => s.got[k][1].item < s.got[m][1].item
        /\ f.kind = "DATA" => Published(s, f.item)
    <2>1. f.kind = "DATA" => 1 \in DataOf(w, i)
      BY <1>5 DEF DataOf, i
    <2> QED  BY <1>5, <1>6, <2>1 DEF Increasing
  <1> QED  BY <1>3, <1>4, <1>6, <1>7, <1>8, <1>9 DEF w, f, i, s

\* An item is published.
LEMMA WholeItem ==
  ASSUME NEW s \in Stream, Assembled(s), NEW item \in Nat, NEW size \in Nat \ {0},
         NEW data, data = UnitsOf(item, size, size),
         NEW t, t.got = Append(s.got, data), t.expected = 0, t.partial = <<>>
  PROVE  Assembled(t) /\ data[1].item = item
  <1>1. Len(data) = size /\ data[1] = [item |-> item, part |-> 1, of |-> size]
    BY DEF UnitsOf
  <1>2. Len(data) > 0 /\ data = UnitsOf(data[1].item, data[1].of, data[1].of)
    BY <1>1
  <1>3. s.got \in Seq(Seq(Unit))
    BY DEF Stream
  <1>4. \A k \in DOMAIN t.got : t.got[k] = data \/ (k \in DOMAIN s.got /\ t.got[k] = s.got[k])
    BY <1>3, SMTT(30)
  <1> QED  BY <1>1, <1>2, <1>4 DEF Assembled

LEMMA ReadDataFields ==
  ASSUME NEW s \in Stream, NEW got
  PROVE  LET t == [s EXCEPT !.inCredit = @ - 1, !.got = got]
         IN /\ t.calls = s.calls /\ t.tail = s.tail /\ t.got = got
            /\ t.expected = s.expected /\ t.partial = s.partial
  <1> DEFINE t == [s EXCEPT !.inCredit = @ - 1, !.got = got]
  <1>1. t.calls = s.calls /\ t.tail = s.tail
    BY DEF Stream
  <1>2. t.expected = s.expected /\ t.partial = s.partial
    BY DEF Stream
  <1>3. t.got = got
    BY SMTT(30) DEF Stream
  <1> QED  BY <1>1, <1>2, <1>3

LEMMA ItemsReadData ==
  ASSUME ItemInv, NEW p \in Peer, ReadData(p)
  PROVE  \A q \in Peer : Items(q)'
  <1> DEFINE f == Incoming(p)
             i == f.id
             s == stream[p][i]
             data == <<Payload(f)>>
             t == [s EXCEPT !.inCredit = @ - 1, !.got = Push(s, data)]
  <1>1. /\ ReadsLive(p, {"DATA"}) /\ f.size = 1 /\ Update(p, i, t) /\ f.kind = "DATA"
        /\ UNCHANGED <<jobs, written, flying>> /\ TypeInv
    BY ItemFacts, SMTT(30) DEF ReadData, ReadsLive, Reads, writerVars
  <1>2. /\ wire[Other(p)] # <<>> /\ wire' = [wire EXCEPT ![Other(p)] = Tail(@)]
        /\ i \in StreamId /\ f.item \in Nat /\ s \in Stream /\ Assembled(s)
        /\ \A k, m \in DOMAIN s.got : k < m => s.got[k][1].item < s.got[m][1].item
        /\ f.part = 1 /\ Published(s, f.item)
    <2>1. ReadsLive(p, {"DATA"}) \/ ReadsLive(p, {"FRAGMENT"})
      BY <1>1
    <2>2. /\ wire[Other(p)] # <<>> /\ wire' = [wire EXCEPT ![Other(p)] = Tail(@)]
          /\ f.id \in StreamId /\ f.item \in Nat /\ f.size \in Nat /\ f.part \in Nat
          /\ s \in Stream /\ Assembled(s)
          /\ \A k, m \in DOMAIN s.got : k < m => s.got[k][1].item < s.got[m][1].item
          /\ f.kind = "DATA" => f.part = 1 /\ f.size >= 1 /\ Published(s, f.item)
      BY <2>1, FirstFacts
    <2> HIDE DEF f, s, data, t
    <2> QED  BY <1>1, <2>2 DEF i
  <1>3. s.expected = 0 /\ s.partial = <<>>
    <2>1. s.expected = 0
      BY <1>1, LegalData
    <2>2. Assembled(s)
      BY <1>2
    <2> QED  BY <2>1, <2>2 DEF Assembled
  <1>4. /\ t.calls = s.calls /\ t.tail = s.tail /\ t.got = Append(s.got, data)
        /\ t.expected = 0 /\ t.partial = <<>>
    <2>1. s \in Stream
      BY <1>2
    <2>2. /\ t.calls = s.calls /\ t.tail = s.tail /\ t.got = Push(s, data)
          /\ t.expected = s.expected /\ t.partial = s.partial
      BY <2>1, ReadDataFields
    <2> HIDE DEF t, s, data, f
    <2> QED  BY <1>3, <2>2 DEF Push
  <1>6. stream' = [stream EXCEPT ![p][i] = t]
    BY <1>1, SMTT(30) DEF Update
  <1>7. data = UnitsOf(f.item, 1, 1)
    BY <1>1, <1>2, NextUnit DEF Payload
  <1> HIDE DEF t, data, s, i, f
  <1>8. Assembled(t) /\ data[1].item = f.item
    BY <1>2, <1>4, <1>7, WholeItem
  <1>9. /\ \A k, m \in DOMAIN t.got : k < m => t.got[k][1].item < t.got[m][1].item
        /\ \A n : Published(s, n) /\ f.item < n => Published(t, n)
    <2>1. \A k \in DOMAIN s.got : s.got[k][1].item < data[1].item
      BY <1>2, <1>8 DEF Published
    <2> QED  BY <1>2, <1>4, <1>8, <2>1, PublishedNext
  <1>10. Matches(t, f.item, f.size, f.part)
    BY <1>4 DEF Matches
  <1>11. \A n : Published(s, n) /\ (f.kind = "DATA" => f.item < n) => Published(t, n)
    BY <1>1, <1>9
  <1>12. \A k \in DOMAIN t.got : t.expected > 0 => t.got[k][1].item < t.partial[1].item
    BY <1>4, SMTT(30)
  <1> QED  BY <1>1, <1>2, <1>4, <1>6, <1>8, <1>9, <1>10, <1>11, <1>12, ItemsTaken DEF s, i, f

LEMMA ItemsStartReassembly ==
  ASSUME ItemInv, NEW p \in Peer, StartReassembly(p)
  PROVE  \A q \in Peer : Items(q)'
  <1> DEFINE f == Incoming(p)
             i == f.id
             s == stream[p][i]
             data == <<Payload(f)>>
             t == [s EXCEPT !.inCredit = @ - 1, !.expected = f.size, !.partial = data]
  <1>1. /\ ReadsLive(p, {"DATA"}) /\ f.size > 1 /\ f.kind = "DATA"
        /\ UNCHANGED <<jobs, written, flying>> /\ TypeInv
    BY ItemFacts DEF StartReassembly, ReadsLive, Reads, writerVars
  <1>2. /\ wire[Other(p)] # <<>> /\ wire' = [wire EXCEPT ![Other(p)] = Tail(@)]
        /\ i \in StreamId /\ f.item \in Nat /\ f.size \in Nat /\ s \in Stream /\ Assembled(s)
        /\ \A k, m \in DOMAIN s.got : k < m => s.got[k][1].item < s.got[m][1].item
        /\ f.part = 1 /\ Published(s, f.item)
    BY <1>1, FirstFacts
  <1>3. t.calls = s.calls /\ t.tail = s.tail /\ t.got = s.got
    BY <1>2 DEF Stream
  <1>4. t.expected = f.size /\ t.partial = data
    BY <1>2, SMTT(30) DEF Stream
  <1>5. stream' = [stream EXCEPT ![p][i] = t]
    BY <1>1, <1>2 DEF StartReassembly, TypeInv, TypeOK, TableType
  <1>6. /\ data = UnitsOf(f.item, f.size, 1) /\ Len(data) = 1
        /\ data[1].item = f.item
    <2>1. data = UnitsOf(f.item, f.size, 1)
      BY <1>2, NextUnit DEF Payload
    <2> QED  BY <2>1 DEF Payload
  <1> HIDE DEF t, data, s, i, f
  <1>7. Assembled(t)
    <2>1. t.expected > 0 /\ Len(t.partial) \in 1..(t.expected - 1)
      <3>1. f.size \in Nat /\ f.size > 1 /\ t.expected = f.size /\ Len(t.partial) = 1
        BY <1>1, <1>2, <1>4, <1>6
      <3> QED  BY <3>1
    <2>2. t.partial = UnitsOf(t.partial[1].item, t.expected, Len(t.partial))
      BY <1>4, <1>6
    <2>3. t.expected # 0
      BY <1>1, <1>2, <1>4
    <2> QED  BY <1>2, <1>3, <2>1, <2>2, <2>3 DEF Assembled
  <1>8. /\ \A k \in DOMAIN t.got : t.got[k][1].item < t.partial[1].item
        /\ \A n : Published(s, n) /\ f.item < n => Published(t, n)
    BY <1>2, <1>3, <1>4, <1>6 DEF Published
  <1>9. Matches(t, f.item, f.size, f.part)
    BY <1>2, <1>4, <1>6 DEF Matches
  <1>10. \A k, m \in DOMAIN t.got : k < m => t.got[k][1].item < t.got[m][1].item
    BY <1>2, <1>3
  <1>11. \A n : Published(s, n) /\ (f.kind = "DATA" => f.item < n) => Published(t, n)
    BY <1>1, <1>8
  <1> QED  BY <1>1, <1>2, <1>3, <1>5, <1>7, <1>8, <1>9, <1>10, <1>11, ItemsTaken DEF s, i, f

LEMMA ItemsReadFragment ==
  ASSUME ItemInv, NEW p \in Peer, ReadFragment(p)
  PROVE  \A q \in Peer : Items(q)'
  <1> DEFINE f == Incoming(p)
             i == f.id
             s == stream[p][i]
             data == Append(s.partial, Payload(f))
             part == [s EXCEPT !.partial = data]
             whole == [s EXCEPT !.expected = 0, !.partial = <<>>, !.got = Push(s, data)]
  <1>1. /\ ReadsLive(p, {"FRAGMENT"}) /\ f.kind = "FRAGMENT"
        /\ UNCHANGED <<jobs, written, flying>> /\ TypeInv
    BY ItemFacts DEF ReadFragment, ReadsLive, Reads, writerVars
  <1>2. /\ wire[Other(p)] # <<>> /\ wire' = [wire EXCEPT ![Other(p)] = Tail(@)]
        /\ i \in StreamId /\ f.item \in Nat /\ f.size \in Nat /\ s \in Stream /\ Assembled(s)
        /\ \A k, m \in DOMAIN s.got : k < m => s.got[k][1].item < s.got[m][1].item
        /\ f.part \in 2..f.size /\ Matches(s, f.item, f.size, f.part - 1)
    BY <1>1, FirstFacts
  <1>3. s.partial \in Seq(Unit) /\ Len(s.partial) \in Nat /\ s.expected \in Nat
    <2>1. s \in Stream
      BY <1>2
    <2>2. s.partial \in Seq(Unit) /\ s.expected \in Nat
      BY <2>1 DEF Stream
    <2> QED  BY <2>2
  <1>4. s.expected > 0
    <2>1. ~(Len(s.partial) + 1 > s.expected)
      BY <1>1 DEF ReadsLive, Reads, Illegal, IllegalHere
    <2> QED  BY <1>3, <2>1
  <1>5. s.expected = f.size /\ s.partial = UnitsOf(f.item, f.size, f.part - 1)
    BY <1>2, <1>4 DEF Matches
  <1>6. /\ data = UnitsOf(f.item, f.size, f.part) /\ Len(data) = f.part
        /\ s.partial[1].item = f.item /\ data[1].item = f.item
    <2>1. f.part - 1 \in Nat \ {0} /\ (f.part - 1) + 1 = f.part /\ f.part \in Nat \ {0}
      BY <1>2
    <2>2. data = UnitsOf(f.item, f.size, f.part)
      <3> DEFINE n == f.part - 1
      <3>1. data = Append(UnitsOf(f.item, f.size, n),
                          [item |-> f.item, part |-> n + 1, of |-> f.size])
        BY <1>5, <2>1 DEF Payload
      <3>2. n \in Nat /\ n + 1 = f.part
        BY <2>1
      <3>3. f.item \in Nat /\ f.size \in Nat
        BY <1>2
      <3> HIDE DEF n, data, f
      <3>4. \A a, b, c \in Nat :
              Append(UnitsOf(a, b, c), [item |-> a, part |-> c + 1, of |-> b]) = UnitsOf(a, b, c + 1)
        BY NextUnit, ZenonT(60)
      <3> QED  BY <3>1, <3>2, <3>3, <3>4
    <2>3. \A n \in Nat \ {0} : /\ UnitsOf(f.item, f.size, n)[1].item = f.item
                               /\ Len(UnitsOf(f.item, f.size, n)) = n
      BY DEF UnitsOf
    <2> QED  BY <1>5, <2>1, <2>2, <2>3
  <1>7. \/ Len(data) < f.size /\ stream' = [stream EXCEPT ![p][i] = part]
        \/ Len(data) >= f.size /\ stream' = [stream EXCEPT ![p][i] = whole]
    <2>1. Len(data) \in Nat
      BY <1>2, <1>6
    <2>2. CASE Whole(data, s)
      <3>1. stream' = [stream EXCEPT ![p][i] = whole]
        BY <2>2, Zenon DEF ReadFragment
      <3> QED  BY <1>5, <2>2, <3>1 DEF Whole
    <2>3. CASE ~Whole(data, s)
      <3>1. stream' = [stream EXCEPT ![p][i] = part]
        BY <2>3, Zenon DEF ReadFragment, Update
      <3>2. Len(data) < f.size
        BY <1>2, <1>5, <2>1, <2>3, SMTT(30) DEF Whole
      <3> QED  BY <3>1, <3>2
    <2> QED  BY <2>2, <2>3
  <1>8. /\ part.calls = s.calls /\ part.tail = s.tail /\ part.got = s.got
        /\ part.expected = s.expected /\ part.partial = data
    BY <1>2 DEF Stream
  <1>9. /\ whole.calls = s.calls /\ whole.tail = s.tail
        /\ whole.expected = 0 /\ whole.partial = <<>>
    BY <1>2 DEF Stream
  <1>10. whole.got = Append(s.got, data)
    BY <1>2 DEF Stream, Push
  <1>11. \A k \in DOMAIN s.got : s.got[k][1].item < f.item
    <2>1. \A k \in DOMAIN s.got : s.got[k][1].item < s.partial[1].item
      <3>1. Increases(Other(p), i)
        BY <1>2, ItemFacts, SMTT(30)
      <3>2. Other(Other(p)) = p
        BY ItemFacts, SMTT(30)
      <3> QED  BY <1>4, <3>1, <3>2 DEF Increases, Increasing
    <2> QED  BY <1>6, <2>1, SMTT(30)
  <1> HIDE DEF part, whole, data, s, i, f
  <1>12. CASE Len(data) < f.size /\ stream' = [stream EXCEPT ![p][i] = part]
    <2>1. Assembled(part)
      BY <1>2, <1>4, <1>5, <1>6, <1>8, <1>12 DEF Assembled
    <2>2. Matches(part, f.item, f.size, f.part)
      BY <1>5, <1>6, <1>8 DEF Matches
    <2>3. /\ \A k, m \in DOMAIN part.got : k < m => part.got[k][1].item < part.got[m][1].item
          /\ \A k \in DOMAIN part.got : part.got[k][1].item < part.partial[1].item
      BY <1>2, <1>6, <1>8, <1>11
    <2>4. \A n : Published(s, n) => Published(part, n)
      BY <1>4, <1>6, <1>8 DEF Published
    <2>5. \A n : Published(s, n) /\ (f.kind = "DATA" => f.item < n) => Published(part, n)
      BY <2>4, SMTT(30)
    <2> QED  BY <1>1, <1>2, <1>8, <1>12, <2>1, <2>2, <2>3, <2>5, ItemsTaken DEF s, i, f
  <1>13. CASE Len(data) >= f.size /\ stream' = [stream EXCEPT ![p][i] = whole]
    <2>1. f.part = f.size /\ f.size \in Nat \ {0}
      BY <1>2, <1>6, <1>13
    <2>2. Assembled(whole)
      BY <1>2, <1>6, <1>9, <1>10, <2>1, WholeItem
    <2>3. Matches(whole, f.item, f.size, f.part)
      BY <1>9 DEF Matches
    <2>4. /\ \A k, m \in DOMAIN whole.got : k < m => whole.got[k][1].item < whole.got[m][1].item
          /\ \A n : Published(s, n) /\ f.item < n => Published(whole, n)
      <3>1. \A k \in DOMAIN s.got : s.got[k][1].item < data[1].item
        BY <1>6, <1>11
      <3>2. data[1].item \in Nat /\ data[1].item = f.item
        BY <1>2, <1>6
      <3>3. /\ \A k, m \in DOMAIN whole.got : k < m => whole.got[k][1].item < whole.got[m][1].item
            /\ \A n : Published(s, n) /\ data[1].item < n => Published(whole, n)
        BY <1>2, <1>9, <1>10, <3>1, <3>2, PublishedNext
      <3> QED  BY <3>2, <3>3
    <2>5. \A n : Published(s, n) => Published(whole, n)
      <3>1. \A n : Published(s, n) => f.item < n
        BY <1>4, <1>6 DEF Published
      <3> QED  BY <2>4, <3>1
    <2>6. \A n : Published(s, n) /\ (f.kind = "DATA" => f.item < n) => Published(whole, n)
      BY <2>5, Zenon
    <2>7. \A k \in DOMAIN whole.got : whole.expected > 0 => whole.got[k][1].item < whole.partial[1].item
      BY <1>9
    <2> QED  BY <1>1, <1>2, <1>9, <1>13, <2>2, <2>3, <2>4, <2>6, <2>7, ItemsTaken DEF s, i, f
  <1> QED  BY <1>7, <1>12, <1>13

LEMMA QueuedNat ==
  ASSUME TypeInv, NEW p \in Peer, NEW i
  PROVE  Queued(p, i) \subseteq Nat
  <1>1. jobs[p] \in Seq(Job)
    BY DEF TypeInv, TypeOK, WriterType
  <1>2. \A j \in Job : j.item \in Nat
    BY DEF Job, JobOf
  <1>3. \A k \in DOMAIN jobs[p] : jobs[p][k] \in Job
    BY <1>1
  <1> QED  BY <1>2, <1>3 DEF Queued, Unwritten

LEMMA ItemsSend ==
  ASSUME ItemInv, NEW p \in Peer, NEW i \in StreamId, NEW size \in ItemSizes, Send(p, i, size)
  PROVE  \A q \in Peer : Items(q)'
  <1> DEFINE o == Other(p)
             s == stream[p][i]
             op == [kind |-> "send", item |-> s.calls + 1, size |-> size]
             v == Append(s.tail, op)
             t == [s EXCEPT !.calls = @ + 1, !.tail = v]
  <1>1. /\ o \in Peer \ {p} /\ wire[p] \in Seq(Frame) /\ TypeInv /\ Sized(p) /\ LaneIntact(p)
        /\ \A k \in StreamId : /\ stream[p][k] \in Stream /\ Increases(p, k)
                               /\ stream[o][k] \in Stream /\ Assembled(stream[o][k])
    BY ItemFacts
  <1>2. /\ stream' = [stream EXCEPT ![p][i] = t]
        /\ UNCHANGED <<jobs, written, flying, wire>>
    BY DEF Send, Update, writerVars, readerVars
  <1>3. s \in Stream /\ s.tail \in Seq(Op) /\ s.calls \in Nat
    BY <1>1 DEF Stream
  <1>4. /\ t.got = s.got /\ t.expected = s.expected /\ t.partial = s.partial
        /\ t.calls = s.calls + 1 /\ t.tail = v
    BY <1>3 DEF Stream
  <1>5. op.kind = "send" /\ op.item = s.calls + 1 /\ op.size >= 1
    BY CallsAssumption
  <1>6. \A k \in DOMAIN v : v[k] = op \/ (k \in DOMAIN s.tail /\ v[k] = s.tail[k])
    BY <1>3
  <1> HIDE DEF op, t, s
  <1>7. /\ stream'[o] = stream[o] /\ stream'[p][i] = t
        /\ \A k \in StreamId \ {i} : stream'[p][k] = stream[p][k]
    BY <1>1, <1>2 DEF TypeInv, TypeOK, TableType
  <1>8. Apart(p)
    <2>1. \A q \in Peer \ {p} : stream'[q] = stream[q]
      BY <1>1, <1>2 DEF TypeInv, TypeOK, TableType
    <2> QED  BY <1>2, <2>1 DEF Apart
  <1>9. Sheds(p)
    <2>1. Lessened(s, t)
      BY <1>4 DEF Lessened
    <2> QED  BY <1>1, <1>7, <2>1, Unchanging DEF Sheds, s
  <1>10. /\ Done(p)' = Done(p) /\ \A k \in StreamId : Queued(p, k)' = Queued(p, k)
    BY <1>2 DEF Done, Queued, Unwritten
  <1>11. Sized(p)'
    <2>1. \A k \in SendAt(v) : v[k].size >= 1
      BY <1>1, <1>5, <1>6 DEF Sized, SendAt, s
    <2>2. \A k \in StreamId : \A m \in SendAt(stream'[p][k].tail) : stream'[p][k].tail[m].size >= 1
      BY <1>1, <1>4, <1>7, <2>1 DEF Sized
    <2> QED  BY <1>1, <1>2, <2>2 DEF Sized
  <1>12. LaneIntact(p)'
    BY <1>1, <1>2, <1>7, <1>10 DEF LaneIntact
  <1>13. ASSUME NEW k \in StreamId PROVE Increases(p, k)'
    <2>1. Increasing(stream[o][k], wire[p], k, Queued(p, k), stream[p][k])
      BY <1>1 DEF Increases
    <2>2. Increasing(stream[o][k], wire[p], k, Queued(p, k), stream'[p][k])
      <3>1. CASE k = i
        <4>1. Queued(p, i) \in SUBSET Nat
          BY <1>1, QueuedNat
        <4>2. Increasing(stream[o][i], wire[p], i, Queued(p, i), t)
          BY <1>1, <1>3, <1>4, <1>5, <2>1, <3>1, <4>1, IncreasingSend DEF s
        <4> QED  BY <1>7, <3>1, <4>2
      <3>2. CASE k # i
        BY <1>7, <2>1, <3>2
      <3> QED  BY <3>1, <3>2
    <2> QED  BY <1>2, <1>7, <1>10, <2>2 DEF Increases
  <1> QED  BY <1>2, <1>8, <1>9, <1>11, <1>12, <1>13, ItemsWritten

LEMMA ItemsSendNext ==
  ASSUME ItemInv, NEW p \in Peer, NEW i \in StreamId, SendNext(p, i)
  PROVE  \A q \in Peer : Items(q)'
  <1> DEFINE o == Other(p)
             s == stream[p][i]
             t == [s EXCEPT !.outCredit = @ - 1, !.tail = Tail(@), !.busy = TRUE]
             job == [Plain("DATA", i) EXCEPT !.item = Head(s.tail).item,
                                             !.size = Head(s.tail).size]
             v == Append(jobs[p], job)
  <1>1. /\ o \in Peer \ {p} /\ wire[p] \in Seq(Frame) /\ TypeInv /\ TableInv
        /\ jobs[p] \in Seq(Job) /\ Sized(p) /\ LaneIntact(p)
        /\ \A k \in StreamId : /\ stream[p][k] \in Stream /\ Increases(p, k)
                               /\ stream[o][k] \in Stream
    BY ItemFacts
  <1>2. /\ stream' = [stream EXCEPT ![p][i] = t] /\ Queue(p, job)
        /\ s.tail # <<>> /\ ~s.busy /\ Head(s.tail).kind = "send"
        /\ UNCHANGED <<written, flying, wire>>
    BY DEF SendNext, Waiting, Update, readerVars
  <1>3. s \in Stream /\ s.tail \in Seq(Op)
    BY <1>1 DEF Stream
  <1>4. /\ t.got = s.got /\ t.expected = s.expected /\ t.partial = s.partial
        /\ t.calls = s.calls /\ t.tail = Tail(s.tail)
    BY <1>3 DEF Stream
  <1>5. /\ job.kind = "DATA" /\ job.id = i /\ job.item = Head(s.tail).item
        /\ job.size = Head(s.tail).size
    BY DEF Plain
  <1> HIDE DEF t, s, job
  <1>6. jobs'[p] = v /\ \A q \in Peer \ {p} : jobs'[q] = jobs[q]
    BY <1>1, <1>2 DEF TypeInv, TypeOK, WriterType, Queue
  <1>7. /\ stream'[o] = stream[o] /\ stream'[p][i] = t
        /\ \A k \in StreamId \ {i} : stream'[p][k] = stream[p][k]
    BY <1>1, <1>2 DEF TypeInv, TypeOK, TableType
  <1>8. Apart(p)
    <2>1. \A q \in Peer \ {p} : stream'[q] = stream[q]
      BY <1>1, <1>2 DEF TypeInv, TypeOK, TableType
    <2> QED  BY <1>2, <1>6, <2>1 DEF Apart
  <1>9. Sheds(p) /\ Curtails(p)
    <2>1. Lessened(s, t)
      BY <1>4 DEF Lessened
    <2>2. Curtailed(s, t)
      BY <1>2, <1>3, <1>4, CurtailedBy
    <2> QED  BY <1>1, <1>7, <2>1, <2>2, Unchanging DEF Sheds, Curtails, s
  <1>10. /\ \A k \in DOMAIN v : \/ k \in DOMAIN jobs[p] /\ v[k] = jobs[p][k]
                                \/ v[k] = job
         /\ jobs[p] # <<>> => Head(v) = Head(jobs[p])
    <2>1. /\ DOMAIN v = 1..Len(jobs[p]) + 1 /\ DOMAIN jobs[p] = 1..Len(jobs[p])
          /\ v[Len(jobs[p]) + 1] = job /\ \A k \in 1..Len(jobs[p]) : v[k] = jobs[p][k]
          /\ Len(jobs[p]) \in Nat
          /\ jobs[p] # <<>> => Head(v) = Head(jobs[p])
      BY <1>1, AppendElements
    <2> HIDE DEF v
    <2> QED  BY <2>1
  <1> HIDE DEF v
  <1>11. Done(p)' = Done(p)
    BY <1>2 DEF Done
  <1>12. \A k \in StreamId : Queued(p, k)' \subseteq Queued(p, k) \cup (IF k = i THEN {job.item} ELSE {})
    <2> SUFFICES ASSUME NEW k \in StreamId, NEW n \in Queued(p, k)'
                 PROVE  n \in Queued(p, k) \/ (k = i /\ n = job.item)
      OBVIOUS
    <2>1. PICK m \in Unwritten(p)' :
            jobs'[p][m].kind = "DATA" /\ jobs'[p][m].id = k /\ n = jobs'[p][m].item
      BY DEF Queued
    <2>2. m \in DOMAIN v /\ (m > 1 \/ (written[p] = 0 /\ ~flying[p]))
      BY <1>2, <1>6, <2>1 DEF Unwritten
    <2>3. CASE m \in DOMAIN jobs[p] /\ v[m] = jobs[p][m]
      BY <1>6, <2>1, <2>2, <2>3 DEF Queued, Unwritten
    <2>4. CASE v[m] = job
      BY <1>5, <1>6, <2>1, <2>4
    <2> QED  BY <1>10, <2>2, <2>3, <2>4
  <1>13. Queued(p, i) = {}
    <2>1. OneCall(jobs[p], stream[p])
      BY <1>1, SoundOf
    <2>2. \A k \in DOMAIN jobs[p] : ~(jobs[p][k].kind = "DATA" /\ jobs[p][k].id = i)
      BY <1>2, <2>1 DEF OneCall, CallAt, s
    <2> QED  BY <2>2 DEF Queued, Unwritten
  <1>14. 1 \in SendAt(s.tail) /\ s.tail[1] = Head(s.tail)
    BY <1>2, <1>3, TailElements DEF SendAt
  <1>15. Sized(p)'
    <2>1. job.size >= 1
      BY <1>1, <1>5, <1>14 DEF Sized, s
    <2>2. \A k \in DOMAIN v : v[k].kind = "DATA" => v[k].size >= 1
      BY <1>1, <1>10, <2>1 DEF Sized
    <2>3. ASSUME NEW k \in StreamId, NEW m \in SendAt(stream'[p][k].tail)
          PROVE  stream'[p][k].tail[m].size >= 1
      <3>1. Curtailed(stream[p][k], stream'[p][k])
        BY <1>9 DEF Curtails
      <3> QED  BY <1>1, <2>3, <3>1 DEF Sized, Curtailed
    <2> QED  BY <1>6, <2>2, <2>3 DEF Sized
  <1>16. LaneIntact(p)'
    <2>1. IntactLane(wire[p], stream[o], Head(jobs[p]), written[p], Done(p))
      BY <1>1 DEF LaneIntact
    <2>2. Done(p) > 0 => jobs[p] # <<>>
      BY <1>1 DEF Done, TypeInv, WritesFirst, TypeOK, WriterType
    <2>3. IntactLane(wire[p], stream[o], Head(v), written[p], Done(p))
      BY <1>10, <2>1, <2>2 DEF IntactLane
    <2> QED  BY <1>2, <1>6, <1>7, <1>11, <2>3 DEF LaneIntact
  <1>17. ASSUME NEW k \in StreamId PROVE Increases(p, k)'
    <2>1. Increasing(stream[o][k], wire[p], k, Queued(p, k), stream[p][k])
      BY <1>1 DEF Increases
    <2>2. /\ Lessened(stream[o][k], stream[o][k]) /\ Passed(wire[p], wire[p], k)
          /\ Curtailed(stream[p][k], stream'[p][k])
      BY <1>1, <1>9, Unchanging, PassedSame DEF Curtails
    <2>3. Increasing(stream[o][k], wire[p], k, Queued(p, k)', stream'[p][k])
      <3>1. CASE k = i
        <4>1. Queued(p, i)' \in SUBSET {Head(s.tail).item}
          BY <1>5, <1>12, <1>13
        <4>2. Increasing(stream[o][i], wire[p], i, {Head(s.tail).item}, t)
          BY <1>2, <1>3, <1>4, <1>13, <2>1, <3>1, IncreasingQueued DEF s
        <4>3. Curtailed(t, t)
          <5>1. t.tail \in Seq(Op)
            BY <1>2, <1>3, <1>4, TailElements
          <5>2. \A m \in SendAt(t.tail) : m \in Nat /\ m + 0 = m
            BY <5>1 DEF SendAt
          <5> QED  BY <5>2 DEF Curtailed
        <4>4. Increasing(stream[o][i], wire[p], i, Queued(p, i)', t)
          BY <2>2, <3>1, <4>1, <4>2, <4>3, IncreasingLess
        <4> QED  BY <1>7, <3>1, <4>4
      <3>2. CASE k # i
        <4>1. Queued(p, k)' \in SUBSET Queued(p, k)
          BY <1>12, <3>2
        <4> QED  BY <2>1, <2>2, <4>1, IncreasingLess
      <3> QED  BY <3>1, <3>2
    <2> QED  BY <1>2, <1>7, <2>3 DEF Increases
  <1> QED  BY <1>2, <1>8, <1>9, <1>15, <1>16, <1>17, ItemsWritten

LEMMA PassedAppend ==
  ASSUME NEW w \in Seq(Frame), NEW f, NEW i, ~(f.kind = "DATA" /\ f.id = i)
  PROVE  Passed(w, Append(w, f), i)
  <1> DEFINE v == Append(w, f)
  <1>1. /\ DOMAIN v = 1..Len(w) + 1 /\ DOMAIN w = 1..Len(w)
        /\ v[Len(w) + 1] = f /\ \A k \in 1..Len(w) : v[k] = w[k]
        /\ Len(w) \in Nat
    BY AppendElements
  <1> HIDE DEF v
  <1>2. ASSUME NEW k \in DataOf(v, i) PROVE k \in Nat /\ k + 0 \in DataOf(w, i) /\ v[k] = w[k + 0]
    <2>1. k \in 1..Len(w) /\ k \in Nat /\ k + 0 = k
      BY <1>1 DEF DataOf
    <2> QED  BY <1>1, <2>1 DEF DataOf
  <1>3. Passed(w, v, i)
    BY <1>2 DEF Passed
  <1> QED  BY <1>3 DEF v

LEMMA ItemsWriteFrame ==
  ASSUME ItemInv, NEW p \in Peer, WriteFrame(p)
  PROVE  \A q \in Peer : Items(q)'
  <1> DEFINE o == Other(p)
             j == Head(jobs[p])
             w == wire[p]
             n == written[p]
             f == [kind |-> IF n > 0 THEN "FRAGMENT" ELSE j.kind, id |-> j.id,
                   seq |-> outSeq[p], amount |-> j.amount, item |-> j.item,
                   size |-> j.size, part |-> n + 1]
  <1>1. /\ o \in Peer \ {p} /\ w \in Seq(Frame) /\ TypeInv /\ TableInv /\ n \in Nat
        /\ jobs[p] \in Seq(Job) /\ Sized(p) /\ LaneIntact(p)
        /\ \A k \in StreamId : /\ stream[p][k] \in Stream /\ Increases(p, k)
                               /\ stream[o][k] \in Stream
    BY ItemFacts
  <1>2. /\ jobs[p] # <<>> /\ ~flying[p] /\ wire' = [wire EXCEPT ![p] = Append(w, f)]
        /\ flying' = [flying EXCEPT ![p] = TRUE] /\ UNCHANGED <<stream, jobs, written>>
    BY DEF WriteFrame, CanWrite, tableVars
  <1>3. /\ wire'[p] = Append(w, f) /\ wire'[o] = wire[o] /\ flying'[p]
        /\ \A q \in Peer \ {p} : flying'[q] = flying[q]
    BY <1>1, <1>2 DEF TypeInv, TypeOK, ReaderType, WriterType
  <1>4. /\ f.kind = (IF n > 0 THEN "FRAGMENT" ELSE j.kind) /\ f.id = j.id
        /\ f.item = j.item /\ f.size = j.size /\ f.part = n + 1
    OBVIOUS
  <1>5. /\ j \in Job /\ j.kind # "FRAGMENT" /\ j.size \in Nat /\ j.item \in Nat
        /\ 1 \in DOMAIN jobs[p] /\ jobs[p][1] = j
    <2>1. j \in Job
      BY <1>1, <1>2, FirstJob DEF TypeInv, TypeOK
    <2>2. \A h \in Job : h.kind # "FRAGMENT" /\ h.size \in Nat /\ h.item \in Nat
      BY DEF Job, JobOf, JobKind
    <2>3. 1 \in DOMAIN jobs[p] /\ jobs[p][1] = j
      BY <1>1, <1>2, TailElements
    <2> QED  BY <2>1, <2>2, <2>3
  <1>6. Done(p) = n /\ Done(p)' = n + 1
    BY <1>1, <1>2, <1>3 DEF Done
  <1>7. n > 0 => j.kind = "DATA"
    BY <1>1 DEF TypeInv, WritesFirst
  <1> HIDE DEF f, j, n, w
  <1>8. IntactLane(w, stream[o], j, n, n)
    BY <1>1, <1>6 DEF LaneIntact, w, j, n
  <1>9. j.kind = "DATA" => n < j.size
    <2>1. n > 0 /\ j.kind = "DATA" => n < j.size
      BY <1>8 DEF IntactLane
    <2>2. j.kind = "DATA" => j.size >= 1
      BY <1>1, <1>5 DEF Sized
    <2> QED  BY <1>1, <1>5, <2>1, <2>2
  <1>10. LaneIntact(p)'
    <2>1. IntactLane(Append(w, f), stream[o], j, n, n + 1)
      BY <1>1, <1>4, <1>5, <1>7, <1>8, <1>9, IntactWrite
    <2> QED  BY <1>2, <1>3, <1>6, <2>1 DEF LaneIntact, j, n
  <1>11. Apart(p) /\ Sheds(p) /\ Sized(p)'
    BY <1>1, <1>2, <1>3, Unchanging DEF Apart, Sheds, Sized
  <1>12. \A k \in StreamId : Queued(p, k)' \subseteq Queued(p, k)
    BY <1>2, <1>3 DEF Queued, Unwritten
  <1>13. ASSUME NEW k \in StreamId PROVE Increases(p, k)'
    <2>1. Increasing(stream[o][k], w, k, Queued(p, k), stream[p][k])
      BY <1>1 DEF Increases, w
    <2>2. Increasing(stream[o][k], Append(w, f), k, Queued(p, k)', stream[p][k])
      <3>1. CASE f.kind = "DATA" /\ f.id = k
        <4>1. n = 0 /\ j.kind = "DATA" /\ j.id = k
          BY <1>1, <1>4, <3>1
        <4>2. j.item \in Queued(p, k)
          BY <1>2, <1>5, <4>1 DEF Queued, Unwritten, n
        <4>3. Queued(p, k)' = {}
          <5>1. OneCall(jobs[p], stream[p])
            BY <1>1, SoundOf
          <5>2. 1 \in CallAt(jobs[p])
            BY <1>5, <4>1 DEF CallAt
          <5>3. ASSUME NEW m \in DOMAIN jobs[p], jobs[p][m].kind = "DATA", jobs[p][m].id = k
                PROVE  m = 1
            BY <1>5, <4>1, <5>1, <5>2, <5>3 DEF OneCall, CallAt
          <5>4. Unwritten(p)' = {m \in DOMAIN jobs[p] : m > 1}
            BY <1>2, <1>3 DEF Unwritten
          <5> QED  BY <1>2, <5>3, <5>4 DEF Queued
        <4>4. stream[p][k].calls \in Nat
          BY <1>1 DEF Stream
        <4>5. Increasing(stream[o][k], Append(w, f), k, {}, stream[p][k])
          BY <1>1, <1>4, <1>5, <2>1, <3>1, <4>2, <4>4, IncreasingBegun
        <4> QED  BY <4>3, <4>5
      <3>2. CASE ~(f.kind = "DATA" /\ f.id = k)
        <4>1. /\ Lessened(stream[o][k], stream[o][k]) /\ Passed(w, Append(w, f), k)
              /\ Curtailed(stream[p][k], stream[p][k])
          BY <1>1, <3>2, Unchanging, PassedAppend
        <4>2. Queued(p, k)' \in SUBSET Queued(p, k)
          BY <1>12
        <4> QED  BY <2>1, <4>1, <4>2, IncreasingLess
      <3> QED  BY <3>1, <3>2
    <2> QED  BY <1>2, <1>3, <2>2 DEF Increases
  <1> QED  BY <1>3, <1>10, <1>11, <1>13, ItemsWritten

-----------------------------------------------------------------------------
LEMMA InitItems ==
  ASSUME Init
  PROVE  ItemInv
  <1>1. TableInv
    BY InitTable
  <1>2. /\ \A p \in Peer : jobs[p] = <<>> /\ written[p] = 0 /\ ~flying[p] /\ wire[p] = <<>>
        /\ \A p \in Peer, i \in StreamId : stream[p][i] = NewStream(0)
    BY DEF Init
  <1>3. LET s == NewStream(0)
        IN s.tail = <<>> /\ s.got = <<>> /\ s.expected = 0 /\ s.partial = <<>> /\ s.calls = 0
    BY DEF NewStream
  <1>4. ASSUME NEW p \in Peer PROVE Items(p)
    <2> DEFINE o == Other(p)
    <2>1. o \in Peer
      BY DEF Peer, Other
    <2>2. Sized(p)
      BY <1>2, <1>3 DEF Sized, SendAt
    <2>3. Done(p) = 0
      BY <1>2 DEF Done
    <2>4. FramesSound(wire[p])
      BY <1>2 DEF FramesSound
    <2>5. LaneIntact(p)
      BY <1>2, <2>3, <2>4 DEF LaneIntact, IntactLane
    <2>6. ASSUME NEW i \in StreamId PROVE Assembled(stream[p][i]) /\ Increases(p, i)
      <3>1. Assembled(stream[p][i])
        BY <1>2, <1>3 DEF Assembled
      <3>2. Queued(p, i) = {} /\ DataOf(wire[p], i) = {} /\ SendAt(stream[p][i].tail) = {}
        BY <1>2, <1>3 DEF Queued, Unwritten, DataOf, SendAt
      <3>3. \A n : Published(stream[o][i], n)
        BY <1>2, <1>3, <2>1 DEF Published
      <3>4. Increasing(stream[o][i], wire[p], i, Queued(p, i), stream[p][i])
        BY <1>2, <1>3, <2>1, <3>2, <3>3 DEF Increasing, AllBefore
      <3> QED  BY <3>1, <3>4 DEF Increases
    <2> QED  BY <2>2, <2>5, <2>6 DEF Items
  <1> QED  BY <1>1, <1>4 DEF ItemInv

LEMMA NextItems ==
  ASSUME ItemInv, [Next]_vars
  PROVE  ItemInv'
  <1>1. TableInv'
    BY NextTable DEF ItemInv
  <1>2. CASE Next
    <2>1. PICK p \in Peer :
            \/ Calm(p) \/ WriteFrame(p)
            \/ \E i \in StreamId : SendNext(p, i) \/ \E size \in ItemSizes : Send(p, i, size)
            \/ ReadData(p) \/ StartReassembly(p) \/ ReadFragment(p)
      BY <1>2, ItemKinds DEF ItemInv
    <2>2. \A q \in Peer : Items(q)'
      BY <2>1, CalmItems, ItemsWriteFrame, ItemsSendNext, ItemsSend, ItemsReadData,
         ItemsStartReassembly, ItemsReadFragment
    <2> QED  BY <1>1, <2>2 DEF ItemInv
  <1>3. CASE UNCHANGED vars
    <2>1. \A q \in Peer : Items(q)' <=> Items(q)
      BY <1>3 DEF vars, tableVars, idVars, writerVars, readerVars, stateVars, Items, Sized,
                  LaneIntact, Done, Increases, Queued, Unwritten
    <2> QED  BY <1>1, <2>1 DEF ItemInv
  <1> QED  BY <1>2, <1>3

\* A published item is whole, its units in order and all of one send() call, and it
\* comes later than the item before it: a stream's calls write one after the other, a
\* fragment is only ever added behind the units it follows, and what a reader gives up
\* of an item it gives up altogether.
THEOREM ItemsAlwaysIntact == Spec => []ItemsIntact
  <1>1. ItemInv => ItemsIntact
    <2> SUFFICES ASSUME ItemInv, NEW p \in Peer, NEW i \in StreamId, NEW k \in DOMAIN stream[p][i].got
                 PROVE  LET got == stream[p][i].got
                        IN /\ got[k] = [u \in 1..got[k][1].of |->
                                  [item |-> got[k][1].item, part |-> u, of |-> got[k][1].of]]
                           /\ k > 1 => got[k - 1][1].item < got[k][1].item
      BY DEF ItemsIntact
    <2> DEFINE got == stream[p][i].got
    <2>1. /\ Assembled(stream[p][i]) /\ stream[p][i] \in Stream /\ Other(p) \in Peer
          /\ Other(Other(p)) = p
      BY ItemFacts
    <2>2. Increases(Other(p), i)
      BY <2>1, ItemFacts
    <2>3. got[k] = UnitsOf(got[k][1].item, got[k][1].of, got[k][1].of)
      BY <2>1 DEF Assembled
    <2>4. ASSUME k > 1 PROVE got[k - 1][1].item < got[k][1].item
      <3>1. Len(got) \in Nat /\ DOMAIN got = 1..Len(got)
        BY <2>1, UnitNumbers
      <3>2. k - 1 \in DOMAIN got /\ k - 1 < k
        BY <2>4, <3>1
      <3>3. \A a, b \in DOMAIN got : a < b => got[a][1].item < got[b][1].item
        BY <2>1, <2>2 DEF Increases, Increasing
      <3> QED  BY <3>2, <3>3
    <2>5. got[k] = [u \in 1..got[k][1].of |->
                      [item |-> got[k][1].item, part |-> u, of |-> got[k][1].of]]
      BY <2>3, Zenon DEF UnitsOf
    <2> HIDE DEF got
    <2>6. /\ got[k] = [u \in 1..got[k][1].of |->
                         [item |-> got[k][1].item, part |-> u, of |-> got[k][1].of]]
          /\ k > 1 => got[k - 1][1].item < got[k][1].item
      BY <2>4, <2>5, Zenon
    <2> QED  BY <2>6, Zenon DEF got
  <1> QED  BY <1>1, InitItems, NextItems, PTL DEF Spec
=============================================================================
