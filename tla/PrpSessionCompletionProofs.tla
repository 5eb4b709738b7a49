--------------------- MODULE PrpSessionCompletionProofs ---------------------
(***************************************************************************)
(* What a direction of a stream promises its two applications: COMPLETE    *)
(* means that every sent item has arrived, for every value of the          *)
(* constants.                                                              *)
(*                                                                         *)
(* WayInv follows the items of one direction from their writer q: until    *)
(* COMPLETE has been read, those q has sent are those the reader has       *)
(* published, the one it is reassembling and those on the wire (Tallied);  *)
(* what follows a COMPLETE on the lane is no item of its stream, and q has *)
(* no item left to send once it is written (Finished, Shut).               *)
(*                                                                         *)
(* A step of p either leaves the items towards p alone (Inbound) or takes  *)
(* one (Gathers), and likewise from p (Outbound, Hastens): the lemmas      *)
(* about the actions are sorted that way.                                  *)
(***************************************************************************)
EXTENDS PrpSessionCreditProofs

-----------------------------------------------------------------------------
(* What a step does to the two directions of a stream                      *)

\* A job or a frame of this kind for stream i.
On(q, kind, i) == \E k \in DOMAIN q : q[k].kind = kind /\ q[k].id = i
\* The id has never been given to the other peer, and its OPEN is not being written.
Fresh(p, i) == ~IsPast(p, i) /\ ~(i = nextId[p] /\ OpenBegun(p))
\* The application of p holds the stream, or will.
Reach(p, i) ==
  \/ stream[p][i].handle \/ On(jobs[p], "OPEN", i)
  \/ \E k \in DOMAIN pending[p] : pending[p][k] = i

\* p has used the id, or reads that the other peer ends the stream: while p is ready,
\* nothing else cuts a stream off.
Cause(p, i) == Ready(p)' =>
  \/ IsPast(p, i)
  \/ /\ CanRead(p) /\ i \in live[p]
     /\ Incoming(p).kind \in {"CANCEL", "ERROR"} /\ Incoming(p).id = i

SameInbound(s, t) ==
  t.got = s.got /\ t.expected = s.expected /\ t.inClosed = s.inClosed /\ t.cancelled = s.cancelled
CutInbound(s, t) == t.got = s.got /\ t.expected = 0 /\ t.inClosed /\ t.cancelled
SameOutbound(s, t) == t.sent = s.sent /\ t.outClosed = s.outClosed /\ (t.busy => s.busy)
CutOutbound(s, t) == t.sent = s.sent /\ t.outClosed /\ (t.busy => s.busy)
\* A stream nothing has happened to, or that ended at once.
Blank(t) ==
  /\ t.got = <<>> /\ t.expected = 0 /\ t.sent = 0 /\ ~t.busy
  /\ t.inClosed = t.cancelled /\ t.outClosed = t.cancelled

\* The stream stays as it was, is cut off, or is opened.
Mild(p, i) ==
  LET s == stream[p][i]
      t == stream'[p][i]
  IN \/ SameInbound(s, t) /\ SameOutbound(s, t) /\ (i \in live'[p] => i \in live[p])
     \/ CutInbound(s, t) /\ CutOutbound(s, t) /\ i \notin live'[p] /\ Cause(p, i)
     \/ /\ Fresh(p, i) /\ Ready(p) /\ Blank(t)
        /\ i \in live'[p] \/ (t.cancelled /\ IsPast(p, i)')
InboundMild(p, i) ==
  LET s == stream[p][i]
      t == stream'[p][i]
  IN \/ SameInbound(s, t) /\ (i \in live'[p] => i \in live[p])
     \/ CutInbound(s, t) /\ i \notin live'[p] /\ Cause(p, i)
     \/ /\ Fresh(p, i) /\ Ready(p)
        /\ t.got = <<>> /\ t.expected = 0 /\ t.inClosed = t.cancelled
        /\ i \in live'[p] \/ (t.cancelled /\ IsPast(p, i)')
OutboundMild(p, i) ==
  LET s == stream[p][i]
      t == stream'[p][i]
  IN \/ SameOutbound(s, t) \/ CutOutbound(s, t)
     \/ ~IsPast(p, i) /\ t.sent = 0 /\ ~t.busy
AskedKept(p, i) ==
  \/ stream'[p][i].asked = stream[p][i].asked
  \/ ~IsPast(p, i) /\ stream'[p][i].asked = 0
HandleKept(p, i) == stream'[p][i].handle => Reach(p, i) \/ i \in live'[p]
\* What has ended stays ended, or begins anew.
EndKept(p, i) == IsClosed(stream[p][i]) => IsClosed(stream'[p][i]) \/ i \in live'[p]
\* A stream leaves the table when it has ended, or when its OPEN is rolled back.
LeavesEnded(p, i) ==
  i \in live[p] /\ i \notin live'[p] =>
    IsClosed(stream'[p][i]) \/ (~IsPast(p, i) /\ ~Reach(p, i)' /\ stream'[p][i].asked = 0)

Streams(p) == \A i \in StreamId : Mild(p, i) /\ HandleKept(p, i) /\ LeavesEnded(p, i)
Asked(p) == \A i \in StreamId : AskedKept(p, i)

\* Of the calls none joins the queue, and of the rest only what may.
Queues(p) == \A i \in StreamId :
  /\ \A kind \in {"DATA", "COMPLETE"} : On(jobs'[p], kind, i) => On(jobs[p], kind, i)
  /\ \A kind \in {"CANCEL", "ERROR"} :
       On(jobs'[p], kind, i) => On(jobs[p], kind, i) \/ IsPast(p, i)'
  /\ On(jobs'[p], "OPEN", i) => On(jobs[p], "OPEN", i) \/ i \in live'[p]
Pends(p) == \A k \in DOMAIN pending'[p] :
  \/ pending'[p][k] \in live'[p]
  \/ \E m \in DOMAIN pending[p] : pending[p][m] = pending'[p][k]

\* A frame of the first job has been handed to the lane, and the job is an item of
\* stream i; it is the COMPLETE of stream i.
Begins(p, i) == Begun(p) /\ Head(jobs[p]).kind = "DATA" /\ Head(jobs[p]).id = i
Closing(p, i) == flying[p] /\ Head(jobs[p]).kind = "COMPLETE" /\ Head(jobs[p]).id = i

ReadLane(p) ==
  \/ wire'[Other(p)] = wire[Other(p)]
  \/ /\ wire[Other(p)] # <<>> /\ wire'[Other(p)] = Tail(wire[Other(p)])
     /\ Incoming(p).kind = "DATA" => Incoming(p).id \notin live'[p]
WriteLane(p) ==
  /\ wire'[p] = wire[p]
  /\ \A i \in StreamId :
       /\ Begins(p, i)' => Begins(p, i)
       /\ Begins(p, i) => Begins(p, i)' \/ ~Ready(p)' \/ stream'[p][i].outClosed
       /\ Closing(p, i) => Closing(p, i)' \/ (~Ready(p)' /\ ~stream'[p][i].busy)
Elsewhere(p) ==
  Alone(p) /\ \A q \in Peer \ {p} : written'[q] = written[q] /\ flying'[q] = flying[q]

Inbound(p) == ReadLane(p) /\ \A i \in StreamId : InboundMild(p, i)
Outbound(p) ==
  /\ WriteLane(p)
  /\ \A i \in StreamId :
       /\ OutboundMild(p, i)
       /\ \A kind \in {"DATA", "COMPLETE"} : On(jobs'[p], kind, i) => On(jobs[p], kind, i)
Tables(p) ==
  /\ \A i \in StreamId : HandleKept(p, i) /\ LeavesEnded(p, i) /\ EndKept(p, i)
  /\ Pends(p)
  /\ \A i \in StreamId :
       /\ \A kind \in {"CANCEL", "ERROR"} :
            On(jobs'[p], kind, i) => On(jobs[p], kind, i) \/ IsPast(p, i)'
       /\ On(jobs'[p], "OPEN", i) => On(jobs[p], "OPEN", i) \/ i \in live'[p]
Soft(p) == Inbound(p) /\ Outbound(p) /\ Tables(p)

LEMMA SoftBy ==
  ASSUME NEW p \in Peer, Streams(p), Queues(p), Pends(p), ReadLane(p), WriteLane(p)
  PROVE  Soft(p)
  <1>1. \A i \in StreamId : Mild(p, i) => InboundMild(p, i)
    BY DEF Mild, InboundMild, Blank
  <1>2. \A i \in StreamId : Mild(p, i) => OutboundMild(p, i)
    BY DEF Mild, OutboundMild, Fresh, Blank
  <1>3. \A i \in StreamId : Mild(p, i) => EndKept(p, i)
    BY DEF Mild, EndKept, IsClosed, SameInbound, SameOutbound, CutInbound
  <1>4. Inbound(p)
    BY <1>1 DEF Inbound, Streams
  <1>5. Outbound(p)
    BY <1>2 DEF Outbound, Streams, Queues
  <1>6. Tables(p)
    BY <1>3 DEF Tables, Streams, Queues
  <1> QED  BY <1>4, <1>5, <1>6 DEF Soft

-----------------------------------------------------------------------------
\* What may happen to the queue.
LEMMA OnSame ==
  ASSUME TypeInv, NEW p \in Peer, UNCHANGED jobs
  PROVE  Queues(p)
  BY DEF Queues

LEMMA OnAppend ==
  ASSUME NEW S, NEW q \in Seq(S), NEW x, NEW kind, NEW i
  PROVE  On(Append(q, x), kind, i) <=> On(q, kind, i) \/ (x.kind = kind /\ x.id = i)
  <1> DEFINE v == Append(q, x)
  <1>1. /\ DOMAIN v = 1..Len(q) + 1 /\ DOMAIN q = 1..Len(q) /\ v[Len(q) + 1] = x
        /\ \A k \in 1..Len(q) : v[k] = q[k] /\ Len(q) \in Nat
    BY AppendElements
  <1>2. Len(q) \in Nat
    OBVIOUS
  <1> HIDE DEF v
  <1>3. \A k \in DOMAIN v : (k \in DOMAIN q /\ v[k] = q[k]) \/ v[k] = x
    BY <1>1, <1>2
  <1>4. Len(q) + 1 \in DOMAIN v /\ \A k \in DOMAIN q : k \in DOMAIN v /\ v[k] = q[k]
    BY <1>1, <1>2
  <1>5. On(v, kind, i) => On(q, kind, i) \/ (x.kind = kind /\ x.id = i)
    BY <1>3 DEF On
  <1>6. On(q, kind, i) => On(v, kind, i)
    BY <1>4 DEF On
  <1>7. x.kind = kind /\ x.id = i => On(v, kind, i)
    BY <1>1, <1>4 DEF On
  <1> QED  BY <1>5, <1>6, <1>7 DEF v

LEMMA OnTail ==
  ASSUME NEW S, NEW q \in Seq(S), q # <<>>, NEW kind, NEW i
  PROVE  /\ On(q, kind, i) <=> On(Tail(q), kind, i) \/ (Head(q).kind = kind /\ Head(q).id = i)
         /\ Tail(q) \in Seq(S)
  <1> DEFINE v == Tail(q)
  <1>1. /\ \A k \in DOMAIN v : k \in Nat \ {0} /\ k + 1 \in DOMAIN q /\ v[k] = q[k + 1]
        /\ 1 \in DOMAIN q /\ q[1] = Head(q) /\ v \in Seq(S)
        /\ \A k \in DOMAIN q \ {1} : k - 1 \in DOMAIN v /\ v[k - 1] = q[k]
    BY TailElements
  <1> HIDE DEF v
  <1>2. On(v, kind, i) => On(q, kind, i)
    BY <1>1 DEF On
  <1>3. Head(q).kind = kind /\ Head(q).id = i => On(q, kind, i)
    BY <1>1 DEF On
  <1>4. On(q, kind, i) => On(v, kind, i) \/ (Head(q).kind = kind /\ Head(q).id = i)
    BY <1>1 DEF On
  <1> QED  BY <1>1, <1>2, <1>3, <1>4 DEF v

LEMMA OnNone == \A kind, i : ~On(<<>>, kind, i)
  BY DEF On

\* What a job that joins the queue must be.
Joining(p, job) ==
  /\ job.kind \notin {"DATA", "COMPLETE"}
  /\ job.kind \in {"CANCEL", "ERROR"} => IsPast(p, job.id)'
  /\ job.kind = "OPEN" => job.id \in live'[p]

LEMMA QueuesMore ==
  ASSUME TypeInv, NEW p \in Peer, NEW job, Joining(p, job), Queue(p, job)
  PROVE  Queues(p)
  <1>1. jobs[p] \in Seq(Job) /\ jobs'[p] = Append(jobs[p], job)
    BY DEF Queue, TypeInv, TypeOK, WriterType
  <1>2. \A kind, i : On(jobs'[p], kind, i) => On(jobs[p], kind, i) \/ (job.kind = kind /\ job.id = i)
    BY <1>1, OnAppend
  <1> QED  BY <1>2 DEF Queues, Joining

LEMMA QueuesLess ==
  ASSUME TypeInv, NEW p \in Peer, jobs[p] # <<>>, jobs' = [jobs EXCEPT ![p] = Tail(@)]
  PROVE  Queues(p)
  <1>1. jobs[p] \in Seq(Job) /\ jobs'[p] = Tail(jobs[p])
    BY DEF TypeInv, TypeOK, WriterType
  <1>2. \A kind, i : On(jobs'[p], kind, i) => On(jobs[p], kind, i)
    BY <1>1, OnTail
  <1> QED  BY <1>2 DEF Queues

LEMMA QueuesAgain ==
  ASSUME TypeInv, NEW p \in Peer, jobs[p] # <<>>, NEW job,
         jobs' = [jobs EXCEPT ![p] = Append(Tail(@), job)],
         job.kind = Head(jobs[p]).kind, job.id = Head(jobs[p]).id
  PROVE  Queues(p)
  <1> DEFINE u == Tail(jobs[p])
  <1>1. jobs[p] \in Seq(Job) /\ jobs'[p] = Append(u, job)
    BY DEF TypeInv, TypeOK, WriterType
  <1>2. /\ u \in Seq(Job)
        /\ \A kind, i : On(u, kind, i) \/ (job.kind = kind /\ job.id = i) => On(jobs[p], kind, i)
    BY <1>1, OnTail
  <1> HIDE DEF u
  <1>3. \A kind, i : On(Append(u, job), kind, i) =>
          On(u, kind, i) \/ (job.kind = kind /\ job.id = i)
    BY <1>2, OnAppend
  <1>4. \A kind, i : On(jobs'[p], kind, i) => On(jobs[p], kind, i)
    BY <1>1, <1>2, <1>3
  <1> QED  BY <1>4 DEF Queues

LEMMA QueuesNone ==
  ASSUME TypeInv, NEW p \in Peer, jobs' = [jobs EXCEPT ![p] = <<>>]
  PROVE  Queues(p)
  <1>1. jobs'[p] = <<>>
    BY DEF TypeInv, TypeOK, WriterType
  <1> QED  BY <1>1, OnNone DEF Queues

LEMMA PendsSame ==
  ASSUME UNCHANGED pending, NEW p
  PROVE  Pends(p)
  BY DEF Pends

-----------------------------------------------------------------------------
\* What may happen to the streams.
LEMMA StreamsStill ==
  ASSUME NEW p \in Peer, UNCHANGED <<stream, live>>
  PROVE  Streams(p) /\ Asked(p)
  <1>1. \A i \in StreamId : Mild(p, i)
    BY DEF Mild, SameInbound, SameOutbound
  <1>2. \A i \in StreamId : HandleKept(p, i) /\ LeavesEnded(p, i) /\ AskedKept(p, i)
    BY DEF HandleKept, LeavesEnded, AskedKept, Reach
  <1> QED  BY <1>1, <1>2 DEF Streams, Asked

LEMMA StreamsAt ==
  ASSUME TypeInv, NEW p \in Peer, NEW i \in StreamId, NEW t,
         stream' = [stream EXCEPT ![p][i] = t], UNCHANGED live,
         SameInbound(stream[p][i], t), SameOutbound(stream[p][i], t),
         t.handle => Reach(p, i)
  PROVE  /\ Streams(p)
         /\ t.asked = stream[p][i].asked => Asked(p)
  <1>1. stream'[p][i] = t /\ \A k \in StreamId \ {i} : stream'[p][k] = stream[p][k]
    BY ChangedStream
  <1>2. ASSUME NEW k \in StreamId PROVE Mild(p, k) /\ HandleKept(p, k) /\ LeavesEnded(p, k)
    <2>1. Mild(p, k)
      BY <1>1 DEF Mild, SameInbound, SameOutbound
    <2>2. HandleKept(p, k)
      BY <1>1 DEF HandleKept, Reach
    <2>3. LeavesEnded(p, k)
      BY DEF LeavesEnded
    <2> QED  BY <2>1, <2>2, <2>3
  <1>3. t.asked = stream[p][i].asked => Asked(p)
    BY <1>1 DEF Asked, AskedKept
  <1> QED  BY <1>2, <1>3 DEF Streams

\* The stream is cancelled and leaves the table.
LEMMA StreamsCancel ==
  ASSUME TypeInv, NEW p \in Peer, NEW i \in StreamId, NEW s \in Stream, NEW late,
         CancelStream(p, i, s, late), s.got = stream[p][i].got, s.sent = stream[p][i].sent,
         s.busy = stream[p][i].busy, s.handle = stream[p][i].handle,
         s.asked = stream[p][i].asked, Cause(p, i)
  PROVE  Streams(p) /\ Asked(p)
  <1> DEFINE t == Cancelled(s)
  <1>1. stream' = [stream EXCEPT ![p][i] = t] /\ live'[p] = live[p] \ {i}
    <2>1. live'[p] = live[p] \ {i}
      BY LeaveLive DEF CancelStream
    <2> QED  BY <2>1 DEF CancelStream
  <1>2. t.got = s.got /\ t.sent = s.sent /\ t.busy = s.busy
    BY DEF Cancelled, Stream
  <1>3. t.handle = s.handle /\ t.asked = s.asked
    BY DEF Cancelled, Stream
  <1>4. t.cancelled /\ t.inClosed /\ t.outClosed /\ t.expected = 0
    BY DEF Cancelled, Stream
  <1> HIDE DEF t
  <1>5. stream'[p][i] = t /\ \A k \in StreamId \ {i} : stream'[p][k] = stream[p][k]
    BY <1>1, ChangedStream
  <1>6. ASSUME NEW k \in StreamId
        PROVE  Mild(p, k) /\ HandleKept(p, k) /\ LeavesEnded(p, k) /\ AskedKept(p, k)
    <2>1. CASE k = i
      <3>1. Mild(p, i)
        BY <1>1, <1>2, <1>4, <1>5 DEF Mild, CutInbound, CutOutbound
      <3>2. HandleKept(p, i) /\ AskedKept(p, i)
        BY <1>3, <1>5 DEF HandleKept, AskedKept, Reach
      <3>3. LeavesEnded(p, i)
        BY <1>4, <1>5 DEF LeavesEnded, IsClosed
      <3> QED  BY <2>1, <3>1, <3>2, <3>3
    <2>2. CASE k # i
      <3>1. stream'[p][k] = stream[p][k] /\ (k \in live'[p] <=> k \in live[p])
        BY <1>1, <1>5, <2>2
      <3>2. Mild(p, k)
        BY <3>1 DEF Mild, SameInbound, SameOutbound
      <3>3. HandleKept(p, k) /\ LeavesEnded(p, k) /\ AskedKept(p, k)
        BY <3>1 DEF HandleKept, LeavesEnded, AskedKept, Reach
      <3> QED  BY <3>2, <3>3
    <2> QED  BY <2>1, <2>2
  <1> QED  BY <1>6 DEF Streams, Asked

\* A stream is opened under a new id.
LEMMA StreamsNew ==
  ASSUME TypeInv, NEW p \in Peer, NEW i \in StreamId, Fresh(p, i), Ready(p), NEW t,
         stream' = [stream EXCEPT ![p][i] = t], Blank(t), t.asked = 0,
         \/ live'[p] = live[p] \cup {i}
         \/ live'[p] = live[p] /\ t.cancelled /\ ~t.handle /\ IsPast(p, i)'
  PROVE  Streams(p) /\ Asked(p)
  <1>1. stream'[p][i] = t /\ \A k \in StreamId \ {i} : stream'[p][k] = stream[p][k]
    BY ChangedStream
  <1>2. ASSUME NEW k \in StreamId
        PROVE  Mild(p, k) /\ HandleKept(p, k) /\ LeavesEnded(p, k) /\ AskedKept(p, k)
    <2>0. k \in live[p] => k \in live'[p]
      OBVIOUS
    <2>1. CASE k = i
      <3>1. Mild(p, i)
        BY <1>1 DEF Mild
      <3>2. HandleKept(p, i) /\ AskedKept(p, i)
        BY <1>1 DEF HandleKept, AskedKept, Fresh
      <3> QED  BY <2>0, <2>1, <3>1, <3>2 DEF LeavesEnded
    <2>2. CASE k # i
      <3>1. stream'[p][k] = stream[p][k] /\ (k \in live'[p] <=> k \in live[p])
        BY <1>1, <2>2
      <3>2. Mild(p, k)
        BY <3>1 DEF Mild, SameInbound, SameOutbound
      <3>3. HandleKept(p, k) /\ LeavesEnded(p, k) /\ AskedKept(p, k)
        BY <3>1 DEF HandleKept, LeavesEnded, AskedKept, Reach
      <3> QED  BY <3>2, <3>3
    <2> QED  BY <2>1, <2>2
  <1> QED  BY <1>2 DEF Streams, Asked

\* A session ends.
LEMMA StreamsOver ==
  ASSUME TableInv, NEW p \in Peer, NEW state \in {"closed", "detached"}, NEW why,
         Over(p, state, why)
  PROVE  /\ Streams(p) /\ Asked(p) /\ Queues(p) /\ Pends(p)
         /\ \A i \in StreamId : ~stream'[p][i].busy
  <1>1. TypeInv
    BY DEF TableInv, IdInv
  <1> DEFINE v == [i \in StreamId |-> IF i \in live[p]
                         THEN [Cancelled(stream[p][i]) EXCEPT !.busy = FALSE]
                         ELSE [stream[p][i] EXCEPT !.busy = FALSE]]
  <1>3. stream' = [stream EXCEPT ![p] = v] /\ live'[p] = {} /\ pending'[p] = <<>>
    BY <1>1 DEF Over, TypeInv, TypeOK, TableType, IdType
  <1>2. ~Ready(p)'
    BY <1>1 DEF Over, Ready, TypeInv, TypeOK, StateType
  <1>4. \A i \in StreamId :
          \/ i \in live[p] /\ v[i] = [Cancelled(stream[p][i]) EXCEPT !.busy = FALSE]
          \/ i \notin live[p] /\ v[i] = [stream[p][i] EXCEPT !.busy = FALSE]
    OBVIOUS
  <1> HIDE DEF v
  <1>5. stream'[p] = v
    BY <1>1, <1>3 DEF TypeInv, TypeOK, TableType
  <1>6. ASSUME NEW i \in StreamId
        PROVE  /\ Mild(p, i) /\ HandleKept(p, i) /\ LeavesEnded(p, i) /\ AskedKept(p, i)
               /\ ~stream'[p][i].busy
    <2> DEFINE s == stream[p][i]
               a == [Cancelled(s) EXCEPT !.busy = FALSE]
               b == [s EXCEPT !.busy = FALSE]
    <2>1. s \in Stream
      BY <1>1, StreamOf DEF TypeInv, TypeOK
    <2>2. /\ a.got = s.got /\ a.sent = s.sent /\ ~a.busy
          /\ a.handle = s.handle /\ a.asked = s.asked
      BY <2>1 DEF Cancelled, Stream
    <2>3. a.cancelled /\ a.inClosed /\ a.outClosed /\ a.expected = 0
      BY <2>1 DEF Cancelled, Stream
    <2>4. b.got = s.got /\ b.sent = s.sent /\ ~b.busy /\ b.handle = s.handle /\ b.asked = s.asked
      BY <2>1 DEF Stream
    <2>5. /\ b.expected = s.expected /\ b.inClosed = s.inClosed
          /\ b.outClosed = s.outClosed /\ b.cancelled = s.cancelled
      BY <2>1 DEF Stream
    <2>6. \/ i \in live[p] /\ stream'[p][i] = a
          \/ i \notin live[p] /\ stream'[p][i] = b
      BY <1>4, <1>5
    <2> HIDE DEF a, b
    <2>7. Mild(p, i)
      BY <1>2, <1>3, <2>2, <2>3, <2>4, <2>5, <2>6
         DEF Mild, Cause, CutInbound, CutOutbound, SameInbound, SameOutbound
    <2>8. HandleKept(p, i) /\ AskedKept(p, i) /\ ~stream'[p][i].busy
      BY <2>2, <2>4, <2>6 DEF HandleKept, AskedKept, Reach
    <2>9. LeavesEnded(p, i)
      BY <2>3, <2>6 DEF LeavesEnded, IsClosed
    <2> QED  BY <2>7, <2>8, <2>9
  <1>7. Queues(p)
    BY <1>1, QueuesNone DEF Over
  <1>8. Pends(p)
    BY <1>3 DEF Pends
  <1> QED  BY <1>6, <1>7, <1>8 DEF Streams, Asked

-----------------------------------------------------------------------------
\* What a step does to the lanes, and whom it leaves alone.
\* No DATA is dropped but of a stream that has ended, and what finishes is no call.
DropsEnded(p) ==
  Drops(p) /\ (Head(jobs[p]).kind = "DATA" => stream'[p][Head(jobs[p]).id].outClosed)
FinishesPlain(p) == Finishes(p) /\ Head(jobs[p]).kind \notin {"DATA", "COMPLETE"}

LEMMA LanesKept ==
  ASSUME TableInv, NEW p \in Peer,
         \/ Stays \/ DropsEnded(p) \/ FragmentWritten(p) \/ FinishesPlain(p) \/ Receives(p)
         \/ EndsLane(p),
         \/ UNCHANGED wire
         \/ Incoming(p).kind = "DATA" => Incoming(p).id \notin live'[p]
  PROVE  ReadLane(p) /\ WriteLane(p)
  <1>0. TypeInv
    BY DEF TableInv, IdInv
  <1>1. Other(p) \in Peer /\ Other(p) # p /\ wire \in [Peer -> Seq(Frame)]
    BY <1>0, PeerFacts DEF TypeInv, TypeOK, ReaderType
  <1>2. UNCHANGED wire \/ (wire[Other(p)] # <<>> /\ wire' = [wire EXCEPT ![Other(p)] = Tail(@)])
    BY <1>0, LaneRests DEF DropsEnded, FinishesPlain
  <1>3. ReadLane(p) /\ wire'[p] = wire[p]
    BY <1>1, <1>2 DEF ReadLane
  <1>4. /\ written[p] \in Nat /\ flying[p] \in BOOLEAN /\ (flying[p] => jobs[p] # <<>>)
        /\ written[p] > 0 => jobs[p] # <<>> /\ Head(jobs[p]).kind = "DATA"
        /\ \A n : [written EXCEPT ![p] = n][p] = n
        /\ \A n : [flying EXCEPT ![p] = n][p] = n
    BY <1>0 DEF TypeInv, TypeOK, WriterType, WritesFirst
  <1>5. ASSUME NEW i \in StreamId
        PROVE  /\ Begins(p, i)' => Begins(p, i)
               /\ Begins(p, i) => Begins(p, i)' \/ ~Ready(p)' \/ stream'[p][i].outClosed
               /\ Closing(p, i) => Closing(p, i)' \/ (~Ready(p)' /\ ~stream'[p][i].busy)
    <2>1. CASE Stays \/ Receives(p)
      <3>1. HeadsKept /\ UNCHANGED <<written, flying>>
        BY <2>1 DEF Stays, Receives
      <3>2. jobs[p] # <<>> => Head(jobs'[p]) = Head(jobs[p])
        BY <3>1 DEF HeadsKept
      <3> QED  BY <1>4, <3>1, <3>2 DEF Begins, Begun, Closing
    <2>2. CASE DropsEnded(p)
      <3>1. ~flying[p] /\ ~flying'[p] /\ written'[p] = 0
        BY <1>4, <2>2 DEF DropsEnded, Drops, CanWrite
      <3> QED  BY <2>2, <3>1 DEF DropsEnded, Begins, Begun, Closing
    <2>3. CASE FragmentWritten(p)
      <3>1. written'[p] = written[p] + 1 /\ UNCHANGED jobs /\ flying[p]
        BY <1>4, <2>3 DEF FragmentWritten
      <3>2. ~Closing(p, i)
        BY <1>4, <2>3 DEF FragmentWritten, FrameCount, Closing
      <3> QED  BY <1>4, <3>1, <3>2 DEF Begins, Begun
    <2>4. CASE FinishesPlain(p)
      <3>1. written'[p] = 0 /\ ~flying'[p]
        BY <1>4, <2>4 DEF FinishesPlain, Finishes, JobDone
      <3> QED  BY <2>4, <3>1 DEF FinishesPlain, Begins, Begun, Closing
    <2>5. CASE EndsLane(p)
      <3>1. PICK state \in {"closed", "detached"}, why \in {"none", "lost", "violation", "exhausted"} :
              Over(p, state, why)
        BY <2>5 DEF EndsLane, Ends
      <3>2. ~Ready(p)' /\ written'[p] = 0 /\ ~flying'[p]
        BY <1>0, <1>4, <3>1 DEF Over, Ready, TypeInv, TypeOK, StateType
      <3>3. ~stream'[p][i].busy
        BY <3>1, StreamsOver
      <3> QED  BY <3>2, <3>3 DEF Begins, Begun, Closing
    <2> QED  BY <2>1, <2>2, <2>3, <2>4, <2>5
  <1> QED  BY <1>3, <1>5 DEF WriteLane

\* A peer's entry is all that may change.
Changes(f, g, p) == g = f \/ \E x : g = [f EXCEPT ![p] = x]

LEMMA AloneBy ==
  ASSUME TypeInv, NEW p \in Peer,
         Changes(stream, stream', p), Changes(live, live', p), Changes(jobs, jobs', p),
         Changes(pending, pending', p), Changes(session, session', p),
         Changes(nextId, nextId', p), Changes(highestRemote, highestRemote', p)
  PROVE  Alone(p)
  <1>1. /\ stream \in [Peer -> [StreamId -> Stream]] /\ live \in [Peer -> SUBSET StreamId]
        /\ jobs \in [Peer -> Seq(Job)] /\ pending \in [Peer -> Seq(StreamId)]
        /\ session \in [Peer -> {"ready", "closed", "detached"}]
        /\ nextId \in [Peer -> Nat] /\ highestRemote \in [Peer -> Nat]
    BY DEF TypeInv, TypeOK, TableType, WriterType, IdType, StateType
  <1>2. \A q \in Peer \ {p} : stream'[q] = stream[q]
    BY <1>1 DEF Changes
  <1>3. \A q \in Peer \ {p} : live'[q] = live[q]
    BY <1>1 DEF Changes
  <1>4. \A q \in Peer \ {p} : jobs'[q] = jobs[q]
    BY <1>1 DEF Changes
  <1>5. \A q \in Peer \ {p} : pending'[q] = pending[q]
    BY <1>1 DEF Changes
  <1>6. \A q \in Peer \ {p} : session'[q] = session[q]
    BY <1>1 DEF Changes
  <1>7. \A q \in Peer \ {p} : nextId'[q] = nextId[q]
    BY <1>1 DEF Changes
  <1>8. \A q \in Peer \ {p} : highestRemote'[q] = highestRemote[q]
    BY <1>1 DEF Changes
  <1> QED  BY <1>2, <1>3, <1>4, <1>5, <1>6, <1>7, <1>8 DEF Alone

LEMMA AloneCalls ==
  ASSUME TypeInv, NEW p \in Peer, NEW i \in StreamId,
         \/ \E n \in Demands : Request(p, i, n)
         \/ \E size \in ItemSizes : Send(p, i, size)
         \/ Complete(p, i) \/ Cancel(p, i) \/ Fail(p, i)
  PROVE  Alone(p)
  <1>1. UNCHANGED <<pending, session, nextId, highestRemote>>
    BY DEF Request, Send, Complete, Cancel, Fail, End, idVars, stateVars
  <1>2. \E x : stream' = [stream EXCEPT ![p] = x]
    BY DEF Request, Send, Complete, Cancel, Fail, End, Update, CancelStream
  <1>3. UNCHANGED jobs \/ \E x : jobs' = [jobs EXCEPT ![p] = x]
    BY DEF Request, Send, Complete, Cancel, Fail, End, Queue, writerVars
  <1>4. UNCHANGED live \/ \E x : live' = [live EXCEPT ![p] = x]
    BY DEF Request, Send, Complete, Cancel, Fail, End, Update, CancelStream, Leave
  <1> QED  BY <1>1, <1>2, <1>3, <1>4, AloneBy DEF Changes

LEMMA AloneSession ==
  ASSUME TypeInv, NEW p \in Peer, TakeIncoming(p) \/ Close(p) \/ CloseDetached(p) \/ Open(p)
  PROVE  Alone(p)
  <1>1. UNCHANGED <<nextId, highestRemote>> /\ (UNCHANGED session \/ \E x : session' = [session EXCEPT ![p] = x])
    BY DEF TakeIncoming, Close, CloseDetached, Open, idVars, stateVars
  <1>2. UNCHANGED stream \/ \E x : stream' = [stream EXCEPT ![p] = x]
    BY DEF TakeIncoming, Close, CloseDetached, Open, tableVars, Update
  <1>3. UNCHANGED jobs \/ \E x : jobs' = [jobs EXCEPT ![p] = x]
    BY DEF TakeIncoming, Close, CloseDetached, Open, writerVars, Queue
  <1>4. UNCHANGED live \/ \E x : live' = [live EXCEPT ![p] = x]
    BY DEF TakeIncoming, Close, CloseDetached, Open, tableVars, Update, Enter
  <1>5. UNCHANGED pending \/ \E x : pending' = [pending EXCEPT ![p] = x]
    BY DEF TakeIncoming, Close, CloseDetached, Open, idVars
  <1> QED  BY <1>1, <1>2, <1>3, <1>4, <1>5, AloneBy DEF Changes

LEMMA AloneTail ==
  ASSUME TypeInv, NEW p \in Peer, NEW i \in StreamId, StreamTail(p, i)
  PROVE  Alone(p)
  <1>1. UNCHANGED <<pending, session, nextId, highestRemote, live>>
    BY DEF StreamTail, SendNext, SendTooLarge, CompleteNext, idVars, stateVars, Update
  <1>2. \E x : stream' = [stream EXCEPT ![p] = x]
    BY DEF StreamTail, SendNext, SendTooLarge, CompleteNext, Update
  <1>3. UNCHANGED jobs \/ \E x : jobs' = [jobs EXCEPT ![p] = x]
    BY DEF StreamTail, SendNext, SendTooLarge, CompleteNext, Queue, writerVars
  <1> QED  BY <1>1, <1>2, <1>3, AloneBy DEF Changes

LEMMA AloneEnds ==
  ASSUME TypeInv, NEW p \in Peer, Ends(p)
  PROVE  Alone(p)
  <1>1. PICK state \in {"closed", "detached"}, why \in {"none", "lost", "violation", "exhausted"} :
          Over(p, state, why)
    BY DEF Ends
  <1>2. \E x : stream' = [stream EXCEPT ![p] = x]
    BY <1>1 DEF Over
  <1>3. \E x : live' = [live EXCEPT ![p] = x]
    BY <1>1 DEF Over
  <1>4. /\ \E x : jobs' = [jobs EXCEPT ![p] = x]
        /\ \E x : pending' = [pending EXCEPT ![p] = x]
        /\ \E x : session' = [session EXCEPT ![p] = x]
    BY <1>1 DEF Over
  <1>5. UNCHANGED <<nextId, highestRemote>>
    BY DEF Ends
  <1> QED  BY <1>2, <1>3, <1>4, <1>5, AloneBy DEF Changes

LEMMA AloneWrite ==
  ASSUME TypeInv, NEW p \in Peer, Write(p)
  PROVE  Alone(p)
  <1>1. CASE Exhaust(p) \/ CloseWritten(p)
    BY <1>1, SessionEnds, AloneEnds
  <1>2. CASE \/ Abandon(p) \/ RollBackOpen(p) \/ DropReason(p)
             \/ WriteFrame(p) \/ FragmentWritten(p)
             \/ OpenWritten(p) \/ DemandWritten(p) \/ DataWritten(p)
             \/ CompleteWritten(p) \/ EndingWritten(p)
    <2>1. UNCHANGED <<pending, session, highestRemote>>
      BY <1>2 DEF Abandon, RollBackOpen, DropReason, WriteFrame, FragmentWritten, OpenWritten,
                  DemandWritten, DataWritten, CompleteWritten, EndingWritten, idVars, stateVars
    <2>2. UNCHANGED nextId \/ \E x : nextId' = [nextId EXCEPT ![p] = x]
      BY <1>2 DEF Abandon, RollBackOpen, DropReason, WriteFrame, FragmentWritten, OpenWritten,
                  DemandWritten, DataWritten, CompleteWritten, EndingWritten, idVars
    <2>3. UNCHANGED stream \/ \E x : stream' = [stream EXCEPT ![p] = x]
      BY <1>2 DEF Abandon, RollBackOpen, DropReason, WriteFrame, FragmentWritten, OpenWritten,
                  DemandWritten, DataWritten, CompleteWritten, EndingWritten, tableVars, Update,
                  Release
    <2>4. UNCHANGED live \/ \E x : live' = [live EXCEPT ![p] = x]
      BY <1>2 DEF Abandon, RollBackOpen, DropReason, WriteFrame, FragmentWritten, OpenWritten,
                  DemandWritten, DataWritten, CompleteWritten, EndingWritten, tableVars, Update,
                  Release, Leave
    <2>5. UNCHANGED jobs \/ \E x : jobs' = [jobs EXCEPT ![p] = x]
      BY <1>2 DEF Abandon, RollBackOpen, DropReason, WriteFrame, FragmentWritten, OpenWritten,
                  DemandWritten, DataWritten, CompleteWritten, EndingWritten, JobDone
    <2> QED  BY <2>1, <2>2, <2>3, <2>4, <2>5, AloneBy DEF Changes
  <1> QED  BY <1>1, <1>2 DEF Write

LEMMA AloneRead ==
  ASSUME TypeInv, NEW p \in Peer, Read(p)
  PROVE  Alone(p)
  <1>1. CASE ReadIllegal(p) \/ ReadClose(p) \/ CarrierEnds(p)
    BY <1>1, SessionEnds, AloneEnds
  <1>2. CASE \/ ReadLate(p) \/ ReadDemand(p) \/ ReadData(p) \/ StartReassembly(p)
             \/ RefuseReassembly(p) \/ ReadFragment(p) \/ ReadComplete(p) \/ ReadEnding(p)
    <2>1. UNCHANGED <<pending, session, nextId, highestRemote>>
      BY <1>2 DEF ReadLate, ReadDemand, ReadData, StartReassembly, RefuseReassembly, ReadFragment,
                  ReadComplete, ReadEnding, idVars, stateVars
    <2>2. UNCHANGED stream \/ \E x : stream' = [stream EXCEPT ![p] = x]
      BY <1>2 DEF ReadLate, ReadDemand, ReadData, StartReassembly, RefuseReassembly, ReadFragment,
                  ReadComplete, ReadEnding, tableVars, Update, Release, CancelStream
    <2>3. UNCHANGED live \/ \E x : live' = [live EXCEPT ![p] = x]
      BY <1>2 DEF ReadLate, ReadDemand, ReadData, StartReassembly, RefuseReassembly, ReadFragment,
                  ReadComplete, ReadEnding, tableVars, Update, Release, CancelStream, Leave
    <2>4. UNCHANGED jobs \/ \E x : jobs' = [jobs EXCEPT ![p] = x]
      BY <1>2 DEF ReadLate, ReadDemand, ReadData, StartReassembly, RefuseReassembly, ReadFragment,
                  ReadComplete, ReadEnding, writerVars, Refuse, Queue
    <2> QED  BY <2>1, <2>2, <2>3, <2>4, AloneBy DEF Changes
  <1>3. CASE RejectOpen(p) \/ AcceptorThrows(p) \/ HandleOpen(p) \/ PendOpen(p)
    <2>1. UNCHANGED <<session, nextId>> /\ \E x : highestRemote' = [highestRemote EXCEPT ![p] = x]
      BY <1>3 DEF RejectOpen, AcceptorThrows, HandleOpen, PendOpen, ReadsOpen, stateVars
    <2>2. UNCHANGED stream \/ \E x : stream' = [stream EXCEPT ![p] = x]
      BY <1>3 DEF RejectOpen, AcceptorThrows, HandleOpen, PendOpen
    <2>3. UNCHANGED live \/ \E x : live' = [live EXCEPT ![p] = x]
      BY <1>3 DEF RejectOpen, AcceptorThrows, HandleOpen, PendOpen, Enter
    <2>4. UNCHANGED jobs \/ \E x : jobs' = [jobs EXCEPT ![p] = x]
      BY <1>3 DEF RejectOpen, AcceptorThrows, HandleOpen, PendOpen, Refuse, Queue
    <2>5. UNCHANGED pending \/ \E x : pending' = [pending EXCEPT ![p] = x]
      BY <1>3 DEF RejectOpen, AcceptorThrows, HandleOpen, PendOpen
    <2> QED  BY <2>1, <2>2, <2>3, <2>4, <2>5, AloneBy DEF Changes
  <1> QED  BY <1>1, <1>2, <1>3 DEF Read

Acts(p) ==
  \/ Application(p) \/ Write(p) \/ LaneFails(p) \/ Read(p)
  \/ \E i \in StreamId : StreamTail(p, i)

\* A step of a peer touches nothing of the other but the lane between them.
LEMMA ActsElsewhere ==
  ASSUME TypeInv, NEW p \in Peer, Acts(p)
  PROVE  Elsewhere(p)
  <1>1. Alone(p)
    <2>1. CASE Application(p)
      BY <2>1, AloneCalls, AloneSession, Zenon DEF Application
    <2>2. CASE LaneFails(p)
      BY <2>2, SessionEnds, AloneEnds
    <2> QED  BY <2>1, <2>2, AloneWrite, AloneRead, AloneTail DEF Acts
  <1>2. \A q \in Peer \ {p} : written'[q] = written[q] /\ flying'[q] = flying[q]
    <2>1. \/ Stays \/ Drops(p) \/ WriteFrame(p) \/ FragmentWritten(p) \/ Finishes(p)
          \/ Receives(p) \/ EndsLane(p)
      <3>1. CASE Application(p)
        BY <3>1, CallsStay, SessionStays, Zenon DEF Application
      <3>2. CASE LaneFails(p)
        BY <3>2, SessionEnds DEF LaneFails, EndsLane
      <3>3. CASE \E i \in StreamId : StreamTail(p, i)
        BY <3>3, TailStays
      <3> QED  BY <3>1, <3>2, <3>3, WriteKinds, ReadKinds DEF Acts
    <2>2. CASE WriteFrame(p)
      BY <2>2 DEF WriteFrame, TypeInv, TypeOK, WriterType
    <2> QED  BY <2>1, <2>2, LaneRests
  <1> QED  BY <1>1, <1>2 DEF Elsewhere

-----------------------------------------------------------------------------
\* The application's calls.
LEMMA SoftRequest ==
  ASSUME TableInv, NEW p \in Peer, NEW i \in StreamId, NEW n \in Demands, Request(p, i, n)
  PROVE  Soft(p)
  <1> DEFINE s == stream[p][i]
             t == [s EXCEPT !.inCredit = AddCredit(@, n), !.asked = @ + n]
             job == [Plain("DEMAND", i) EXCEPT !.amount = n]
  <1>0. TypeInv
    BY DEF TableInv, IdInv
  <1>1. Update(p, i, t) /\ Queue(p, job) /\ UNCHANGED wire /\ s.handle /\ UNCHANGED pending
    BY DEF Request, readerVars, idVars, Holds
  <1>2. s \in Stream /\ job.kind = "DEMAND"
    BY <1>0, StreamOf DEF TypeInv, TypeOK, Plain
  <1>3. SameInbound(s, t) /\ SameOutbound(s, t)
    BY <1>2 DEF Stream, SameInbound, SameOutbound
  <1> HIDE DEF t, job
  <1>4. Streams(p)
    BY <1>0, <1>1, <1>3, StreamsAt DEF Update, Reach
  <1>5. Joining(p, job)
    BY <1>2 DEF Joining
  <1>6. Queues(p) /\ Pends(p)
    BY <1>0, <1>1, <1>5, QueuesMore, PendsSame
  <1>7. Stays
    BY <1>0, CallsStay
  <1>8. ReadLane(p) /\ WriteLane(p)
    BY <1>1, <1>7, LanesKept
  <1> QED  BY <1>4, <1>6, <1>8, SoftBy

\* A step that changes one stream's calls or credit, and no queue.
LEMMA SoftStream ==
  ASSUME TableInv, NEW p \in Peer, NEW i \in StreamId, NEW t, stream' = [stream EXCEPT ![p][i] = t],
         SameInbound(stream[p][i], t), SameOutbound(stream[p][i], t),
         t.handle = stream[p][i].handle, t.asked = stream[p][i].asked,
         UNCHANGED <<live, pending>>, Queues(p),
         \/ Stays \/ DropsEnded(p) \/ FragmentWritten(p) \/ FinishesPlain(p) \/ Receives(p),
         UNCHANGED wire \/ Incoming(p).kind # "DATA"
  PROVE  Soft(p) /\ Asked(p)
  <1>0. TypeInv
    BY DEF TableInv, IdInv
  <1>1. Streams(p) /\ Asked(p)
    BY <1>0, StreamsAt DEF Reach
  <1>2. Pends(p)
    BY PendsSame
  <1>3. ReadLane(p) /\ WriteLane(p)
    BY LanesKept
  <1> QED  BY <1>1, <1>2, <1>3, SoftBy

LEMMA SoftSend ==
  ASSUME TableInv, NEW p \in Peer, NEW i \in StreamId, NEW size \in ItemSizes, Send(p, i, size)
  PROVE  Soft(p) /\ Asked(p)
  <1> DEFINE s == stream[p][i]
             a == Append(s.tail, [kind |-> "send", item |-> s.calls + 1, size |-> size])
             t == [s EXCEPT !.calls = @ + 1, !.tail = a]
  <1>0. TypeInv /\ s \in Stream
    BY SoundOf
  <1>1. Update(p, i, t) /\ UNCHANGED <<jobs, wire, pending>>
    BY DEF Send, writerVars, readerVars, idVars
  <1> HIDE DEF a
  <1>2. SameInbound(s, t) /\ SameOutbound(s, t)
    BY <1>0 DEF Stream, SameInbound, SameOutbound
  <1>3. t.handle = s.handle /\ t.asked = s.asked
    BY <1>0 DEF Stream
  <1> HIDE DEF t
  <1>4. Stays
    BY <1>0, CallsStay
  <1> QED  BY <1>0, <1>1, <1>2, <1>3, <1>4, OnSame, SoftStream DEF Update

LEMMA SoftCompleting ==
  ASSUME TableInv, NEW p \in Peer, NEW i \in StreamId, Complete(p, i)
  PROVE  Soft(p) /\ Asked(p)
  <1> DEFINE s == stream[p][i]
             a == Append(s.tail, [kind |-> "complete", item |-> 0, size |-> 1])
             t == [s EXCEPT !.tail = a]
  <1>0. TypeInv /\ s \in Stream
    BY SoundOf
  <1>1. Update(p, i, t) /\ UNCHANGED <<jobs, wire, pending>>
    BY DEF Complete, writerVars, readerVars, idVars
  <1> HIDE DEF a
  <1>2. SameInbound(s, t) /\ SameOutbound(s, t)
    BY <1>0 DEF Stream, SameInbound, SameOutbound
  <1>3. t.handle = s.handle /\ t.asked = s.asked
    BY <1>0 DEF Stream
  <1> HIDE DEF t
  <1>4. Stays
    BY <1>0, CallsStay
  <1> QED  BY <1>0, <1>1, <1>2, <1>3, <1>4, OnSame, SoftStream DEF Update

LEMMA SoftTooLarge ==
  ASSUME TableInv, NEW p \in Peer, NEW i \in StreamId, SendTooLarge(p, i)
  PROVE  Soft(p) /\ Asked(p)
  <1> DEFINE s == stream[p][i]
             t == [s EXCEPT !.outCredit = Refund(s), !.tail = Tail(@)]
  <1>0. TypeInv /\ s \in Stream
    BY SoundOf
  <1>1. Update(p, i, t) /\ UNCHANGED <<jobs, wire, pending>>
    BY DEF SendTooLarge, writerVars, readerVars, idVars
  <1>2. SameInbound(s, t) /\ SameOutbound(s, t)
    BY <1>0 DEF Stream, SameInbound, SameOutbound
  <1>3. t.handle = s.handle /\ t.asked = s.asked
    BY <1>0 DEF Stream
  <1> HIDE DEF t
  <1>4. Stays
    BY <1>0, TailStays DEF StreamTail
  <1> QED  BY <1>0, <1>1, <1>2, <1>3, <1>4, OnSame, SoftStream DEF Update

LEMMA SoftEnd ==
  ASSUME TableInv, NEW p \in Peer, NEW i \in StreamId, Cancel(p, i) \/ Fail(p, i)
  PROVE  Soft(p) /\ Asked(p)
  <1>0. TypeInv /\ stream[p][i] \in Stream /\ (~IsPast(p, i) => ~stream[p][i].handle)
    BY SoundOf DEF Untouched
  <1>1. PICK call \in {"cancel", "fail"}, kind \in {"CANCEL", "ERROR"} : End(p, i, call, kind)
    BY DEF Cancel, Fail
  <1>2. PICK fits \in Encodable : Queue(p, [Plain(kind, i) EXCEPT !.fits = fits])
    BY <1>1 DEF End
  <1>3. /\ CancelStream(p, i, stream[p][i], TRUE) /\ UNCHANGED <<pending, wire>>
        /\ IsPast(p, i)'
    BY <1>0, <1>1 DEF End, readerVars, idVars, Holds, IsPast
  <1>c. Cause(p, i)
    BY <1>0, <1>1 DEF End, Holds, Cause
  <1>4. Streams(p) /\ Asked(p)
    BY <1>0, <1>3, <1>c, StreamsCancel
  <1>5. Queues(p)
    <2> DEFINE job == [Plain(kind, i) EXCEPT !.fits = fits]
    <2>1. job.kind \in {"CANCEL", "ERROR"} /\ job.id = i /\ Queue(p, job)
      BY <1>2 DEF Plain
    <2> HIDE DEF job
    <2>2. Joining(p, job)
      BY <1>3, <2>1 DEF Joining
    <2> QED  BY <1>0, <2>1, <2>2, QueuesMore
  <1>6. Stays
    BY <1>0, CallsStay
  <1>7. ReadLane(p) /\ WriteLane(p)
    BY <1>3, <1>6, LanesKept
  <1>8. Pends(p)
    BY <1>3, PendsSame
  <1> QED  BY <1>4, <1>5, <1>7, <1>8, SoftBy

LEMMA SoftOpen ==
  ASSUME TableInv, NEW p \in Peer, Open(p)
  PROVE  Soft(p) /\ Asked(p)
  <1> DEFINE i == nextId[p]
  <1>1. PICK w \in Weights, fits \in Encodable :
          /\ stream' = [stream EXCEPT ![p][i] = NewStream(w)] /\ Enter(p, i)
          /\ Queue(p, [Plain("OPEN", i) EXCEPT !.amount = w, !.fits = fits])
    BY DEF Open
  <1>2. /\ TypeInv /\ IdInv /\ i \in StreamId /\ ~opening[p] /\ Ready(p)
        /\ UNCHANGED <<wire, pending>>
    BY DEF Open, Calls, TableInv, IdInv, readerVars
  <1>3. ~IsPast(p, i)
    BY <1>2, NextIdFresh
  <1>4. ~OpenBegun(p)
    <2> SUFFICES ASSUME OpenBegun(p) PROVE FALSE
      OBVIOUS
    <2>1. jobs[p] # <<>> /\ Head(jobs[p]).kind = "OPEN" /\ jobs[p] \in Seq(Job)
      BY <1>2 DEF OpenBegun, TypeInv, WritesFirst, TypeOK, WriterType
    <2>2. 1 \in OpenAt(jobs[p])
      BY <2>1, TailElements DEF OpenAt
    <2> QED  BY <1>2, <2>2 DEF IdInv, OneOpen
  <1> DEFINE t == NewStream(w)
             job == [Plain("OPEN", i) EXCEPT !.amount = w, !.fits = fits]
  <1>5. /\ t.got = <<>> /\ t.expected = 0 /\ t.sent = 0 /\ ~t.busy /\ t.asked = 0
        /\ t.inClosed = t.cancelled /\ t.outClosed = t.cancelled
        /\ stream' = [stream EXCEPT ![p][i] = t]
    BY <1>1 DEF NewStream
  <1>6. job.kind = "OPEN" /\ job.id = i /\ Queue(p, job)
    BY <1>1 DEF Plain
  <1> HIDE DEF t, job, i
  <1>7. live'[p] = live[p] \cup {i}
    BY <1>1, <1>2, EnterLive
  <1>8. Blank(t) /\ Fresh(p, i)
    BY <1>3, <1>4, <1>5 DEF Blank, Fresh
  <1>9. Streams(p) /\ Asked(p)
    BY <1>2, <1>5, <1>7, <1>8, StreamsNew
  <1>10. Joining(p, job)
    BY <1>6, <1>7 DEF Joining
  <1>11. Queues(p) /\ Pends(p)
    BY <1>2, <1>6, <1>10, QueuesMore, PendsSame
  <1>12. Stays
    BY <1>2, SessionStays
  <1>13. ReadLane(p) /\ WriteLane(p)
    BY <1>2, <1>12, LanesKept
  <1> QED  BY <1>9, <1>11, <1>13, SoftBy

LEMMA SoftSession ==
  ASSUME TableInv, NEW p \in Peer, TakeIncoming(p) \/ Close(p) \/ CloseDetached(p)
  PROVE  Soft(p) /\ Asked(p)
  <1>0. TypeInv
    BY DEF TableInv, IdInv
  <1>1. UNCHANGED wire
    BY DEF TakeIncoming, Close, CloseDetached, readerVars
  <1>2. Stays
    BY <1>0, SessionStays
  <1>3. ReadLane(p) /\ WriteLane(p)
    BY <1>1, <1>2, LanesKept
  <1>4. CASE TakeIncoming(p)
    <2> DEFINE i == Head(pending[p])
               s == stream[p][i]
               t == [s EXCEPT !.handle = TRUE]
    <2>1. Update(p, i, t) /\ pending[p] # <<>> /\ UNCHANGED jobs
      BY <1>4 DEF TakeIncoming, writerVars
    <2>2. pending[p] \in Seq(StreamId) /\ pending'[p] = Tail(pending[p])
      BY <1>0, <1>4 DEF TypeInv, TypeOK, IdType, TakeIncoming
    <2>3. i \in StreamId /\ 1 \in DOMAIN pending[p] /\ pending[p][1] = i
      BY <2>1, <2>2, TailElements, HeadTailProperties
    <2>4. s \in Stream
      BY <2>3, SoundOf
    <2>5. SameInbound(s, t) /\ SameOutbound(s, t) /\ t.asked = s.asked
      BY <2>4 DEF Stream, SameInbound, SameOutbound
    <2>6. Pends(p)
      <3>1. \A k \in DOMAIN pending'[p] : k + 1 \in DOMAIN pending[p] /\ pending'[p][k] = pending[p][k + 1]
        BY <2>1, <2>2, TailElements
      <3> QED  BY <3>1 DEF Pends
    <2>7. Reach(p, i)
      BY <2>3 DEF Reach
    <2> HIDE DEF t, i
    <2>8. Streams(p) /\ Asked(p)
      BY <1>0, <2>1, <2>3, <2>5, <2>7, StreamsAt DEF Update
    <2> QED  BY <1>0, <1>3, <2>1, <2>6, <2>8, OnSame, SoftBy
  <1>5. CASE Close(p)
    <2>1. PICK fits \in Encodable : Queue(p, [Plain("CLOSE", 0) EXCEPT !.fits = fits])
      BY <1>5 DEF Close
    <2> DEFINE job == [Plain("CLOSE", 0) EXCEPT !.fits = fits]
    <2>2. job.kind = "CLOSE" /\ Queue(p, job)
      BY <2>1 DEF Plain
    <2> HIDE DEF job
    <2>3. Queues(p) /\ Pends(p)
      BY <1>0, <1>5, <2>2, QueuesMore, PendsSame DEF Joining, Close, idVars
    <2>4. Streams(p) /\ Asked(p)
      BY <1>5, StreamsStill DEF Close, tableVars
    <2> QED  BY <1>3, <2>3, <2>4, SoftBy
  <1>6. CASE CloseDetached(p)
    <2>1. Queues(p) /\ Pends(p)
      BY <1>0, <1>6, OnSame, PendsSame DEF CloseDetached, writerVars, idVars
    <2>2. Streams(p) /\ Asked(p)
      BY <1>6, StreamsStill DEF CloseDetached, tableVars
    <2> QED  BY <1>3, <2>1, <2>2, SoftBy
  <1> QED  BY <1>4, <1>5, <1>6

-----------------------------------------------------------------------------
\* The end of a session.
LEMMA SoftEnds ==
  ASSUME TableInv, NEW p \in Peer, EndsLane(p)
  PROVE  Soft(p) /\ Asked(p)
  <1>1. PICK state \in {"closed", "detached"}, why \in {"none", "lost", "violation", "exhausted"} :
          Over(p, state, why)
    BY DEF EndsLane, Ends
  <1>2. Streams(p) /\ Asked(p) /\ Queues(p) /\ Pends(p)
    BY <1>1, StreamsOver
  <1>3. live'[p] = {}
    BY <1>1 DEF Over, TableInv, IdInv, TypeInv, TypeOK, TableType
  <1>4. ReadLane(p) /\ WriteLane(p)
    BY <1>3, LanesKept
  <1> QED  BY <1>2, <1>4, SoftBy

\* The writes.
LEMMA SoftDrop ==
  ASSUME TableInv, NEW p \in Peer, Abandon(p)
  PROVE  Soft(p) /\ Asked(p)
  <1> DEFINE i == Head(jobs[p]).id
             s == stream[p][i]
             t == [s EXCEPT !.busy = FALSE]
  <1>0. TypeInv
    BY DEF TableInv, IdInv
  <1>1. /\ jobs[p] # <<>> /\ Head(jobs[p]).kind = "DATA" /\ (s.cancelled \/ s.outClosed)
        /\ jobs' = [jobs EXCEPT ![p] = Tail(@)] /\ Update(p, i, t)
        /\ UNCHANGED <<wire, pending>>
    BY DEF Abandon, CanWrite, Abandoned, readerVars, idVars
  <1>2. i \in StreamId /\ s \in Stream
    BY <1>1, HeadCall
  <1>3. s.outClosed
    BY <1>1, <1>2, SoundOf DEF StreamSound
  <1>4. SameInbound(s, t) /\ SameOutbound(s, t)
    BY <1>2 DEF Stream, SameInbound, SameOutbound
  <1>5. t.handle = s.handle /\ t.asked = s.asked /\ t.outClosed = s.outClosed
    BY <1>2 DEF Stream
  <1>6. Drops(p)
    BY <1>0 DEF Abandon, Drops, CanWrite, idVars, readerVars, stateVars, TypeInv, TypeOK, WriterType
  <1> HIDE DEF t
  <1>7. stream'[p][i].outClosed
    <2> HIDE DEF i
    <2>1. stream' = [stream EXCEPT ![p][i] = t]
      BY <1>1 DEF Update
    <2>2. stream'[p][i] = t
      BY <1>0, <1>2, <2>1, ChangedStream
    <2> QED  BY <1>3, <1>5, <2>2
  <1>8. DropsEnded(p)
    BY <1>6, <1>7 DEF DropsEnded
  <1>9. Queues(p)
    BY <1>0, <1>1, QueuesLess
  <1> HIDE DEF i
  <1> QED  BY <1>0, <1>1, <1>2, <1>4, <1>5, <1>8, <1>9, SoftStream DEF Update

\* An OPEN that was rolled back was the only way to its stream.
LEMMA SoftRollBack ==
  ASSUME CreditInv, NEW p \in Peer, RollBackOpen(p)
  PROVE  Soft(p) /\ Asked(p)
  <1>0. TypeInv /\ IdInv /\ TableInv
    BY DEF CreditInv, TableInv, IdInv
  <1>i. PICK i : i = Head(jobs[p]).id
    OBVIOUS
  <1>1. /\ jobs[p] # <<>> /\ Head(jobs[p]).kind = "OPEN" /\ Leave(p, i)
        /\ jobs' = [jobs EXCEPT ![p] = Tail(@)] /\ UNCHANGED <<wire, pending, stream>>
        /\ UNCHANGED <<nextId, highestRemote>>
    BY <1>i DEF RollBackOpen, CanWrite, readerVars
  <1>2. i = nextId[p] /\ OpenAt(jobs'[p]) = {} /\ opening[p]
    BY <1>0, <1>i, <1>1, OpenDone
  <1>3. i \in StreamId
    BY <1>0, <1>i, <1>1, FirstJob DEF TypeInv, TypeOK
  <1>4. ~IsPast(p, i) /\ i \in Own(p)
    BY <1>0, <1>2, <1>3 DEF IdInv, IdsInOrder, IsPast, Own, Parity, TypeInv, TypeOK, IdType
  <1>5. live'[p] = live[p] \ {i}
    BY <1>0, <1>1, <1>3, LeaveLive
  <1>6. ~stream[p][i].handle
    BY <1>0, <1>3, <1>4, SoundOf DEF Untouched
  <1>7. stream[p][i].asked = 0
    BY <1>3, <1>4 DEF CreditInv, Credit, Covered
  <1>8. ~Reach(p, i)'
    <2>1. ~On(jobs'[p], "OPEN", i)
      BY <1>2 DEF On, OpenAt
    <2>2. \A k \in DOMAIN pending[p] : pending[p][k] # i
      <3>1. PendingPast(p)
        BY <1>0 DEF TableInv, Sound
      <3> QED  BY <1>4, <3>1 DEF PendingPast
    <2> QED  BY <1>1, <1>6, <2>1, <2>2 DEF Reach
  <1>9. \A k \in StreamId : LeavesEnded(p, k)
    <2>1. \A k \in StreamId : k \in live[p] /\ k \notin live'[p] => k = i
      BY <1>5
    <2>2. LeavesEnded(p, i)
      BY <1>1, <1>4, <1>7, <1>8 DEF LeavesEnded
    <2> QED  BY <2>1, <2>2 DEF LeavesEnded
  <1>10. \A k \in StreamId : Mild(p, k)
    BY <1>1, <1>5 DEF Mild, SameInbound, SameOutbound
  <1>11. \A k \in StreamId : HandleKept(p, k) /\ AskedKept(p, k)
    BY <1>1 DEF HandleKept, AskedKept, Reach
  <1>12. Streams(p) /\ Asked(p)
    BY <1>9, <1>10, <1>11 DEF Streams, Asked
  <1>13. Queues(p) /\ Pends(p)
    BY <1>0, <1>1, QueuesLess, PendsSame
  <1>14. Drops(p)
    <2>0. Head(jobs[p]).kind = "OPEN"
      BY <1>1
    <2>1. written \in [Peer -> Nat] /\ written[p] = 0 /\ jobs \in [Peer -> Seq(Job)]
      BY <1>0, <2>0 DEF TypeInv, TypeOK, WriterType, WritesFirst
    <2>2. written = [written EXCEPT ![p] = 0]
      BY <2>1
    <2> QED  BY <2>1, <2>2 DEF RollBackOpen, Drops, CanWrite, readerVars, stateVars
  <1>15. ReadLane(p) /\ WriteLane(p)
    BY <1>0, <1>1, <1>14, LanesKept DEF DropsEnded
  <1> QED  BY <1>0, <1>12, <1>13, <1>15, SoftBy

LEMMA SoftWritten ==
  ASSUME TableInv, NEW p \in Peer,
         \/ DropReason(p) \/ FragmentWritten(p) \/ DemandWritten(p) \/ EndingWritten(p)
  PROVE  Soft(p) /\ Asked(p)
  <1>0. TypeInv /\ Write(p) /\ (flying[p] => jobs[p] # <<>>)
    BY DEF TableInv, IdInv, Write, TypeInv, WritesFirst
  <1>1. UNCHANGED <<stream, live, wire, pending>>
    BY DEF DropReason, FragmentWritten, DemandWritten, EndingWritten, tableVars, readerVars, idVars
  <1>2. Queues(p)
    <2>1. CASE DropReason(p)
      <3> DEFINE job == [Head(jobs[p]) EXCEPT !.fits = TRUE]
      <3>1. jobs[p] # <<>> /\ jobs' = [jobs EXCEPT ![p] = Append(Tail(@), job)]
        BY <2>1 DEF DropReason, CanWrite
      <3>2. job.kind = Head(jobs[p]).kind /\ job.id = Head(jobs[p]).id
        <4>1. Head(jobs[p]) \in Job
          BY <1>0, <3>1, FirstJob DEF TypeInv, TypeOK
        <4> QED  BY <4>1 DEF Job, JobOf
      <3> HIDE DEF job
      <3> QED  BY <1>0, <3>1, <3>2, QueuesAgain
    <2>2. CASE FragmentWritten(p)
      BY <1>0, <2>2, OnSame DEF FragmentWritten
    <2>3. CASE DemandWritten(p) \/ EndingWritten(p)
      <3>1. jobs[p] # <<>> /\ jobs' = [jobs EXCEPT ![p] = Tail(@)]
        BY <1>0, <2>3 DEF DemandWritten, EndingWritten, JobWritten, JobDone
      <3> QED  BY <1>0, <3>1, QueuesLess
    <2> QED  BY <2>1, <2>2, <2>3
  <1>3. DropsEnded(p) \/ FragmentWritten(p) \/ FinishesPlain(p)
    <2>1. CASE DropReason(p)
      <3>1. Drops(p)
        <4>1. written \in [Peer -> Nat] /\ written[p] = 0 /\ jobs \in [Peer -> Seq(Job)]
          BY <1>0, <2>1 DEF DropReason, HasReason, TypeInv, TypeOK, WriterType, WritesFirst
        <4>2. written = [written EXCEPT ![p] = 0]
          BY <4>1
        <4> QED  BY <2>1, <4>1, <4>2 DEF DropReason, Drops, CanWrite, idVars, readerVars, stateVars
      <3> QED  BY <2>1, <3>1 DEF DropsEnded, DropReason, HasReason
    <2>2. CASE DemandWritten(p) \/ EndingWritten(p)
      BY <2>2 DEF FinishesPlain, Finishes, DemandWritten, EndingWritten, JobWritten, JobKind,
                  idVars, readerVars, stateVars
    <2> QED  BY <2>1, <2>2
  <1>4. Streams(p) /\ Asked(p) /\ Pends(p)
    BY <1>1, StreamsStill, PendsSame
  <1>5. ReadLane(p) /\ WriteLane(p)
    BY <1>1, <1>3, LanesKept
  <1> QED  BY <1>2, <1>4, <1>5, SoftBy

LEMMA SoftOpenWritten ==
  ASSUME TableInv, NEW p \in Peer, OpenWritten(p)
  PROVE  Soft(p) /\ Asked(p)
  <1> DEFINE i == Head(jobs[p]).id
             s == stream[p][i]
             t == [s EXCEPT !.handle = TRUE]
  <1>0. TypeInv /\ flying[p] /\ jobs[p] # <<>>
    BY DEF TableInv, IdInv, TypeInv, WritesFirst, OpenWritten, JobWritten
  <1>1. /\ Head(jobs[p]).kind = "OPEN" /\ Update(p, i, t)
        /\ jobs' = [jobs EXCEPT ![p] = Tail(@)] /\ UNCHANGED <<wire, pending>>
    BY DEF OpenWritten, JobWritten, JobDone, readerVars
  <1>2. i \in StreamId /\ jobs[p] \in Seq(Job)
    BY <1>0, <1>1, FirstJob DEF TypeInv, TypeOK, WriterType
  <1>3. SameInbound(s, t) /\ SameOutbound(s, t) /\ t.asked = s.asked
    BY <1>2, SoundOf DEF Stream, SameInbound, SameOutbound
  <1>4. Reach(p, i)
    BY <1>0, <1>1, <1>2, OnTail DEF Reach
  <1>5. FinishesPlain(p)
    BY <1>1 DEF FinishesPlain, Finishes, OpenWritten, JobWritten, JobKind, readerVars, stateVars
  <1>6. Queues(p) /\ Pends(p)
    BY <1>0, <1>1, QueuesLess, PendsSame
  <1>7. ReadLane(p) /\ WriteLane(p)
    BY <1>1, <1>5, LanesKept
  <1> HIDE DEF t, i
  <1>8. Streams(p) /\ Asked(p)
    BY <1>0, <1>1, <1>2, <1>3, <1>4, StreamsAt DEF Update
  <1> QED  BY <1>6, <1>7, <1>8, SoftBy

-----------------------------------------------------------------------------
\* The frames that bring no unit of an item to a stream of the table.
LEMMA SoftReads ==
  ASSUME TableInv, NEW p \in Peer, ReadLate(p) \/ ReadDemand(p)
  PROVE  Soft(p) /\ Asked(p)
  <1> DEFINE i == Incoming(p).id
  <1>0. TypeInv /\ Read(p)
    BY DEF TableInv, IdInv, Read
  <1>1. i \in StreamId /\ UNCHANGED <<jobs, live, pending>> /\ CanRead(p)
    <2>1. Reads(p, {"DATA", "FRAGMENT", "DEMAND", "COMPLETE", "CANCEL", "ERROR"})
      BY DEF ReadLate, ReadDemand, ReadsLive, Reads
    <2> QED  BY <1>0, <2>1, ReadsType DEF ReadLate, ReadDemand, tableVars, writerVars, idVars, Update, Reads
  <1>2. stream[p][i] \in Stream
    BY <1>1, SoundOf
  <1>3. CASE ReadLate(p)
    <2>1. UNCHANGED stream /\ i \notin live'[p]
      BY <1>1, <1>3 DEF ReadLate, tableVars
    <2>2. Receives(p) \/ EndsLane(p)
      BY <1>0, ReadKinds
    <2>3. ReadLane(p) /\ WriteLane(p)
      BY <2>1, <2>2, LanesKept
    <2> QED  BY <1>0, <1>1, <2>1, <2>3, StreamsStill, OnSame, PendsSame, SoftBy
  <1>4. CASE ReadDemand(p)
    <2> DEFINE s == stream[p][i]
               t == [s EXCEPT !.outCredit = AddCredit(@, Incoming(p).amount)]
    <2>1. stream' = [stream EXCEPT ![p][i] = t] /\ Incoming(p).kind # "DATA"
      BY <1>4 DEF ReadDemand, ReadsLive, Reads, Update
    <2>2. SameInbound(s, t) /\ SameOutbound(s, t) /\ t.asked = s.asked /\ t.handle = s.handle
      BY <1>2 DEF Stream, SameInbound, SameOutbound
    <2>3. Receives(p) \/ EndsLane(p)
      BY <1>0, ReadKinds
    <2>4. ReadLane(p) /\ WriteLane(p)
      BY <2>1, <2>3, LanesKept
    <2> HIDE DEF t, i
    <2>5. Streams(p) /\ Asked(p)
      BY <1>0, <1>1, <2>1, <2>2, StreamsAt DEF Reach
    <2> QED  BY <1>0, <1>1, <2>4, <2>5, OnSame, PendsSame, SoftBy
  <1> QED  BY <1>3, <1>4

LEMMA SoftRefusal ==
  ASSUME TypeInv, NEW p \in Peer, NEW i \in StreamId, Refuse(p, i), IsPast(p, i)'
  PROVE  Queues(p)
  <1>1. PICK fits \in Encodable :
          Queue(p, [Plain("ERROR", i) EXCEPT !.fits = fits, !.reader = TRUE])
    BY DEF Refuse
  <1> DEFINE job == [Plain("ERROR", i) EXCEPT !.fits = fits, !.reader = TRUE]
  <1>2. job.kind = "ERROR" /\ job.id = i /\ Queue(p, job)
    BY <1>1 DEF Plain
  <1> HIDE DEF job
  <1>3. Joining(p, job)
    BY <1>2 DEF Joining
  <1> QED  BY <1>2, <1>3, QueuesMore

LEMMA SoftEnding ==
  ASSUME TableInv, NEW p \in Peer, ReadEnding(p) \/ RefuseReassembly(p)
  PROVE  Soft(p) /\ Asked(p)
  <1>0. TypeInv /\ Read(p)
    BY DEF TableInv, IdInv, Read
  <1>i. PICK i : i = Incoming(p).id
    OBVIOUS
  <1>1. /\ i \in StreamId /\ UNCHANGED <<pending, nextId, highestRemote>> /\ i \in live[p]
    <2>1. Reads(p, {"DATA", "CANCEL", "ERROR"})
      BY DEF ReadEnding, RefuseReassembly, ReadsLive, Reads
    <2> QED  BY <1>0, <1>i, <2>1, ReadsType DEF ReadEnding, RefuseReassembly, idVars, ReadsLive
  <1>2. stream[p][i] \in Stream
    BY <1>1, SoundOf
  <1>3. PICK s \in Stream, late \in BOOLEAN :
          /\ CancelStream(p, i, s, late)
          /\ s.got = stream[p][i].got /\ s.sent = stream[p][i].sent
          /\ s.busy = stream[p][i].busy /\ s.handle = stream[p][i].handle
          /\ s.asked = stream[p][i].asked
    <2>1. CASE ReadEnding(p)
      BY <1>i, <1>2, <2>1 DEF ReadEnding
    <2>2. CASE RefuseReassembly(p)
      <3> DEFINE u == [stream[p][i] EXCEPT !.inCredit = @ - 1]
      <3>1. ReadsLive(p, {"DATA"}) /\ CancelStream(p, i, u, TRUE)
        BY <1>i, <2>2 DEF RefuseReassembly
      <3>2. stream[p][i].inCredit - 1 \in 0..MaxCredit
        BY <1>0, <1>i, <3>1, LegalData
      <3>3. u \in Stream
        BY <1>2, <3>2 DEF Stream
      <3>4. /\ u.got = stream[p][i].got /\ u.sent = stream[p][i].sent
            /\ u.busy = stream[p][i].busy /\ u.handle = stream[p][i].handle
            /\ u.asked = stream[p][i].asked
        BY <1>2 DEF Stream
      <3> HIDE DEF u
      <3> QED  BY <3>1, <3>3, <3>4
    <2> QED  BY <2>1, <2>2
  <1>c. Cause(p, i)
    <2>1. CASE ReadEnding(p)
      BY <1>i, <2>1 DEF ReadEnding, ReadsLive, Reads, Cause
    <2>2. CASE RefuseReassembly(p)
      BY <1>i, <2>2, DataIsPast DEF RefuseReassembly, Cause
    <2> QED  BY <2>1, <2>2
  <1>4. Streams(p) /\ Asked(p)
    BY <1>0, <1>1, <1>3, <1>c, StreamsCancel
  <1>5. i \notin live'[p]
    BY <1>0, <1>1, <1>3, LeaveLive DEF CancelStream
  <1>6. Queues(p)
    <2>1. CASE ReadEnding(p)
      BY <1>0, <2>1, OnSame DEF ReadEnding, writerVars
    <2>2. CASE RefuseReassembly(p)
      <3>1. Refuse(p, i) /\ ReadsLive(p, {"DATA"})
        BY <1>i, <2>2 DEF RefuseReassembly
      <3>2. IsPast(p, i)
        BY <1>i, <3>1, DataIsPast
      <3>3. IsPast(p, i)'
        BY <1>1, <3>2 DEF IsPast
      <3> QED  BY <1>0, <1>1, <3>1, <3>3, SoftRefusal
    <2> QED  BY <2>1, <2>2
  <1>7. Receives(p) \/ EndsLane(p)
    BY <1>0, ReadKinds
  <1>8. ReadLane(p) /\ WriteLane(p)
    BY <1>i, <1>5, <1>7, LanesKept
  <1>9. Pends(p)
    BY <1>1, PendsSame
  <1> QED  BY <1>4, <1>6, <1>8, <1>9, SoftBy

-----------------------------------------------------------------------------
\* OPENs that arrive.
LEMMA SoftOpens ==
  ASSUME TableInv, NEW p \in Peer, TurnsAway(p) \/ Admits(p)
  PROVE  Soft(p) /\ Asked(p)
  <1>1. /\ ReadsOpen(p) /\ Reads(p, {"OPEN"}) /\ TypeInv /\ IdInv /\ Read(p)
    BY DEF TurnsAway, Admits, RejectOpen, AcceptorThrows, HandleOpen, PendOpen, ReadsOpen,
           TableInv, IdInv, Read
  <1>2. PICK i \in StreamId \ Own(p) : i = Incoming(p).id /\ ~IsPast(p, i) /\ i % 2 # Parity(p)
    BY <1>1, RemoteIdFresh
  <1>3. IsPast(p, i)' /\ Incoming(p).kind = "OPEN"
    <2>1. highestRemote'[p] = i /\ i \in Nat
      BY <1>1, <1>2 DEF ReadsOpen, TypeInv, TypeOK, IdType, StreamId
    <2>2. IsPast(p, i)'
      BY <1>2, <2>1 DEF IsPast
    <2> QED  BY <1>1, <2>2 DEF Reads
  <1>r. Ready(p)
    BY <1>1 DEF Reads, CanRead
  <1>4. Fresh(p, i)
    BY <1>1, <1>2 DEF Fresh, IdInv, IdsInOrder
  <1>5. Receives(p) \/ EndsLane(p)
    BY <1>1, ReadKinds
  <1>6. ReadLane(p) /\ WriteLane(p)
    BY <1>3, <1>5, LanesKept
  <1> DEFINE a == NewStream(Incoming(p).amount)
             b == [a EXCEPT !.handle = TRUE]
             c == Cancelled(a)
  <1>7. /\ a.got = <<>> /\ a.expected = 0 /\ a.sent = 0 /\ ~a.busy /\ a.asked = 0
        /\ a.inClosed = a.cancelled /\ a.outClosed = a.cancelled
    BY DEF NewStream
  <1>8. /\ b.got = <<>> /\ b.expected = 0 /\ b.sent = 0 /\ ~b.busy /\ b.asked = 0
        /\ b.inClosed = b.cancelled /\ b.outClosed = b.cancelled
    BY DEF NewStream
  <1>9. /\ c.got = <<>> /\ c.expected = 0 /\ c.sent = 0 /\ ~c.busy /\ c.asked = 0
        /\ c.inClosed = c.cancelled /\ c.outClosed = c.cancelled /\ c.cancelled /\ ~c.handle
    BY DEF NewStream, Cancelled
  <1>10. CASE RejectOpen(p)
    <2>1. UNCHANGED <<stream, live, pending>> /\ Refuse(p, i)
      BY <1>2, <1>10 DEF RejectOpen
    <2> QED  BY <1>1, <1>3, <1>6, <2>1, SoftRefusal, StreamsStill, PendsSame, SoftBy
  <1>11. CASE AcceptorThrows(p)
    <2>1. UNCHANGED <<live, pending>> /\ Refuse(p, i) /\ stream' = [stream EXCEPT ![p][i] = c]
      BY <1>2, <1>11 DEF AcceptorThrows
    <2> HIDE DEF c
    <2>2. Streams(p) /\ Asked(p)
      BY <1>1, <1>3, <1>4, <1>9, <1>r, <2>1, StreamsNew DEF Blank
    <2> QED  BY <1>1, <1>3, <1>6, <2>1, <2>2, SoftRefusal, PendsSame, SoftBy
  <1>12. CASE HandleOpen(p)
    <2>1. UNCHANGED <<jobs, pending>> /\ Enter(p, i) /\ stream' = [stream EXCEPT ![p][i] = b]
      BY <1>2, <1>12 DEF HandleOpen
    <2> HIDE DEF b
    <2>2. live'[p] = live[p] \cup {i}
      BY <1>1, <2>1, EnterLive
    <2>3. Streams(p) /\ Asked(p)
      BY <1>1, <1>4, <1>8, <1>r, <2>1, <2>2, StreamsNew DEF Blank
    <2> QED  BY <1>1, <1>6, <2>1, <2>3, OnSame, PendsSame, SoftBy
  <1>13. CASE PendOpen(p)
    <2>1. /\ UNCHANGED jobs /\ Enter(p, i) /\ stream' = [stream EXCEPT ![p][i] = a]
          /\ pending' = [pending EXCEPT ![p] = Append(@, i)]
      BY <1>2, <1>13 DEF PendOpen
    <2> HIDE DEF a
    <2>2. live'[p] = live[p] \cup {i}
      BY <1>1, <2>1, EnterLive
    <2>3. Streams(p) /\ Asked(p)
      BY <1>1, <1>4, <1>7, <1>r, <2>1, <2>2, StreamsNew DEF Blank
    <2>4. Pends(p)
      <3>1. pending[p] \in Seq(StreamId) /\ pending'[p] = Append(pending[p], i)
        BY <1>1, <2>1 DEF TypeInv, TypeOK, IdType
      <3> DEFINE v == Append(pending[p], i)
      <3>2. /\ DOMAIN v = 1..Len(pending[p]) + 1 /\ DOMAIN pending[p] = 1..Len(pending[p])
            /\ v[Len(pending[p]) + 1] = i /\ Len(pending[p]) \in Nat
            /\ \A k \in 1..Len(pending[p]) : v[k] = pending[p][k]
        BY <3>1, AppendElements
      <3> HIDE DEF v
      <3>3. \A k \in DOMAIN v : v[k] = i \/ (k \in DOMAIN pending[p] /\ v[k] = pending[p][k])
        BY <3>2
      <3> QED  BY <2>2, <3>1, <3>3 DEF Pends, v
    <2> QED  BY <1>1, <1>6, <2>1, <2>3, <2>4, OnSame, SoftBy
  <1> QED  BY <1>10, <1>11, <1>12, <1>13 DEF TurnsAway, Admits

-----------------------------------------------------------------------------
\* Every step leaves the items of a direction alone, or is one of these.
Hastens(p) ==
  \/ WriteFrame(p) \/ DataWritten(p) \/ CompleteWritten(p)
  \/ \E i \in StreamId : SendNext(p, i) \/ CompleteNext(p, i)
Gathers(p) == ReadData(p) \/ StartReassembly(p) \/ ReadFragment(p) \/ ReadComplete(p)
Demanding(p) == \E i \in StreamId, n \in Demands : Request(p, i, n)

LEMMA FlowKinds ==
  ASSUME CreditInv, Next
  PROVE  \E p \in Peer :
           /\ Elsewhere(p)
           /\ (Soft(p) /\ Asked(p)) \/ (Soft(p) /\ Demanding(p)) \/ Hastens(p) \/ Gathers(p)
  <1>1. PICK p \in Peer : Acts(p)
    BY DEF Next, Acts
  <1>2. TypeInv /\ TableInv
    BY DEF CreditInv, TableInv, IdInv
  <1>3. Elsewhere(p)
    BY <1>1, <1>2, ActsElsewhere
  <1>4. CASE Application(p)
    <2>1. CASE Open(p) \/ TakeIncoming(p) \/ Close(p) \/ CloseDetached(p)
      BY <1>2, <1>3, <2>1, SoftOpen, SoftSession
    <2>2. CASE \E i \in StreamId :
                 \/ \E n \in Demands : Request(p, i, n)
                 \/ \E size \in ItemSizes : Send(p, i, size)
                 \/ Complete(p, i) \/ Cancel(p, i) \/ Fail(p, i)
      <3>1. PICK i \in StreamId :
                 \/ \E n \in Demands : Request(p, i, n)
                 \/ \E size \in ItemSizes : Send(p, i, size)
                 \/ Complete(p, i) \/ Cancel(p, i) \/ Fail(p, i)
        BY <2>2
      <3>2. CASE \E n \in Demands : Request(p, i, n)
        BY <1>2, <1>3, <3>2, SoftRequest DEF Demanding
      <3>3. CASE \E size \in ItemSizes : Send(p, i, size)
        BY <1>2, <1>3, <3>3, SoftSend
      <3>4. CASE Complete(p, i) \/ Cancel(p, i) \/ Fail(p, i)
        BY <1>2, <1>3, <3>4, SoftCompleting, SoftEnd
      <3> QED  BY <3>1, <3>2, <3>3, <3>4
    <2> QED  BY <1>4, <2>1, <2>2, Zenon DEF Application
  <1>5. CASE Write(p)
    <2>1. CASE Exhaust(p) \/ CloseWritten(p)
      <3>1. EndsLane(p)
        BY <1>2, <2>1, SessionEnds DEF EndsLane, Exhaust, CloseWritten
      <3> QED  BY <1>2, <1>3, <3>1, SoftEnds
    <2>2. CASE \/ Abandon(p) \/ RollBackOpen(p) \/ DropReason(p) \/ FragmentWritten(p)
               \/ OpenWritten(p) \/ DemandWritten(p) \/ EndingWritten(p)
      BY <1>2, <1>3, <2>2, SoftDrop, SoftRollBack, SoftWritten, SoftOpenWritten
    <2> QED  BY <1>3, <1>5, <2>1, <2>2 DEF Write, Hastens
  <1>6. CASE LaneFails(p)
    <2>1. EndsLane(p)
      BY <1>2, <1>6, SessionEnds DEF LaneFails, EndsLane
    <2> QED  BY <1>2, <1>3, <2>1, SoftEnds
  <1>7. CASE Read(p)
    <2>1. CASE ReadIllegal(p) \/ ReadClose(p) \/ CarrierEnds(p)
      <3>1. Receives(p) \/ EndsLane(p)
        BY <1>2, <1>7, ReadKinds
      <3>2. Ends(p)
        BY <1>2, <2>1, SessionEnds
      <3>3. ~Receives(p)
        <4>1. ~Ready(p)' /\ Ready(p)
          BY <1>2, <2>1, <3>2 DEF Ends, Over, Ready, TypeInv, TypeOK, StateType, ReadIllegal,
                                  ReadClose, Reads, CanRead, CarrierEnds
        <4> QED  BY <4>1 DEF Receives, Ready
      <3> QED  BY <1>2, <1>3, <3>1, <3>3, SoftEnds
    <2>2. CASE TurnsAway(p) \/ Admits(p)
      BY <1>2, <1>3, <2>2, SoftOpens
    <2>3. CASE ReadLate(p) \/ ReadDemand(p) \/ ReadEnding(p) \/ RefuseReassembly(p)
      BY <1>2, <1>3, <2>3, SoftReads, SoftEnding
    <2> QED  BY <1>3, <1>7, <2>1, <2>2, <2>3 DEF Read, TurnsAway, Admits, Gathers
  <1>8. CASE \E i \in StreamId : StreamTail(p, i)
    BY <1>2, <1>3, <1>8, SoftTooLarge DEF StreamTail, Hastens
  <1> QED  BY <1>1, <1>4, <1>5, <1>6, <1>7, <1>8 DEF Acts

-----------------------------------------------------------------------------
(* The items of one direction, from writer q to the other peer             *)

One(b) == IF b THEN 1 ELSE 0
\* The items of stream i whose first frame is on the wire.
Laid(q, i) == Amount(wire[q], 0, "DATA", i)
\* No item follows the COMPLETE of its stream.
CompleteLast(w, i) == \A k, m \in DOMAIN w :
  w[k].kind = "COMPLETE" /\ w[k].id = i /\ w[m].kind = "DATA" /\ w[m].id = i => m < k

\* q has sent no item to a peer that does not know the stream.
Unsent(q, i) ==
  ~IsPast(Other(q), i) => stream[q][i].sent = 0 /\ ~On(jobs[q], "DATA", i)
\* q sends nothing more on stream i.
Shut(q, i) ==
  /\ IsPast(q, i)
  /\ \/ Closing(q, i)
     \/ ~stream[q][i].busy /\ (stream[q][i].outClosed \/ ~Ready(q))
\* COMPLETE is on its way, or has been read.
Finished(q, i) ==
  \/ On(wire[q], "COMPLETE", i)
  \/ stream[Other(q)][i].inClosed /\ ~stream[Other(q)][i].cancelled
\* q may still complete the direction.
MayComplete(q, i) ==
  \/ ~IsPast(q, i) \/ (Ready(q) /\ ~stream[q][i].outClosed)
  \/ On(jobs[q], "COMPLETE", i) \/ On(wire[q], "COMPLETE", i)
\* Until then the items q has sent are those the reader has, the one it is
\* reassembling and those on the wire.
Tallied(q, i) ==
  LET t == stream[Other(q)][i] IN
  i \in live[Other(q)] /\ ~t.inClosed /\ MayComplete(q, i) =>
    stream[q][i].sent + One(Begins(q, i)) = Len(t.got) + One(t.expected > 0) + Laid(q, i)
Delivered(q, i) ==
  LET t == stream[Other(q)][i] IN
  t.inClosed /\ ~t.cancelled => Len(t.got) = stream[q][i].sent

Way(q, i) ==
  /\ Unsent(q, i) /\ CompleteLast(wire[q], i) /\ (Finished(q, i) => Shut(q, i))
  /\ Tallied(q, i) /\ Delivered(q, i)
WayInv == CreditInv /\ \A q \in Peer, i \in StreamId : Way(q, i)

-----------------------------------------------------------------------------
LEMMA LaidFacts ==
  ASSUME TypeInv, NEW q \in Peer, NEW i \in StreamId
  PROVE  /\ Laid(q, i) \in Nat /\ Laid(q, i) <= Due(Other(q), i)
         /\ ~On(wire[q], "DATA", i) => Laid(q, i) = 0
  <1>1. Laid(q, i) \in Nat /\ Amount(jobs[q], Skip(q), "DATA", i) \in Nat
    BY LaneFacts DEF Laid
  <1>2. Other(q) \in Peer /\ Other(Other(q)) = q
    BY CreditNumbers
  <1>3. stream[q][i].outCredit \in Nat /\ Underway(Other(q), "DEMAND", i) \in Nat
    BY <1>2, CreditNumbers
  <1>4. Underway(q, "DATA", i) = Amount(jobs[q], Skip(q), "DATA", i) + Laid(q, i)
    BY DEF Underway, Laid
  <1>5. Laid(q, i) <= Due(Other(q), i)
    BY <1>1, <1>2, <1>3, <1>4 DEF Due
  <1>6. ASSUME ~On(wire[q], "DATA", i) PROVE Laid(q, i) = 0
    <2> DEFINE M == {k \in 1..Len(wire[q]) : k > 0 /\ wire[q][k].kind = "DATA" /\ wire[q][k].id = i}
    <2>1. wire[q] \in Seq(Frame) /\ Len(wire[q]) \in Nat /\ DOMAIN wire[q] = 1..Len(wire[q])
      BY DEF TypeInv, TypeOK, ReaderType
    <2>2. M = {}
      BY <1>6, <2>1 DEF On
    <2>3. Amount(wire[q], 0, "DATA", i) = Cardinality(M)
      <3> HIDE DEF M
      <3>1. M = {k \in 1..Len(wire[q]) : k > 0 /\ wire[q][k].kind = "DATA" /\ wire[q][k].id = i}
        BY DEF M
      <3> QED  BY <2>1, <3>1, ItemTotal
    <2> QED  BY <2>2, <2>3, FS_EmptySet DEF Laid
  <1> QED  BY <1>1, <1>5, <1>6

LEMMA LaidRead ==
  ASSUME TypeInv, NEW q \in Peer, wire[q] # <<>>, wire'[q] = Tail(wire[q]), NEW i
  PROVE  /\ Laid(q, i) = Laid(q, i)' + Counts(Head(wire[q]), "DATA", i)
         /\ Laid(q, i)' \in Nat /\ Counts(Head(wire[q]), "DATA", i) \in Nat
  <1>1. wire[q] \in Seq(Frame) /\ \A f \in Frame : Units(f) \in Nat
    BY UnitsNat DEF TypeInv, TypeOK, ReaderType
  <1>2. /\ Amount(Tail(wire[q]), 0, "DATA", i) = Amount(wire[q], 1, "DATA", i)
        /\ Amount(wire[q], 0, "DATA", i)
             = Amount(wire[q], 1, "DATA", i) + Counts(Head(wire[q]), "DATA", i)
    BY <1>1, AmountTail
  <1>3. /\ Head(wire[q]) \in Frame
        /\ Amount(wire[q], 1, "DATA", i) \in Nat /\ Counts(Head(wire[q]), "DATA", i) \in Nat
    BY <1>1, WorthNat, HeadTailProperties
  <1> QED  BY <1>2, <1>3 DEF Laid

LEMMA LastTail ==
  ASSUME NEW S, NEW w \in Seq(S), w # <<>>, NEW i, CompleteLast(w, i)
  PROVE  CompleteLast(Tail(w), i)
  <1> DEFINE v == Tail(w)
  <1>1. \A k \in DOMAIN v : k \in Nat /\ k + 1 \in DOMAIN w /\ v[k] = w[k + 1]
    BY TailElements
  <1> HIDE DEF v
  <1>2. ASSUME NEW k \in DOMAIN v, NEW m \in DOMAIN v,
               v[k].kind = "COMPLETE", v[k].id = i, v[m].kind = "DATA", v[m].id = i
        PROVE  m < k
    <2>1. m + 1 < k + 1
      BY <1>1, <1>2 DEF CompleteLast
    <2> QED  BY <1>1, <2>1
  <1>3. CompleteLast(v, i)
    BY <1>2 DEF CompleteLast
  <1> QED  BY <1>3 DEF v

LEMMA LastAppend ==
  ASSUME NEW S, NEW w \in Seq(S), NEW x, NEW i, CompleteLast(w, i),
         x.kind = "DATA" /\ x.id = i => ~On(w, "COMPLETE", i)
  PROVE  CompleteLast(Append(w, x), i)
  <1> DEFINE v == Append(w, x)
  <1>1. /\ DOMAIN v = 1..Len(w) + 1 /\ DOMAIN w = 1..Len(w) /\ Len(w) \in Nat
        /\ v[Len(w) + 1] = x /\ \A k \in 1..Len(w) : v[k] = w[k]
    BY AppendElements
  <1> HIDE DEF v
  <1>2. ASSUME NEW k \in DOMAIN v, NEW m \in DOMAIN v,
               v[k].kind = "COMPLETE", v[k].id = i, v[m].kind = "DATA", v[m].id = i
        PROVE  m < k
    <2>1. CASE m \in DOMAIN w /\ k \in DOMAIN w
      BY <1>1, <1>2, <2>1 DEF CompleteLast
    <2>2. CASE m = Len(w) + 1
      <3>1. k # m
        BY <1>2
      <3>2. k \in DOMAIN w
        BY <1>1, <2>2, <3>1
      <3>3. On(w, "COMPLETE", i)
        BY <1>1, <1>2, <3>2 DEF On
      <3> QED  BY <1>1, <1>2, <2>2, <3>3
    <2>3. CASE m \in DOMAIN w /\ k = Len(w) + 1
      BY <1>1, <2>3
    <2> QED  BY <1>1, <2>1, <2>2, <2>3
  <1>3. CompleteLast(v, i)
    BY <1>2 DEF CompleteLast
  <1> QED  BY <1>3 DEF v

\* What a step of p leaves of the other peer.
LEMMA OtherKept ==
  ASSUME TypeInv, NEW p \in Peer, Elsewhere(p), NEW q \in Peer, q = Other(p), NEW i \in StreamId
  PROVE  /\ stream'[q] = stream[q] /\ jobs'[q] = jobs[q] /\ live'[q] = live[q]
         /\ pending'[q] = pending[q] /\ nextId'[q] = nextId[q]
         /\ Ready(q)' <=> Ready(q)
         /\ IsPast(q, i)' <=> IsPast(q, i)
         /\ Begins(q, i)' <=> Begins(q, i)
         /\ Closing(q, i)' <=> Closing(q, i)
         /\ OpenBegun(q)' <=> OpenBegun(q)
         /\ Shut(q, i)' <=> Shut(q, i)
         /\ p = Other(q) /\ q # p
  <1>1. q \in Peer \ {p} /\ p = Other(q)
    BY PeerFacts, CreditNumbers
  <1>2. /\ stream'[q] = stream[q] /\ jobs'[q] = jobs[q] /\ live'[q] = live[q]
        /\ pending'[q] = pending[q] /\ session'[q] = session[q]
        /\ nextId'[q] = nextId[q] /\ highestRemote'[q] = highestRemote[q]
        /\ written'[q] = written[q] /\ flying'[q] = flying[q]
    BY <1>1 DEF Elsewhere, Alone
  <1>3. (Ready(q)' <=> Ready(q)) /\ (IsPast(q, i)' <=> IsPast(q, i))
    BY <1>2 DEF Ready, IsPast
  <1>4. (Begins(q, i)' <=> Begins(q, i)) /\ (Closing(q, i)' <=> Closing(q, i))
    BY <1>2 DEF Begins, Begun, Closing
  <1>5. OpenBegun(q)' <=> OpenBegun(q)
    BY <1>2 DEF OpenBegun
  <1>6. Shut(q, i)' <=> Shut(q, i)
    BY <1>2, <1>3, <1>4 DEF Shut
  <1> QED  BY <1>1, <1>2, <1>3, <1>4, <1>5, <1>6

\* What p may read of the other's lane, at most one frame.
LEMMA LaneRead ==
  ASSUME TypeInv, NEW p \in Peer, NEW q \in Peer, q = Other(p), NEW i \in StreamId,
         \/ wire'[q] = wire[q]
         \/ wire[q] # <<>> /\ wire'[q] = Tail(wire[q])
  PROVE  /\ \A kind : On(wire'[q], kind, i) => On(wire[q], kind, i)
         /\ CompleteLast(wire[q], i) => CompleteLast(wire'[q], i)
         /\ Laid(q, i)' \in Nat /\ Laid(q, i)' <= Laid(q, i)
         /\ \/ Laid(q, i)' = Laid(q, i)
            \/ wire'[q] # wire[q] /\ Incoming(p).kind = "DATA" /\ Incoming(p).id = i
  <1>1. wire[q] \in Seq(Frame) /\ Laid(q, i) \in Nat
    BY LaidFacts DEF TypeInv, TypeOK, ReaderType
  <1>2. CASE wire'[q] = wire[q]
    BY <1>1, <1>2 DEF Laid
  <1>3. CASE wire[q] # <<>> /\ wire'[q] = Tail(wire[q]) /\ wire'[q] # wire[q]
    <2>1. \A kind : On(wire'[q], kind, i) => On(wire[q], kind, i)
      BY <1>1, <1>3, OnTail
    <2>2. CompleteLast(wire[q], i) => CompleteLast(wire'[q], i)
      BY <1>1, <1>3, LastTail
    <2>3. /\ Laid(q, i) = Laid(q, i)' + Counts(Head(wire[q]), "DATA", i)
          /\ Laid(q, i)' \in Nat /\ Counts(Head(wire[q]), "DATA", i) \in Nat
      BY <1>3, LaidRead
    <2>4. Counts(Head(wire[q]), "DATA", i) = 0 \/ (Incoming(p).kind = "DATA" /\ Incoming(p).id = i)
      BY DEF Counts, Incoming
    <2> QED  BY <1>1, <1>3, <2>1, <2>2, <2>3, <2>4
  <1> QED  BY <1>2, <1>3

\* The direction towards p, when p leaves its items alone.
LEMMA InboundWay ==
  ASSUME WayInv, Next, NEW p \in Peer, Elsewhere(p), Inbound(p), NEW q \in Peer, q = Other(p),
         NEW i \in StreamId
  PROVE  Way(q, i)'
  <1> DEFINE s == stream[p][i]
             t == stream'[p][i]
             u == stream[q][i]
  <1>0. TypeInv /\ TableInv /\ Way(q, i) /\ Covered(p, i) /\ Ledger(p, i)
    BY DEF WayInv, CreditInv, TableInv, IdInv, Credit
  <1>1. /\ stream'[q] = stream[q] /\ jobs'[q] = jobs[q] /\ p = Other(q)
        /\ (Ready(q)' <=> Ready(q)) /\ (IsPast(q, i)' <=> IsPast(q, i))
        /\ (Begins(q, i)' <=> Begins(q, i)) /\ (Shut(q, i)' <=> Shut(q, i))
    BY <1>0, OtherKept
  <1>2. IsPast(p, i) => IsPast(p, i)'
    BY <1>0, NextOnward DEF Onward
  <1>3. ReadLane(p) /\ InboundMild(p, i)
    BY DEF Inbound
  <1>4. /\ \A kind : On(wire'[q], kind, i) => On(wire[q], kind, i)
        /\ CompleteLast(wire[q], i) => CompleteLast(wire'[q], i)
        /\ Laid(q, i)' \in Nat /\ Laid(q, i)' <= Laid(q, i)
        /\ \/ Laid(q, i)' = Laid(q, i)
           \/ wire'[q] # wire[q] /\ Incoming(p).kind = "DATA" /\ Incoming(p).id = i
    BY <1>0, <1>3, LaneRead DEF ReadLane
  <1>5. Laid(q, i)' = Laid(q, i) \/ i \notin live'[p]
    BY <1>3, <1>4 DEF ReadLane
  <1>6. Unsent(q, i)'
    BY <1>0, <1>1, <1>2 DEF Way, Unsent
  <1>7. CompleteLast(wire[q], i)'
    BY <1>0, <1>4 DEF Way
  <1>8. (Finished(q, i) => Shut(q, i))'
    <2>1. Finished(q, i)' => Finished(q, i)
      BY <1>1, <1>3, <1>4 DEF Finished, InboundMild, SameInbound, CutInbound
    <2> QED  BY <1>0, <1>1, <2>1 DEF Way
  <1>9. Tallied(q, i)'
    <2> SUFFICES ASSUME i \in live'[p], ~t.inClosed, MayComplete(q, i)'
                 PROVE  u.sent + One(Begins(q, i)) = Len(t.got) + One(t.expected > 0) + Laid(q, i)'
      BY <1>1 DEF Tallied, One
    <2>1. MayComplete(q, i)
      BY <1>1, <1>4 DEF MayComplete
    <2>2. CASE SameInbound(s, t) /\ (i \in live'[p] => i \in live[p])
      BY <1>0, <1>1, <1>5, <2>1, <2>2 DEF Way, Tallied, SameInbound
    <2>3. CASE ~IsPast(p, i) /\ t.got = <<>> /\ t.expected = 0
      <3>1. u.sent = 0 /\ ~On(jobs[q], "DATA", i)
        BY <1>0, <1>1, <2>3 DEF Way, Unsent
      <3>2. ~Begins(q, i)
        <4> SUFFICES ASSUME Begins(q, i) PROVE FALSE
          OBVIOUS
        <4>1. jobs[q] # <<>> /\ jobs[q] \in Seq(Job)
          BY <1>0 DEF Begins, Begun, TypeInv, TypeOK, WriterType, WritesFirst
        <4> QED  BY <3>1, <4>1, OnTail DEF Begins
      <3>3. Laid(q, i)' = 0
        <4>1. Laid(q, i) \in Nat /\ Laid(q, i) <= Due(p, i)
          BY <1>0, <1>1, LaidFacts
        <4>2. s.asked = 0 /\ Due(p, i) <= s.asked
          BY <1>0, <2>3 DEF Covered, Ledger
        <4>3. Due(p, i) \in Nat
          BY <1>0, <1>1, CreditNumbers DEF Due
        <4> QED  BY <1>4, <4>1, <4>2, <4>3
      <3> QED  BY <2>3, <3>1, <3>2, <3>3 DEF One
    <2> QED  BY <1>3, <2>2, <2>3 DEF InboundMild, CutInbound, Fresh
  <1>10. Delivered(q, i)'
    BY <1>0, <1>1, <1>3 DEF Way, Delivered, InboundMild, SameInbound, CutInbound
  <1> QED  BY <1>6, <1>7, <1>8, <1>9, <1>10 DEF Way

\* The direction from p, when p leaves its items alone.
LEMMA OutboundWay ==
  ASSUME WayInv, Next, NEW p \in Peer, Elsewhere(p), Outbound(p), NEW i \in StreamId
  PROVE  Way(p, i)'
  <1>0. TypeInv /\ TableInv /\ Way(p, i)
    BY DEF WayInv, CreditInv, TableInv, IdInv
  <1>q. PICK q \in Peer : q = Other(p)
    BY PeerFacts
  <1> DEFINE s == stream[p][i]
             t == stream'[p][i]
             u == stream[q][i]
  <1>1. /\ stream'[q] = stream[q] /\ live'[q] = live[q] /\ p = Other(q)
        /\ (IsPast(q, i)' <=> IsPast(q, i))
    BY <1>0, <1>q, OtherKept
  <1>2. IsPast(p, i) => IsPast(p, i)'
    BY <1>0, NextOnward DEF Onward
  <1>3. Ready(p)' => Ready(p)
    BY <1>0, NoneBecomesReady DEF NoneReadied
  <1>4. /\ WriteLane(p) /\ OutboundMild(p, i)
        /\ \A kind \in {"DATA", "COMPLETE"} : On(jobs'[p], kind, i) => On(jobs[p], kind, i)
    BY DEF Outbound
  <1>5. /\ wire'[p] = wire[p]
        /\ Begins(p, i)' => Begins(p, i)
        /\ Begins(p, i) => Begins(p, i)' \/ ~Ready(p)' \/ t.outClosed
        /\ Closing(p, i) => Closing(p, i)' \/ (~Ready(p)' /\ ~t.busy)
    BY <1>4 DEF WriteLane
  <1>6. /\ ~IsPast(p, i) => Untouched(s)
        /\ OneCall(jobs[p], stream[p]) /\ jobs[p] \in Seq(Job) /\ s \in Stream
    BY <1>0, SoundOf
  <1>7. t.sent = s.sent
    BY <1>4, <1>6 DEF OutboundMild, SameOutbound, CutOutbound, Untouched
  <1>8. Begins(p, i) => /\ IsPast(p, i) /\ s.busy /\ ~On(jobs[p], "COMPLETE", i) /\ ~Closing(p, i)
                        /\ On(jobs[p], "DATA", i)
    <2> SUFFICES ASSUME Begins(p, i)
                 PROVE  /\ IsPast(p, i) /\ s.busy /\ ~On(jobs[p], "COMPLETE", i) /\ ~Closing(p, i)
                        /\ On(jobs[p], "DATA", i)
      OBVIOUS
    <2>1. jobs[p] # <<>> /\ Head(jobs[p]).kind = "DATA" /\ Head(jobs[p]).id = i
      BY <1>0 DEF Begins, Begun, TypeInv, TypeOK, WriterType, WritesFirst
    <2>2. IsPast(p, i) /\ s.busy
      BY <1>0, <2>1, HeadCall
    <2>3. 1 \in DOMAIN jobs[p] /\ jobs[p][1] = Head(jobs[p])
      BY <1>6, <2>1, TailElements
    <2>4. ~On(jobs[p], "COMPLETE", i)
      <3> SUFFICES ASSUME NEW k \in DOMAIN jobs[p], jobs[p][k].kind = "COMPLETE", jobs[p][k].id = i
                   PROVE  FALSE
        BY DEF On
      <3>1. k \in CallAt(jobs[p]) /\ 1 \in CallAt(jobs[p])
        BY <2>1, <2>3 DEF CallAt
      <3>2. k = 1
        BY <1>6, <2>1, <2>3, <3>1 DEF OneCall
      <3> QED  BY <2>1, <2>3, <3>2
    <2> QED  BY <2>1, <2>2, <2>3, <2>4 DEF Closing, On
  <1>9. Shut(p, i) => Shut(p, i)' /\ ~Begins(p, i)
    <2> SUFFICES ASSUME Shut(p, i) PROVE Shut(p, i)' /\ ~Begins(p, i)
      OBVIOUS
    <2>1. ~Begins(p, i)
      BY <1>8 DEF Shut
    <2>2. IsPast(p, i) /\ IsPast(p, i)'
      BY <1>2 DEF Shut
    <2>3. CASE Closing(p, i)
      BY <1>5, <2>1, <2>2, <2>3 DEF Shut
    <2>4. CASE ~s.busy /\ (s.outClosed \/ ~Ready(p))
      <3>1. ~t.busy /\ (s.outClosed => t.outClosed)
        BY <1>4, <2>2, <2>4 DEF OutboundMild, SameOutbound, CutOutbound
      <3> QED  BY <1>3, <2>1, <2>2, <2>4, <3>1 DEF Shut
    <2> QED  BY <2>1, <2>3, <2>4 DEF Shut
  <1>10. Unsent(p, i)'
    BY <1>0, <1>1, <1>4, <1>7, <1>q DEF Way, Unsent
  <1>11. CompleteLast(wire[p], i)'
    BY <1>0, <1>5 DEF Way
  <1>12. (Finished(p, i) => Shut(p, i))'
    <2>1. Finished(p, i)' => Finished(p, i)
      BY <1>1, <1>5, <1>q DEF Finished
    <2> QED  BY <1>0, <1>9, <2>1 DEF Way
  <1>13. Tallied(p, i)'
    <2> SUFFICES ASSUME i \in live[q], ~u.inClosed, MayComplete(p, i)'
                 PROVE  t.sent + One(Begins(p, i)') = Len(u.got) + One(u.expected > 0) + Laid(p, i)'
      BY <1>1, <1>q DEF Tallied, One
    <2>1. MayComplete(p, i)
      BY <1>2, <1>3, <1>4, <1>5 DEF MayComplete, OutboundMild, SameOutbound, CutOutbound
    <2>2. Laid(p, i)' = Laid(p, i)
      BY <1>5 DEF Laid
    <2>3. Begins(p, i)' <=> Begins(p, i)
      <3> SUFFICES ASSUME Begins(p, i), ~Begins(p, i)' PROVE FALSE
        BY <1>5
      <3>1. ~Ready(p)' \/ t.outClosed
        BY <1>5
      <3>2. ~On(wire[p], "COMPLETE", i)
        BY <1>0, <1>9 DEF Way, Finished
      <3>3. IsPast(p, i)' /\ ~On(jobs'[p], "COMPLETE", i)
        BY <1>2, <1>4, <1>8
      <3> QED  BY <1>5, <3>1, <3>2, <3>3 DEF MayComplete
    <2>4. s.sent + One(Begins(p, i)) = Len(u.got) + One(u.expected > 0) + Laid(p, i)
      BY <1>0, <1>q, <2>1 DEF Way, Tallied
    <2> QED  BY <1>7, <2>2, <2>3, <2>4 DEF One
  <1>14. Delivered(p, i)'
    BY <1>0, <1>1, <1>7, <1>q DEF Way, Delivered
  <1> QED  BY <1>10, <1>11, <1>12, <1>13, <1>14 DEF Way

-----------------------------------------------------------------------------
(* The steps that move an item, or its COMPLETE, out of p                  *)

LEMMA InboundAt ==
  ASSUME TypeInv, NEW p \in Peer, NEW k \in StreamId, NEW t,
         stream' = [stream EXCEPT ![p][k] = t], SameInbound(stream[p][k], t),
         t.handle = stream[p][k].handle, IsClosed(stream[p][k]) => IsClosed(t),
         live'[p] \subseteq live[p], \A i \in live[p] \ live'[p] : i = k /\ IsClosed(t),
         wire'[Other(p)] = wire[Other(p)], UNCHANGED pending,
         \A kind \in {"OPEN", "CANCEL", "ERROR"}, i \in StreamId :
           On(jobs'[p], kind, i) => On(jobs[p], kind, i)
  PROVE  Inbound(p) /\ Tables(p)
  <1>1. stream'[p][k] = t /\ \A i \in StreamId \ {k} : stream'[p][i] = stream[p][i]
    BY ChangedStream
  <1>2. ASSUME NEW i \in StreamId
        PROVE  InboundMild(p, i) /\ HandleKept(p, i) /\ LeavesEnded(p, i) /\ EndKept(p, i)
    <2>1. InboundMild(p, i)
      BY <1>1 DEF InboundMild, SameInbound
    <2>2. HandleKept(p, i)
      BY <1>1 DEF HandleKept, Reach
    <2>3. LeavesEnded(p, i)
      BY <1>1 DEF LeavesEnded
    <2>4. EndKept(p, i)
      BY <1>1 DEF EndKept
    <2> QED  BY <2>1, <2>2, <2>3, <2>4
  <1>3. Pends(p)
    BY PendsSame
  <1>4. Inbound(p)
    BY <1>2 DEF Inbound, ReadLane
  <1> QED  BY <1>2, <1>3, <1>4 DEF Tables

LEMMA OutwardWay ==
  ASSUME WayInv, Next, NEW p \in Peer, Elsewhere(p), NEW i \in StreamId,
         NEW q \in Peer, q = Other(p),
         MayComplete(p, i)' => MayComplete(p, i),
         ~IsPast(q, i) => stream'[p][i].sent = 0 /\ ~On(jobs'[p], "DATA", i),
         CompleteLast(wire'[p], i), Finished(p, i)' => Shut(p, i)',
         \/ /\ stream'[p][i].sent = stream[p][i].sent
            /\ Begins(p, i)' <=> Begins(p, i)
            /\ Laid(p, i)' = Laid(p, i)
         \/ /\ stream'[p][i].sent = stream[p][i].sent
            /\ ~Begins(p, i) /\ Begins(p, i)' /\ Laid(p, i)' = Laid(p, i) + 1
         \/ /\ stream'[p][i].sent = stream[p][i].sent + 1 /\ ~Finished(p, i)
            /\ Begins(p, i) /\ ~Begins(p, i)' /\ Laid(p, i)' = Laid(p, i)
  PROVE  Way(p, i)'
  <1> DEFINE s == stream[p][i]
             t == stream'[p][i]
             u == stream[q][i]
  <1>0. TypeInv /\ Way(p, i) /\ Laid(p, i) \in Nat /\ s.sent \in Nat /\ Len(u.got) \in Nat
    <2>1. TypeInv /\ Way(p, i)
      BY DEF WayInv, CreditInv, TableInv, IdInv
    <2>2. s \in Stream /\ u \in Stream
      BY <2>1, CreditNumbers
    <2>3. s.sent \in Nat /\ Len(u.got) \in Nat
      <3> HIDE DEF s, u
      <3>1. s.sent \in Nat
        BY <2>2 DEF Stream
      <3>2. u.got \in Seq(Seq(Unit))
        BY <2>2 DEF Stream
      <3> QED  BY <3>1, <3>2
    <2> QED  BY <2>1, <2>3, LaidFacts
  <1>1. /\ stream'[q] = stream[q] /\ live'[q] = live[q] /\ p = Other(q)
        /\ (IsPast(q, i)' <=> IsPast(q, i))
    BY <1>0, OtherKept
  <1>2. Unsent(p, i)'
    BY <1>1 DEF Unsent
  <1>3. Tallied(p, i)'
    <2> SUFFICES ASSUME i \in live[q], ~u.inClosed, MayComplete(p, i)'
                 PROVE  t.sent + One(Begins(p, i)') = Len(u.got) + One(u.expected > 0) + Laid(p, i)'
      BY <1>1 DEF Tallied, One
    <2>1. s.sent + One(Begins(p, i)) = Len(u.got) + One(u.expected > 0) + Laid(p, i)
      BY <1>0 DEF Way, Tallied
    <2>2. One(u.expected > 0) \in Nat
      BY DEF One
    <2>3. \/ t.sent + One(Begins(p, i)') = s.sent + One(Begins(p, i)) /\ Laid(p, i)' = Laid(p, i)
          \/ /\ t.sent + One(Begins(p, i)') = s.sent + One(Begins(p, i)) + 1
             /\ Laid(p, i)' = Laid(p, i) + 1
      <3>1. \/ t.sent = s.sent /\ (Begins(p, i)' <=> Begins(p, i)) /\ Laid(p, i)' = Laid(p, i)
            \/ t.sent = s.sent /\ ~Begins(p, i) /\ Begins(p, i)' /\ Laid(p, i)' = Laid(p, i) + 1
            \/ /\ t.sent = s.sent + 1 /\ Begins(p, i) /\ ~Begins(p, i)'
               /\ Laid(p, i)' = Laid(p, i)
        OBVIOUS
      <3> HIDE DEF s, t
      <3> QED  BY <1>0, <3>1 DEF One
    <2> DEFINE a == One(Begins(p, i)')
               b == One(Begins(p, i))
               c == One(u.expected > 0)
               l == Len(u.got)
    <2>4. a \in Nat /\ b \in Nat /\ c \in Nat /\ l \in Nat
      BY <1>0, <2>2 DEF One
    <2> HIDE DEF a, b, c, l
    <2>5. t.sent + a = l + c + Laid(p, i)'
      <3>1. s.sent + b = l + c + Laid(p, i)
        BY <2>1 DEF b, c, l
      <3>2. \/ t.sent + a = s.sent + b /\ Laid(p, i)' = Laid(p, i)
            \/ t.sent + a = s.sent + b + 1 /\ Laid(p, i)' = Laid(p, i) + 1
        BY <2>3 DEF a, b
      <3> HIDE DEF s, t
      <3> QED  BY <1>0, <2>4, <3>1, <3>2
    <2> QED  BY <2>5 DEF a, c, l
  <1>4. Delivered(p, i)'
    BY <1>0, <1>1 DEF Way, Delivered, Finished
  <1> QED  BY <1>2, <1>3, <1>4 DEF Way

\* The peers' facts a writer needs.
LEMMA WriterFacts ==
  ASSUME WayInv, NEW p \in Peer, NEW i \in StreamId
  PROVE  /\ TypeInv /\ TableInv /\ CreditInv /\ Way(p, i)
         /\ jobs[p] \in Seq(Job) /\ wire[p] \in Seq(Frame) /\ stream[p][i] \in Stream
         /\ flying[p] \/ written[p] > 0 => jobs[p] # <<>>
         /\ ~IsPast(p, i) => Untouched(stream[p][i])
  <1>1. TypeInv /\ TableInv /\ CreditInv /\ Way(p, i)
    BY DEF WayInv, CreditInv, TableInv, IdInv
  <1>2. /\ jobs[p] \in Seq(Job) /\ stream[p][i] \in Stream
        /\ ~IsPast(p, i) => Untouched(stream[p][i])
    BY <1>1, SoundOf
  <1>3. wire[p] \in Seq(Frame)
    BY <1>1 DEF TypeInv, TypeOK, ReaderType
  <1>4. flying[p] \/ written[p] > 0 => jobs[p] # <<>>
    BY <1>1 DEF TypeInv, WritesFirst
  <1> QED  BY <1>1, <1>2, <1>3, <1>4

\* A call of a stream's writeTail queues its job.
LEMMA CallQueued ==
  ASSUME WayInv, Next, NEW p \in Peer, Elsewhere(p), NEW k \in StreamId, NEW job, Queue(p, job),
         job.kind \in {"DATA", "COMPLETE"}, job.id = k, NEW t,
         stream' = [stream EXCEPT ![p][k] = t], UNCHANGED <<live, pending, written, flying, wire>>,
         SameInbound(stream[p][k], t), t.handle = stream[p][k].handle, t.sent = stream[p][k].sent,
         t.outClosed = stream[p][k].outClosed, ~stream[p][k].busy, ~stream[p][k].outClosed, Ready(p),
         job.kind = "DATA" => IsPast(Other(p), k), UNCHANGED <<session, nextId, highestRemote>>
  PROVE  Inbound(p) /\ Tables(p) /\ \A i \in StreamId : Way(p, i)'
  <1>q. PICK q \in Peer : q = Other(p)
    BY PeerFacts
  <1>0. TypeInv /\ TableInv /\ jobs[p] \in Seq(Job) /\ (Begun(p) => jobs[p] # <<>>)
    <2>1. /\ TypeInv /\ TableInv /\ jobs[p] \in Seq(Job)
          /\ flying[p] \/ written[p] > 0 => jobs[p] # <<>>
      BY WriterFacts
    <2> QED  BY <2>1 DEF Begun
  <1>1. stream'[p][k] = t /\ \A i \in StreamId \ {k} : stream'[p][i] = stream[p][i]
    <2>1. TypeInv
      BY <1>0
    <2>2. stream' = [stream EXCEPT ![p][k] = t]
      OBVIOUS
    <2> QED  BY ONLY <2>1, <2>2, ChangedStream
  <1>2. jobs'[p] = Append(jobs[p], job)
    BY <1>0, QueuedJob
  <1>3. \A kind, i : On(jobs'[p], kind, i) => On(jobs[p], kind, i) \/ (job.kind = kind /\ job.id = i)
    BY <1>0, <1>2, OnAppend
  <1>4. jobs[p] # <<>> => Head(jobs'[p]) = Head(jobs[p])
    BY <1>0, <1>2, AppendElements
  <1>5. Inbound(p) /\ Tables(p)
    <2>1. IsClosed(stream[p][k]) => IsClosed(t)
      BY DEF IsClosed, SameInbound
    <2>2. \A kind \in {"OPEN", "CANCEL", "ERROR"}, i \in StreamId :
            On(jobs'[p], kind, i) => On(jobs[p], kind, i)
      BY <1>3
    <2> QED  BY <1>0, <2>1, <2>2, InboundAt
  <1>6. ASSUME NEW i \in StreamId PROVE Way(p, i)'
    <2>0. Way(p, i)
      BY WriterFacts
    <2>1. (Begins(p, i)' <=> Begins(p, i)) /\ (Closing(p, i)' <=> Closing(p, i))
      BY <1>0, <1>4 DEF Begins, Begun, Closing
    <2>2. (IsPast(p, i)' <=> IsPast(p, i)) /\ (Ready(p)' <=> Ready(p))
      BY DEF IsPast, Ready
    <2>3. i = k => ~Shut(p, i)
      <3>1. Closing(p, k) => stream[p][k].busy
        BY <1>0, HeadCall DEF Closing, Begun
      <3> QED  BY <3>1 DEF Shut
    <2>4. Shut(p, i) => Shut(p, i)'
      BY <1>1, <2>1, <2>2, <2>3 DEF Shut
    <2>5. Finished(p, i)' => Finished(p, i)
      <3>1. stream'[q] = stream[q]
        BY <1>0, <1>q, OtherKept
      <3> QED  BY <1>q, <3>1 DEF Finished
    <2>6. Finished(p, i)' => Shut(p, i)'
      BY <2>0, <2>4, <2>5 DEF Way
    <2>7. MayComplete(p, i)' => MayComplete(p, i)
      BY <1>1, <1>3, <2>2 DEF MayComplete
    <2>8. ~IsPast(q, i) => stream'[p][i].sent = 0 /\ ~On(jobs'[p], "DATA", i)
      BY <1>q, <1>1, <1>3, <2>0 DEF Way, Unsent
    <2>9. CompleteLast(wire'[p], i) /\ Laid(p, i)' = Laid(p, i)
      BY <2>0 DEF Way, Laid
    <2>10. stream'[p][i].sent = stream[p][i].sent
      BY <1>1
    <2> QED  BY <1>q, <2>1, <2>6, <2>7, <2>8, <2>9, <2>10, OutwardWay
  <1> QED  BY <1>5, <1>6

LEMMA SendNextWay ==
  ASSUME WayInv, Next, NEW p \in Peer, Elsewhere(p), NEW k \in StreamId,
         SendNext(p, k) \/ CompleteNext(p, k)
  PROVE  Inbound(p) /\ Tables(p) /\ \A i \in StreamId : Way(p, i)'
  <1> DEFINE s == stream[p][k]
             a == [s EXCEPT !.outCredit = @ - 1, !.tail = Tail(@), !.busy = TRUE]
             b == [s EXCEPT !.tail = Tail(@), !.busy = TRUE]
             item == [Plain("DATA", k) EXCEPT !.item = Head(s.tail).item, !.size = Head(s.tail).size]
             end == Plain("COMPLETE", k)
  <1>0. TypeInv /\ TableInv /\ CreditInv /\ s \in Stream
    BY WriterFacts
  <1>1. /\ UNCHANGED <<live, pending, written, flying, wire, session, nextId, highestRemote>>
        /\ ~s.busy /\ ~s.outClosed /\ Ready(p)
    BY DEF SendNext, CompleteNext, Update, Waiting, idVars, readerVars, stateVars
  <1>2. \/ /\ SendNext(p, k) /\ stream' = [stream EXCEPT ![p][k] = a] /\ Queue(p, item)
        \/ /\ CompleteNext(p, k) /\ stream' = [stream EXCEPT ![p][k] = b] /\ Queue(p, end)
    BY DEF SendNext, CompleteNext, Update
  <1>3. item.kind = "DATA" /\ item.id = k /\ end.kind = "COMPLETE" /\ end.id = k
    BY DEF Plain
  <1>4. SameInbound(s, a) /\ a.handle = s.handle /\ a.sent = s.sent /\ a.outClosed = s.outClosed
    BY <1>0 DEF Stream, SameInbound
  <1>5. SameInbound(s, b) /\ b.handle = s.handle /\ b.sent = s.sent /\ b.outClosed = s.outClosed
    BY <1>0 DEF Stream, SameInbound
  <1> HIDE DEF a, b, item, end
  <1>6. CASE SendNext(p, k)
    <2>1. stream' = [stream EXCEPT ![p][k] = a] /\ Queue(p, item)
      BY <1>6 DEF SendNext, Update, a, item
    <2>2. IsPast(Other(p), k)
      <3>q. PICK q \in Peer : q = Other(p) /\ p = Other(q)
        BY <1>0, CreditNumbers
      <3>1. s.outCredit > 0 /\ s.outCredit \in Nat
        BY <1>0, <1>6, CreditNumbers DEF SendNext, HasCredit
      <3>2. Covered(q, k) /\ Ledger(q, k)
        BY <1>0 DEF CreditInv, Credit
      <3>3. /\ Underway(q, "DEMAND", k) \in Nat /\ Underway(p, "DATA", k) \in Nat
            /\ stream[q][k].asked \in Nat
        BY <1>0, CreditNumbers
      <3>4. stream[q][k].asked > 0
        BY <3>q, <3>1, <3>2, <3>3 DEF Ledger, Due
      <3> QED  BY <3>q, <3>2, <3>4 DEF Covered
    <2> QED  BY <1>1, <1>3, <1>4, <2>1, <2>2, CallQueued
  <1>7. CASE CompleteNext(p, k)
    <2>1. stream' = [stream EXCEPT ![p][k] = b] /\ Queue(p, end)
      BY <1>7 DEF CompleteNext, Update, b, end
    <2> QED  BY <1>1, <1>3, <1>5, <2>1, CallQueued
  <1> QED  BY <1>6, <1>7

\* Nothing but the lane p writes is touched.
LEMMA TablesStill ==
  ASSUME TypeInv, NEW p \in Peer, UNCHANGED <<stream, live, pending>>,
         wire'[Other(p)] = wire[Other(p)],
         \A kind, i : On(jobs'[p], kind, i) => On(jobs[p], kind, i)
  PROVE  Inbound(p) /\ Tables(p)
  <1>1. Streams(p)
    BY StreamsStill
  <1>2. \A i \in StreamId : InboundMild(p, i) /\ HandleKept(p, i) /\ LeavesEnded(p, i) /\ EndKept(p, i)
    <2>1. \A i \in StreamId : InboundMild(p, i)
      BY DEF InboundMild, SameInbound
    <2>2. \A i \in StreamId : EndKept(p, i)
      BY DEF EndKept
    <2> QED  BY <1>1, <2>1, <2>2 DEF Streams
  <1>3. Pends(p)
    BY PendsSame
  <1>4. Inbound(p)
    BY <1>2 DEF Inbound, ReadLane
  <1> QED  BY <1>2, <1>3, <1>4 DEF Tables

\* The frame that WriteFrame hands to the lane.
LEMMA FrameHanded ==
  ASSUME TypeInv, NEW p \in Peer, WriteFrame(p)
  PROVE  /\ jobs[p] # <<>> /\ Ready(p) /\ ~flying[p] /\ flying'[p] /\ ~Abandoned(p)
         /\ UNCHANGED <<tableVars, idVars, jobs, written, stateVars>>
         /\ written[p] \in Nat /\ jobs[p] \in Seq(Job) /\ wire[p] \in Seq(Frame)
         /\ wire'[Other(p)] = wire[Other(p)]
         /\ \E f \in Frame :
              /\ wire'[p] = Append(wire[p], f) /\ f.id = Head(jobs[p]).id
              /\ f.kind = IF written[p] > 0 THEN "FRAGMENT" ELSE Head(jobs[p]).kind
  <1> DEFINE j == Head(jobs[p])
             f == [kind |-> IF written[p] > 0 THEN "FRAGMENT" ELSE j.kind, id |-> j.id,
                   seq |-> outSeq[p], amount |-> j.amount, item |-> j.item,
                   size |-> j.size, part |-> written[p] + 1]
  <1>1. /\ jobs[p] # <<>> /\ ~flying[p] /\ wire' = [wire EXCEPT ![p] = Append(@, f)]
        /\ flying' = [flying EXCEPT ![p] = TRUE] /\ Ready(p) /\ ~Abandoned(p)
        /\ UNCHANGED <<tableVars, idVars, jobs, written, stateVars>>
    BY DEF WriteFrame, CanWrite
  <1>2. /\ jobs[p] \in Seq(Job) /\ wire[p] \in Seq(Frame) /\ written[p] \in Nat
    BY DEF TypeInv, TypeOK, WriterType, ReaderType
  <1>3. wire'[p] = Append(wire[p], f) /\ flying'[p]
    BY <1>1 DEF TypeInv, TypeOK, WriterType, ReaderType
  <1>4. f \in Frame
    <2>1. wire' \in [Peer -> Seq(Frame)]
      BY WriteFrameType DEF TypeInv, TypeOK, ReaderType
    <2>2. Append(wire[p], f) \in Seq(Frame)
      BY <1>3, <2>1
    <2> QED  BY <2>2
  <1>5. f.kind = (IF written[p] > 0 THEN "FRAGMENT" ELSE j.kind) /\ f.id = j.id
    OBVIOUS
  <1>6. wire'[Other(p)] = wire[Other(p)]
    <2>1. Other(p) \in Peer /\ Other(p) # p
      BY PeerFacts
    <2> HIDE DEF f
    <2> QED  BY <1>1, <2>1 DEF TypeInv, TypeOK, ReaderType
  <1> HIDE DEF f
  <1> QED  BY <1>1, <1>2, <1>3, <1>4, <1>5, <1>6 DEF j

LEMMA WriteFrameWay ==
  ASSUME WayInv, Next, NEW p \in Peer, Elsewhere(p), WriteFrame(p)
  PROVE  Inbound(p) /\ Tables(p) /\ \A i \in StreamId : Way(p, i)'
  <1>0. TypeInv /\ TableInv /\ CreditInv
    BY DEF WayInv, CreditInv, TableInv, IdInv
  <1>q. PICK q \in Peer : q = Other(p)
    BY PeerFacts
  <1> DEFINE j == Head(jobs[p])
  <1>1. /\ jobs[p] # <<>> /\ Ready(p) /\ ~flying[p] /\ flying'[p]
        /\ UNCHANGED <<stream, live, pending, jobs, written, nextId, highestRemote, session>>
        /\ written[p] \in Nat /\ jobs[p] \in Seq(Job) /\ wire[p] \in Seq(Frame)
        /\ wire'[Other(p)] = wire[Other(p)]
    BY <1>0, FrameHanded DEF tableVars, idVars, stateVars
  <1>2. PICK f \in Frame :
              /\ wire'[p] = Append(wire[p], f) /\ f.id = j.id
              /\ f.kind = IF written[p] > 0 THEN "FRAGMENT" ELSE j.kind
    BY <1>0, FrameHanded
  <1>3. Inbound(p) /\ Tables(p)
    <2>1. \A kind, i : On(jobs'[p], kind, i) => On(jobs[p], kind, i)
      BY <1>1
    <2> QED  BY <1>0, <1>1, <2>1, TablesStill
  <1>4. ASSUME NEW i \in StreamId PROVE Way(p, i)'
    <2>0. Way(p, i)
      BY DEF WayInv
    <2>1. \A kind : On(wire'[p], kind, i) <=> On(wire[p], kind, i) \/ (f.kind = kind /\ f.id = i)
      <3>1. \A kind : On(Append(wire[p], f), kind, i)
                        <=> On(wire[p], kind, i) \/ (f.kind = kind /\ f.id = i)
        BY <1>1, OnAppend
      <3> QED  BY <1>2, <3>1
    <2>2. Laid(p, i)' = Laid(p, i) + Counts(f, "DATA", i) /\ Laid(p, i) \in Nat
      <3>1. Len(wire[p]) \in Nat /\ 0 \in Nat /\ \A y \in Frame : Units(y) \in Nat
        BY <1>1, UnitsNat
      <3>2. Amount(Append(wire[p], f), 0, "DATA", i) = Amount(wire[p], 0, "DATA", i) + Counts(f, "DATA", i)
        BY <1>1, <3>1, AmountAppend
      <3> QED  BY <1>0, <1>2, <3>2, LaidFacts DEF Laid
    <2>3. /\ Begins(p, i)' <=> (j.kind = "DATA" /\ j.id = i)
          /\ Begins(p, i) <=> (written[p] > 0 /\ j.kind = "DATA" /\ j.id = i)
          /\ Closing(p, i)' <=> (j.kind = "COMPLETE" /\ j.id = i)
          /\ ~Closing(p, i)
      BY <1>1 DEF Begins, Begun, Closing
    <2>4. j.kind \in {"DATA", "COMPLETE"} /\ j.id = i => stream[p][i].busy /\ IsPast(p, i)
      BY <1>0, <1>1, HeadCall
    <2>5. Finished(p, i) => ~stream[p][i].busy /\ Shut(p, i)
      BY <2>0, <2>3 DEF Way, Shut
    <2>6. (IsPast(p, i)' <=> IsPast(p, i)) /\ (Ready(p)' <=> Ready(p))
      BY <1>1 DEF IsPast, Ready
    <2>7. Shut(p, i) => Shut(p, i)'
      BY <1>1, <2>3, <2>6 DEF Shut
    <2>8. written[p] > 0 => j.kind = "DATA"
      BY <1>0 DEF TypeInv, WritesFirst
    <2>9. Finished(p, i)' => Finished(p, i) \/ (f.kind = "COMPLETE" /\ f.id = i)
      <3>1. stream'[q] = stream[q]
        BY <1>1
      <3> QED  BY <1>q, <2>1, <3>1 DEF Finished
    <2>10. f.kind = "COMPLETE" /\ f.id = i => Shut(p, i)'
      BY <1>2, <2>3, <2>4, <2>6 DEF Shut
    <2>11. Finished(p, i)' => Shut(p, i)'
      BY <2>5, <2>7, <2>9, <2>10
    <2>12. CompleteLast(wire'[p], i)
      <3>1. f.kind = "DATA" /\ f.id = i => ~On(wire[p], "COMPLETE", i)
        BY <1>2, <2>4, <2>5, <2>8 DEF Finished
      <3>2. CompleteLast(wire[p], i)
        BY <2>0 DEF Way
      <3>3. CompleteLast(Append(wire[p], f), i)
        BY <1>1, <3>1, <3>2, LastAppend
      <3> QED  BY <1>2, <3>3
    <2>13. MayComplete(p, i)' => MayComplete(p, i)
      <3>1. f.kind = "COMPLETE" /\ f.id = i => On(jobs[p], "COMPLETE", i)
        <4>1. 1 \in DOMAIN jobs[p] /\ jobs[p][1] = j
          BY <1>1, TailElements
        <4> QED  BY <1>2, <4>1 DEF On
      <3> QED  BY <1>1, <2>1, <2>6, <3>1 DEF MayComplete
    <2>14. ~IsPast(q, i) => stream'[p][i].sent = 0 /\ ~On(jobs'[p], "DATA", i)
      BY <1>q, <1>1, <2>0 DEF Way, Unsent
    <2>15. stream'[p][i].sent = stream[p][i].sent
      BY <1>1
    <2>16. \/ (Begins(p, i)' <=> Begins(p, i)) /\ Laid(p, i)' = Laid(p, i)
           \/ ~Begins(p, i) /\ Begins(p, i)' /\ Laid(p, i)' = Laid(p, i) + 1
      <3>1. CASE f.kind = "DATA" /\ f.id = i
        <4>1. written[p] = 0 /\ j.kind = "DATA" /\ j.id = i
          BY <1>1, <1>2, <3>1
        <4>2. Counts(f, "DATA", i) = 1
          BY <3>1 DEF Counts, Units
        <4> QED  BY <2>2, <2>3, <4>1, <4>2
      <3>2. CASE ~(f.kind = "DATA" /\ f.id = i)
        <4>1. Counts(f, "DATA", i) = 0
          BY <3>2 DEF Counts
        <4>2. j.kind = "DATA" /\ j.id = i => written[p] > 0
          BY <1>2, <3>2
        <4> QED  BY <2>2, <2>3, <4>1, <4>2
      <3> QED  BY <3>1, <3>2
    <2> QED  BY <1>q, <2>11, <2>12, <2>13, <2>14, <2>15, <2>16, OutwardWay
  <1> QED  BY <1>3, <1>4

\* A call's last frame has been written.
LEMMA CallDone ==
  ASSUME WayInv, NEW p \in Peer, JobWritten(p, {"DATA"}) \/ JobWritten(p, {"COMPLETE"}), JobDone(p)
  PROVE  /\ jobs[p] # <<>> /\ Head(jobs[p]).id \in StreamId
         /\ stream[p][Head(jobs[p]).id].busy /\ IsPast(p, Head(jobs[p]).id)
         /\ \A kind, i : On(jobs'[p], kind, i) => On(jobs[p], kind, i)
         /\ On(jobs[p], Head(jobs[p]).kind, Head(jobs[p]).id)
         /\ \A i : /\ ~Begins(p, i)' /\ ~Closing(p, i)'
                   /\ Begins(p, i) <=> Head(jobs[p]).kind = "DATA" /\ Head(jobs[p]).id = i
                   /\ Closing(p, i) <=> Head(jobs[p]).kind = "COMPLETE" /\ Head(jobs[p]).id = i
  <1>1. TypeInv /\ TableInv
    BY DEF WayInv, CreditInv, TableInv, IdInv
  <1>2. jobs[p] # <<>> /\ jobs[p] \in Seq(Job) /\ flying[p] /\ Head(jobs[p]).kind \in {"DATA", "COMPLETE"}
    BY <1>1 DEF JobWritten, TypeInv, TypeOK, WriterType, WritesFirst
  <1>3. jobs'[p] = Tail(jobs[p]) /\ ~flying'[p] /\ ~(written'[p] > 0)
    BY <1>1 DEF JobDone, TypeInv, TypeOK, WriterType
  <1>4. \A kind, i : On(jobs'[p], kind, i) => On(jobs[p], kind, i)
    BY <1>2, <1>3, OnTail
  <1>5. On(jobs[p], Head(jobs[p]).kind, Head(jobs[p]).id)
    BY <1>2, OnTail
  <1>6. \A i : ~Begins(p, i)' /\ ~Closing(p, i)'
    BY <1>3 DEF Begins, Begun, Closing
  <1>7. \A i : /\ Begins(p, i) <=> Head(jobs[p]).kind = "DATA" /\ Head(jobs[p]).id = i
               /\ Closing(p, i) <=> Head(jobs[p]).kind = "COMPLETE" /\ Head(jobs[p]).id = i
    BY <1>2 DEF Begins, Begun, Closing
  <1> QED  BY <1>1, <1>2, <1>4, <1>5, <1>6, <1>7, HeadCall

\* The other streams of p, when a call of stream k has been written.
LEMMA CallDoneElsewhere ==
  ASSUME WayInv, Next, NEW p \in Peer, Elsewhere(p),
         JobWritten(p, {"DATA"}) \/ JobWritten(p, {"COMPLETE"}), JobDone(p),
         UNCHANGED <<wire, nextId, highestRemote, session>>,
         NEW i \in StreamId, i # Head(jobs[p]).id, stream'[p][i] = stream[p][i]
  PROVE  Way(p, i)'
  <1>q. PICK q \in Peer : q = Other(p)
    BY PeerFacts
  <1>0. TypeInv /\ Way(p, i)
    BY DEF WayInv, CreditInv, TableInv, IdInv
  <1>1. /\ \A kind : On(jobs'[p], kind, i) => On(jobs[p], kind, i)
        /\ ~Begins(p, i)' /\ ~Begins(p, i) /\ ~Closing(p, i)' /\ ~Closing(p, i)
    BY CallDone
  <1>2. (IsPast(p, i)' <=> IsPast(p, i)) /\ (Ready(p)' <=> Ready(p)) /\ wire'[p] = wire[p]
    BY DEF IsPast, Ready
  <1>3. Finished(p, i)' => Shut(p, i)'
    <2>1. stream'[q] = stream[q]
      BY <1>0, <1>q, OtherKept
    <2>2. Finished(p, i)' => Finished(p, i)
      BY <1>2, <1>q, <2>1 DEF Finished
    <2>3. Shut(p, i) => Shut(p, i)'
      BY <1>1, <1>2 DEF Shut
    <2> QED  BY <1>0, <2>2, <2>3 DEF Way
  <1>4. MayComplete(p, i)' => MayComplete(p, i)
    BY <1>1, <1>2 DEF MayComplete
  <1>5. ~IsPast(q, i) => stream'[p][i].sent = 0 /\ ~On(jobs'[p], "DATA", i)
    BY <1>q, <1>1, <1>0 DEF Way, Unsent
  <1>6. CompleteLast(wire'[p], i) /\ Laid(p, i)' = Laid(p, i)
    BY <1>0, <1>2 DEF Way, Laid
  <1> QED  BY <1>q, <1>1, <1>3, <1>4, <1>5, <1>6, OutwardWay

LEMMA DataWrittenWay ==
  ASSUME WayInv, Next, NEW p \in Peer, Elsewhere(p), DataWritten(p)
  PROVE  Inbound(p) /\ Tables(p) /\ \A i \in StreamId : Way(p, i)'
  <1>0. TypeInv /\ TableInv
    BY DEF WayInv, CreditInv, TableInv, IdInv
  <1>q. PICK q \in Peer : q = Other(p)
    BY PeerFacts
  <1>k. PICK k : k = Head(jobs[p]).id
    OBVIOUS
  <1> DEFINE s == stream[p][k]
             t == [s EXCEPT !.busy = FALSE, !.sent = @ + 1]
  <1>1. /\ JobWritten(p, {"DATA"}) /\ JobDone(p)
        /\ stream' = [stream EXCEPT ![p][k] = t]
        /\ UNCHANGED <<live, pending, wire, nextId, highestRemote, session>>
    BY <1>k DEF DataWritten, Update, idVars, readerVars, stateVars
  <1>2. /\ k \in StreamId /\ s.busy /\ IsPast(p, k)
        /\ \A kind, i : On(jobs'[p], kind, i) => On(jobs[p], kind, i)
        /\ On(jobs[p], "DATA", k) /\ ~Begins(p, k)' /\ Begins(p, k) /\ ~Closing(p, k)
    <2>1. Head(jobs[p]).kind = "DATA"
      BY <1>1 DEF JobWritten
    <2> QED  BY <1>1, <1>k, <2>1, CallDone
  <1>3. s \in Stream /\ Way(p, k)
    BY <1>2, WriterFacts
  <1>4. SameInbound(s, t) /\ t.handle = s.handle /\ t.sent = s.sent + 1 /\ t.outClosed = s.outClosed
    BY <1>3 DEF Stream, SameInbound
  <1> HIDE DEF t
  <1>5. stream'[p][k] = t /\ \A i \in StreamId \ {k} : stream'[p][i] = stream[p][i]
    BY <1>0, <1>1, <1>2, ChangedStream
  <1>6. Inbound(p) /\ Tables(p)
    <2>1. IsClosed(s) => IsClosed(t)
      BY <1>4 DEF IsClosed, SameInbound
    <2>2. wire'[Other(p)] = wire[Other(p)] /\ live'[p] \subseteq live[p]
          /\ \A i \in live[p] \ live'[p] : i = k /\ IsClosed(t)
      BY <1>1
    <2>3. \A kind \in {"OPEN", "CANCEL", "ERROR"}, i \in StreamId :
            On(jobs'[p], kind, i) => On(jobs[p], kind, i)
      BY <1>2
    <2> QED  BY <1>0, <1>1, <1>2, <1>4, <2>1, <2>2, <2>3, InboundAt
  <1>7. Way(p, k)'
    <2>1. ~Finished(p, k)
      BY <1>2, <1>3 DEF Way, Shut
    <2>2. ~Finished(p, k)'
      <3>1. stream'[q] = stream[q]
        BY <1>0, <1>2, <1>q, OtherKept
      <3> QED  BY <1>1, <1>q, <2>1, <3>1 DEF Finished
    <2>3. MayComplete(p, k)' => MayComplete(p, k)
      BY <1>1, <1>2, <1>4, <1>5 DEF MayComplete, IsPast, Ready
    <2>4. IsPast(q, k)
      BY <1>q, <1>2, <1>3 DEF Way, Unsent
    <2>5. CompleteLast(wire'[p], k) /\ Laid(p, k)' = Laid(p, k)
      BY <1>1, <1>3 DEF Way, Laid
    <2> QED  BY <1>q, <1>2, <1>4, <1>5, <2>1, <2>2, <2>3, <2>4, <2>5, OutwardWay
  <1>8. ASSUME NEW i \in StreamId, i # k PROVE Way(p, i)'
    BY <1>k, <1>1, <1>5, <1>8, CallDoneElsewhere
  <1> QED  BY <1>6, <1>7, <1>8

LEMMA CompleteWrittenWay ==
  ASSUME WayInv, Next, NEW p \in Peer, Elsewhere(p), CompleteWritten(p)
  PROVE  Inbound(p) /\ Tables(p) /\ \A i \in StreamId : Way(p, i)'
  <1>0. TypeInv /\ TableInv
    BY DEF WayInv, CreditInv, TableInv, IdInv
  <1>q. PICK q \in Peer : q = Other(p)
    BY PeerFacts
  <1>k. PICK k : k = Head(jobs[p]).id
    OBVIOUS
  <1> DEFINE s == stream[p][k]
             t == [s EXCEPT !.outClosed = TRUE, !.tail = <<>>, !.busy = FALSE]
  <1>1. /\ JobWritten(p, {"COMPLETE"}) /\ JobDone(p) /\ Release(p, k, t)
        /\ UNCHANGED <<pending, wire, nextId, highestRemote, session>>
    BY <1>k DEF CompleteWritten, idVars, readerVars, stateVars
  <1>2. /\ k \in StreamId /\ IsPast(p, k)
        /\ \A kind, i : On(jobs'[p], kind, i) => On(jobs[p], kind, i)
        /\ On(jobs[p], "COMPLETE", k) /\ ~Begins(p, k)' /\ ~Begins(p, k)
    <2>1. Head(jobs[p]).kind = "COMPLETE"
      BY <1>1 DEF JobWritten
    <2> QED  BY <1>1, <1>k, <2>1, CallDone
  <1>3. s \in Stream /\ Way(p, k)
    BY <1>2, WriterFacts
  <1>4. SameInbound(s, t) /\ t.handle = s.handle /\ t.sent = s.sent /\ t.outClosed /\ ~t.busy
    BY <1>3 DEF Stream, SameInbound
  <1> HIDE DEF t
  <1>5. stream' = [stream EXCEPT ![p][k] = t]
    BY <1>1 DEF Release
  <1>6. stream'[p][k] = t /\ \A i \in StreamId \ {k} : stream'[p][i] = stream[p][i]
    BY <1>0, <1>2, <1>5, ChangedStream
  <1>7. Inbound(p) /\ Tables(p)
    <2>1. IsClosed(s) => IsClosed(t)
      BY <1>4 DEF IsClosed, SameInbound
    <2>2. live'[p] = live[p] \/ (IsClosed(t) /\ live'[p] = live[p] \ {k})
      <3>1. live' = live \/ (IsClosed(t) /\ Leave(p, k))
        BY <1>1 DEF Release
      <3> QED  BY <1>0, <1>2, <3>1, LeaveLive
    <2>3. live'[p] \subseteq live[p] /\ \A i \in live[p] \ live'[p] : i = k /\ IsClosed(t)
      BY <2>2
    <2>4. \A kind \in {"OPEN", "CANCEL", "ERROR"}, i \in StreamId :
            On(jobs'[p], kind, i) => On(jobs[p], kind, i)
      BY <1>2
    <2>5. wire'[Other(p)] = wire[Other(p)]
      BY <1>1
    <2> QED  BY <1>0, <1>1, <1>2, <1>4, <1>5, <2>1, <2>3, <2>4, <2>5, InboundAt
  <1>8. Way(p, k)'
    <2>1. Shut(p, k)'
      BY <1>1, <1>2, <1>4, <1>6 DEF Shut, IsPast
    <2>2. MayComplete(p, k)
      BY <1>2 DEF MayComplete
    <2>3. ~IsPast(q, k) => stream'[p][k].sent = 0 /\ ~On(jobs'[p], "DATA", k)
      BY <1>q, <1>2, <1>3, <1>4, <1>6 DEF Way, Unsent
    <2>4. CompleteLast(wire'[p], k) /\ Laid(p, k)' = Laid(p, k)
      BY <1>1, <1>3 DEF Way, Laid
    <2> QED  BY <1>q, <1>2, <1>4, <1>6, <2>1, <2>2, <2>3, <2>4, OutwardWay
  <1>9. ASSUME NEW i \in StreamId, i # k PROVE Way(p, i)'
    BY <1>k, <1>1, <1>6, <1>9, CallDoneElsewhere
  <1> QED  BY <1>7, <1>8, <1>9

-----------------------------------------------------------------------------
(* The steps that bring an item, or COMPLETE, to p                         *)

LEMMA OutboundAt ==
  ASSUME TypeInv, NEW p \in Peer, NEW k \in StreamId, NEW t,
         stream' = [stream EXCEPT ![p][k] = t], SameOutbound(stream[p][k], t),
         t.handle = stream[p][k].handle, IsClosed(stream[p][k]) => IsClosed(t),
         live'[p] \subseteq live[p], \A i \in live[p] \ live'[p] : i = k /\ IsClosed(t),
         wire'[p] = wire[p], UNCHANGED <<pending, jobs, written, flying>>
  PROVE  Outbound(p) /\ Tables(p)
  <1>1. stream'[p][k] = t /\ \A i \in StreamId \ {k} : stream'[p][i] = stream[p][i]
    BY ChangedStream
  <1>2. ASSUME NEW i \in StreamId
        PROVE  OutboundMild(p, i) /\ HandleKept(p, i) /\ LeavesEnded(p, i) /\ EndKept(p, i)
    <2>1. OutboundMild(p, i)
      BY <1>1 DEF OutboundMild, SameOutbound
    <2>2. HandleKept(p, i)
      BY <1>1 DEF HandleKept, Reach
    <2>3. LeavesEnded(p, i)
      BY <1>1 DEF LeavesEnded
    <2>4. EndKept(p, i)
      BY <1>1 DEF EndKept
    <2> QED  BY <2>1, <2>2, <2>3, <2>4
  <1>3. Pends(p)
    BY PendsSame
  <1>4. WriteLane(p)
    <2>1. \A i : (Begins(p, i)' <=> Begins(p, i)) /\ (Closing(p, i)' <=> Closing(p, i))
      BY DEF Begins, Begun, Closing
    <2> QED  BY <2>1 DEF WriteLane
  <1>5. Outbound(p)
    BY <1>2, <1>4 DEF Outbound
  <1> QED  BY <1>2, <1>3, <1>5 DEF Tables

\* A lane that carries COMPLETE first, or whose COMPLETE has been read.
LEMMA ShutFacts ==
  ASSUME WayInv, NEW q \in Peer, NEW i \in StreamId, Shut(q, i)
  PROVE  ~Begins(q, i)
  <1> SUFFICES ASSUME Begins(q, i) PROVE FALSE
    OBVIOUS
  <1>1. TableInv /\ jobs[q] # <<>> /\ Head(jobs[q]).kind = "DATA" /\ Head(jobs[q]).id = i
    <2>1. TableInv /\ (flying[q] \/ written[q] > 0 => jobs[q] # <<>>)
      BY WriterFacts
    <2> QED  BY <2>1 DEF Begins, Begun
  <1>2. stream[q][i].busy
    BY <1>1, HeadCall
  <1> QED  BY <1>1, <1>2 DEF Shut, Closing

LEMMA InwardWay ==
  ASSUME WayInv, Next, NEW p \in Peer, Elsewhere(p), NEW q \in Peer, q = Other(p),
         NEW i \in StreamId, UNCHANGED highestRemote, UNCHANGED nextId,
         wire[q] # <<>>, wire'[q] = Tail(wire[q]),
         Finished(q, i)' => Finished(q, i), Delivered(q, i)',
         i \in live'[p] /\ ~stream'[p][i].inClosed =>
           /\ i \in live[p] /\ ~stream[p][i].inClosed
           /\ Len(stream'[p][i].got) + One(stream'[p][i].expected > 0) + Laid(q, i)'
                = Len(stream[p][i].got) + One(stream[p][i].expected > 0) + Laid(q, i)
  PROVE  Way(q, i)'
  <1> DEFINE s == stream[p][i]
             t == stream'[p][i]
             u == stream[q][i]
  <1>0. TypeInv /\ Way(q, i)
    BY DEF WayInv, CreditInv, TableInv, IdInv
  <1>1. /\ stream'[q] = stream[q] /\ jobs'[q] = jobs[q] /\ p = Other(q)
        /\ (Ready(q)' <=> Ready(q)) /\ (IsPast(q, i)' <=> IsPast(q, i))
        /\ (Begins(q, i)' <=> Begins(q, i)) /\ (Shut(q, i)' <=> Shut(q, i))
    BY <1>0, OtherKept
  <1>2. IsPast(p, i) <=> IsPast(p, i)'
    BY DEF IsPast
  <1>3. /\ \A kind : On(wire'[q], kind, i) => On(wire[q], kind, i)
        /\ CompleteLast(wire[q], i) => CompleteLast(wire'[q], i)
    BY <1>0, LaneRead
  <1>4. Unsent(q, i)'
    BY <1>0, <1>1, <1>2 DEF Way, Unsent
  <1>5. CompleteLast(wire[q], i)'
    BY <1>0, <1>3 DEF Way
  <1>6. (Finished(q, i) => Shut(q, i))'
    BY <1>0, <1>1 DEF Way
  <1>7. Tallied(q, i)'
    <2> SUFFICES ASSUME i \in live'[p], ~t.inClosed, MayComplete(q, i)'
                 PROVE  u.sent + One(Begins(q, i)) = Len(t.got) + One(t.expected > 0) + Laid(q, i)'
      BY <1>1 DEF Tallied, One
    <2>1. MayComplete(q, i)
      BY <1>1, <1>3 DEF MayComplete
    <2> QED  BY <1>0, <1>1, <2>1 DEF Way, Tallied
  <1> QED  BY <1>4, <1>5, <1>6, <1>7 DEF Way

\* The streams the frame is not for.
LEMMA InwardElsewhere ==
  ASSUME WayInv, Next, NEW p \in Peer, Elsewhere(p), NEW q \in Peer, q = Other(p),
         NEW i \in StreamId, UNCHANGED highestRemote, UNCHANGED nextId,
         wire[q] # <<>>, wire'[q] = Tail(wire[q]), i # Incoming(p).id,
         stream'[p][i] = stream[p][i], live'[p] \subseteq live[p]
  PROVE  Way(q, i)'
  <1>0. TypeInv /\ Way(q, i)
    BY DEF WayInv, CreditInv, TableInv, IdInv
  <1>1. stream'[q] = stream[q] /\ p = Other(q)
    BY <1>0, OtherKept
  <1>2. /\ \A kind : On(wire'[q], kind, i) => On(wire[q], kind, i)
        /\ Laid(q, i)' = Laid(q, i)
    BY <1>0, LaneRead
  <1>3. Finished(q, i)' => Finished(q, i)
    BY <1>1, <1>2 DEF Finished
  <1>4. Delivered(q, i)'
    BY <1>0, <1>1 DEF Way, Delivered
  <1>5. i \in live'[p] /\ ~stream'[p][i].inClosed =>
           /\ i \in live[p] /\ ~stream[p][i].inClosed
           /\ Len(stream'[p][i].got) + One(stream'[p][i].expected > 0) + Laid(q, i)'
                = Len(stream[p][i].got) + One(stream[p][i].expected > 0) + Laid(q, i)
    BY <1>2 DEF One
  <1> QED  BY <1>3, <1>4, <1>5, InwardWay

\* A frame read for a stream of the table.
LEMMA FrameTaken ==
  ASSUME TypeInv, NEW p \in Peer, NEW q \in Peer, q = Other(p),
         NEW kind \in {"DATA", "FRAGMENT", "COMPLETE"}, ReadsLive(p, {kind})
  PROVE  /\ Incoming(p).id \in StreamId /\ Incoming(p).id \in live[p] /\ Incoming(p).kind = kind
         /\ wire[q] # <<>> /\ wire'[q] = Tail(wire[q]) /\ wire'[p] = wire[p]
         /\ wire[q] \in Seq(Frame) /\ Incoming(p) = Head(wire[q])
         /\ stream[p][Incoming(p).id] \in Stream
         /\ ~IllegalHere(p, Incoming(p))
         /\ On(wire[q], kind, Incoming(p).id)
  <1>1. /\ Reads(p, {kind}) /\ Incoming(p).id \in live[p] /\ wire[q] # <<>>
        /\ wire' = [wire EXCEPT ![q] = Tail(@)] /\ ~Illegal(p, Incoming(p)) /\ Incoming(p).kind = kind
    BY DEF ReadsLive, Reads, CanRead, Consume
  <1>2. Incoming(p).id \in StreamId
    BY <1>1, ReadsType
  <1>3. wire[q] \in Seq(Frame) /\ wire'[q] = Tail(wire[q]) /\ wire'[p] = wire[p]
    <2>1. p # q
      BY PeerFacts
    <2> QED  BY <1>1, <2>1 DEF TypeInv, TypeOK, ReaderType
  <1>4. stream[p][Incoming(p).id] \in Stream
    BY <1>2, StreamOf DEF TypeInv, TypeOK
  <1>5. ~IllegalHere(p, Incoming(p))
    BY <1>1 DEF Illegal
  <1>6. Incoming(p) = Head(wire[q]) /\ On(wire[q], kind, Incoming(p).id)
    BY <1>1, <1>3, OnTail DEF Incoming
  <1> QED  BY <1>1, <1>2, <1>3, <1>4, <1>5, <1>6

\* A stream takes a unit of an item, the first of n items.
Took(s, t, n) ==
  /\ SameOutbound(s, t) /\ t.handle = s.handle /\ t.asked = s.asked
  /\ t.inClosed = s.inClosed /\ t.cancelled = s.cancelled
  /\ Len(s.got) \in Nat /\ Len(t.got) \in {Len(s.got), Len(s.got) + 1}
  /\ Len(t.got) + One(t.expected > 0) = Len(s.got) + One(s.expected > 0) + n

\* A frame that carries a unit of an item.
LEMMA ItemWay ==
  ASSUME WayInv, Next, NEW p \in Peer, Elsewhere(p), NEW q \in Peer, q = Other(p),
         NEW kind \in {"DATA", "FRAGMENT"}, ReadsLive(p, {kind}), NEW k, k = Incoming(p).id,
         NEW t, stream' = [stream EXCEPT ![p][k] = t],
         UNCHANGED <<live, pending, jobs, written, flying, nextId, highestRemote>>,
         Took(stream[p][k], t, IF kind = "DATA" THEN 1 ELSE 0)
  PROVE  Outbound(p) /\ Tables(p) /\ \A i \in StreamId : Way(q, i)'
  <1> DEFINE s == stream[p][k]
  <1>0. TypeInv /\ TableInv
    BY DEF WayInv, CreditInv, TableInv, IdInv
  <1>t. /\ SameOutbound(s, t) /\ t.handle = s.handle
        /\ t.inClosed = s.inClosed /\ t.cancelled = s.cancelled
        /\ Len(t.got) \in Nat /\ Len(s.got) \in Nat
        /\ Len(t.got) + One(t.expected > 0)
             = Len(s.got) + One(s.expected > 0) + (IF kind = "DATA" THEN 1 ELSE 0)
    BY DEF Took
  <1>1. /\ k \in StreamId /\ k \in live[p] /\ Incoming(p).kind = kind
        /\ wire[q] # <<>> /\ wire'[q] = Tail(wire[q]) /\ wire'[p] = wire[p]
        /\ Incoming(p) = Head(wire[q]) /\ ~s.inClosed
    <2>1. ~IllegalHere(p, Incoming(p)) /\ Incoming(p).kind = kind
      BY <1>0, FrameTaken
    <2>2. ~s.inClosed
      BY <2>1 DEF IllegalHere
    <2> QED  BY <1>0, <2>2, FrameTaken
  <1>2. stream'[p][k] = t /\ \A i \in StreamId \ {k} : stream'[p][i] = stream[p][i]
    <2>1. TypeInv /\ k \in StreamId /\ stream' = [stream EXCEPT ![p][k] = t]
      BY <1>0, <1>1
    <2> QED  BY ONLY <2>1, ChangedStream
  <1>3. Outbound(p) /\ Tables(p)
    <2>1. IsClosed(s) => IsClosed(t)
      BY <1>t, <1>1 DEF IsClosed, SameOutbound
    <2>2. live'[p] \subseteq live[p] /\ \A i \in live[p] \ live'[p] : i = k /\ IsClosed(t)
      OBVIOUS
    <2> QED  BY <1>0, <1>t, <1>1, <2>1, <2>2, OutboundAt
  <1>4. Way(q, k)'
    <2>0. Way(q, k)
      BY <1>1 DEF WayInv
    <2>1. stream'[q] = stream[q] /\ p = Other(q)
      BY <1>0, <1>1, OtherKept
    <2>2. \A x : On(wire'[q], x, k) => On(wire[q], x, k)
      BY <1>0, <1>1, LaneRead
    <2>3. Finished(q, k)' => Finished(q, k)
      BY <1>t, <1>2, <2>1, <2>2 DEF Finished
    <2>4. Delivered(q, k)'
      BY <1>t, <1>1, <1>2, <2>1 DEF Delivered
    <2>5. /\ Laid(q, k) = Laid(q, k)' + Counts(Head(wire[q]), "DATA", k)
          /\ Laid(q, k)' \in Nat /\ Counts(Head(wire[q]), "DATA", k) \in Nat
      BY <1>0, <1>1, LaidRead
    <2>6. Counts(Head(wire[q]), "DATA", k) = IF kind = "DATA" THEN 1 ELSE 0
      BY <1>1 DEF Counts, Units
    <2>7. Len(stream'[p][k].got) + One(stream'[p][k].expected > 0) + Laid(q, k)'
            = Len(s.got) + One(s.expected > 0) + Laid(q, k)
      <3> DEFINE a == One(t.expected > 0)
                 b == One(s.expected > 0)
                 c == Counts(Head(wire[q]), "DATA", k)
      <3>1. a \in Nat /\ b \in Nat /\ c \in Nat
        BY <2>5 DEF One
      <3>2. Len(t.got) + a = Len(s.got) + b + c
        BY <1>t, <2>6
      <3>3. Laid(q, k) = Laid(q, k)' + c
        BY <2>5
      <3> HIDE DEF a, b, c, s
      <3>4. Len(t.got) + a + Laid(q, k)' = Len(s.got) + b + Laid(q, k)
        <4>1. Len(s.got) \in Nat /\ Len(t.got) \in Nat /\ Laid(q, k)' \in Nat
          BY <1>t, <2>5 DEF s
        <4> QED  BY <3>1, <3>2, <3>3, <4>1
      <3> QED  BY <1>2, <3>4 DEF a, b
    <2>8. k \in live[p] /\ ~s.inClosed
      BY <1>1
    <2> QED  BY <1>1, <2>3, <2>4, <2>7, <2>8, InwardWay
  <1>5. ASSUME NEW i \in StreamId, i # k PROVE Way(q, i)'
    <2>1. stream'[p][i] = stream[p][i] /\ live'[p] \subseteq live[p]
      BY <1>2, <1>5
    <2> QED  BY <1>1, <1>5, <2>1, InwardElsewhere
  <1> QED  BY <1>3, <1>4, <1>5

LEMMA ReadItemAt ==
  ASSUME TableInv, NEW p \in Peer, NEW k, k = Incoming(p).id,
         ReadData(p) \/ StartReassembly(p) \/ ReadFragment(p)
  PROVE  /\ UNCHANGED <<live, pending, jobs, written, flying, nextId, highestRemote>>
         /\ \E kind \in {"DATA", "FRAGMENT"}, t \in Stream :
              /\ ReadsLive(p, {kind}) /\ stream' = [stream EXCEPT ![p][k] = t]
              /\ Took(stream[p][k], t, IF kind = "DATA" THEN 1 ELSE 0)
  <1>0. TypeInv
    BY DEF TableInv, IdInv
  <1> DEFINE s == stream[p][k]
             f == Incoming(p)
  <1>1. UNCHANGED <<live, pending, jobs, written, flying, nextId, highestRemote>>
    BY DEF ReadData, StartReassembly, ReadFragment, Update, idVars, writerVars
  <1>2. CASE ReadData(p)
    <2> DEFINE t == [s EXCEPT !.inCredit = @ - 1, !.got = Append(s.got, <<Payload(f)>>)]
    <2>1. ReadsLive(p, {"DATA"}) /\ stream' = [stream EXCEPT ![p][k] = t]
      BY <1>2 DEF ReadData, Update, Push
    <2>2. s \in Stream /\ s.expected = 0 /\ Payload(f) \in Unit /\ s.inCredit - 1 \in 0..MaxCredit
      BY <1>0, <2>1, LegalData
    <2>3. s.got \in Seq(Seq(Unit)) /\ Len(s.got) \in Nat
      <3> HIDE DEF s
      <3>1. s.got \in Seq(Seq(Unit))
        BY <2>2 DEF Stream
      <3> QED  BY <3>1
    <2>4. t.got = Append(s.got, <<Payload(f)>>) /\ t.expected = s.expected /\ t \in Stream
      <3>1. Append(s.got, <<Payload(f)>>) \in Seq(Seq(Unit))
        BY <2>2, <2>3
      <3> QED  BY <2>2, <3>1 DEF Stream
    <2>5. SameOutbound(s, t) /\ t.handle = s.handle /\ t.asked = s.asked
      BY <2>2 DEF Stream, SameOutbound
    <2>6. t.inClosed = s.inClosed /\ t.cancelled = s.cancelled
      BY <2>2 DEF Stream
    <2> HIDE DEF t, s
    <2>7. Len(t.got) = Len(s.got) + 1
      BY <2>3, <2>4, AppendElements
    <2>8. Len(t.got) + One(t.expected > 0) = Len(s.got) + One(s.expected > 0) + 1
      BY <2>2, <2>3, <2>4, <2>7 DEF One
    <2>9. Took(s, t, 1)
      BY <2>3, <2>5, <2>6, <2>7, <2>8 DEF Took
    <2> QED  BY <1>1, <2>1, <2>4, <2>9 DEF s
  <1>3. CASE StartReassembly(p)
    <2> DEFINE t == [s EXCEPT !.inCredit = @ - 1, !.expected = f.size, !.partial = <<Payload(f)>>]
    <2>1. ReadsLive(p, {"DATA"}) /\ f.size > 1
      BY <1>3 DEF StartReassembly
    <2>2. /\ s \in Stream /\ s.expected = 0 /\ k \in StreamId
          /\ Payload(f) \in Unit /\ f.size \in Nat /\ s.inCredit - 1 \in 0..MaxCredit
      BY <1>0, <2>1, LegalData
    <2>3. stream' = [stream EXCEPT ![p][k] = t]
      <3>1. stream' = [stream EXCEPT ![p][k].inCredit = @ - 1, ![p][k].expected = f.size,
                                     ![p][k].partial = <<Payload(f)>>]
        BY <1>3 DEF StartReassembly
      <3>2. stream \in [Peer -> [StreamId -> Stream]]
        BY <1>0 DEF TypeInv, TypeOK, TableType
      <3> DEFINE n == f.size
                 d == <<Payload(f)>>
                 R == stream[p]
                 c == s.inCredit - 1
      <3>3. R \in [StreamId -> Stream] /\ s = R[k] /\ s \in Stream /\ k \in StreamId
        BY <2>2, <3>2
      <3>4. stream' = [stream EXCEPT ![p] = [R EXCEPT ![k].inCredit = c, ![k].expected = n,
                                                     ![k].partial = d]]
        <4>1. stream' = [stream EXCEPT ![p][k].inCredit = c, ![p][k].expected = n,
                                       ![p][k].partial = d]
          BY <3>1
        <4> HIDE DEF n, d, c, s, t
        <4> QED  BY ONLY <3>2, <4>1 DEF R
      <3>5. t = [s EXCEPT !.inCredit = c, !.expected = n, !.partial = d]
        OBVIOUS
      <3> HIDE DEF n, d, c, s, t
      <3>6. [stream EXCEPT ![p][k] = t] = [stream EXCEPT ![p] = [R EXCEPT ![k] = t]]
        BY ONLY <3>2 DEF R
      <3> HIDE DEF R
      <3>7. [R EXCEPT ![k].inCredit = c, ![k].expected = n, ![k].partial = d]
              = [R EXCEPT ![k] = [s EXCEPT !.inCredit = c, !.expected = n, !.partial = d]]
        BY ONLY <3>3 DEF Stream
      <3> QED  BY ONLY <3>4, <3>5, <3>6, <3>7
    <2>4. s.got \in Seq(Seq(Unit)) /\ Len(s.got) \in Nat
      <3> HIDE DEF s
      <3>1. s.got \in Seq(Seq(Unit))
        BY <2>2 DEF Stream
      <3> QED  BY <3>1
    <2>5. t.got = s.got /\ t.expected = f.size /\ t \in Stream
      <3>1. <<Payload(f)>> \in Seq(Unit)
        BY <2>2
      <3> QED  BY <2>2, <3>1 DEF Stream
    <2>6. SameOutbound(s, t) /\ t.handle = s.handle /\ t.asked = s.asked
      BY <2>2 DEF Stream, SameOutbound
    <2>7. t.inClosed = s.inClosed /\ t.cancelled = s.cancelled
      BY <2>2 DEF Stream
    <2> HIDE DEF t, s
    <2>8. One(t.expected > 0) = 1 /\ One(s.expected > 0) = 0
      BY <2>1, <2>2, <2>5 DEF One
    <2>9. Took(s, t, 1)
      BY <2>4, <2>5, <2>6, <2>7, <2>8 DEF Took
    <2> QED  BY <1>1, <2>1, <2>3, <2>5, <2>9 DEF s
  <1>4. CASE ReadFragment(p)
    <2> DEFINE data == Append(s.partial, Payload(f))
               t == [s EXCEPT !.partial = data]
               u == [s EXCEPT !.expected = 0, !.partial = <<>>, !.got = Append(s.got, data)]
    <2>1. /\ ReadsLive(p, {"FRAGMENT"})
          /\ stream' = [stream EXCEPT ![p][k] = t] \/ stream' = [stream EXCEPT ![p][k] = u]
      BY <1>4 DEF ReadFragment, Update, Push
    <2>q. PICK q \in Peer : q = Other(p)
      BY PeerFacts
    <2>2. s \in Stream /\ ~IllegalHere(p, f) /\ f.kind = "FRAGMENT"
      BY <1>0, <2>1, <2>q, FrameTaken
    <2>3. /\ s.got \in Seq(Seq(Unit)) /\ Len(s.got) \in Nat
          /\ s.partial \in Seq(Unit) /\ s.expected \in Nat
      <3> HIDE DEF s
      <3>1. s.got \in Seq(Seq(Unit)) /\ s.partial \in Seq(Unit) /\ s.expected \in Nat
        BY <2>2 DEF Stream
      <3> QED  BY <3>1
    <2>4. s.expected > 0
      <3>1. ~(Len(s.partial) + 1 > s.expected)
        BY <2>2 DEF IllegalHere
      <3>2. Len(s.partial) \in Nat
        BY <2>3
      <3> HIDE DEF s
      <3> QED  BY <2>3, <3>1, <3>2
    <2>5. data \in Seq(Unit)
      <3>1. Payload(f) \in Unit
        BY <1>0, <2>1, ReadsType DEF Payload, Unit, ReadsLive
      <3> QED  BY <2>3, <3>1
    <2> HIDE DEF data
    <2>6. t.got = s.got /\ t.expected = s.expected /\ t \in Stream
      BY <2>2, <2>5 DEF Stream
    <2>7. SameOutbound(s, t) /\ t.handle = s.handle /\ t.asked = s.asked
      BY <2>2 DEF Stream, SameOutbound
    <2>8. t.inClosed = s.inClosed /\ t.cancelled = s.cancelled
      BY <2>2 DEF Stream
    <2>9. u.got = Append(s.got, data) /\ u.expected = 0 /\ u \in Stream
      <3>1. Append(s.got, data) \in Seq(Seq(Unit)) /\ <<>> \in Seq(Unit)
        BY <2>3, <2>5
      <3> QED  BY <2>2, <3>1 DEF Stream
    <2>10. SameOutbound(s, u) /\ u.handle = s.handle /\ u.asked = s.asked
      BY <2>2 DEF Stream, SameOutbound
    <2>11. u.inClosed = s.inClosed /\ u.cancelled = s.cancelled
      BY <2>2 DEF Stream
    <2> HIDE DEF t, u, s
    <2>12. Took(s, t, 0)
      <3>1. Len(t.got) + One(t.expected > 0) = Len(s.got) + One(s.expected > 0) + 0
        BY <2>3, <2>6 DEF One
      <3> QED  BY <2>3, <2>6, <2>7, <2>8, <3>1 DEF Took
    <2>13. Took(s, u, 0)
      <3>1. Len(u.got) = Len(s.got) + 1
        BY <2>3, <2>5, <2>9, AppendElements
      <3>2. One(u.expected > 0) = 0 /\ One(s.expected > 0) = 1
        BY <2>4, <2>9 DEF One
      <3>3. Len(u.got) + One(u.expected > 0) = Len(s.got) + One(s.expected > 0) + 0
        BY <2>3, <3>1, <3>2
      <3> QED  BY <2>3, <2>10, <2>11, <3>1, <3>3 DEF Took
    <2> QED  BY <1>1, <2>1, <2>6, <2>9, <2>12, <2>13 DEF s
  <1> QED  BY <1>2, <1>3, <1>4

LEMMA ReadItemWay ==
  ASSUME WayInv, Next, NEW p \in Peer, Elsewhere(p), NEW q \in Peer, q = Other(p),
         ReadData(p) \/ StartReassembly(p) \/ ReadFragment(p)
  PROVE  Outbound(p) /\ Tables(p) /\ \A i \in StreamId : Way(q, i)'
  <1>0. TableInv
    BY DEF WayInv, CreditInv
  <1>k. PICK k : k = Incoming(p).id
    OBVIOUS
  <1>1. UNCHANGED <<live, pending, jobs, written, flying, nextId, highestRemote>>
    BY <1>0, <1>k, ReadItemAt
  <1>2. PICK kind \in {"DATA", "FRAGMENT"}, t \in Stream :
          /\ ReadsLive(p, {kind}) /\ stream' = [stream EXCEPT ![p][k] = t]
          /\ Took(stream[p][k], t, IF kind = "DATA" THEN 1 ELSE 0)
    BY <1>0, <1>k, ReadItemAt
  <1> QED  BY <1>k, <1>1, <1>2, ItemWay

\* COMPLETE is read when every item before it has been.
LEMMA CompleteRead ==
  ASSUME WayInv, NEW p \in Peer, NEW q \in Peer, q = Other(p), ReadsLive(p, {"COMPLETE"}),
         NEW k, k = Incoming(p).id
  PROVE  ~Begins(q, k) /\ Laid(q, k) = 0 /\ ~(stream[p][k].expected > 0)
  <1>0. TypeInv
    BY DEF WayInv, CreditInv, TableInv, IdInv
  <1>1. /\ k \in StreamId /\ Incoming(p).kind = "COMPLETE" /\ wire[q] # <<>>
        /\ wire[q] \in Seq(Frame) /\ Incoming(p) = Head(wire[q])
        /\ ~IllegalHere(p, Incoming(p)) /\ On(wire[q], "COMPLETE", k)
    BY <1>0, FrameTaken
  <1>2. Way(q, k)
    BY <1>1 DEF WayInv
  <1>3. ~Begins(q, k)
    BY <1>1, <1>2, ShutFacts DEF Way, Finished
  <1>4. ~On(wire[q], "DATA", k)
    <2> SUFFICES ASSUME NEW m \in DOMAIN wire[q], wire[q][m].kind = "DATA", wire[q][m].id = k
                 PROVE  FALSE
      BY DEF On
    <2>1. 1 \in DOMAIN wire[q] /\ wire[q][1] = Head(wire[q]) /\ DOMAIN wire[q] = 1..Len(wire[q])
      BY <1>1, TailElements
    <2>2. m < 1
      BY <1>1, <1>2, <2>1 DEF Way, CompleteLast
    <2> QED  BY <1>1, <2>1, <2>2
  <1>5. Laid(q, k) = 0
    BY <1>0, <1>1, <1>4, LaidFacts
  <1>6. ~(stream[p][k].expected > 0)
    BY <1>1 DEF IllegalHere
  <1> QED  BY <1>3, <1>5, <1>6

LEMMA ReadCompleteWay ==
  ASSUME WayInv, Next, NEW p \in Peer, Elsewhere(p), NEW q \in Peer, q = Other(p),
         ReadComplete(p)
  PROVE  Outbound(p) /\ Tables(p) /\ \A i \in StreamId : Way(q, i)'
  <1>0. TypeInv /\ TableInv
    BY DEF WayInv, CreditInv, TableInv, IdInv
  <1>k. PICK k : k = Incoming(p).id
    OBVIOUS
  <1> DEFINE s == stream[p][k]
             t == [s EXCEPT !.inClosed = TRUE]
  <1>1. /\ ReadsLive(p, {"COMPLETE"}) /\ Release(p, k, t)
        /\ UNCHANGED <<pending, jobs, written, flying, nextId, highestRemote>>
    BY <1>k DEF ReadComplete, idVars, writerVars
  <1>2. /\ k \in StreamId /\ k \in live[p] /\ Incoming(p).kind = "COMPLETE"
        /\ wire[q] # <<>> /\ wire'[q] = Tail(wire[q]) /\ wire'[p] = wire[p]
        /\ wire[q] \in Seq(Frame) /\ Incoming(p) = Head(wire[q]) /\ s \in Stream
        /\ ~IllegalHere(p, Incoming(p)) /\ On(wire[q], "COMPLETE", k)
    BY <1>0, <1>k, <1>1, FrameTaken
  <1>3. ~(s.expected > 0)
    BY <1>2, <1>k DEF IllegalHere
  <1>4. t.got = s.got /\ t.expected = s.expected /\ t.inClosed /\ t.cancelled = s.cancelled
    BY <1>2 DEF Stream
  <1>5. SameOutbound(s, t) /\ t.handle = s.handle
    BY <1>2 DEF Stream, SameOutbound
  <1> HIDE DEF t
  <1>6. stream' = [stream EXCEPT ![p][k] = t]
    BY <1>1 DEF Release
  <1>7. stream'[p][k] = t /\ \A i \in StreamId \ {k} : stream'[p][i] = stream[p][i]
    BY <1>0, <1>2, <1>6, ChangedStream
  <1>8. live'[p] \subseteq live[p] /\ \A i \in live[p] \ live'[p] : i = k /\ IsClosed(t)
    <2>1. live' = live \/ (IsClosed(t) /\ Leave(p, k))
      BY <1>1 DEF Release
    <2>2. live'[p] = live[p] \/ (IsClosed(t) /\ live'[p] = live[p] \ {k})
      BY <1>0, <1>2, <2>1, LeaveLive
    <2> QED  BY <2>2
  <1>9. Outbound(p) /\ Tables(p)
    <2>1. IsClosed(s) => IsClosed(t)
      BY <1>4, <1>5 DEF IsClosed, SameOutbound
    <2> QED  BY <1>0, <1>1, <1>2, <1>5, <1>6, <1>8, <2>1, OutboundAt
  <1>10. Way(q, k)'
    <2>0. Way(q, k) /\ TypeInv
      BY <1>2, <1>0 DEF WayInv
    <2>1. stream'[q] = stream[q] /\ p = Other(q)
      BY <1>0, <1>2, OtherKept
    <2>2. Finished(q, k)
      BY <1>2 DEF Finished
    <2>3. Delivered(q, k)'
      <3> SUFFICES ASSUME ~t.cancelled PROVE Len(t.got) = stream[q][k].sent
        BY <1>7, <2>1 DEF Delivered
      <3>1. CASE s.inClosed
        BY <1>4, <2>0, <2>1, <3>1 DEF Way, Delivered
      <3>2. CASE ~s.inClosed
        <4>1. ~Begins(q, k) /\ Laid(q, k) = 0
          BY <1>k, <1>1, <1>2, CompleteRead
        <4>4. stream[q][k].sent + One(Begins(q, k)) = Len(s.got) + One(s.expected > 0) + Laid(q, k)
          <5>1. MayComplete(q, k)
            BY <1>2 DEF MayComplete
          <5> QED  BY <1>2, <2>0, <2>1, <3>2, <5>1 DEF Way, Tallied
        <4>5. One(Begins(q, k)) = 0 /\ One(s.expected > 0) = 0
          BY <1>3, <4>1 DEF One
        <4>6. stream[q][k].sent \in Nat /\ Len(s.got) \in Nat
          <5>1. stream[q][k] \in Stream
            BY <1>2, <2>0, CreditNumbers
          <5>2. stream[q][k].sent \in Nat
            BY <5>1 DEF Stream
          <5> HIDE DEF s
          <5>3. s.got \in Seq(Seq(Unit))
            BY <1>2 DEF Stream
          <5> QED  BY <5>2, <5>3
        <4> HIDE DEF s
        <4> QED  BY <1>4, <4>1, <4>4, <4>5, <4>6
      <3> QED  BY <3>1, <3>2
    <2>4. ~(k \in live'[p] /\ ~stream'[p][k].inClosed)
      BY <1>4, <1>7
    <2> QED  BY <1>1, <1>2, <2>2, <2>3, <2>4, InwardWay
  <1>11. ASSUME NEW i \in StreamId, i # k PROVE Way(q, i)'
    <2>1. stream'[p][i] = stream[p][i] /\ live'[p] \subseteq live[p]
      BY <1>7, <1>8, <1>11
    <2> QED  BY <1>k, <1>1, <1>2, <1>11, <2>1, InwardElsewhere
  <1> QED  BY <1>9, <1>10, <1>11

LEMMA InitWay == Init => WayInv
  <1> SUFFICES ASSUME Init PROVE WayInv
    OBVIOUS
  <1>1. CreditInv
    BY InitCredit
  <1>2. ASSUME NEW q \in Peer, NEW i \in StreamId PROVE Way(q, i)
    <2>1. Other(q) \in Peer
      BY PeerFacts
    <2>2. /\ wire[q] = <<>> /\ jobs[q] = <<>> /\ live[Other(q)] = {}
          /\ stream[q][i].sent = 0 /\ ~stream[Other(q)][i].inClosed
      BY <2>1 DEF Init, NewStream
    <2>3. Unsent(q, i)
      BY <2>2, OnNone DEF Unsent
    <2>4. CompleteLast(wire[q], i)
      BY <2>2 DEF CompleteLast
    <2>5. ~Finished(q, i)
      BY <2>2, OnNone DEF Finished
    <2>6. Tallied(q, i) /\ Delivered(q, i)
      BY <2>2 DEF Tallied, Delivered
    <2> QED  BY <2>3, <2>4, <2>5, <2>6 DEF Way
  <1> QED  BY <1>1, <1>2 DEF WayInv

\* What the specials establish, for both directions.
LEMMA HastensWay ==
  ASSUME WayInv, Next, NEW p \in Peer, Elsewhere(p), Hastens(p)
  PROVE  Inbound(p) /\ Tables(p) /\ \A i \in StreamId : Way(p, i)'
  BY WriteFrameWay, DataWrittenWay, CompleteWrittenWay, SendNextWay DEF Hastens

LEMMA GathersWay ==
  ASSUME WayInv, Next, NEW p \in Peer, Elsewhere(p), NEW q \in Peer, q = Other(p), Gathers(p)
  PROVE  Outbound(p) /\ Tables(p) /\ \A i \in StreamId : Way(q, i)'
  BY ReadItemWay, ReadCompleteWay DEF Gathers

LEMMA NextWay ==
  ASSUME WayInv, [Next]_vars
  PROVE  WayInv'
  <1>1. CreditInv
    BY DEF WayInv
  <1>2. CreditInv'
    BY <1>1, NextCredit
  <1>3. CASE UNCHANGED vars
    <2>1. ASSUME NEW q \in Peer, NEW i \in StreamId PROVE Way(q, i)'
      <3>1. Way(q, i)
        BY DEF WayInv
      <3>2. /\ stream' = stream /\ live' = live /\ jobs' = jobs /\ written' = written
            /\ flying' = flying /\ wire' = wire /\ session' = session /\ nextId' = nextId
            /\ highestRemote' = highestRemote
        BY <1>3 DEF vars, tableVars, idVars, writerVars, readerVars, stateVars
      <3>3. (IsPast(q, i)' <=> IsPast(q, i)) /\ (IsPast(Other(q), i)' <=> IsPast(Other(q), i))
            /\ (Ready(q)' <=> Ready(q)) /\ (Begins(q, i)' <=> Begins(q, i))
            /\ (Closing(q, i)' <=> Closing(q, i)) /\ Laid(q, i)' = Laid(q, i)
        BY <3>2 DEF IsPast, Ready, Begins, Begun, Closing, Laid
      <3>4. (Shut(q, i)' <=> Shut(q, i)) /\ (Finished(q, i)' <=> Finished(q, i))
        BY <3>2, <3>3 DEF Shut, Finished
      <3>5. Unsent(q, i)' /\ Delivered(q, i)' /\ CompleteLast(wire[q], i)'
        BY <3>1, <3>2, <3>3 DEF Way, Unsent, Delivered
      <3>6. MayComplete(q, i)' <=> MayComplete(q, i)
        BY <3>2, <3>3 DEF MayComplete
      <3>7. Tallied(q, i)'
        BY <3>1, <3>2, <3>3, <3>6 DEF Way, Tallied, One
      <3> QED  BY <3>1, <3>4, <3>5, <3>7 DEF Way
    <2> QED  BY <1>2, <2>1 DEF WayInv
  <1>4. CASE Next
    <2>1. PICK p \in Peer :
           /\ Elsewhere(p)
           /\ (Soft(p) /\ Asked(p)) \/ (Soft(p) /\ Demanding(p)) \/ Hastens(p) \/ Gathers(p)
      BY <1>1, <1>4, FlowKinds
    <2>2. PICK q \in Peer : q = Other(p) /\ \A r \in Peer : r = p \/ r = q
      <3>1. TypeInv
        BY <1>1 DEF CreditInv, TableInv, IdInv
      <3> QED  BY <3>1, PeerFacts DEF Peer, Other
    <2>3. ASSUME NEW i \in StreamId PROVE Way(p, i)' /\ Way(q, i)'
      <3>1. CASE Soft(p)
        BY <1>4, <2>1, <2>2, <3>1, InboundWay, OutboundWay DEF Soft
      <3>2. CASE Hastens(p)
        BY <1>4, <2>1, <2>2, <3>2, HastensWay, InboundWay
      <3>3. CASE Gathers(p)
        BY <1>4, <2>1, <2>2, <3>3, GathersWay, OutboundWay
      <3> QED  BY <2>1, <3>1, <3>2, <3>3
    <2>4. \A r \in Peer, i \in StreamId : Way(r, i)'
      BY <2>2, <2>3
    <2> QED  BY <1>2, <2>4 DEF WayInv
  <1> QED  BY <1>3, <1>4

LEMMA WayInvariant == Spec => []WayInv
  <1>1. WayInv /\ [Next]_vars => WayInv'
    BY NextWay
  <1> QED  BY InitWay, <1>1, PTL DEF Spec

\* COMPLETE tells the receiver that it has every item whose send() resolved.
THEOREM CompleteAlwaysMeansAll == Spec => []CompleteMeansAll
  <1>1. WayInv => CompleteMeansAll
    <2> SUFFICES ASSUME WayInv, NEW p \in Peer, NEW i \in StreamId,
                        stream[p][i].inClosed, ~stream[p][i].cancelled
                 PROVE  Len(stream[p][i].got) = stream[Other(p)][i].sent
      BY DEF CompleteMeansAll
    <2>1. PICK q \in Peer : q = Other(p) /\ p = Other(q)
      BY PeerFacts DEF Peer, Other
    <2>2. Delivered(q, i)
      BY DEF WayInv, Way
    <2> QED  BY <2>1, <2>2 DEF Delivered
  <1> QED  BY <1>1, WayInvariant, PTL
=============================================================================
