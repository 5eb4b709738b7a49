----------------------- MODULE PrpSessionTableProofs ------------------------
(***************************************************************************)
(* Type correctness of PrpSession, what the session's counters and byte    *)
(* budgets say about its table, that no stream id is used twice, and that  *)
(* the table holds open streams only, for every value of the constants.    *)
(*                                                                         *)
(* TypeInv adds to TypeOK what a queue's head must satisfy while a write   *)
(* is pending: there is a first job, and only DATA has more than one       *)
(* frame. There is one lemma for each operator on data, each operator that *)
(* changes the table or a queue, and each action.                          *)
(*                                                                         *)
(* Neither counters nor ids are inductive alone: a counter stays exact     *)
(* only if the id that enters the table is not in it already. IdInv says   *)
(* why it never is: the ids of both sides grow past two frontiers and keep *)
(* their parity, and openTail lets one OPEN wait at a time. That the table *)
(* is open rests on TableInv: a stream whose id has not been used is       *)
(* untouched, so a rolled back OPEN leaves nothing behind it, and a        *)
(* stream's writeTail has one call writing at a time. The budgets rest on  *)
(* it too: what a stream has reserved is found, with the stream, where it  *)
(* is given back.                                                          *)
(*                                                                         *)
(* Every step of a peer is of one of seven kinds as far as the table is    *)
(* concerned (StepKinds); each theorem then takes one lemma per kind.      *)
(***************************************************************************)
EXTENDS PrpSession, TLAPS, FiniteSetTheorems, SequenceTheorems

-----------------------------------------------------------------------------
(* Operators on data                                                       *)

\* The two peers are each other's other.
LEMMA PeerFacts ==
  ASSUME NEW p \in Peer
  PROVE  Other(p) \in Peer /\ Other(p) # p
  BY DEF Peer, Other

\* The operators that make a stream, add credit and count down.
LEMMA NewStreamType ==
  ASSUME NEW w \in Nat
  PROVE  NewStream(w) \in Stream
  <1>1. 0 \in 0..MaxCredit
    BY BoundsAssumption
  <1> QED  BY <1>1 DEF NewStream, Stream

LEMMA CancelledType ==
  ASSUME NEW s \in Stream
  PROVE  Cancelled(s) \in Stream
  <1>1. \A none \in Seq(Op), nothing \in Seq(Unit) :
          [s EXCEPT !.cancelled = TRUE, !.inClosed = TRUE, !.outClosed = TRUE,
                    !.expected = 0, !.partial = nothing, !.tail = none] \in Stream
    BY DEF Stream
  <1>2. <<>> \in Seq(Op)
    OBVIOUS
  <1>3. <<>> \in Seq(Unit)
    OBVIOUS
  <1>4. [s EXCEPT !.cancelled = TRUE, !.inClosed = TRUE, !.outClosed = TRUE,
                  !.expected = 0, !.partial = <<>>, !.tail = <<>>] \in Stream
    BY <1>1, <1>2, <1>3, Zenon
  <1> QED  BY <1>4 DEF Cancelled

LEMMA AddCreditType ==
  ASSUME NEW a \in Nat, NEW b \in Nat
  PROVE  AddCredit(a, b) \in 0..MaxCredit
  BY BoundsAssumption DEF AddCredit

LEMMA LessType ==
  ASSUME NEW a \in Nat, NEW b
  PROVE  Less(a, b) \in Nat
  <1>1. CASE b \in 0..a
    BY <1>1 DEF Less
  <1>2. CASE b \notin 0..a
    BY <1>2 DEF Less
  <1> QED  BY <1>1, <1>2

\* The tombstones stay a list of stream ids.
LEMMA RetireType ==
  ASSUME NEW q \in Seq([id : StreamId, late : BOOLEAN]),
         NEW i \in StreamId, NEW late \in BOOLEAN
  PROVE  Retire(q, i, late) \in Seq([id : StreamId, late : BOOLEAN])
  <1> DEFINE longer == Append(q, [id |-> i, late |-> late])
  <1>1. longer \in Seq([id : StreamId, late : BOOLEAN]) /\ longer # <<>>
    OBVIOUS
  <1>2. Tail(longer) \in Seq([id : StreamId, late : BOOLEAN])
    BY <1>1
  <1> QED  BY <1>1, <1>2 DEF Retire

-----------------------------------------------------------------------------
(* Operators on the table                                                  *)

\* Each operator of the table keeps its type when it gets a stream's state.
LEMMA UpdateType ==
  ASSUME TableType, NEW p \in Peer, NEW i \in StreamId, NEW s \in Stream,
         Update(p, i, s)
  PROVE  TableType'
  BY DEF TableType, Update

LEMMA LeaveType ==
  ASSUME TableType, NEW p \in Peer, NEW i \in StreamId, Leave(p, i)
  PROVE  /\ live' \in [Peer -> SUBSET StreamId]
         /\ localActive' \in [Peer -> Nat] /\ remoteActive' \in [Peer -> Nat]
         /\ retained' \in [Peer -> Nat]
  <1>1. Less(localActive[p], 1) \in Nat /\ Less(remoteActive[p], 1) \in Nat
    BY LessType DEF TableType
  <1>2. Less(retained[p], stream[p][i].weight) \in Nat
    BY LessType DEF TableType
  <1>3. CASE i \notin live[p]
    BY <1>3 DEF TableType, Leave
  <1>4. CASE i \in live[p]
    <2>1. /\ live' = [live EXCEPT ![p] = @ \ {i}]
          /\ retained' = [retained EXCEPT ![p] = Less(@, stream[p][i].weight)]
      BY <1>4 DEF Leave
    <2>2. \/ /\ localActive' = [localActive EXCEPT ![p] = Less(@, 1)]
             /\ remoteActive' = remoteActive
          \/ /\ remoteActive' = [remoteActive EXCEPT ![p] = Less(@, 1)]
             /\ localActive' = localActive
      BY <1>4 DEF Leave
    <2>3. live' \in [Peer -> SUBSET StreamId] /\ retained' \in [Peer -> Nat]
      BY <2>1, <1>2 DEF TableType
    <2>4. localActive' \in [Peer -> Nat] /\ remoteActive' \in [Peer -> Nat]
      BY <2>2, <1>1 DEF TableType
    <2> QED  BY <2>3, <2>4
  <1> QED  BY <1>3, <1>4

LEMMA EnterType ==
  ASSUME TableType, NEW p \in Peer, NEW i \in StreamId,
         stream'[p][i].weight \in Nat, Enter(p, i)
  PROVE  /\ live' \in [Peer -> SUBSET StreamId]
         /\ localActive' \in [Peer -> Nat] /\ remoteActive' \in [Peer -> Nat]
         /\ retained' \in [Peer -> Nat]
  <1>1. /\ live' = [live EXCEPT ![p] = @ \cup {i}]
        /\ retained' = [retained EXCEPT ![p] = @ + stream'[p][i].weight]
    BY DEF Enter
  <1>2. live' \in [Peer -> SUBSET StreamId] /\ retained' \in [Peer -> Nat]
    <2>1. live[p] \cup {i} \in SUBSET StreamId
      BY DEF TableType
    <2>2. retained[p] + stream'[p][i].weight \in Nat
      BY DEF TableType
    <2> QED  BY <1>1, <2>1, <2>2 DEF TableType
  <1>3. /\ [localActive EXCEPT ![p] = @ + 1] \in [Peer -> Nat]
        /\ [remoteActive EXCEPT ![p] = @ + 1] \in [Peer -> Nat]
    BY DEF TableType
  <1>4. localActive' \in [Peer -> Nat] /\ remoteActive' \in [Peer -> Nat]
    BY <1>3 DEF TableType, Enter
  <1> QED  BY <1>2, <1>4

LEMMA CancelStreamType ==
  ASSUME TableType, NEW p \in Peer, NEW i \in StreamId, NEW s \in Stream,
         NEW late \in BOOLEAN, CancelStream(p, i, s, late)
  PROVE  TableType'
  <1>1. stream' \in [Peer -> [StreamId -> Stream]]
    BY CancelledType DEF TableType, CancelStream
  <1>2. reassembling' \in [Peer -> Nat]
    BY LessType DEF TableType, CancelStream
  <1>3. retired' \in [Peer -> Seq([id : StreamId, late : BOOLEAN])]
    BY RetireType DEF TableType, CancelStream
  <1>4. Leave(p, i)
    BY DEF CancelStream
  <1> QED  BY <1>1, <1>2, <1>3, <1>4, LeaveType DEF TableType

LEMMA ReleaseType ==
  ASSUME TableType, NEW p \in Peer, NEW i \in StreamId, NEW s \in Stream,
         Release(p, i, s)
  PROVE  TableType'
  <1>1. /\ stream' \in [Peer -> [StreamId -> Stream]]
        /\ reassembling' \in [Peer -> Nat]
    BY DEF TableType, Release
  <1>2. CASE IsClosed(s)
    <2>1. retired' \in [Peer -> Seq([id : StreamId, late : BOOLEAN])]
      <3>1. retired' = [retired EXCEPT ![p] = Retire(@, i, FALSE)]
        BY <1>2 DEF Release
      <3>2. Retire(retired[p], i, FALSE) \in Seq([id : StreamId, late : BOOLEAN])
        BY RetireType DEF TableType
      <3> QED  BY <3>1, <3>2 DEF TableType
    <2>2. Leave(p, i)
      BY <1>2 DEF Release
    <2> QED  BY <1>1, <2>1, <2>2, LeaveType DEF TableType
  <1>3. CASE ~IsClosed(s)
    BY <1>1, <1>3 DEF TableType, Release
  <1> QED  BY <1>2, <1>3

-----------------------------------------------------------------------------
(* Jobs and queues                                                         *)

\* A plain job, and the changes the actions make to one.
LEMMA PlainType ==
  ASSUME NEW kind \in JobKind \ {"CLOSE"}, NEW i \in StreamId
  PROVE  Plain(kind, i) \in JobOf(JobKind \ {"CLOSE"}, StreamId)
  BY DEF Plain, JobOf

LEMMA JobChanges ==
  ASSUME NEW j \in JobOf(JobKind \ {"CLOSE"}, StreamId), NEW n \in Nat, NEW m \in Nat,
         NEW b \in BOOLEAN, NEW c \in BOOLEAN
  PROVE  /\ j \in Job /\ j.id \in StreamId
         /\ [j EXCEPT !.amount = n] \in Job
         /\ [j EXCEPT !.amount = n, !.fits = b] \in Job
         /\ [j EXCEPT !.item = n, !.size = m] \in Job
         /\ [j EXCEPT !.fits = b] \in Job
         /\ [j EXCEPT !.fits = b, !.reader = c] \in Job
  BY DEF Job, JobOf

LEMMA CloseJobType ==
  ASSUME NEW b \in BOOLEAN
  PROVE  [Plain("CLOSE", 0) EXCEPT !.fits = b] \in Job
  BY DEF Plain, Job, JobOf, JobKind

\* A queue that gets a job is not empty, and its first job stays first.
LEMMA AppendType ==
  ASSUME NEW S, NEW q \in Seq(S), NEW e \in S
  PROVE  Append(q, e) \in Seq(S) /\ Append(q, e) # <<>>
  <1>1. Append(q, e) \in Seq(S) /\ Len(Append(q, e)) = Len(q) + 1
    OBVIOUS
  <1>2. Len(q) + 1 # 0
    BY LenProperties
  <1> QED  BY <1>1, <1>2, EmptySeq

LEMMA AppendHead ==
  ASSUME NEW S, NEW q \in Seq(S), NEW e \in S, q # <<>>
  PROVE  Head(Append(q, e)) = Head(q)
  <1>1. Len(q) \in Nat \ {0}
    BY EmptySeq
  <1> QED  BY <1>1

LEMMA QueueType ==
  ASSUME WriterType, NEW p \in Peer, NEW job \in Job, Queue(p, job)
  PROVE  /\ jobs' \in [Peer -> Seq(Job)]
         /\ \A q \in Peer : jobs[q] # <<>> =>
               jobs'[q] # <<>> /\ Head(jobs'[q]) = Head(jobs[q])
  <1>1. Append(jobs[p], job) \in Seq(Job) /\ Append(jobs[p], job) # <<>>
    BY AppendType DEF WriterType
  <1>2. jobs' = [jobs EXCEPT ![p] = Append(jobs[p], job)]
    BY DEF Queue
  <1>3. jobs' \in [Peer -> Seq(Job)]
    BY <1>1, <1>2 DEF WriterType
  <1>4. \A q \in Peer : jobs'[q] = IF q = p THEN Append(jobs[p], job) ELSE jobs[q]
    BY <1>2 DEF WriterType
  <1>5. jobs[p] # <<>> => Head(Append(jobs[p], job)) = Head(jobs[p])
    BY AppendHead DEF WriterType
  <1>6. \A q \in Peer : jobs[q] # <<>> =>
          jobs'[q] # <<>> /\ Head(jobs'[q]) = Head(jobs[q])
    BY <1>1, <1>4, <1>5, Zenon
  <1> QED  BY <1>3, <1>6

-----------------------------------------------------------------------------
(* States of a stream                                                      *)

\* Credit that is there can be spent.
LEMMA CreditFacts ==
  /\ MaxCredit \in Nat /\ MaxCredit > 0
  /\ \A c \in 0..MaxCredit : c > 0 => c - 1 \in 0..MaxCredit /\ c - 1 \in Nat
  <1>1. MaxCredit \in Nat \ {0}
    BY BoundsAssumption
  <1> QED  BY <1>1

\* The states the operations give a stream: after request, send, a taken or
\* written item, an end of a direction, a grant, and a published item.
LEMMA RequestedType ==
  ASSUME NEW s \in Stream, NEW n \in Nat
  PROVE  [s EXCEPT !.inCredit = AddCredit(@, n), !.asked = @ + n] \in Stream
  <1>1. s.inCredit \in Nat /\ s.asked \in Nat
    BY CreditFacts DEF Stream
  <1>2. AddCredit(s.inCredit, n) \in 0..MaxCredit
    BY <1>1, AddCreditType
  <1>3. s.asked + n \in Nat
    BY <1>1
  <1>4. \A c \in 0..MaxCredit, k \in Nat : [s EXCEPT !.inCredit = c, !.asked = k] \in Stream
    BY DEF Stream
  <1> QED  BY <1>2, <1>3, <1>4

LEMMA SentType ==
  ASSUME NEW s \in Stream, NEW op \in Op
  PROVE  /\ [s EXCEPT !.calls = @ + 1, !.tail = Append(@, op)] \in Stream
         /\ [s EXCEPT !.tail = Append(@, op)] \in Stream
  <1>1. s.calls + 1 \in Nat /\ s.tail \in Seq(Op)
    BY DEF Stream
  <1>2. Append(s.tail, op) \in Seq(Op)
    BY <1>1, AppendType
  <1>3. \A k \in Nat, t \in Seq(Op) : /\ [s EXCEPT !.calls = k, !.tail = t] \in Stream
                                      /\ [s EXCEPT !.tail = t] \in Stream
    BY DEF Stream
  <1> QED  BY <1>1, <1>2, <1>3

LEMMA HandledType ==
  ASSUME NEW s \in Stream
  PROVE  /\ [s EXCEPT !.handle = TRUE] \in Stream
         /\ [s EXCEPT !.busy = FALSE] \in Stream
         /\ [s EXCEPT !.busy = FALSE, !.sent = @ + 1] \in Stream
  <1>1. s.sent + 1 \in Nat
    BY DEF Stream
  <1> QED  BY <1>1 DEF Stream

LEMMA ClosedType ==
  ASSUME NEW s \in Stream
  PROVE  /\ [s EXCEPT !.outClosed = TRUE, !.tail = <<>>, !.busy = FALSE] \in Stream
         /\ [s EXCEPT !.inClosed = TRUE] \in Stream
  <1>1. <<>> \in Seq(Op)
    OBVIOUS
  <1>2. \A t \in Seq(Op) :
          [s EXCEPT !.outClosed = TRUE, !.tail = t, !.busy = FALSE] \in Stream
    BY DEF Stream
  <1>3. [s EXCEPT !.inClosed = TRUE] \in Stream
    BY DEF Stream
  <1> QED  BY <1>1, <1>2, <1>3, Zenon

LEMMA GrantedType ==
  ASSUME NEW s \in Stream, NEW n \in Nat
  PROVE  [s EXCEPT !.outCredit = AddCredit(@, n)] \in Stream
  <1>1. s.outCredit \in Nat
    BY CreditFacts DEF Stream
  <1>2. AddCredit(s.outCredit, n) \in 0..MaxCredit
    BY <1>1, AddCreditType
  <1>3. \A c \in 0..MaxCredit : [s EXCEPT !.outCredit = c] \in Stream
    BY DEF Stream
  <1> QED  BY <1>2, <1>3

LEMMA PublishedType ==
  ASSUME NEW s \in Stream, NEW data \in Seq(Unit), NEW n \in Nat
  PROVE  /\ s.inCredit - 1 \in 0..MaxCredit =>
              [s EXCEPT !.inCredit = @ - 1, !.got = Append(s.got, data)] \in Stream
         /\ s.inCredit - 1 \in 0..MaxCredit =>
              [s EXCEPT !.inCredit = @ - 1, !.expected = n, !.partial = data] \in Stream
         /\ [s EXCEPT !.partial = data] \in Stream
         /\ [s EXCEPT !.expected = 0, !.partial = <<>>, !.got = Append(@, data)] \in Stream
  <1>1. Append(s.got, data) \in Seq(Seq(Unit))
    <2>1. s.got \in Seq(Seq(Unit))
      BY DEF Stream
    <2> QED  BY <2>1, AppendType
  <1>2. <<>> \in Seq(Unit)
    OBVIOUS
  <1>3. \A c \in 0..MaxCredit, got \in Seq(Seq(Unit)) :
          [s EXCEPT !.inCredit = c, !.got = got] \in Stream
    BY DEF Stream
  <1>4. \A c \in 0..MaxCredit, partial \in Seq(Unit) :
          [s EXCEPT !.inCredit = c, !.expected = n, !.partial = partial] \in Stream
    BY DEF Stream
  <1>5. \A got \in Seq(Seq(Unit)), partial \in Seq(Unit) :
          [s EXCEPT !.expected = 0, !.partial = partial, !.got = got] \in Stream
    BY DEF Stream
  <1>6. [s EXCEPT !.expected = 0, !.partial = <<>>, !.got = Append(s.got, data)] \in Stream
    BY <1>1, <1>2, <1>5, Zenon
  <1>7. [s EXCEPT !.partial = data] \in Stream
    BY DEF Stream
  <1> QED  BY <1>1, <1>3, <1>4, <1>6, <1>7

\* What the types say of a stream, of the first job and of the first frame.
LEMMA StreamOf ==
  ASSUME TableType, NEW p \in Peer, NEW i \in StreamId
  PROVE  stream[p][i] \in Stream
  BY DEF TableType

LEMMA FirstJob ==
  ASSUME WriterType, NEW p \in Peer, jobs[p] # <<>>
  PROVE  /\ Head(jobs[p]) \in Job /\ Head(jobs[p]).kind \in JobKind
         /\ Head(jobs[p]).kind # "CLOSE" => Head(jobs[p]).id \in StreamId
         /\ [jobs EXCEPT ![p] = Tail(@)] \in [Peer -> Seq(Job)]
  <1>1. jobs[p] \in Seq(Job)
    BY DEF WriterType
  <1>2. Head(jobs[p]) \in Job /\ Tail(jobs[p]) \in Seq(Job)
    BY <1>1, HeadTailProperties
  <1>3. [jobs EXCEPT ![p] = Tail(@)] \in [Peer -> Seq(Job)]
    BY <1>2 DEF WriterType
  <1>4. \A j \in Job : j.kind \in JobKind /\ (j.kind # "CLOSE" => j.id \in StreamId)
    BY DEF Job, JobOf, JobKind
  <1> QED  BY <1>2, <1>3, <1>4

LEMMA FirstFrame ==
  ASSUME ReaderType, NEW p \in Peer, wire[Other(p)] # <<>>
  PROVE  /\ Incoming(p) \in Frame
         /\ Incoming(p).kind # "CLOSE" => Incoming(p).id \in StreamId
         /\ Incoming(p).item \in Nat /\ Incoming(p).part \in Nat
         /\ Incoming(p).size \in Nat /\ Incoming(p).amount \in Nat
         /\ [wire EXCEPT ![Other(p)] = Tail(@)] \in [Peer -> Seq(Frame)]
  <1>1. wire[Other(p)] \in Seq(Frame)
    BY PeerFacts DEF ReaderType
  <1>2. Incoming(p) \in Frame /\ Tail(wire[Other(p)]) \in Seq(Frame)
    BY <1>1, HeadTailProperties DEF Incoming
  <1>3. [wire EXCEPT ![Other(p)] = Tail(@)] \in [Peer -> Seq(Frame)]
    BY <1>2, PeerFacts DEF ReaderType
  <1>4. \A f \in Frame : /\ f.kind # "CLOSE" => f.id \in StreamId
                         /\ f.item \in Nat /\ f.part \in Nat
                         /\ f.size \in Nat /\ f.amount \in Nat
    BY DEF Frame, FrameOf, JobKind
  <1> QED  BY <1>2, <1>3, <1>4

\* What is being written is the first job, and only DATA takes several frames.
WritesFirst == \A p \in Peer :
  /\ flying[p] => jobs[p] # <<>>
  /\ written[p] > 0 => jobs[p] # <<>> /\ Head(jobs[p]).kind = "DATA"
TypeInv == TypeOK /\ WritesFirst

LEMMA JobDoneType ==
  ASSUME WriterType, WritesFirst, NEW p \in Peer, jobs[p] # <<>>, JobDone(p)
  PROVE  WriterType' /\ WritesFirst'
  <1>1. WriterType'
    BY FirstJob DEF WriterType, JobDone
  <1>2. WritesFirst'
    BY DEF WriterType, WritesFirst, JobDone
  <1> QED  BY <1>1, <1>2

LEMMA ConsumeType ==
  ASSUME ReaderType, NEW p \in Peer, CanRead(p), Consume(p)
  PROVE  wire' \in [Peer -> Seq(Frame)] /\ inSeq' \in [Peer -> Nat]
  BY FirstFrame DEF ReaderType, Consume, CanRead

-----------------------------------------------------------------------------
(* The application's calls                                                 *)

\* One lemma per action from here on: the action keeps TypeInv.
LEMMA OpenType ==
  ASSUME TypeInv, NEW p \in Peer, Open(p)
  PROVE  TypeInv'
  <1> DEFINE i == nextId[p]
  <1>1. PICK w \in Weights, fits \in Encodable :
          /\ stream' = [stream EXCEPT ![p][i] = NewStream(w)]
          /\ Enter(p, i)
          /\ Queue(p, [Plain("OPEN", i) EXCEPT !.amount = w, !.fits = fits])
    BY DEF Open
  <1>2. i \in StreamId /\ w \in Nat /\ fits \in BOOLEAN
    BY CallsAssumption DEF Open
  <1>3. stream' \in [Peer -> [StreamId -> Stream]] /\ stream'[p][i].weight \in Nat
    BY <1>1, <1>2, NewStreamType DEF TypeInv, TypeOK, TableType, NewStream
  <1>4. TableType'
    BY <1>1, <1>2, <1>3, EnterType DEF TypeInv, TypeOK, TableType, Open
  <1>5. [Plain("OPEN", i) EXCEPT !.amount = w, !.fits = fits] \in Job
    BY <1>2, PlainType, JobChanges DEF JobKind
  <1>6. WriterType' /\ WritesFirst'
    BY <1>1, <1>5, QueueType DEF TypeInv, TypeOK, WriterType, WritesFirst, Open
  <1>7. StateType' /\ IdType' /\ ReaderType'
    BY DEF TypeInv, TypeOK, StateType, IdType, ReaderType, Open, readerVars, stateVars
  <1> QED  BY <1>4, <1>6, <1>7 DEF TypeInv, TypeOK

LEMMA RequestType ==
  ASSUME TypeInv, NEW p \in Peer, NEW i \in StreamId, NEW n \in Demands, Request(p, i, n)
  PROVE  TypeInv'
  <1> DEFINE s == stream[p][i]
             t == [s EXCEPT !.inCredit = AddCredit(@, n), !.asked = @ + n]
  <1>1. s \in Stream /\ n \in Nat
    BY StreamOf, CallsAssumption, BoundsAssumption DEF TypeInv, TypeOK
  <1>2. t \in Stream
    BY <1>1, RequestedType
  <1>3. TableType'
    BY <1>2, UpdateType, SMTT(30) DEF Request, TypeInv, TypeOK
  <1>4. [Plain("DEMAND", i) EXCEPT !.amount = n] \in Job
    BY <1>1, PlainType, JobChanges DEF JobKind
  <1>5. WriterType' /\ WritesFirst'
    BY <1>4, QueueType DEF TypeInv, TypeOK, WriterType, WritesFirst, Request
  <1>6. StateType' /\ IdType' /\ ReaderType'
    BY DEF TypeInv, TypeOK, StateType, IdType, ReaderType, Request, readerVars, stateVars, idVars
  <1> QED  BY <1>3, <1>5, <1>6 DEF TypeInv, TypeOK

\* Most steps of a stream change only the table.
LEMMA OnlyTable ==
  ASSUME TypeInv, TableType', UNCHANGED <<idVars, writerVars, readerVars, stateVars>>
  PROVE  TypeInv'
  BY DEF TypeInv, TypeOK, WritesFirst, StateType, IdType, WriterType, ReaderType, idVars,
         writerVars, readerVars, stateVars

LEMMA SendType ==
  ASSUME TypeInv, NEW p \in Peer, NEW i \in StreamId, NEW size \in ItemSizes,
         Send(p, i, size)
  PROVE  TypeInv'
  <1> DEFINE s == stream[p][i]
             op == [kind |-> "send", item |-> s.calls + 1, size |-> size]
  <1>1. s \in Stream /\ size \in Nat
    BY StreamOf, CallsAssumption DEF TypeInv, TypeOK
  <1>2. op \in Op
    <2>1. \A t \in Stream : t.calls + 1 \in Nat
      BY DEF Stream
    <2> QED  BY <1>1, <2>1 DEF Op
  <1>4. [s EXCEPT !.calls = @ + 1, !.tail = Append(@, op)] \in Stream
    BY <1>1, <1>2, SentType
  <1>5. TableType'
    BY <1>4, UpdateType DEF Send, TypeInv, TypeOK
  <1> QED  BY <1>5, OnlyTable DEF Send

LEMMA CompleteType ==
  ASSUME TypeInv, NEW p \in Peer, NEW i \in StreamId, Complete(p, i)
  PROVE  TypeInv'
  <1> DEFINE s == stream[p][i]
             op == [kind |-> "complete", item |-> 0, size |-> 1]
  <1>1. s \in Stream
    BY StreamOf DEF TypeInv, TypeOK
  <1>2. op \in Op
    BY DEF Op
  <1>4. [s EXCEPT !.tail = Append(@, op)] \in Stream
    BY <1>1, <1>2, SentType
  <1>5. TableType'
    BY <1>4, UpdateType DEF Complete, TypeInv, TypeOK
  <1> QED  BY <1>5, OnlyTable DEF Complete

LEMMA EndType ==
  ASSUME TypeInv, NEW p \in Peer, NEW i \in StreamId, Cancel(p, i) \/ Fail(p, i)
  PROVE  TypeInv'
  <1>1. PICK call \in {"cancel", "fail"}, kind \in {"CANCEL", "ERROR"} : End(p, i, call, kind)
    BY DEF Cancel, Fail
  <1>2. TableType'
    BY <1>1, StreamOf, CancelStreamType DEF End, TypeInv, TypeOK
  <1>3. PICK fits \in Encodable : Queue(p, [Plain(kind, i) EXCEPT !.fits = fits])
    BY <1>1 DEF End
  <1>4. [Plain(kind, i) EXCEPT !.fits = fits] \in Job
    BY PlainType, JobChanges, CallsAssumption DEF JobKind
  <1>5. WriterType' /\ WritesFirst'
    BY <1>1, <1>3, <1>4, QueueType DEF TypeInv, TypeOK, WriterType, WritesFirst, End
  <1>6. StateType' /\ IdType' /\ ReaderType'
    BY <1>1 DEF TypeInv, TypeOK, StateType, IdType, ReaderType, End, readerVars, stateVars, idVars
  <1> QED  BY <1>2, <1>5, <1>6 DEF TypeInv, TypeOK

LEMMA TakeIncomingType ==
  ASSUME TypeInv, NEW p \in Peer, TakeIncoming(p)
  PROVE  TypeInv'
  <1> DEFINE i == Head(pending[p])
  <1>1. i \in StreamId /\ Tail(pending[p]) \in Seq(StreamId)
    <2>1. pending[p] \in Seq(StreamId) /\ pending[p] # <<>>
      BY DEF TypeInv, TypeOK, IdType, TakeIncoming
    <2> QED  BY <2>1, HeadTailProperties
  <1>2. [stream[p][i] EXCEPT !.handle = TRUE] \in Stream
    <2>1. stream[p][i] \in Stream
      BY <1>1, StreamOf DEF TypeInv, TypeOK
    <2> QED  BY <2>1 DEF Stream
  <1>3. TableType'
    BY <1>1, <1>2, UpdateType DEF TakeIncoming, TypeInv, TypeOK
  <1>4. IdType'
    BY <1>1 DEF TypeInv, TypeOK, IdType, TakeIncoming
  <1>5. StateType' /\ WriterType' /\ WritesFirst' /\ ReaderType'
    BY DEF TypeInv, TypeOK, StateType, WriterType, WritesFirst, ReaderType, TakeIncoming,
           readerVars, stateVars, writerVars
  <1> QED  BY <1>3, <1>4, <1>5 DEF TypeInv, TypeOK

LEMMA CloseType ==
  ASSUME TypeInv, NEW p \in Peer, Close(p) \/ CloseDetached(p)
  PROVE  TypeInv'
  <1>1. CASE Close(p)
    <2>1. PICK fits \in Encodable : Queue(p, [Plain("CLOSE", 0) EXCEPT !.fits = fits])
      BY <1>1 DEF Close
    <2>2. WriterType' /\ WritesFirst'
      BY <1>1, <2>1, CloseJobType, QueueType, CallsAssumption
         DEF TypeInv, TypeOK, WriterType, WritesFirst, Close
    <2>3. TableType' /\ StateType' /\ IdType' /\ ReaderType'
      BY <1>1 DEF TypeInv, TypeOK, TableType, StateType, IdType, ReaderType, Close,
                  tableVars, idVars, readerVars
    <2> QED  BY <2>2, <2>3 DEF TypeInv, TypeOK
  <1>2. CASE CloseDetached(p)
    BY <1>2 DEF TypeInv, TypeOK, WritesFirst, TableType, StateType, IdType, WriterType,
                ReaderType, CloseDetached, tableVars, idVars, writerVars, readerVars
  <1> QED  BY <1>1, <1>2

-----------------------------------------------------------------------------
(* The stream's tail and the session's write queue                         *)

\* A call on a stream's tail takes credit only if there is some.
LEMMA StreamTailType ==
  ASSUME TypeInv, NEW p \in Peer, NEW i \in StreamId, StreamTail(p, i)
  PROVE  TypeInv'
  <1> DEFINE s == stream[p][i]
  <1>1. s \in Stream /\ s.tail \in Seq(Op) /\ s.outCredit \in 0..MaxCredit
    BY StreamOf DEF TypeInv, TypeOK, Stream
  <1>2. s.tail # <<>>
    BY DEF StreamTail, SendNext, SendTooLarge, CompleteNext, Waiting
  <1>3. Head(s.tail) \in Op /\ Tail(s.tail) \in Seq(Op)
    BY <1>1, <1>2, HeadTailProperties
  <1>4. CASE SendNext(p, i)
    <2>1. s.outCredit - 1 \in 0..MaxCredit
      BY <1>1, <1>4, CreditFacts DEF SendNext, HasCredit
    <2>2. [s EXCEPT !.outCredit = @ - 1, !.tail = Tail(@), !.busy = TRUE] \in Stream
      BY <1>1, <1>3, <2>1 DEF Stream
    <2>3. TableType'
      BY <1>4, <2>2, UpdateType DEF SendNext, TypeInv, TypeOK
    <2>4. [Plain("DATA", i) EXCEPT !.item = Head(s.tail).item, !.size = Head(s.tail).size]
            \in Job
      BY <1>3, PlainType, JobChanges DEF JobKind, Op
    <2>5. WriterType' /\ WritesFirst'
      BY <1>4, <2>4, QueueType DEF TypeInv, TypeOK, WriterType, WritesFirst, SendNext
    <2>6. StateType' /\ IdType' /\ ReaderType'
      BY <1>4 DEF TypeInv, TypeOK, StateType, IdType, ReaderType, SendNext, readerVars,
                  stateVars, idVars
    <2> QED  BY <2>3, <2>5, <2>6 DEF TypeInv, TypeOK
  <1>5. CASE SendTooLarge(p, i)
    <2>1. Refund(s) \in 0..MaxCredit
      <3>1. s.outCredit - 1 \in Nat
        BY <1>1, <1>5, CreditFacts DEF SendTooLarge, HasCredit
      <3> QED  BY <3>1, AddCreditType DEF Refund
    <2>2. [s EXCEPT !.outCredit = Refund(s), !.tail = Tail(@)] \in Stream
      BY <1>1, <1>3, <2>1 DEF Stream
    <2>3. TableType'
      BY <1>5, <2>2, UpdateType DEF SendTooLarge, TypeInv, TypeOK
    <2> QED  BY <1>5, <2>3, OnlyTable DEF SendTooLarge
  <1>6. CASE CompleteNext(p, i)
    <2>1. [s EXCEPT !.tail = Tail(@), !.busy = TRUE] \in Stream
      BY <1>1, <1>3 DEF Stream
    <2>2. TableType'
      BY <1>6, <2>1, UpdateType DEF CompleteNext, TypeInv, TypeOK
    <2>3. Plain("COMPLETE", i) \in Job
      BY PlainType, JobChanges DEF JobKind
    <2>4. WriterType' /\ WritesFirst'
      BY <1>6, <2>3, QueueType DEF TypeInv, TypeOK, WriterType, WritesFirst, CompleteNext
    <2>5. StateType' /\ IdType' /\ ReaderType'
      BY <1>6 DEF TypeInv, TypeOK, StateType, IdType, ReaderType, CompleteNext, readerVars,
                  stateVars, idVars
    <2> QED  BY <2>2, <2>4, <2>5 DEF TypeInv, TypeOK
  <1> QED  BY <1>4, <1>5, <1>6 DEF StreamTail

\* detach and finishClosed, whoever calls them: a session that ends loses its queues.
LEMMA SessionEndsType ==
  ASSUME TypeInv, NEW p \in Peer, NEW state \in {"closed", "detached"},
         NEW why \in {"none", "lost", "violation", "exhausted"},
         Over(p, state, why), UNCHANGED <<nextId, highestRemote, closing>>,
         outSeq' \in [Peer -> Nat], inSeq' \in [Peer -> Nat],
         wire' \in [Peer -> Seq(Frame)]
  PROVE  TypeInv'
  <1>1. /\ session' \in [Peer -> {"ready", "closed", "detached"}]
        /\ fault' \in [Peer -> {"none", "lost", "violation", "exhausted"}]
    BY DEF TypeInv, TypeOK, StateType, Over
  <1>2. /\ opening' \in [Peer -> BOOLEAN] /\ written' \in [Peer -> Nat]
        /\ flying' \in [Peer -> BOOLEAN] /\ parked' \in [Peer -> BOOLEAN]
    BY DEF TypeInv, TypeOK, IdType, WriterType, ReaderType, Over
  <1>3. pending' \in [Peer -> Seq(StreamId)] /\ jobs' \in [Peer -> Seq(Job)]
    <2>1. <<>> \in Seq(StreamId) /\ <<>> \in Seq(Job)
      OBVIOUS
    <2> QED  BY <2>1 DEF TypeInv, TypeOK, IdType, WriterType, Over
  <1>4. TableType'
    <2>1. \A s \in Stream : /\ [s EXCEPT !.busy = FALSE] \in Stream
                            /\ [Cancelled(s) EXCEPT !.busy = FALSE] \in Stream
      <3>1. \A s \in Stream : [s EXCEPT !.busy = FALSE] \in Stream
        BY DEF Stream
      <3> QED  BY <3>1, CancelledType
    <2>2. stream' \in [Peer -> [StreamId -> Stream]]
      BY <2>1 DEF TypeInv, TypeOK, TableType, Over
    <2>3. live' \in [Peer -> SUBSET StreamId] /\ retired' = retired
      BY DEF TypeInv, TypeOK, TableType, Over
    <2>4. localActive' \in [Peer -> Nat] /\ remoteActive' \in [Peer -> Nat]
      BY LessType DEF TypeInv, TypeOK, TableType, Over
    <2>5. retained' \in [Peer -> Nat] /\ reassembling' \in [Peer -> Nat]
      BY LessType DEF TypeInv, TypeOK, TableType, Over
    <2> QED  BY <2>2, <2>3, <2>4, <2>5 DEF TypeInv, TypeOK, TableType
  <1>5. /\ flying' = [flying EXCEPT ![p] = FALSE]
        /\ written' = [written EXCEPT ![p] = 0]
        /\ jobs' = [jobs EXCEPT ![p] = <<>>]
    BY DEF Over
  <1>6. StateType' /\ IdType' /\ WriterType' /\ ReaderType'
    BY <1>1, <1>2, <1>3 DEF TypeInv, TypeOK, StateType, IdType, WriterType, ReaderType
  <1>7. WritesFirst'
    BY <1>5 DEF TypeInv, TypeOK, WriterType, WritesFirst
  <1> QED  BY <1>4, <1>6, <1>7 DEF TypeInv, TypeOK

LEMMA ExhaustType ==
  ASSUME TypeInv, NEW p \in Peer, Exhaust(p) \/ LaneFails(p) \/ CarrierEnds(p)
  PROVE  TypeInv'
  <1>1. PICK why \in {"exhausted", "lost"} : Over(p, "detached", why)
    BY DEF Exhaust, LaneFails, CarrierEnds
  <1>2. UNCHANGED <<nextId, highestRemote, outSeq, inSeq, wire, closing>>
    BY DEF Exhaust, LaneFails, CarrierEnds
  <1> QED  BY <1>1, <1>2, SessionEndsType DEF TypeInv, TypeOK, WriterType, ReaderType

LEMMA CloseWrittenType ==
  ASSUME TypeInv, NEW p \in Peer, CloseWritten(p)
  PROVE  TypeInv'
  <1>1. fault[p] \in {"none", "lost", "violation", "exhausted"}
    BY DEF TypeInv, TypeOK, StateType
  <1>2. outSeq' \in [Peer -> Nat]
    BY DEF TypeInv, TypeOK, WriterType, CloseWritten
  <1> QED  BY <1>1, <1>2, SessionEndsType DEF CloseWritten, TypeInv, TypeOK, ReaderType

LEMMA AbandonType ==
  ASSUME TypeInv, NEW p \in Peer, Abandon(p)
  PROVE  TypeInv'
  <1> DEFINE i == Head(jobs[p]).id
  <1>1. jobs[p] # <<>> /\ Head(jobs[p]).kind = "DATA" /\ ~flying[p]
    BY DEF Abandon, CanWrite, Abandoned
  <1>2. i \in StreamId /\ [jobs EXCEPT ![p] = Tail(@)] \in [Peer -> Seq(Job)]
    BY <1>1, FirstJob DEF TypeInv, TypeOK
  <1>3. [stream[p][i] EXCEPT !.busy = FALSE] \in Stream
    BY <1>2, StreamOf, HandledType DEF TypeInv, TypeOK
  <1>4. TableType'
    BY <1>2, <1>3, UpdateType DEF Abandon, TypeInv, TypeOK
  <1>5. WriterType' /\ WritesFirst'
    BY <1>1, <1>2 DEF TypeInv, TypeOK, WriterType, WritesFirst, Abandon
  <1>6. StateType' /\ IdType' /\ ReaderType'
    BY DEF TypeInv, TypeOK, StateType, IdType, ReaderType, Abandon, readerVars, stateVars, idVars
  <1> QED  BY <1>4, <1>5, <1>6 DEF TypeInv, TypeOK

LEMMA RollBackOpenType ==
  ASSUME TypeInv, NEW p \in Peer, RollBackOpen(p)
  PROVE  TypeInv'
  <1> DEFINE i == Head(jobs[p]).id
  <1>1. /\ jobs[p] # <<>> /\ Head(jobs[p]).kind = "OPEN"
        /\ ~flying[p] /\ ~(written[p] > 0)
    BY DEF RollBackOpen, CanWrite, TypeInv, WritesFirst
  <1>2. i \in StreamId /\ [jobs EXCEPT ![p] = Tail(@)] \in [Peer -> Seq(Job)]
    BY <1>1, FirstJob DEF TypeInv, TypeOK
  <1>3. TableType'
    BY <1>2, LeaveType DEF RollBackOpen, TypeInv, TypeOK, TableType
  <1>4. WriterType' /\ WritesFirst'
    BY <1>1, <1>2 DEF TypeInv, TypeOK, WriterType, WritesFirst, RollBackOpen
  <1>5. StateType' /\ IdType' /\ ReaderType'
    BY DEF TypeInv, TypeOK, StateType, IdType, ReaderType, RollBackOpen, readerVars, stateVars
  <1> QED  BY <1>3, <1>4, <1>5 DEF TypeInv, TypeOK

LEMMA DropReasonType ==
  ASSUME TypeInv, NEW p \in Peer, DropReason(p)
  PROVE  TypeInv'
  <1> DEFINE j == Head(jobs[p])
  <1>1. jobs[p] # <<>> /\ ~flying[p] /\ ~(written[p] > 0)
    BY DEF DropReason, CanWrite, HasReason, TypeInv, WritesFirst
  <1>2. [j EXCEPT !.fits = TRUE] \in Job
    <2>1. \A job \in Job : [job EXCEPT !.fits = TRUE] \in Job
      BY DEF Job, JobOf
    <2> QED  BY <1>1, <2>1, FirstJob DEF TypeInv, TypeOK
  <1>3. Append(Tail(jobs[p]), [j EXCEPT !.fits = TRUE]) \in Seq(Job)
    <2>1. Tail(jobs[p]) \in Seq(Job)
      BY <1>1, HeadTailProperties DEF TypeInv, TypeOK, WriterType
    <2> QED  BY <1>2, <2>1, AppendType
  <1>4. WriterType' /\ WritesFirst'
    BY <1>1, <1>3 DEF TypeInv, TypeOK, WriterType, WritesFirst, DropReason
  <1>5. TableType' /\ StateType' /\ IdType' /\ ReaderType'
    BY DEF TypeInv, TypeOK, TableType, StateType, IdType, ReaderType, DropReason,
           readerVars, stateVars, idVars, tableVars
  <1> QED  BY <1>4, <1>5 DEF TypeInv, TypeOK

LEMMA WriteFrameType ==
  ASSUME TypeInv, NEW p \in Peer, WriteFrame(p)
  PROVE  TypeInv'
  <1> DEFINE f == [kind |-> IF written[p] > 0 THEN "FRAGMENT" ELSE Head(jobs[p]).kind,
                   id |-> Head(jobs[p]).id, seq |-> outSeq[p],
                   amount |-> Head(jobs[p]).amount, item |-> Head(jobs[p]).item,
                   size |-> Head(jobs[p]).size, part |-> written[p] + 1]
  <1>1. jobs[p] # <<>>
    BY DEF WriteFrame, CanWrite
  <1>2. f \in Frame
    <2>1. \A job \in Job, n \in Nat, part \in Nat :
            [kind |-> job.kind, id |-> job.id, seq |-> n, amount |-> job.amount,
             item |-> job.item, size |-> job.size, part |-> part] \in Frame
      BY DEF Job, JobOf, Frame, FrameOf, JobKind
    <2>2. \A job \in Job, n \in Nat, part \in Nat : job.kind # "CLOSE" =>
            [kind |-> "FRAGMENT", id |-> job.id, seq |-> n, amount |-> job.amount,
             item |-> job.item, size |-> job.size, part |-> part] \in Frame
      BY DEF Job, JobOf, Frame, FrameOf, JobKind
    <2>3. Head(jobs[p]) \in Job /\ outSeq[p] \in Nat /\ written[p] + 1 \in Nat
      BY <1>1, FirstJob DEF TypeInv, TypeOK, WriterType
    <2>4. CASE written[p] > 0
      BY <2>2, <2>3, <2>4 DEF TypeInv, WritesFirst
    <2>5. CASE ~(written[p] > 0)
      BY <2>1, <2>3, <2>5
    <2> QED  BY <2>4, <2>5
  <1>3. wire' \in [Peer -> Seq(Frame)]
    <2>1. Append(wire[p], f) \in Seq(Frame)
      BY <1>2, AppendType DEF TypeInv, TypeOK, ReaderType
    <2> QED  BY <2>1 DEF TypeInv, TypeOK, ReaderType, WriteFrame
  <1>4. WritesFirst'
    BY <1>1 DEF TypeInv, TypeOK, WriterType, WritesFirst, WriteFrame
  <1>5. TableType' /\ StateType' /\ IdType' /\ WriterType'
    BY DEF TypeInv, TypeOK, TableType, StateType, IdType, WriterType, WriteFrame,
           stateVars, idVars, tableVars
  <1> QED  BY <1>3, <1>4, <1>5 DEF TypeInv, TypeOK, ReaderType, WriteFrame

LEMMA FragmentWrittenType ==
  ASSUME TypeInv, NEW p \in Peer, FragmentWritten(p)
  PROVE  TypeInv'
  <1>1. jobs[p] # <<>> /\ Head(jobs[p]).kind = "DATA"
    BY DEF FragmentWritten, FrameCount, TypeInv, TypeOK, WriterType, WritesFirst
  <1>2. WriterType' /\ WritesFirst'
    BY <1>1 DEF TypeInv, TypeOK, WriterType, WritesFirst, FragmentWritten
  <1>3. TableType' /\ StateType' /\ IdType' /\ ReaderType'
    BY DEF TypeInv, TypeOK, TableType, StateType, IdType, ReaderType, FragmentWritten,
           tableVars, idVars, readerVars, stateVars
  <1> QED  BY <1>2, <1>3 DEF TypeInv, TypeOK

\* A write that resolves has a first job.
LEMMA JobWrittenType ==
  ASSUME TypeInv, NEW p \in Peer,
         NEW kinds \in SUBSET (JobKind \ {"CLOSE"}), JobWritten(p, kinds), JobDone(p)
  PROVE  WriterType' /\ WritesFirst' /\ Head(jobs[p]).id \in StreamId
  <1>1. jobs[p] # <<>> /\ Head(jobs[p]).kind # "CLOSE"
    BY DEF JobWritten, TypeInv, WritesFirst
  <1> QED  BY <1>1, FirstJob, JobDoneType DEF TypeInv, TypeOK

LEMMA OpenWrittenType ==
  ASSUME TypeInv, NEW p \in Peer, OpenWritten(p)
  PROVE  TypeInv'
  <1> DEFINE i == Head(jobs[p]).id
  <1>1. WriterType' /\ WritesFirst' /\ i \in StreamId
    BY JobWrittenType, SMTT(30) DEF OpenWritten, JobKind
  <1>2. [stream[p][i] EXCEPT !.handle = TRUE] \in Stream
    BY <1>1, StreamOf, HandledType DEF TypeInv, TypeOK
  <1>3. TableType'
    BY <1>1, <1>2, UpdateType DEF OpenWritten, TypeInv, TypeOK
  <1>4. StateType' /\ IdType' /\ ReaderType'
    BY DEF TypeInv, TypeOK, StateType, IdType, ReaderType, OpenWritten, readerVars, stateVars
  <1> QED  BY <1>1, <1>3, <1>4 DEF TypeInv, TypeOK

LEMMA DemandWrittenType ==
  ASSUME TypeInv, NEW p \in Peer, DemandWritten(p)
  PROVE  TypeInv'
  <1>1. WriterType' /\ WritesFirst'
    BY JobWrittenType DEF DemandWritten, JobKind
  <1>2. TableType' /\ StateType' /\ IdType' /\ ReaderType'
    BY DEF TypeInv, TypeOK, TableType, StateType, IdType, ReaderType, DemandWritten,
           tableVars, idVars, readerVars, stateVars
  <1> QED  BY <1>1, <1>2 DEF TypeInv, TypeOK

LEMMA DataWrittenType ==
  ASSUME TypeInv, NEW p \in Peer, DataWritten(p)
  PROVE  TypeInv'
  <1> DEFINE i == Head(jobs[p]).id
  <1>1. WriterType' /\ WritesFirst' /\ i \in StreamId
    BY JobWrittenType DEF DataWritten, JobKind
  <1>2. [stream[p][i] EXCEPT !.busy = FALSE, !.sent = @ + 1] \in Stream
    BY <1>1, StreamOf, HandledType DEF TypeInv, TypeOK
  <1>3. TableType'
    BY <1>1, <1>2, UpdateType DEF DataWritten, TypeInv, TypeOK
  <1>4. StateType' /\ IdType' /\ ReaderType'
    BY DEF TypeInv, TypeOK, StateType, IdType, ReaderType, DataWritten, idVars, readerVars,
           stateVars
  <1> QED  BY <1>1, <1>3, <1>4 DEF TypeInv, TypeOK

LEMMA CompleteWrittenType ==
  ASSUME TypeInv, NEW p \in Peer, CompleteWritten(p)
  PROVE  TypeInv'
  <1> DEFINE i == Head(jobs[p]).id
             s == [stream[p][i] EXCEPT !.outClosed = TRUE, !.tail = <<>>, !.busy = FALSE]
  <1>1. WriterType' /\ WritesFirst' /\ i \in StreamId
    BY JobWrittenType DEF CompleteWritten, JobKind
  <1>2. s \in Stream
    BY <1>1, StreamOf, ClosedType DEF TypeInv, TypeOK
  <1>3. TableType'
    BY <1>1, <1>2, ReleaseType DEF CompleteWritten, TypeInv, TypeOK
  <1>4. StateType' /\ IdType' /\ ReaderType'
    BY DEF TypeInv, TypeOK, StateType, IdType, ReaderType, CompleteWritten, idVars,
           readerVars, stateVars
  <1> QED  BY <1>1, <1>3, <1>4 DEF TypeInv, TypeOK

LEMMA EndingWrittenType ==
  ASSUME TypeInv, NEW p \in Peer, EndingWritten(p)
  PROVE  TypeInv'
  <1>1. WriterType' /\ WritesFirst'
    BY JobWrittenType DEF EndingWritten, JobKind
  <1>2. (parked[p] /\ ~Head(jobs[p]).reader) \in BOOLEAN
    OBVIOUS
  <1>3. parked' \in [Peer -> BOOLEAN]
    BY <1>2 DEF TypeInv, TypeOK, ReaderType, EndingWritten
  <1>4. TableType' /\ StateType' /\ IdType' /\ ReaderType'
    BY <1>3 DEF TypeInv, TypeOK, TableType, StateType, IdType, ReaderType, EndingWritten,
           tableVars, idVars, stateVars
  <1> QED  BY <1>1, <1>4 DEF TypeInv, TypeOK

LEMMA WriteType ==
  ASSUME TypeInv, NEW p \in Peer, Write(p)
  PROVE  TypeInv'
  BY ExhaustType, AbandonType, RollBackOpenType, DropReasonType, WriteFrameType,
     FragmentWrittenType, OpenWrittenType, DemandWrittenType, DataWrittenType,
     CompleteWrittenType, EndingWrittenType, CloseWrittenType, Zenon
  DEF Write

-----------------------------------------------------------------------------
(* The read loop                                                           *)

\* The frame that is read names a stream, unless it is CLOSE.
LEMMA ReadsType ==
  ASSUME TypeInv, NEW p \in Peer, NEW kinds \in SUBSET {"OPEN", "DEMAND", "DATA", "FRAGMENT",
           "COMPLETE", "CANCEL", "ERROR"}, Reads(p, kinds)
  PROVE  /\ wire' \in [Peer -> Seq(Frame)] /\ inSeq' \in [Peer -> Nat]
         /\ Incoming(p).kind \in kinds /\ Incoming(p).id \in StreamId
         /\ Incoming(p).item \in Nat /\ Incoming(p).part \in Nat
         /\ Incoming(p).size \in Nat /\ Incoming(p).amount \in Nat
  <1>1. CanRead(p) /\ Consume(p) /\ wire[Other(p)] # <<>> /\ Incoming(p).kind \in kinds
    BY DEF Reads, CanRead
  <1>2. wire' \in [Peer -> Seq(Frame)] /\ inSeq' \in [Peer -> Nat]
    BY <1>1, ConsumeType DEF TypeInv, TypeOK
  <1> QED  BY <1>1, <1>2, FirstFrame DEF TypeInv, TypeOK

LEMMA RefuseType ==
  ASSUME TypeInv, NEW p \in Peer, NEW i \in StreamId, Refuse(p, i),
         UNCHANGED <<written, flying, outSeq>>
  PROVE  WriterType' /\ WritesFirst' /\ parked' \in [Peer -> BOOLEAN]
  <1>1. PICK fits \in Encodable :
          Queue(p, [Plain("ERROR", i) EXCEPT !.fits = fits, !.reader = TRUE])
    BY DEF Refuse
  <1>2. [Plain("ERROR", i) EXCEPT !.fits = fits, !.reader = TRUE] \in Job
    BY PlainType, JobChanges, CallsAssumption DEF JobKind
  <1>3. WriterType' /\ WritesFirst'
    BY <1>1, <1>2, QueueType DEF TypeInv, TypeOK, WriterType, WritesFirst
  <1>4. parked' \in [Peer -> BOOLEAN]
    BY DEF TypeInv, TypeOK, ReaderType, Refuse
  <1> QED  BY <1>3, <1>4

LEMMA ReadIllegalType ==
  ASSUME TypeInv, NEW p \in Peer, ReadIllegal(p)
  PROVE  TypeInv'
  <1>1. wire' \in [Peer -> Seq(Frame)]
    BY FirstFrame DEF TypeInv, TypeOK, ReadIllegal, CanRead
  <1>2. inSeq' \in [Peer -> Nat]
    BY DEF TypeInv, TypeOK, ReaderType, ReadIllegal
  <1> QED  BY <1>1, <1>2, SessionEndsType DEF ReadIllegal, TypeInv, TypeOK, WriterType

LEMMA ReadCloseType ==
  ASSUME TypeInv, NEW p \in Peer, ReadClose(p)
  PROVE  TypeInv'
  <1>1. CanRead(p) /\ Consume(p)
    BY DEF ReadClose, Reads
  <1>2. wire' \in [Peer -> Seq(Frame)] /\ inSeq' \in [Peer -> Nat]
    BY <1>1, ConsumeType DEF TypeInv, TypeOK
  <1>3. fault[p] \in {"none", "lost", "violation", "exhausted"}
    BY DEF TypeInv, TypeOK, StateType
  <1> QED  BY <1>2, <1>3, SessionEndsType DEF ReadClose, TypeInv, TypeOK, WriterType

\* The frames that change a stream and nothing else.
LEMMA ReadsStreamType ==
  ASSUME TypeInv, NEW p \in Peer, NEW kinds \in SUBSET {"OPEN", "DEMAND", "DATA", "FRAGMENT",
           "COMPLETE", "CANCEL", "ERROR"}, Reads(p, kinds), TableType',
         UNCHANGED <<idVars, writerVars, parked, stateVars>>
  PROVE  TypeInv'
  <1>1. ReaderType'
    BY ReadsType DEF TypeInv, TypeOK, ReaderType
  <1>2. StateType' /\ IdType' /\ WriterType' /\ WritesFirst'
    BY DEF TypeInv, TypeOK, StateType, IdType, WriterType, WritesFirst, idVars, writerVars,
           stateVars
  <1> QED  BY <1>1, <1>2 DEF TypeInv, TypeOK

LEMMA ReadLateType ==
  ASSUME TypeInv, NEW p \in Peer, ReadLate(p)
  PROVE  TypeInv'
  <1>1. TableType'
    BY DEF ReadLate, TypeInv, TypeOK, TableType, tableVars
  <1> QED  BY <1>1, ReadsStreamType DEF ReadLate

LEMMA ReadDemandType ==
  ASSUME TypeInv, NEW p \in Peer, ReadDemand(p)
  PROVE  TypeInv'
  <1> DEFINE f == Incoming(p)
             s == stream[p][f.id]
  <1>1. Reads(p, {"DEMAND"})
    BY DEF ReadDemand, ReadsLive
  <1>2. f.id \in StreamId /\ f.amount \in Nat
    BY <1>1, ReadsType
  <1>3. [s EXCEPT !.outCredit = AddCredit(@, f.amount)] \in Stream
    BY <1>2, StreamOf, GrantedType DEF TypeInv, TypeOK
  <1>4. TableType'
    BY <1>2, <1>3, UpdateType DEF ReadDemand, TypeInv, TypeOK
  <1> QED  BY <1>1, <1>4, ReadsStreamType DEF ReadDemand

\* DATA that is not illegal finds credit: the decrement stays within its type.
LEMMA LegalData ==
  ASSUME TypeInv, NEW p \in Peer, ReadsLive(p, {"DATA"})
  PROVE  /\ Incoming(p).id \in StreamId /\ stream[p][Incoming(p).id] \in Stream
         /\ Payload(Incoming(p)) \in Unit /\ Incoming(p).size \in Nat
         /\ stream[p][Incoming(p).id].inCredit - 1 \in 0..MaxCredit
         /\ stream[p][Incoming(p).id].expected = 0
  <1> DEFINE f == Incoming(p)
             s == stream[p][f.id]
  <1>1. Reads(p, {"DATA"}) /\ f.id \in live[p] /\ f.kind = "DATA"
    BY DEF ReadsLive, Reads
  <1>2. f.id \in StreamId /\ Payload(f) \in Unit /\ f.size \in Nat
    BY <1>1, ReadsType DEF Payload, Unit
  <1>3. s \in Stream /\ s.inCredit \in 0..MaxCredit /\ s.expected \in Nat
    BY <1>2, StreamOf DEF TypeInv, TypeOK, Stream
  <1>4. ~IllegalHere(p, f)
    BY <1>1 DEF Reads, Illegal
  <1>5. s.inCredit # 0 /\ ~(s.expected > 0)
    BY <1>1, <1>4 DEF IllegalHere
  <1> QED  BY <1>2, <1>3, <1>5, CreditFacts

LEMMA ReadDataType ==
  ASSUME TypeInv, NEW p \in Peer, ReadData(p)
  PROVE  TypeInv'
  <1> DEFINE f == Incoming(p)
             s == stream[p][f.id]
  <1>1. ReadsLive(p, {"DATA"})
    BY DEF ReadData
  <1>2. /\ f.id \in StreamId /\ s \in Stream /\ Payload(f) \in Unit
        /\ s.inCredit - 1 \in 0..MaxCredit
    BY <1>1, LegalData, SMTT(30)
  <1>3. [s EXCEPT !.inCredit = @ - 1, !.got = Push(s, <<Payload(f)>>)] \in Stream
    <2>1. <<Payload(f)>> \in Seq(Unit)
      BY <1>2
    <2> QED  BY <1>2, <2>1, PublishedType DEF Push
  <1>4. TableType'
    BY <1>2, <1>3, UpdateType, SMTT(30) DEF ReadData, TypeInv, TypeOK
  <1> QED  BY <1>1, <1>4, ReadsStreamType DEF ReadData, ReadsLive

LEMMA StartReassemblyType ==
  ASSUME TypeInv, NEW p \in Peer, StartReassembly(p)
  PROVE  TypeInv'
  <1> DEFINE f == Incoming(p)
             s == stream[p][f.id]
             t == [s EXCEPT !.inCredit = @ - 1, !.expected = f.size,
                            !.partial = <<Payload(f)>>]
  <1>1. ReadsLive(p, {"DATA"})
    BY DEF StartReassembly
  <1>2. /\ f.id \in StreamId /\ s \in Stream /\ Payload(f) \in Unit /\ f.size \in Nat
        /\ s.inCredit - 1 \in 0..MaxCredit
    BY <1>1, LegalData, SMTT(30)
  <1>3. t \in Stream
    <2>1. <<Payload(f)>> \in Seq(Unit)
      BY <1>2
    <2> QED  BY <1>2, <2>1, PublishedType
  <1>4. stream' = [stream EXCEPT ![p][f.id] = t]
    BY <1>2 DEF StartReassembly, TypeInv, TypeOK, TableType
  <1>5. stream' \in [Peer -> [StreamId -> Stream]]
    BY <1>2, <1>3, <1>4 DEF TypeInv, TypeOK, TableType
  <1>6. reassembling' \in [Peer -> Nat]
    <2>1. reassembling[p] + f.size \in Nat
      BY <1>2, SMTT(30) DEF TypeInv, TypeOK, TableType
    <2> QED  BY <2>1 DEF StartReassembly, TypeInv, TypeOK, TableType
  <1>7. TableType'
    BY <1>5, <1>6 DEF StartReassembly, TypeInv, TypeOK, TableType
  <1> QED  BY <1>1, <1>7, ReadsStreamType, SMTT(30) DEF StartReassembly, ReadsLive

LEMMA RefuseReassemblyType ==
  ASSUME TypeInv, NEW p \in Peer, RefuseReassembly(p)
  PROVE  TypeInv'
  <1> DEFINE f == Incoming(p)
             s == stream[p][f.id]
  <1>1. ReadsLive(p, {"DATA"}) /\ Reads(p, {"DATA"})
    BY DEF RefuseReassembly, ReadsLive
  <1>2. f.id \in StreamId /\ s \in Stream /\ s.inCredit - 1 \in 0..MaxCredit
    BY <1>1, LegalData
  <1>3. [s EXCEPT !.inCredit = @ - 1] \in Stream
    BY <1>2 DEF Stream
  <1>4. TableType'
    BY <1>2, <1>3, CancelStreamType DEF RefuseReassembly, TypeInv, TypeOK
  <1>5. WriterType' /\ WritesFirst' /\ parked' \in [Peer -> BOOLEAN]
    BY <1>2, RefuseType DEF RefuseReassembly
  <1>6. ReaderType'
    BY <1>1, <1>5, ReadsType DEF TypeInv, TypeOK, ReaderType
  <1>7. StateType' /\ IdType'
    BY DEF RefuseReassembly, TypeInv, TypeOK, StateType, IdType, idVars, stateVars
  <1> QED  BY <1>4, <1>5, <1>6, <1>7 DEF TypeInv, TypeOK

LEMMA ReadFragmentType ==
  ASSUME TypeInv, NEW p \in Peer, ReadFragment(p)
  PROVE  TypeInv'
  <1> DEFINE f == Incoming(p)
             s == stream[p][f.id]
             data == Append(s.partial, Payload(f))
  <1>1. ReadsLive(p, {"FRAGMENT"}) /\ Reads(p, {"FRAGMENT"})
    BY DEF ReadFragment, ReadsLive
  <1>2. f.id \in StreamId /\ Payload(f) \in Unit
    BY <1>1, ReadsType DEF Payload, Unit
  <1>3. s \in Stream /\ s.partial \in Seq(Unit)
    BY <1>2, StreamOf DEF TypeInv, TypeOK, Stream
  <1>4. data \in Seq(Unit)
    BY <1>2, <1>3, AppendType
  <1>5. TableType'
    <2>1. CASE Whole(data, s)
      <3>1. [s EXCEPT !.expected = 0, !.partial = <<>>, !.got = Push(s, data)] \in Stream
        BY <1>3, <1>4, PublishedType DEF Push
      <3>2. stream' = [stream EXCEPT ![p][f.id] =
                 [s EXCEPT !.expected = 0, !.partial = <<>>, !.got = Push(s, data)]]
        BY <2>1, Zenon DEF ReadFragment
      <3>3. stream' \in [Peer -> [StreamId -> Stream]]
        <4> DEFINE t == [s EXCEPT !.expected = 0, !.partial = <<>>, !.got = Push(s, data)]
        <4>1. t \in Stream /\ stream' = [stream EXCEPT ![p][f.id] = t]
          BY <3>1, <3>2
        <4> HIDE DEF t
        <4> QED  BY <1>2, <4>1 DEF TypeInv, TypeOK, TableType
      <3>4. reassembling' = [reassembling EXCEPT ![p] = Less(@, s.expected)]
        BY <2>1, Zenon DEF ReadFragment
      <3>5. Less(reassembling[p], s.expected) \in Nat
        BY LessType DEF TypeInv, TypeOK, TableType
      <3>6. reassembling' \in [Peer -> Nat]
        BY <3>4, <3>5 DEF TypeInv, TypeOK, TableType
      <3> QED  BY <2>1, <3>3, <3>6 DEF ReadFragment, TypeInv, TypeOK, TableType
    <2>2. CASE ~Whole(data, s)
      <3>1. [s EXCEPT !.partial = data] \in Stream
        BY <1>3, <1>4, PublishedType
      <3> QED  BY <1>2, <2>2, <3>1, UpdateType, SMTT(30) DEF ReadFragment, TypeInv, TypeOK
    <2> QED  BY <2>1, <2>2
  <1> QED  BY <1>1, <1>5, ReadsStreamType DEF ReadFragment

LEMMA ReadCompleteType ==
  ASSUME TypeInv, NEW p \in Peer, ReadComplete(p)
  PROVE  TypeInv'
  <1> DEFINE i == Incoming(p).id
  <1>1. Reads(p, {"COMPLETE"})
    BY DEF ReadComplete, ReadsLive
  <1>2. i \in StreamId
    BY <1>1, ReadsType
  <1>3. [stream[p][i] EXCEPT !.inClosed = TRUE] \in Stream
    BY <1>2, StreamOf, ClosedType DEF TypeInv, TypeOK
  <1>4. TableType'
    BY <1>2, <1>3, ReleaseType DEF ReadComplete, TypeInv, TypeOK
  <1> QED  BY <1>1, <1>4, ReadsStreamType DEF ReadComplete

LEMMA ReadEndingType ==
  ASSUME TypeInv, NEW p \in Peer, ReadEnding(p)
  PROVE  TypeInv'
  <1> DEFINE i == Incoming(p).id
  <1>1. Reads(p, {"CANCEL", "ERROR"})
    BY DEF ReadEnding, ReadsLive
  <1>2. i \in StreamId
    BY <1>1, ReadsType
  <1>3. TableType'
    BY <1>2, StreamOf, CancelStreamType DEF ReadEnding, TypeInv, TypeOK
  <1> QED  BY <1>1, <1>3, ReadsStreamType DEF ReadEnding

\* An OPEN moves the remote frontier.
LEMMA ReadsOpenType ==
  ASSUME TypeInv, NEW p \in Peer, ReadsOpen(p)
  PROVE  /\ Incoming(p).id \in StreamId /\ Incoming(p).amount \in Nat
         /\ wire' \in [Peer -> Seq(Frame)] /\ inSeq' \in [Peer -> Nat]
         /\ highestRemote' \in [Peer -> Nat]
         /\ nextId' = nextId /\ opening' = opening
         /\ StateType' /\ UNCHANGED <<written, flying, outSeq, reassembling>>
  <1>1. Reads(p, {"OPEN"})
    BY DEF ReadsOpen
  <1>2. /\ Incoming(p).id \in StreamId /\ Incoming(p).amount \in Nat
        /\ wire' \in [Peer -> Seq(Frame)] /\ inSeq' \in [Peer -> Nat]
    BY <1>1, ReadsType
  <1>3. highestRemote' \in [Peer -> Nat]
    BY <1>2 DEF ReadsOpen, TypeInv, TypeOK, IdType, StreamId
  <1>4. StateType' /\ UNCHANGED <<nextId, opening, written, flying, outSeq, reassembling>>
    BY DEF ReadsOpen, TypeInv, TypeOK, StateType, stateVars
  <1> QED  BY <1>2, <1>3, <1>4

LEMMA RejectOpenType ==
  ASSUME TypeInv, NEW p \in Peer, RejectOpen(p)
  PROVE  TypeInv'
  <1> DEFINE i == Incoming(p).id
  <1>1. ReadsOpen(p)
    BY DEF RejectOpen
  <1>2. Retire(retired[p], i, FALSE) \in Seq([id : StreamId, late : BOOLEAN])
    BY <1>1, ReadsOpenType, RetireType DEF TypeInv, TypeOK, TableType
  <1>3. TableType'
    BY <1>1, <1>2, ReadsOpenType DEF RejectOpen, TypeInv, TypeOK, TableType
  <1>4. WriterType' /\ WritesFirst' /\ parked' \in [Peer -> BOOLEAN]
    BY <1>1, ReadsOpenType, RefuseType DEF RejectOpen
  <1>5. IdType' /\ ReaderType'
    BY <1>1, <1>4, ReadsOpenType DEF RejectOpen, TypeInv, TypeOK, IdType, ReaderType
  <1> QED  BY <1>1, <1>3, <1>4, <1>5, ReadsOpenType DEF TypeInv, TypeOK

LEMMA AcceptorThrowsType ==
  ASSUME TypeInv, NEW p \in Peer, AcceptorThrows(p)
  PROVE  TypeInv'
  <1> DEFINE i == Incoming(p).id
             s == Cancelled(NewStream(Incoming(p).amount))
  <1>1. ReadsOpen(p)
    BY DEF AcceptorThrows
  <1>2. s \in Stream
    BY <1>1, ReadsOpenType, NewStreamType, CancelledType
  <1>3. Retire(retired[p], i, TRUE) \in Seq([id : StreamId, late : BOOLEAN])
    BY <1>1, ReadsOpenType, RetireType DEF TypeInv, TypeOK, TableType
  <1>4. stream' \in [Peer -> [StreamId -> Stream]]
    BY <1>1, <1>2, ReadsOpenType DEF AcceptorThrows, TypeInv, TypeOK, TableType
  <1>5. TableType'
    BY <1>1, <1>3, <1>4, ReadsOpenType DEF AcceptorThrows, TypeInv, TypeOK, TableType
  <1>6. WriterType' /\ WritesFirst' /\ parked' \in [Peer -> BOOLEAN]
    BY <1>1, ReadsOpenType, RefuseType DEF AcceptorThrows
  <1>7. IdType' /\ ReaderType'
    BY <1>1, <1>6, ReadsOpenType DEF AcceptorThrows, TypeInv, TypeOK, IdType, ReaderType
  <1> QED  BY <1>1, <1>5, <1>6, <1>7, ReadsOpenType DEF TypeInv, TypeOK

\* Both ways of taking a stream into the table.
LEMMA AcceptType ==
  ASSUME TypeInv, NEW p \in Peer, HandleOpen(p) \/ PendOpen(p)
  PROVE  TypeInv'
  <1> DEFINE i == Incoming(p).id
             s == NewStream(Incoming(p).amount)
  <1>1. ReadsOpen(p) /\ Enter(p, i) /\ UNCHANGED <<retired, jobs, parked>>
    BY DEF HandleOpen, PendOpen
  <1>2. /\ s \in Stream /\ [s EXCEPT !.handle = TRUE] \in Stream
        /\ s.weight \in Nat /\ [s EXCEPT !.handle = TRUE].weight \in Nat
    BY <1>1, ReadsOpenType, NewStreamType, HandledType DEF Stream
  <1>3. PICK t \in {s, [s EXCEPT !.handle = TRUE]} : stream' = [stream EXCEPT ![p][i] = t]
    BY DEF HandleOpen, PendOpen
  <1>4. stream' \in [Peer -> [StreamId -> Stream]] /\ stream'[p][i].weight \in Nat
    BY <1>1, <1>2, <1>3, ReadsOpenType DEF TypeInv, TypeOK, TableType
  <1>5. TableType'
    BY <1>1, <1>4, ReadsOpenType, EnterType DEF TypeInv, TypeOK, TableType
  <1>6. pending' \in [Peer -> Seq(StreamId)]
    <2>1. Append(pending[p], i) \in Seq(StreamId)
      BY <1>1, ReadsOpenType, AppendType DEF TypeInv, TypeOK, IdType
    <2> QED  BY <2>1 DEF HandleOpen, PendOpen, TypeInv, TypeOK, IdType
  <1>7. WriterType' /\ WritesFirst' /\ IdType' /\ ReaderType'
    BY <1>1, <1>6, ReadsOpenType
       DEF TypeInv, TypeOK, WriterType, WritesFirst, IdType, ReaderType
  <1> QED  BY <1>1, <1>5, <1>7, ReadsOpenType DEF TypeInv, TypeOK

-----------------------------------------------------------------------------
(* The specification                                                       *)

\* The actions together.
LEMMA ReadType ==
  ASSUME TypeInv, NEW p \in Peer, Read(p)
  PROVE  TypeInv'
  BY ExhaustType, ReadIllegalType, ReadLateType, RejectOpenType, AcceptorThrowsType,
     AcceptType, ReadDemandType, ReadDataType, StartReassemblyType, RefuseReassemblyType,
     ReadFragmentType, ReadCompleteType, ReadEndingType, ReadCloseType, Zenon
  DEF Read

LEMMA ApplicationType ==
  ASSUME TypeInv, NEW p \in Peer, Application(p)
  PROVE  TypeInv'
  BY OpenType, TakeIncomingType, CloseType, RequestType, SendType, CompleteType, EndType,
     Zenon
  DEF Application

LEMMA InitType == Init => TypeInv
  <1> SUFFICES ASSUME Init PROVE TypeInv
    OBVIOUS
  <1>1. NewStream(0) \in Stream
    BY NewStreamType
  <1>2. TableType
    BY <1>1 DEF Init, TableType
  <1>3. StateType /\ IdType /\ WriterType /\ ReaderType /\ WritesFirst
    BY DEF Init, StateType, IdType, WriterType, ReaderType, WritesFirst, Peer
  <1> QED  BY <1>2, <1>3 DEF TypeInv, TypeOK

LEMMA NextType ==
  ASSUME TypeInv, [Next]_vars
  PROVE  TypeInv'
  <1>1. CASE Next
    BY <1>1, ApplicationType, WriteType, ExhaustType, ReadType, StreamTailType, Zenon
    DEF Next
  <1>2. CASE UNCHANGED vars
    BY <1>2 DEF vars, tableVars, idVars, writerVars, readerVars, stateVars, TypeInv, TypeOK,
                TableType, StateType, IdType, WriterType, ReaderType, WritesFirst
  <1> QED  BY <1>1, <1>2

\* Every variable always holds a value the code can hold there.  In particular
\* neither credit of a stream drops below zero or leaves 32 bits (addCredit, send,
\* handleData), and a write that is pending belongs to a queued job (writeFrameNow).
THEOREM TypeCorrect == Spec => []TypeOK
  <1>1. TypeInv => TypeOK
    BY DEF TypeInv
  <1> QED  BY <1>1, InitType, NextType, PTL DEF Spec

-----------------------------------------------------------------------------
(* Steps and the table                                                     *)

\* The places of a queue that hold an OPEN.

OpenAt(q) == {k \in DOMAIN q : q[k].kind = "OPEN"}
\* openTail lets one OPEN wait at a time, and it is for the next id.
OneOpen == \A p \in Peer :
  /\ OpenAt(jobs[p]) # {} => opening[p]
  /\ \A k \in OpenAt(jobs[p]) : jobs[p][k].id = nextId[p]
  /\ \A k, m \in OpenAt(jobs[p]) : k = m

Parity(p) == IF p = "initiator" THEN 1 ELSE 0
\* Ids keep their parity, and the table holds none beyond the two frontiers but
\* the one that is being opened.
IdsInOrder == \A p \in Peer :
  /\ nextId[p] % 2 = Parity(p)
  /\ highestRemote[p] = 0 \/ highestRemote[p] % 2 # Parity(p)
  /\ \A i \in live[p] : i \in Own(p) => i < nextId[p] \/ (i = nextId[p] /\ opening[p])
  /\ \A i \in live[p] : i \notin Own(p) => i <= highestRemote[p]

IdInv == TypeInv /\ OneOpen /\ IdsInOrder

-----------------------------------------------------------------------------
(* What a step does to the table, the ids and the queued OPENs             *)

\* At most one stream leaves the table.
Narrows(p) ==
  \/ UNCHANGED <<live, localActive, remoteActive>>
  \/ \E i \in StreamId : Leave(p, i)
\* Queue r is q, less its first job perhaps, and with no OPEN added.
KeptQueue(q, r) ==
  \/ r = q
  \/ q # <<>> /\ r = Tail(q)
  \/ \E job \in Job : /\ job.kind # "OPEN"
                      /\ r = Append(q, job) \/ (q # <<>> /\ r = Append(Tail(q), job))
\* No OPEN is queued and none finishes.
Quietly(p) ==
  /\ Narrows(p)
  /\ UNCHANGED <<nextId, highestRemote, opening>>
  /\ jobs' = [jobs EXCEPT ![p] = jobs'[p]]
  /\ KeptQueue(jobs[p], jobs'[p])
\* detach or finishClosed empties the table.
Ends(p) ==
  /\ \E state \in {"closed", "detached"}, why \in {"none", "lost", "violation", "exhausted"} :
       Over(p, state, why)
  /\ UNCHANGED <<nextId, highestRemote>>
\* An OPEN is refused, or taken into the table.
TurnsAway(p) == RejectOpen(p) \/ AcceptorThrows(p)
Admits(p) == HandleOpen(p) \/ PendOpen(p)

\* The three ways in which a quiet step changes its queue.
LEMMA KeptSame ==
  ASSUME TypeInv, NEW p \in Peer, UNCHANGED jobs
  PROVE  jobs' = [jobs EXCEPT ![p] = jobs'[p]] /\ KeptQueue(jobs[p], jobs'[p])
  BY DEF TypeInv, TypeOK, WriterType, KeptQueue

LEMMA KeptTail ==
  ASSUME TypeInv, NEW p \in Peer, jobs[p] # <<>>, jobs' = [jobs EXCEPT ![p] = Tail(@)]
  PROVE  jobs' = [jobs EXCEPT ![p] = jobs'[p]] /\ KeptQueue(jobs[p], jobs'[p])
  BY DEF TypeInv, TypeOK, WriterType, KeptQueue

LEMMA KeptAppend ==
  ASSUME TypeInv, NEW p \in Peer, NEW job \in Job, job.kind # "OPEN", Queue(p, job)
  PROVE  jobs' = [jobs EXCEPT ![p] = jobs'[p]] /\ KeptQueue(jobs[p], jobs'[p])
  <1>1. jobs'[p] = Append(jobs[p], job) /\ jobs' = [jobs EXCEPT ![p] = Append(jobs[p], job)]
    BY DEF TypeInv, TypeOK, WriterType, Queue
  <1> QED  BY <1>1 DEF KeptQueue

\* The operators of the table that take no stream in.
LEMMA NarrowsByUpdate ==
  ASSUME NEW p, NEW i, NEW s, Update(p, i, s)
  PROVE  Narrows(p)
  BY DEF Update, Narrows

LEMMA NarrowsByRelease ==
  ASSUME NEW p \in Peer, NEW i \in StreamId, NEW s, Release(p, i, s)
  PROVE  Narrows(p)
  BY DEF Release, Narrows

LEMMA NarrowsByCancel ==
  ASSUME NEW p \in Peer, NEW i \in StreamId, NEW s, NEW late, CancelStream(p, i, s, late)
  PROVE  Narrows(p)
  BY DEF CancelStream, Narrows

\* What the application calls on a stream is quiet; so are, below, its other
\* calls, the stream tails, the writes and the frames that open nothing.
LEMMA QuietCalls ==
  ASSUME TypeInv, NEW p \in Peer, NEW i \in StreamId,
         \/ \E n \in Demands : Request(p, i, n)
         \/ \E size \in ItemSizes : Send(p, i, size)
         \/ Complete(p, i) \/ Cancel(p, i) \/ Fail(p, i)
  PROVE  Quietly(p)
  <1>1. ASSUME NEW n \in Demands, Request(p, i, n) PROVE Quietly(p)
    <2>1. n \in Nat
      BY CallsAssumption, BoundsAssumption
    <2>2. [Plain("DEMAND", i) EXCEPT !.amount = n] \in Job
      BY <2>1, PlainType, JobChanges DEF JobKind
    <2>3. [Plain("DEMAND", i) EXCEPT !.amount = n].kind # "OPEN"
      BY SMTT(30) DEF Plain
    <2>4. Queue(p, [Plain("DEMAND", i) EXCEPT !.amount = n])
      BY <1>1 DEF Request
    <2>5. Narrows(p)
      BY <1>1, NarrowsByUpdate DEF Request
    <2>6. UNCHANGED <<nextId, highestRemote, opening>>
      BY <1>1 DEF Request, idVars
    <2> QED  BY <2>2, <2>3, <2>4, <2>5, <2>6, KeptAppend DEF Quietly
  <1>2. ASSUME NEW size \in ItemSizes, Send(p, i, size) PROVE Quietly(p)
    BY <1>2, NarrowsByUpdate, KeptSame DEF Send, Quietly, idVars, writerVars
  <1>3. CASE Complete(p, i)
    BY <1>3, NarrowsByUpdate, KeptSame DEF Complete, Quietly, idVars, writerVars
  <1>4. CASE Cancel(p, i) \/ Fail(p, i)
    <2>1. PICK call \in {"cancel", "fail"}, kind \in {"CANCEL", "ERROR"} : End(p, i, call, kind)
      BY <1>4 DEF Cancel, Fail
    <2>2. PICK fits \in Encodable : Queue(p, [Plain(kind, i) EXCEPT !.fits = fits])
      BY <2>1 DEF End
    <2>3. [Plain(kind, i) EXCEPT !.fits = fits] \in Job
      BY PlainType, JobChanges, CallsAssumption DEF JobKind
    <2>4. [Plain(kind, i) EXCEPT !.fits = fits].kind # "OPEN"
      BY DEF Plain
    <2>5. Narrows(p) /\ UNCHANGED <<nextId, highestRemote, opening>>
      BY <2>1, NarrowsByCancel DEF End, idVars
    <2> QED  BY <2>2, <2>3, <2>4, <2>5, KeptAppend DEF Quietly
  <1> QED  BY <1>1, <1>2, <1>3, <1>4

LEMMA QuietSession ==
  ASSUME TypeInv, NEW p \in Peer, TakeIncoming(p) \/ Close(p) \/ CloseDetached(p)
  PROVE  Quietly(p)
  <1>1. CASE TakeIncoming(p)
    BY <1>1, NarrowsByUpdate, KeptSame DEF TakeIncoming, Quietly, writerVars
  <1>2. CASE Close(p)
    <2>1. PICK fits \in Encodable : Queue(p, [Plain("CLOSE", 0) EXCEPT !.fits = fits])
      BY <1>2 DEF Close
    <2>2. [Plain("CLOSE", 0) EXCEPT !.fits = fits] \in Job
      BY CloseJobType, CallsAssumption
    <2>3. [Plain("CLOSE", 0) EXCEPT !.fits = fits].kind # "OPEN"
      BY DEF Plain
    <2>4. Narrows(p) /\ UNCHANGED <<nextId, highestRemote, opening>>
      BY <1>2 DEF Close, Narrows, tableVars, idVars
    <2> QED  BY <2>1, <2>2, <2>3, <2>4, KeptAppend DEF Quietly
  <1>3. CASE CloseDetached(p)
    BY <1>3, KeptSame DEF CloseDetached, Quietly, Narrows, tableVars, idVars, writerVars
  <1> QED  BY <1>1, <1>2, <1>3

LEMMA QuietTail ==
  ASSUME TypeInv, NEW p \in Peer, NEW i \in StreamId, StreamTail(p, i)
  PROVE  Quietly(p)
  <1>1. CASE SendNext(p, i)
    <2> DEFINE op == Head(stream[p][i].tail)
               job == [Plain("DATA", i) EXCEPT !.item = op.item, !.size = op.size]
    <2>1. stream[p][i].tail \in Seq(Op) /\ stream[p][i].tail # <<>>
      BY <1>1, StreamOf DEF TypeInv, TypeOK, Stream, SendNext, Waiting
    <2>2. op \in Op
      BY <2>1, HeadTailProperties, SMTT(30)
    <2>3. job \in Job
      BY <2>2, PlainType, JobChanges DEF JobKind, Op
    <2>4. job.kind # "OPEN"
      BY DEF Plain
    <2>5. Queue(p, job) /\ UNCHANGED <<nextId, highestRemote, opening>>
      BY <1>1 DEF SendNext, idVars
    <2>6. Narrows(p)
      BY <1>1, NarrowsByUpdate DEF SendNext
    <2> HIDE DEF job
    <2> QED  BY <2>3, <2>4, <2>5, <2>6, KeptAppend DEF Quietly
  <1>2. CASE SendTooLarge(p, i)
    BY <1>2, NarrowsByUpdate, KeptSame DEF SendTooLarge, Quietly, idVars, writerVars
  <1>3. CASE CompleteNext(p, i)
    <2>1. Plain("COMPLETE", i) \in Job /\ Plain("COMPLETE", i).kind # "OPEN"
      BY PlainType, JobChanges DEF JobKind, Plain
    <2>2. Queue(p, Plain("COMPLETE", i)) /\ UNCHANGED <<nextId, highestRemote, opening>>
      BY <1>3 DEF CompleteNext, idVars
    <2>3. Narrows(p)
      BY <1>3, NarrowsByUpdate DEF CompleteNext
    <2> QED  BY <2>1, <2>2, <2>3, KeptAppend, SMTT(30) DEF Quietly
  <1> QED  BY <1>1, <1>2, <1>3 DEF StreamTail

LEMMA QuietJobDone ==
  ASSUME TypeInv, NEW p \in Peer, NEW kinds, JobWritten(p, kinds), JobDone(p)
  PROVE  jobs' = [jobs EXCEPT ![p] = jobs'[p]] /\ KeptQueue(jobs[p], jobs'[p])
  BY KeptTail DEF JobWritten, JobDone, TypeInv, WritesFirst

LEMMA QuietWrite ==
  ASSUME TypeInv, NEW p \in Peer,
         \/ Abandon(p) \/ DropReason(p) \/ WriteFrame(p) \/ FragmentWritten(p)
         \/ DemandWritten(p) \/ DataWritten(p) \/ CompleteWritten(p) \/ EndingWritten(p)
  PROVE  Quietly(p)
  <1>1. CASE Abandon(p)
    BY <1>1, NarrowsByUpdate, KeptTail DEF Abandon, CanWrite, Quietly, idVars
  <1>2. CASE DropReason(p)
    <2> DEFINE job == [Head(jobs[p]) EXCEPT !.fits = TRUE]
    <2>1. jobs[p] # <<>> /\ Head(jobs[p]).kind \in {"CANCEL", "ERROR", "CLOSE"}
      BY <1>2 DEF DropReason, CanWrite, HasReason
    <2>2. Head(jobs[p]) \in Job
      BY <2>1, FirstJob DEF TypeInv, TypeOK
    <2>3. \A j \in Job : [j EXCEPT !.fits = TRUE] \in Job /\ [j EXCEPT !.fits = TRUE].kind = j.kind
      BY DEF Job, JobOf
    <2>4. job \in Job /\ job.kind # "OPEN"
      BY <2>1, <2>2, <2>3
    <2>5. jobs' = [jobs EXCEPT ![p] = Append(Tail(jobs[p]), job)]
      BY <1>2 DEF DropReason
    <2> HIDE DEF job
    <2>6. jobs'[p] = Append(Tail(jobs[p]), job) /\ jobs' = [jobs EXCEPT ![p] = jobs'[p]]
      BY <2>5 DEF TypeInv, TypeOK, WriterType
    <2>7. KeptQueue(jobs[p], jobs'[p])
      BY <2>1, <2>4, <2>6 DEF KeptQueue
    <2> QED  BY <1>2, <2>6, <2>7 DEF DropReason, Quietly, Narrows, tableVars, idVars
  <1>3. CASE WriteFrame(p)
    BY <1>3, KeptSame DEF WriteFrame, Quietly, Narrows, tableVars, idVars
  <1>4. CASE FragmentWritten(p)
    BY <1>4, KeptSame DEF FragmentWritten, Quietly, Narrows, tableVars, idVars
  <1>5. CASE DemandWritten(p)
    BY <1>5, QuietJobDone DEF DemandWritten, Quietly, Narrows, tableVars, idVars
  <1>6. CASE DataWritten(p)
    BY <1>6, QuietJobDone, NarrowsByUpdate DEF DataWritten, Quietly, idVars
  <1>7. CASE CompleteWritten(p)
    <2>1. Head(jobs[p]).id \in StreamId
      BY <1>7, JobWrittenType DEF CompleteWritten, JobKind
    <2>2. Narrows(p)
      BY <1>7, <2>1, NarrowsByRelease DEF CompleteWritten
    <2> QED  BY <1>7, <2>2, QuietJobDone DEF CompleteWritten, Quietly, idVars
  <1>8. CASE EndingWritten(p)
    BY <1>8, QuietJobDone DEF EndingWritten, Quietly, Narrows, tableVars, idVars
  <1> QED  BY <1>1, <1>2, <1>3, <1>4, <1>5, <1>6, <1>7, <1>8

LEMMA QuietRefusal ==
  ASSUME TypeInv, NEW p \in Peer, NEW i \in StreamId, Refuse(p, i)
  PROVE  jobs' = [jobs EXCEPT ![p] = jobs'[p]] /\ KeptQueue(jobs[p], jobs'[p])
  <1>1. PICK fits \in Encodable :
          Queue(p, [Plain("ERROR", i) EXCEPT !.fits = fits, !.reader = TRUE])
    BY DEF Refuse
  <1>2. [Plain("ERROR", i) EXCEPT !.fits = fits, !.reader = TRUE] \in Job
    BY PlainType, JobChanges, CallsAssumption DEF JobKind
  <1>3. [Plain("ERROR", i) EXCEPT !.fits = fits, !.reader = TRUE].kind # "OPEN"
    BY DEF Plain
  <1> QED  BY <1>1, <1>2, <1>3, KeptAppend

LEMMA QuietRead ==
  ASSUME TypeInv, NEW p \in Peer,
         \/ ReadLate(p) \/ ReadDemand(p) \/ ReadData(p) \/ StartReassembly(p)
         \/ RefuseReassembly(p) \/ ReadFragment(p) \/ ReadComplete(p) \/ ReadEnding(p)
  PROVE  Quietly(p)
  <1> DEFINE i == Incoming(p).id
  <1>1. CASE ReadLate(p)
    BY <1>1, KeptSame DEF ReadLate, Quietly, Narrows, tableVars, idVars, writerVars
  <1>2. CASE ReadDemand(p)
    BY <1>2, KeptSame, NarrowsByUpdate DEF ReadDemand, Quietly, idVars, writerVars
  <1>3. CASE ReadData(p)
    BY <1>3, KeptSame, NarrowsByUpdate, SMTT(30) DEF ReadData, Quietly, idVars, writerVars
  <1>4. CASE StartReassembly(p)
    BY <1>4, KeptSame DEF StartReassembly, Quietly, Narrows, idVars, writerVars
  <1>5. CASE RefuseReassembly(p)
    <2>1. i \in StreamId
      BY <1>5, ReadsType DEF RefuseReassembly, ReadsLive
    <2> QED  BY <1>5, <2>1, QuietRefusal, NarrowsByCancel DEF RefuseReassembly, Quietly, idVars
  <1>6. CASE ReadFragment(p)
    <2>1. UNCHANGED <<idVars, writerVars>>
      BY <1>6 DEF ReadFragment
    <2>2. Narrows(p)
      BY <1>6, NarrowsByUpdate DEF ReadFragment, Narrows
    <2> QED  BY <2>1, <2>2, KeptSame DEF Quietly, idVars, writerVars
  <1>7. CASE ReadComplete(p)
    <2>1. i \in StreamId
      BY <1>7, ReadsType DEF ReadComplete, ReadsLive
    <2> QED  BY <1>7, <2>1, KeptSame, NarrowsByRelease DEF ReadComplete, Quietly, idVars, writerVars
  <1>8. CASE ReadEnding(p)
    <2>1. i \in StreamId
      BY <1>8, ReadsType DEF ReadEnding, ReadsLive
    <2> QED  BY <1>8, <2>1, KeptSame, NarrowsByCancel DEF ReadEnding, Quietly, idVars, writerVars
  <1> QED  BY <1>1, <1>2, <1>3, <1>4, <1>5, <1>6, <1>7, <1>8

\* Whatever ends a session ends it in the same way.
LEMMA SessionEnds ==
  ASSUME TypeInv, NEW p \in Peer,
         \/ Exhaust(p) \/ LaneFails(p) \/ CarrierEnds(p) \/ CloseWritten(p)
         \/ ReadIllegal(p) \/ ReadClose(p)
  PROVE  Ends(p)
  <1>1. fault[p] \in {"none", "lost", "violation", "exhausted"}
    BY DEF TypeInv, TypeOK, StateType
  <1> QED  BY <1>1 DEF Exhaust, LaneFails, CarrierEnds, CloseWritten, ReadIllegal, ReadClose, Ends

\* The classification the rest of the module works with.
LEMMA StepKinds ==
  ASSUME TypeInv, Next
  PROVE  \E p \in Peer : \/ Quietly(p) \/ Ends(p) \/ Open(p) \/ OpenWritten(p)
                         \/ RollBackOpen(p) \/ TurnsAway(p) \/ Admits(p)
  <1>1. PICK p \in Peer : \/ Application(p) \/ Write(p) \/ LaneFails(p) \/ Read(p)
                          \/ \E i \in StreamId : StreamTail(p, i)
    BY DEF Next
  <1>2. CASE Application(p)
    BY <1>2, QuietCalls, QuietSession, Zenon DEF Application
  <1>3. CASE Write(p)
    BY <1>3, QuietWrite, SessionEnds, Zenon DEF Write
  <1>4. CASE LaneFails(p)
    BY <1>4, SessionEnds
  <1>5. CASE Read(p)
    BY <1>5, QuietRead, SessionEnds, Zenon DEF Read, TurnsAway, Admits
  <1>6. CASE \E i \in StreamId : StreamTail(p, i)
    BY <1>6, QuietTail
  <1> QED  BY <1>1, <1>2, <1>3, <1>4, <1>5, <1>6

-----------------------------------------------------------------------------
(* Ids                                                                     *)

\* Where the OPENs of a longer, and of a shorter, queue come from.
LEMMA OpensAppended ==
  ASSUME NEW q \in Seq(Job), NEW job \in Job
  PROVE  /\ \A k \in OpenAt(q) : k \in OpenAt(Append(q, job)) /\ Append(q, job)[k] = q[k]
         /\ \A k \in OpenAt(Append(q, job)) :
              \/ k \in OpenAt(q) /\ Append(q, job)[k] = q[k]
              \/ k = Len(q) + 1 /\ job.kind = "OPEN" /\ Append(q, job)[k] = job
  BY DEF OpenAt

LEMMA OpensTail ==
  ASSUME NEW q \in Seq(Job), q # <<>>
  PROVE  /\ Tail(q) \in Seq(Job)
         /\ \A k \in OpenAt(Tail(q)) : /\ k \in Nat \ {0} /\ k + 1 \in OpenAt(q)
                                       /\ Tail(q)[k] = q[k + 1]
  BY DEF OpenAt

\* A queue that gains no OPEN has the OPENs it had, at these places.
LEMMA OpensKept ==
  ASSUME NEW q \in Seq(Job), NEW r, KeptQueue(q, r)
  PROVE  \E d \in {0, 1} : \A k \in OpenAt(r) :
           k \in Nat /\ k + d \in OpenAt(q) /\ r[k] = q[k + d]
  <1>0. \A u \in Seq(Job) : \A k \in OpenAt(u) : k \in Nat /\ k + 0 = k
    BY DEF OpenAt
  <1>1. CASE r = q
    BY <1>0, <1>1
  <1>2. CASE q # <<>> /\ r = Tail(q)
    BY <1>2, OpensTail
  <1>3. CASE \E job \in Job : /\ job.kind # "OPEN"
                              /\ r = Append(q, job) \/ (q # <<>> /\ r = Append(Tail(q), job))
    <2>1. PICK job \in Job : /\ job.kind # "OPEN"
                             /\ r = Append(q, job) \/ (q # <<>> /\ r = Append(Tail(q), job))
      BY <1>3
    <2>2. CASE r = Append(q, job)
      <3>1. \A k \in OpenAt(r) : k \in OpenAt(q) /\ r[k] = q[k]
        <4>1. \A k \in OpenAt(Append(q, job)) :
                k \in OpenAt(q) /\ Append(q, job)[k] = q[k]
          BY <2>1, OpensAppended, Zenon
        <4> QED  BY <2>2, <4>1, Zenon
      <3>2. \A k \in OpenAt(r) : k \in Nat /\ k + 0 = k
        BY <1>0, <3>1
      <3>3. \A k \in OpenAt(r) : k \in Nat /\ k + 0 \in OpenAt(q) /\ r[k] = q[k + 0]
        BY <3>1, <3>2
      <3> QED  BY <3>3
    <2>3. CASE q # <<>> /\ r = Append(Tail(q), job)
      <3>1. Tail(q) \in Seq(Job)
        BY <2>3, OpensTail
      <3>2. \A k \in OpenAt(r) : k \in OpenAt(Tail(q)) /\ r[k] = Tail(q)[k]
        BY <2>1, <2>3, <3>1, OpensAppended
      <3> QED  BY <2>3, <3>2, OpensTail
    <2> QED  BY <2>1, <2>2, <2>3
  <1> QED  BY <1>1, <1>2, <1>3 DEF KeptQueue

\* The conjuncts of OneOpen and IdsInOrder for one peer, of the values they are about.
OneOpenIn(q, next, open) ==
  /\ OpenAt(q) # {} => open
  /\ \A k \in OpenAt(q) : q[k].id = next
  /\ \A k, m \in OpenAt(q) : k = m
InOrder(p, next, high, open, table) ==
  /\ next % 2 = Parity(p)
  /\ high = 0 \/ high % 2 # Parity(p)
  /\ \A i \in table : i \in Own(p) => i < next \/ (i = next /\ open)
  /\ \A i \in table : i \notin Own(p) => i <= high
Ordered(p) == /\ OneOpenIn(jobs[p], nextId[p], opening[p])
              /\ InOrder(p, nextId[p], highestRemote[p], opening[p], live[p])

\* The invariant is a conjunction over the peers ...
LEMMA IdInvByPeer == (OneOpen /\ IdsInOrder) <=> \A p \in Peer : Ordered(p)
  BY DEF OneOpen, IdsInOrder, Ordered, OneOpenIn, InOrder

\* ... and a step of p leaves the other peer alone.
LEMMA OrderedElsewhere ==
  ASSUME \A p \in Peer : Ordered(p), NEW p \in Peer, Ordered(p)',
         \A q \in Peer \ {p} : /\ jobs'[q] = jobs[q] /\ nextId'[q] = nextId[q]
                               /\ opening'[q] = opening[q] /\ live'[q] = live[q]
                               /\ highestRemote'[q] = highestRemote[q]
  PROVE  \A q \in Peer : Ordered(q)'
  BY DEF Ordered

\* A queue that gains no OPEN stays in order.
LEMMA OneOpenKept ==
  ASSUME NEW q \in Seq(Job), NEW r, NEW next, NEW open, KeptQueue(q, r),
         OneOpenIn(q, next, open)
  PROVE  OneOpenIn(r, next, open)
  <1>1. PICK d \in {0, 1} : \A k \in OpenAt(r) :
          k \in Nat /\ k + d \in OpenAt(q) /\ r[k] = q[k + d]
    BY OpensKept
  <1>2. OpenAt(r) # {} => open
    BY <1>1 DEF OneOpenIn
  <1>3. \A k \in OpenAt(r) : r[k].id = next
    BY <1>1 DEF OneOpenIn
  <1>4. \A k, m \in OpenAt(r) : k = m
    <2> SUFFICES ASSUME NEW k \in OpenAt(r), NEW m \in OpenAt(r) PROVE k = m
      OBVIOUS
    <2>1. k + d = m + d /\ k \in Nat /\ m \in Nat
      BY <1>1 DEF OneOpenIn
    <2> QED  BY <2>1
  <1> QED  BY <1>2, <1>3, <1>4 DEF OneOpenIn

\* The table only loses ids.
LEMMA NarrowsLive ==
  ASSUME TypeInv, NEW p \in Peer, Narrows(p)
  PROVE  live'[p] \subseteq live[p] /\ \A q \in Peer \ {p} : live'[q] = live[q]
  BY DEF TypeInv, TypeOK, TableType, Narrows, Leave

\* Each kind of step keeps the ids in order.
LEMMA OrderedQuietly ==
  ASSUME IdInv, NEW p \in Peer, Quietly(p)
  PROVE  \A q \in Peer : Ordered(q)'
  <1>1. \A q \in Peer : Ordered(q)
    BY IdInvByPeer DEF IdInv
  <1>2. live'[p] \subseteq live[p] /\ \A q \in Peer \ {p} : live'[q] = live[q]
    BY NarrowsLive DEF IdInv, Quietly
  <1>3. UNCHANGED <<nextId, highestRemote, opening>>
    BY DEF Quietly
  <1>4. \A q \in Peer \ {p} : jobs'[q] = jobs[q]
    BY DEF Quietly, IdInv, TypeInv, TypeOK, WriterType
  <1>5. OneOpenIn(jobs'[p], nextId[p], opening[p])
    <2>1. jobs[p] \in Seq(Job)
      BY DEF IdInv, TypeInv, TypeOK, WriterType
    <2> QED  BY <1>1, <2>1, OneOpenKept DEF Quietly, Ordered
  <1>6. InOrder(p, nextId[p], highestRemote[p], opening[p], live'[p])
    BY <1>1, <1>2 DEF Ordered, InOrder
  <1>7. Ordered(p)'
    BY <1>3, <1>5, <1>6 DEF Ordered, OneOpenIn, InOrder
  <1> QED  BY <1>1, <1>2, <1>3, <1>4, <1>7, OrderedElsewhere

LEMMA OrderedOver ==
  ASSUME IdInv, NEW p \in Peer, Ends(p)
  PROVE  \A q \in Peer : Ordered(q)'
  <1>1. \A q \in Peer : Ordered(q)
    BY IdInvByPeer DEF IdInv
  <1>2. /\ jobs' = [jobs EXCEPT ![p] = <<>>] /\ live' = [live EXCEPT ![p] = {}]
        /\ opening' = [opening EXCEPT ![p] = FALSE]
        /\ UNCHANGED <<nextId, highestRemote>>
    BY DEF Ends, Over
  <1>3. jobs'[p] = <<>> /\ live'[p] = {}
    BY <1>2 DEF IdInv, TypeInv, TypeOK, WriterType, TableType
  <1>4. OpenAt(<<>>) = {}
    BY DEF OpenAt
  <1>5. Ordered(p)'
    BY <1>1, <1>2, <1>3, <1>4 DEF Ordered, OneOpenIn, InOrder, Parity
  <1>6. \A q \in Peer \ {p} : /\ jobs'[q] = jobs[q] /\ nextId'[q] = nextId[q]
                               /\ opening'[q] = opening[q] /\ live'[q] = live[q]
                               /\ highestRemote'[q] = highestRemote[q]
    BY <1>2 DEF IdInv, TypeInv, TypeOK, WriterType, TableType, IdType
  <1> QED  BY <1>1, <1>5, <1>6, OrderedElsewhere

\* The id an OPEN is given is one of the peer's own and has never been used.
LEMMA NextIdFresh ==
  ASSUME IdInv, NEW p \in Peer, nextId[p] \in StreamId, ~opening[p]
  PROVE  nextId[p] \in Own(p) /\ nextId[p] \notin live[p] /\ ~IsPast(p, nextId[p])
  <1>1. InOrder(p, nextId[p], highestRemote[p], opening[p], live[p])
    BY IdInvByPeer DEF IdInv, Ordered
  <1>2. nextId[p] \in Own(p)
    BY <1>1 DEF InOrder, Own, Parity
  <1>3. nextId[p] \in Nat
    BY DEF StreamId
  <1> QED  BY <1>1, <1>2, <1>3 DEF InOrder, IsPast

LEMMA EnterLive ==
  ASSUME TypeInv, NEW p \in Peer, NEW i \in StreamId, Enter(p, i)
  PROVE  live'[p] = live[p] \cup {i} /\ \A q \in Peer \ {p} : live'[q] = live[q]
  BY DEF TypeInv, TypeOK, TableType, Enter

LEMMA OrderedOpen ==
  ASSUME IdInv, NEW p \in Peer, Open(p)
  PROVE  \A q \in Peer : Ordered(q)'
  <1> DEFINE i == nextId[p]
  <1>1. \A q \in Peer : Ordered(q)
    BY IdInvByPeer DEF IdInv
  <1>2. PICK w \in Weights, fits \in Encodable :
          Enter(p, i) /\ Queue(p, [Plain("OPEN", i) EXCEPT !.amount = w, !.fits = fits])
    BY DEF Open
  <1> DEFINE job == [Plain("OPEN", i) EXCEPT !.amount = w, !.fits = fits]
  <1>3. i \in StreamId /\ ~opening[p] /\ w \in Nat /\ fits \in BOOLEAN
    BY CallsAssumption DEF Open
  <1>4. job \in Job /\ job.kind = "OPEN" /\ job.id = i
    <2>1. job \in Job
      BY <1>3, PlainType, JobChanges DEF JobKind
    <2> QED  BY <2>1, SMTT(30) DEF Plain
  <1>5. Queue(p, job)
    BY <1>2
  <1> HIDE DEF job
  <1>6. jobs'[p] = Append(jobs[p], job) /\ \A q \in Peer \ {p} : jobs'[q] = jobs[q]
    BY <1>5 DEF IdInv, TypeInv, TypeOK, WriterType, Queue
  <1>7. opening'[p] = TRUE /\ \A q \in Peer \ {p} : opening'[q] = opening[q]
    BY DEF IdInv, TypeInv, TypeOK, IdType, Open
  <1>8. UNCHANGED <<nextId, highestRemote>>
    BY DEF Open
  <1>9. OneOpenIn(jobs'[p], i, TRUE)
    <2>1. OpenAt(jobs[p]) = {}
      BY <1>1, <1>3 DEF Ordered, OneOpenIn
    <2>2. \A k \in OpenAt(jobs'[p]) : k = Len(jobs[p]) + 1 /\ jobs'[p][k] = job
      BY <1>4, <1>6, <2>1, OpensAppended DEF IdInv, TypeInv, TypeOK, WriterType
    <2> QED  BY <1>4, <2>2 DEF OneOpenIn
  <1>10. live'[p] = live[p] \cup {i} /\ \A q \in Peer \ {p} : live'[q] = live[q]
    BY <1>2, <1>3, EnterLive DEF IdInv
  <1>11. InOrder(p, i, highestRemote[p], TRUE, live'[p])
    BY <1>1, <1>3, <1>10, NextIdFresh DEF Ordered, InOrder
  <1>12. Ordered(p)'
    BY <1>7, <1>8, <1>9, <1>11 DEF Ordered, OneOpenIn, InOrder, Parity
  <1> QED  BY <1>1, <1>6, <1>7, <1>8, <1>10, <1>12, OrderedElsewhere

\* With the only OPEN gone the queue holds none.
LEMMA OpenDone ==
  ASSUME IdInv, NEW p \in Peer, jobs[p] # <<>>, Head(jobs[p]).kind = "OPEN",
         jobs' = [jobs EXCEPT ![p] = Tail(@)]
  PROVE  /\ Head(jobs[p]).id = nextId[p] /\ opening[p]
         /\ OpenAt(jobs'[p]) = {} /\ \A q \in Peer \ {p} : jobs'[q] = jobs[q]
  <1>1. jobs[p] \in Seq(Job) /\ OneOpenIn(jobs[p], nextId[p], opening[p])
    BY IdInvByPeer DEF IdInv, TypeInv, TypeOK, WriterType, Ordered
  <1>2. 1 \in OpenAt(jobs[p]) /\ jobs[p][1] = Head(jobs[p])
    BY <1>1, EmptySeq DEF OpenAt
  <1>3. jobs'[p] = Tail(jobs[p]) /\ \A q \in Peer \ {p} : jobs'[q] = jobs[q]
    BY DEF IdInv, TypeInv, TypeOK, WriterType
  <1>4. OpenAt(Tail(jobs[p])) = {}
    <2> SUFFICES ASSUME NEW k \in OpenAt(Tail(jobs[p])) PROVE FALSE
      OBVIOUS
    <2>1. k \in Nat \ {0} /\ k + 1 \in OpenAt(jobs[p])
      BY <1>1, OpensTail
    <2>2. k + 1 = 1
      BY <1>1, <1>2, <2>1 DEF OneOpenIn
    <2> QED  BY <2>1, <2>2
  <1> QED  BY <1>1, <1>2, <1>3, <1>4 DEF OneOpenIn

LEMMA OrderedOpenWritten ==
  ASSUME IdInv, NEW p \in Peer, OpenWritten(p)
  PROVE  \A q \in Peer : Ordered(q)'
  <1>1. \A q \in Peer : Ordered(q)
    BY IdInvByPeer DEF IdInv
  <1>2. jobs[p] # <<>> /\ Head(jobs[p]).kind = "OPEN" /\ jobs' = [jobs EXCEPT ![p] = Tail(@)]
    BY DEF OpenWritten, JobWritten, JobDone, IdInv, TypeInv, WritesFirst
  <1>3. OpenAt(jobs'[p]) = {} /\ \A q \in Peer \ {p} : jobs'[q] = jobs[q]
    BY <1>2, OpenDone
  <1>4. UNCHANGED <<live, highestRemote>>
    BY DEF OpenWritten, Update
  <1>5. /\ nextId'[p] = nextId[p] + 2 /\ opening'[p] = FALSE
        /\ \A q \in Peer \ {p} : nextId'[q] = nextId[q] /\ opening'[q] = opening[q]
    BY DEF OpenWritten, IdInv, TypeInv, TypeOK, IdType
  <1>6. OneOpenIn(jobs'[p], nextId[p] + 2, FALSE)
    BY <1>3 DEF OneOpenIn
  <1>7. InOrder(p, nextId[p] + 2, highestRemote[p], FALSE, live[p])
    <2>1. nextId[p] \in Nat
      BY DEF IdInv, TypeInv, TypeOK, IdType
    <2>2. (nextId[p] + 2) % 2 = nextId[p] % 2
      BY <2>1
    <2>3. \A i \in live[p] : i \in Nat
      BY DEF IdInv, TypeInv, TypeOK, TableType, StreamId
    <2>4. InOrder(p, nextId[p], highestRemote[p], opening[p], live[p])
      BY <1>1 DEF Ordered
    <2>5. \A i \in live[p] : i \in Own(p) => i < nextId[p] + 2
      BY <2>1, <2>3, <2>4 DEF InOrder
    <2> QED  BY <2>2, <2>4, <2>5 DEF InOrder
  <1>8. Ordered(p)'
    BY <1>4, <1>5, <1>6, <1>7 DEF Ordered, OneOpenIn, InOrder, Parity
  <1> QED  BY <1>1, <1>3, <1>4, <1>5, <1>8, OrderedElsewhere

\* Leave takes exactly the id out of the table.
LEMMA LeaveLive ==
  ASSUME TypeInv, NEW p \in Peer, NEW i \in StreamId, Leave(p, i)
  PROVE  live'[p] = live[p] \ {i} /\ \A q \in Peer \ {p} : live'[q] = live[q]
  BY DEF TypeInv, TypeOK, TableType, Leave

LEMMA OrderedRollBack ==
  ASSUME IdInv, NEW p \in Peer, RollBackOpen(p)
  PROVE  \A q \in Peer : Ordered(q)'
  <1> DEFINE i == Head(jobs[p]).id
  <1>1. \A q \in Peer : Ordered(q)
    BY IdInvByPeer DEF IdInv
  <1>2. jobs[p] # <<>> /\ Head(jobs[p]).kind = "OPEN" /\ jobs' = [jobs EXCEPT ![p] = Tail(@)]
    BY DEF RollBackOpen, CanWrite
  <1>3. /\ i = nextId[p] /\ OpenAt(jobs'[p]) = {}
        /\ \A q \in Peer \ {p} : jobs'[q] = jobs[q]
    BY <1>2, OpenDone
  <1>4. UNCHANGED <<nextId, highestRemote>>
    BY DEF RollBackOpen
  <1>5. opening'[p] = FALSE /\ \A q \in Peer \ {p} : opening'[q] = opening[q]
    BY DEF RollBackOpen, IdInv, TypeInv, TypeOK, IdType
  <1>6. live'[p] = live[p] \ {i} /\ \A q \in Peer \ {p} : live'[q] = live[q]
    <2>1. i \in StreamId
      BY <1>2, FirstJob DEF IdInv, TypeInv, TypeOK
    <2> QED  BY <2>1, LeaveLive DEF RollBackOpen, IdInv
  <1>7. OneOpenIn(jobs'[p], nextId[p], FALSE)
    BY <1>3 DEF OneOpenIn
  <1>8. InOrder(p, nextId[p], highestRemote[p], FALSE, live[p] \ {i})
    BY <1>1, <1>3 DEF Ordered, InOrder
  <1>9. Ordered(p)'
    BY <1>4, <1>5, <1>6, <1>7, <1>8 DEF Ordered, OneOpenIn, InOrder, Parity
  <1> QED  BY <1>1, <1>3, <1>4, <1>5, <1>6, <1>9, OrderedElsewhere

\* The id of an OPEN that is read is one of the other peer's and has never been used.
LEMMA RemoteIdFresh ==
  ASSUME IdInv, NEW p \in Peer, ReadsOpen(p)
  PROVE  LET i == Incoming(p).id
         IN /\ i \in StreamId \ Own(p) /\ i \notin live[p] /\ ~IsPast(p, i)
            /\ i > highestRemote[p] /\ i % 2 # Parity(p)
  <1> DEFINE i == Incoming(p).id
  <1>1. i = ExpectedId(p) /\ i \in StreamId
    <2>1. Reads(p, {"OPEN"}) /\ Incoming(p).kind = "OPEN" /\ ~Illegal(p, Incoming(p))
      BY DEF ReadsOpen, Reads
    <2> QED  BY <2>1, ReadsType DEF Illegal, IdInv
  <1>2. InOrder(p, nextId[p], highestRemote[p], opening[p], live[p])
    BY IdInvByPeer DEF IdInv, Ordered
  <1>3. highestRemote[p] \in Nat /\ i \in Nat
    BY <1>1 DEF IdInv, TypeInv, TypeOK, IdType, StreamId
  <1>4. i > highestRemote[p] /\ i % 2 # Parity(p)
    <2>1. CASE highestRemote[p] = 0
      BY <1>1, <1>3, <2>1 DEF ExpectedId, Parity
    <2>2. CASE highestRemote[p] # 0
      <3>1. i = highestRemote[p] + 2
        BY <1>1, <2>2 DEF ExpectedId
      <3>2. (highestRemote[p] + 2) % 2 = highestRemote[p] % 2
        BY <1>3
      <3> QED  BY <1>2, <1>3, <2>2, <3>1, <3>2 DEF InOrder
    <2> QED  BY <2>1, <2>2
  <1>5. i \notin Own(p)
    BY <1>4 DEF Own, Parity
  <1>6. i \notin live[p] /\ ~IsPast(p, i)
    BY <1>2, <1>3, <1>4, <1>5 DEF InOrder, IsPast
  <1> QED  BY <1>1, <1>4, <1>5, <1>6

\* The remote frontier moves to the id just read.
LEMMA OrderedFrontier ==
  ASSUME IdInv, NEW p \in Peer, ReadsOpen(p),
         live'[p] \subseteq live[p] \cup {Incoming(p).id},
         \A q \in Peer \ {p} : live'[q] = live[q],
         jobs' = [jobs EXCEPT ![p] = jobs'[p]], KeptQueue(jobs[p], jobs'[p])
  PROVE  \A q \in Peer : Ordered(q)'
  <1> DEFINE i == Incoming(p).id
  <1>1. \A q \in Peer : Ordered(q)
    BY IdInvByPeer DEF IdInv
  <1>2. UNCHANGED <<nextId, opening>>
    BY DEF ReadsOpen
  <1>3. highestRemote'[p] = i /\ \A q \in Peer \ {p} : highestRemote'[q] = highestRemote[q]
    BY DEF ReadsOpen, IdInv, TypeInv, TypeOK, IdType
  <1>4. \A q \in Peer \ {p} : jobs'[q] = jobs[q]
    BY DEF IdInv, TypeInv, TypeOK, WriterType
  <1>5. OneOpenIn(jobs'[p], nextId[p], opening[p])
    BY <1>1, OneOpenKept DEF Ordered, IdInv, TypeInv, TypeOK, WriterType
  <1>6. InOrder(p, nextId[p], i, opening[p], live'[p])
    <2>1. InOrder(p, nextId[p], highestRemote[p], opening[p], live[p])
      BY <1>1 DEF Ordered
    <2>2. i \in Nat /\ highestRemote[p] \in Nat /\ \A k \in live[p] : k \in Nat
      <3>1. i \in StreamId
        BY RemoteIdFresh
      <3>2. live[p] \subseteq StreamId
        BY DEF IdInv, TypeInv, TypeOK, TableType
      <3>3. highestRemote[p] \in Nat
        BY DEF IdInv, TypeInv, TypeOK, IdType
      <3> QED  BY <3>1, <3>2, <3>3 DEF StreamId
    <2>3. i \notin Own(p) /\ i > highestRemote[p] /\ i % 2 # Parity(p)
      BY RemoteIdFresh
    <2>4. \A k \in live'[p] : k \in Own(p) => k < nextId[p] \/ (k = nextId[p] /\ opening[p])
      BY <2>1, <2>3 DEF InOrder
    <2>5. \A k \in live'[p] : k \notin Own(p) => k <= i
      BY <2>1, <2>2, <2>3 DEF InOrder
    <2> QED  BY <2>1, <2>3, <2>4, <2>5 DEF InOrder
  <1>7. Ordered(p)'
    BY <1>2, <1>3, <1>5, <1>6 DEF Ordered, OneOpenIn, InOrder, Parity
  <1> QED  BY <1>1, <1>2, <1>3, <1>4, <1>7, OrderedElsewhere

LEMMA OrderedTurnsAway ==
  ASSUME IdInv, NEW p \in Peer, TurnsAway(p)
  PROVE  \A q \in Peer : Ordered(q)'
  <1>1. ReadsOpen(p) /\ Refuse(p, Incoming(p).id) /\ UNCHANGED live
    BY DEF TurnsAway, RejectOpen, AcceptorThrows
  <1>2. Incoming(p).id \in StreamId
    BY <1>1, RemoteIdFresh
  <1> QED  BY <1>1, <1>2, QuietRefusal, OrderedFrontier DEF IdInv

LEMMA OrderedAdmits ==
  ASSUME IdInv, NEW p \in Peer, Admits(p)
  PROVE  \A q \in Peer : Ordered(q)'
  <1>1. ReadsOpen(p) /\ Enter(p, Incoming(p).id) /\ UNCHANGED jobs
    BY DEF Admits, HandleOpen, PendOpen
  <1>2. Incoming(p).id \in StreamId
    BY <1>1, RemoteIdFresh
  <1> QED  BY <1>1, <1>2, EnterLive, KeptSame, OrderedFrontier DEF IdInv

LEMMA InitIds == Init => IdInv
  <1> SUFFICES ASSUME Init PROVE IdInv
    OBVIOUS
  <1>1. \A p \in Peer : Ordered(p)
    BY DEF Init, Ordered, OneOpenIn, InOrder, Parity, OpenAt, Peer
  <1> QED  BY <1>1, InitType, IdInvByPeer DEF IdInv

LEMMA NextIds ==
  ASSUME IdInv, [Next]_vars
  PROVE  IdInv'
  <1>1. TypeInv'
    BY NextType DEF IdInv
  <1>2. \A p \in Peer : Ordered(p)'
    <2>1. CASE Next
      BY <2>1, StepKinds, OrderedQuietly, OrderedOver, OrderedOpen, OrderedOpenWritten,
         OrderedRollBack, OrderedTurnsAway, OrderedAdmits DEF IdInv
    <2>2. CASE UNCHANGED vars
      <3>1. \A p \in Peer : Ordered(p)
        BY IdInvByPeer DEF IdInv
      <3> QED  BY <2>2, <3>1 DEF vars, tableVars, idVars, writerVars, Ordered, OneOpenIn, InOrder
    <2> QED  BY <2>1, <2>2
  <1>3. OneOpen' /\ IdsInOrder'
    BY <1>2 DEF OneOpen, IdsInOrder, Ordered, OneOpenIn, InOrder
  <1> QED  BY <1>1, <1>3 DEF IdInv

\* At every moment one OPEN at most waits in a write queue, for the id
\* nextStreamId; every id in the table has been consumed, or is that one; and both
\* frontiers keep the parity of their side (openNext, handleOpen).
THEOREM IdsAlwaysInOrder == Spec => []IdInv
  BY InitIds, NextIds, PTL DEF Spec

-----------------------------------------------------------------------------
(* Used ids                                                                *)

\* The table gains at most one id in a step, and that id was never used.
LEMMA GainsFresh ==
  ASSUME IdInv, Next
  PROVE  \A p \in Peer : \A i \in live'[p] \ live[p] : ~IsPast(p, i)
  <1>1. PICK p \in Peer : \/ Quietly(p) \/ Ends(p) \/ Open(p) \/ OpenWritten(p)
                          \/ RollBackOpen(p) \/ TurnsAway(p) \/ Admits(p)
    BY StepKinds DEF IdInv
  <1>2. CASE Quietly(p)
    BY <1>2, NarrowsLive DEF IdInv, Quietly
  <1>3. CASE Ends(p)
    BY <1>3 DEF Ends, Over, IdInv, TypeInv, TypeOK, TableType
  <1>4. CASE Open(p)
    <2>1. Enter(p, nextId[p]) /\ nextId[p] \in StreamId /\ ~opening[p]
      BY <1>4 DEF Open
    <2>2. ~IsPast(p, nextId[p])
      BY <2>1, NextIdFresh
    <2> QED  BY <2>1, <2>2, EnterLive DEF IdInv
  <1>5. CASE OpenWritten(p)
    BY <1>5 DEF OpenWritten, Update
  <1>6. CASE RollBackOpen(p)
    <2>1. Head(jobs[p]).id \in StreamId
      BY <1>6, FirstJob DEF RollBackOpen, CanWrite, IdInv, TypeInv, TypeOK
    <2> QED  BY <1>6, <2>1, LeaveLive DEF RollBackOpen, IdInv
  <1>7. CASE TurnsAway(p)
    BY <1>7 DEF TurnsAway, RejectOpen, AcceptorThrows
  <1>8. CASE Admits(p)
    <2>1. ReadsOpen(p) /\ Enter(p, Incoming(p).id)
      BY <1>8 DEF Admits, HandleOpen, PendOpen
    <2>2. Incoming(p).id \in StreamId /\ ~IsPast(p, Incoming(p).id)
      BY <2>1, RemoteIdFresh
    <2> QED  BY <2>1, <2>2, EnterLive DEF IdInv
  <1> QED  BY <1>1, <1>2, <1>3, <1>4, <1>5, <1>6, <1>7, <1>8

\* Neither frontier moves back.
LEMMA FrontiersAdvance ==
  ASSUME IdInv, Next
  PROVE  \A p \in Peer : nextId'[p] >= nextId[p] /\ highestRemote'[p] >= highestRemote[p]
  <1>0. \A p \in Peer : nextId[p] \in Nat /\ highestRemote[p] \in Nat
    BY DEF IdInv, TypeInv, TypeOK, IdType
  <1>1. PICK p \in Peer : \/ Quietly(p) \/ Ends(p) \/ Open(p) \/ OpenWritten(p)
                          \/ RollBackOpen(p) \/ TurnsAway(p) \/ Admits(p)
    BY StepKinds DEF IdInv
  <1>2. CASE Quietly(p) \/ Ends(p) \/ Open(p) \/ RollBackOpen(p)
    <2>1. UNCHANGED <<nextId, highestRemote>>
      <3>1. CASE Quietly(p)
        BY <3>1 DEF Quietly
      <3>2. CASE Ends(p)
        BY <3>2 DEF Ends
      <3>3. CASE Open(p)
        BY <3>3 DEF Open
      <3>4. CASE RollBackOpen(p)
        BY <3>4 DEF RollBackOpen
      <3> QED  BY <1>2, <3>1, <3>2, <3>3, <3>4
    <2> QED  BY <1>0, <2>1
  <1>3. CASE OpenWritten(p)
    <2>1. nextId' = [nextId EXCEPT ![p] = @ + 2] /\ UNCHANGED highestRemote
      BY <1>3 DEF OpenWritten
    <2>2. \A q \in Peer : nextId'[q] = IF q = p THEN nextId[q] + 2 ELSE nextId[q]
      BY <2>1 DEF IdInv, TypeInv, TypeOK, IdType
    <2> QED  BY <1>0, <2>1, <2>2
  <1>4. CASE TurnsAway(p) \/ Admits(p)
    <2>1. ReadsOpen(p)
      BY <1>4 DEF TurnsAway, RejectOpen, AcceptorThrows, Admits, HandleOpen, PendOpen
    <2>2. Incoming(p).id \in StreamId /\ Incoming(p).id > highestRemote[p]
      BY <2>1, RemoteIdFresh
    <2>3. /\ UNCHANGED nextId
          /\ highestRemote' = [highestRemote EXCEPT ![p] = Incoming(p).id]
      BY <2>1 DEF ReadsOpen
    <2>4. \A q \in Peer :
            highestRemote'[q] = IF q = p THEN Incoming(p).id ELSE highestRemote[q]
      BY <2>3 DEF IdInv, TypeInv, TypeOK, IdType
    <2>5. Incoming(p).id \in Nat
      BY <2>2 DEF StreamId
    <2> QED  BY <1>0, <2>2, <2>3, <2>4, <2>5
  <1> QED  BY <1>1, <1>2, <1>3, <1>4

\* So an id behind its frontier stays there, and outside the table.
LEMMA UsedIdsStayOut ==
  ASSUME IdInv, [Next]_vars, NEW p \in Peer, NEW i \in StreamId, IsPast(p, i)
  PROVE  IsPast(p, i)' /\ (i \notin live[p] => i \notin live'[p])
  <1>1. CASE Next
    <2>1. nextId'[p] >= nextId[p] /\ highestRemote'[p] >= highestRemote[p]
      BY <1>1, FrontiersAdvance
    <2>2. /\ nextId[p] \in Nat /\ highestRemote[p] \in Nat
          /\ nextId'[p] \in Nat /\ highestRemote'[p] \in Nat /\ i \in Nat
      <3>1. TypeInv'
        BY NextType DEF IdInv
      <3> QED  BY <3>1 DEF IdInv, TypeInv, TypeOK, IdType, StreamId
    <2>3. IsPast(p, i)'
      BY <2>1, <2>2 DEF IsPast
    <2>4. i \in live'[p] \ live[p] => FALSE
      BY <1>1, GainsFresh
    <2> QED  BY <2>3, <2>4
  <1>2. CASE UNCHANGED vars
    BY <1>2 DEF vars, tableVars, idVars, IsPast
  <1> QED  BY <1>1, <1>2

\* An id is used for one stream only.  openNext takes ids upwards and gives none
\* back, handleOpen accepts the next one only, and streams.delete is final.
THEOREM IdsNeverReused == Spec => NoReuse
  <1>1. IdInv /\ [Next]_vars =>
          [\A p \in Peer : \A i \in StreamId :
             IsPast(p, i) => /\ IsPast(p, i)'
                             /\ i \notin live[p] => i \notin live'[p]]_vars
    BY UsedIdsStayOut
  <1> QED  BY <1>1, IdsAlwaysInOrder, PTL DEF Spec, NoReuse

-----------------------------------------------------------------------------
(* Counters                                                                *)

\* CountsExact for one peer, of the values it is about.
CountsOf(p, table, own, remote) ==
  /\ own = Cardinality(table \cap Own(p)) /\ remote = Cardinality(table \ Own(p))
  /\ own <= MaxInboundStreams /\ remote <= MaxInboundStreams
Counted(p) == CountsOf(p, live[p], localActive[p], remoteActive[p])

LEMMA CountsByPeer == CountsExact <=> \A p \in Peer : Counted(p)
  BY DEF CountsExact, Counted, CountsOf

\* A set of stream ids is finite, and so are its two halves.
LEMMA HalvesFinite ==
  ASSUME NEW p \in Peer, NEW table \in SUBSET StreamId
  PROVE  /\ IsFiniteSet(table \cap Own(p)) /\ IsFiniteSet(table \ Own(p))
         /\ Cardinality(table \cap Own(p)) \in Nat /\ Cardinality(table \ Own(p)) \in Nat
  <1>1. IsFiniteSet(StreamId)
    BY FS_Interval, BoundsAssumption DEF StreamId
  <1>2. IsFiniteSet(table \cap Own(p)) /\ IsFiniteSet(table \ Own(p))
    BY <1>1, FS_Subset
  <1> QED  BY <1>2, FS_CardinalityType

\* As for the ids, a step of p leaves the other peer's counters alone.
LEMMA CountedElsewhere ==
  ASSUME \A p \in Peer : Counted(p), NEW p \in Peer, Counted(p)',
         \A q \in Peer \ {p} : /\ live'[q] = live[q] /\ localActive'[q] = localActive[q]
                               /\ remoteActive'[q] = remoteActive[q]
  PROVE  CountsExact'
  <1>1. \A q \in Peer : Counted(q)'
    BY DEF Counted
  <1> QED  BY <1>1 DEF CountsExact, Counted, CountsOf

LEMMA CountedSame ==
  ASSUME CountsExact, UNCHANGED <<live, localActive, remoteActive>>
  PROVE  CountsExact'
  BY DEF CountsExact

\* A new stream is counted once, on its own side, if there is room for it.
LEMMA CountedEnter ==
  ASSUME TypeInv, CountsExact, NEW p \in Peer, NEW i \in StreamId, Enter(p, i),
         i \notin live[p],
         IF i \in Own(p) THEN localActive[p] < MaxInboundStreams
                         ELSE remoteActive[p] < MaxInboundStreams
  PROVE  CountsExact'
  <1>1. \A q \in Peer : Counted(q)
    BY CountsByPeer
  <1>2. live'[p] = live[p] \cup {i} /\ \A q \in Peer \ {p} : live'[q] = live[q]
    BY EnterLive
  <1>3. /\ localActive'[p] = localActive[p] + (IF i \in Own(p) THEN 1 ELSE 0)
        /\ remoteActive'[p] = remoteActive[p] + (IF i \in Own(p) THEN 0 ELSE 1)
        /\ \A q \in Peer \ {p} : /\ localActive'[q] = localActive[q]
                                 /\ remoteActive'[q] = remoteActive[q]
    BY DEF Enter, TypeInv, TypeOK, TableType
  <1>4. /\ IsFiniteSet(live[p] \cap Own(p)) /\ IsFiniteSet(live[p] \ Own(p))
        /\ localActive[p] \in Nat /\ remoteActive[p] \in Nat /\ MaxInboundStreams \in Nat
    BY HalvesFinite, BoundsAssumption DEF TypeInv, TypeOK, TableType
  <1>5. CASE i \in Own(p)
    <2>1. /\ live'[p] \cap Own(p) = (live[p] \cap Own(p)) \cup {i}
          /\ live'[p] \ Own(p) = live[p] \ Own(p)
      BY <1>2, <1>5
    <2>2. Cardinality(live'[p] \cap Own(p)) = Cardinality(live[p] \cap Own(p)) + 1
      BY <1>4, <2>1, FS_AddElement
    <2>3. localActive'[p] = localActive[p] + 1 /\ remoteActive'[p] = remoteActive[p]
      BY <1>3, <1>4, <1>5
    <2>4. localActive[p] + 1 <= MaxInboundStreams
      BY <1>4, <1>5
    <2>5. Counted(p)'
      BY <1>1, <2>1, <2>2, <2>3, <2>4 DEF Counted, CountsOf
    <2> QED  BY <1>1, <1>2, <1>3, <2>5, CountedElsewhere
  <1>6. CASE i \notin Own(p)
    <2>1. /\ live'[p] \cap Own(p) = live[p] \cap Own(p)
          /\ live'[p] \ Own(p) = (live[p] \ Own(p)) \cup {i}
      BY <1>2, <1>6
    <2>2. Cardinality(live'[p] \ Own(p)) = Cardinality(live[p] \ Own(p)) + 1
      BY <1>4, <2>1, FS_AddElement
    <2>3. localActive'[p] = localActive[p] /\ remoteActive'[p] = remoteActive[p] + 1
      BY <1>3, <1>4, <1>6
    <2>4. remoteActive[p] + 1 <= MaxInboundStreams
      BY <1>4, <1>6
    <2>5. Counted(p)'
      BY <1>1, <2>1, <2>2, <2>3, <2>4 DEF Counted, CountsOf
    <2> QED  BY <1>1, <1>2, <1>3, <2>5, CountedElsewhere
  <1> QED  BY <1>5, <1>6

\* A stream that leaves was counted, so Math.max(0, n - 1) is n - 1.
LEMMA CountedLeave ==
  ASSUME TypeInv, CountsExact, NEW p \in Peer, NEW i \in StreamId, Leave(p, i)
  PROVE  CountsExact'
  <1>1. CASE i \notin live[p]
    BY <1>1, CountedSame DEF Leave
  <1>2. CASE i \in live[p]
    <2>1. \A q \in Peer : Counted(q)
      BY CountsByPeer
    <2>2. live'[p] = live[p] \ {i} /\ \A q \in Peer \ {p} : live'[q] = live[q]
      BY LeaveLive
    <2>3. /\ localActive'[p] = IF i \in Own(p) THEN Less(localActive[p], 1) ELSE localActive[p]
          /\ remoteActive'[p] = IF i \in Own(p) THEN remoteActive[p] ELSE Less(remoteActive[p], 1)
          /\ \A q \in Peer \ {p} : /\ localActive'[q] = localActive[q]
                                   /\ remoteActive'[q] = remoteActive[q]
      BY <1>2 DEF Leave, TypeInv, TypeOK, TableType
    <2>4. /\ IsFiniteSet(live[p] \cap Own(p)) /\ IsFiniteSet(live[p] \ Own(p))
          /\ Cardinality(live[p] \cap Own(p)) \in Nat /\ Cardinality(live[p] \ Own(p)) \in Nat
          /\ MaxInboundStreams \in Nat
      BY HalvesFinite, BoundsAssumption DEF TypeInv, TypeOK, TableType
    <2>5. \A n \in Nat \ {0} : Less(n, 1) = n - 1 /\ n - 1 <= n
      BY DEF Less
    <2>6. CASE i \in Own(p)
      <3>1. /\ live'[p] \cap Own(p) = (live[p] \cap Own(p)) \ {i}
            /\ live'[p] \ Own(p) = live[p] \ Own(p)
        BY <2>2, <2>6
      <3>2. /\ Cardinality(live'[p] \cap Own(p)) = Cardinality(live[p] \cap Own(p)) - 1
            /\ Cardinality(live[p] \cap Own(p)) # 0
        <4> DEFINE half == live[p] \cap Own(p)
        <4>1. i \in half /\ IsFiniteSet(half)
          BY <1>2, <2>4, <2>6
        <4>2. Cardinality(half \ {i}) = Cardinality(half) - 1
          BY <4>1, FS_RemoveElement
        <4>3. Cardinality(half) # 0
          BY <4>1, FS_EmptySet
        <4> QED  BY <3>1, <4>2, <4>3
      <3>3. Counted(p)'
        BY <2>1, <2>3, <2>4, <2>5, <2>6, <3>1, <3>2 DEF Counted, CountsOf
      <3> QED  BY <2>1, <2>2, <2>3, <3>3, CountedElsewhere
    <2>7. CASE i \notin Own(p)
      <3>1. /\ live'[p] \cap Own(p) = live[p] \cap Own(p)
            /\ live'[p] \ Own(p) = (live[p] \ Own(p)) \ {i}
        BY <2>2, <2>7
      <3>2. /\ Cardinality(live'[p] \ Own(p)) = Cardinality(live[p] \ Own(p)) - 1
            /\ Cardinality(live[p] \ Own(p)) # 0
        <4> DEFINE half == live[p] \ Own(p)
        <4>1. i \in half /\ IsFiniteSet(half)
          BY <1>2, <2>4, <2>7
        <4>2. Cardinality(half \ {i}) = Cardinality(half) - 1
          BY <4>1, FS_RemoveElement
        <4>3. Cardinality(half) # 0
          BY <4>1, FS_EmptySet
        <4> QED  BY <3>1, <4>2, <4>3
      <3>3. Counted(p)'
        BY <2>1, <2>3, <2>4, <2>5, <2>7, <3>1, <3>2 DEF Counted, CountsOf
      <3> QED  BY <2>1, <2>2, <2>3, <3>3, CountedElsewhere
    <2> QED  BY <2>6, <2>7
  <1> QED  BY <1>1, <1>2

\* A session that ends takes off exactly what it has counted.
LEMMA CountedOver ==
  ASSUME TypeInv, CountsExact, NEW p \in Peer, Ends(p)
  PROVE  CountsExact'
  <1>1. \A q \in Peer : Counted(q)
    BY CountsByPeer
  <1>2. /\ live'[p] = {}
        /\ localActive'[p] = Less(localActive[p], Cardinality(live[p] \cap Own(p)))
        /\ remoteActive'[p] = Less(remoteActive[p], Cardinality(live[p] \ Own(p)))
        /\ \A q \in Peer \ {p} : /\ live'[q] = live[q] /\ localActive'[q] = localActive[q]
                                 /\ remoteActive'[q] = remoteActive[q]
    BY DEF Ends, Over, TypeInv, TypeOK, TableType
  <1>3. \A n \in Nat : Less(n, n) = 0
    BY DEF Less
  <1>4. localActive'[p] = 0 /\ remoteActive'[p] = 0
    <2>1. localActive[p] \in Nat /\ remoteActive[p] \in Nat
      BY DEF TypeInv, TypeOK, TableType
    <2>2. /\ localActive[p] = Cardinality(live[p] \cap Own(p))
          /\ remoteActive[p] = Cardinality(live[p] \ Own(p))
      BY <1>1 DEF Counted, CountsOf
    <2> QED  BY <1>2, <1>3, <2>1, <2>2
  <1>5. Cardinality(live'[p] \cap Own(p)) = 0 /\ Cardinality(live'[p] \ Own(p)) = 0
    <2>1. live'[p] \cap Own(p) = {} /\ live'[p] \ Own(p) = {}
      BY <1>2
    <2> QED  BY <2>1, FS_EmptySet
  <1>6. Counted(p)'
    BY <1>4, <1>5, BoundsAssumption DEF Counted, CountsOf
  <1> QED  BY <1>1, <1>2, <1>6, CountedElsewhere

\* Each kind of step keeps the counters exact; only Enter needs IdInv.
LEMMA NextCounts ==
  ASSUME IdInv, CountsExact, [Next]_vars
  PROVE  CountsExact'
  <1>0. TypeInv
    BY DEF IdInv
  <1>1. CASE UNCHANGED vars
    BY <1>1, CountedSame DEF vars, tableVars
  <1>2. CASE Next
    <2>1. PICK p \in Peer : \/ Quietly(p) \/ Ends(p) \/ Open(p) \/ OpenWritten(p)
                            \/ RollBackOpen(p) \/ TurnsAway(p) \/ Admits(p)
      BY <1>0, <1>2, StepKinds
    <2>2. CASE Quietly(p)
      BY <1>0, <2>2, CountedSame, CountedLeave DEF Quietly, Narrows
    <2>3. CASE Ends(p)
      BY <1>0, <2>3, CountedOver
    <2>4. CASE Open(p)
      <3>1. /\ Enter(p, nextId[p]) /\ nextId[p] \in StreamId /\ ~opening[p]
            /\ localActive[p] < MaxInboundStreams
        BY <2>4 DEF Open
      <3>2. nextId[p] \in Own(p) /\ nextId[p] \notin live[p]
        BY <3>1, NextIdFresh
      <3> QED  BY <1>0, <3>1, <3>2, CountedEnter
    <2>5. CASE OpenWritten(p)
      BY <2>5, CountedSame DEF OpenWritten, Update
    <2>6. CASE RollBackOpen(p)
      <3>1. Head(jobs[p]).id \in StreamId
        BY <2>6, FirstJob DEF RollBackOpen, CanWrite, IdInv, TypeInv, TypeOK
      <3> QED  BY <1>0, <2>6, <3>1, CountedLeave DEF RollBackOpen
    <2>7. CASE TurnsAway(p)
      BY <2>7, CountedSame DEF TurnsAway, RejectOpen, AcceptorThrows
    <2>8. CASE Admits(p)
      <3>1. ReadsOpen(p) /\ Enter(p, Incoming(p).id) /\ remoteActive[p] < MaxInboundStreams
        BY <2>8 DEF Admits, HandleOpen, PendOpen, Admissible
      <3>2. Incoming(p).id \in StreamId \ Own(p) /\ Incoming(p).id \notin live[p]
        BY <3>1, RemoteIdFresh
      <3> QED  BY <1>0, <3>1, <3>2, CountedEnter
    <2> QED  BY <2>1, <2>2, <2>3, <2>4, <2>5, <2>6, <2>7, <2>8
  <1> QED  BY <1>1, <1>2

LEMMA InitCounts == Init => CountsExact
  <1> SUFFICES ASSUME Init, NEW p \in Peer PROVE Counted(p)
    BY CountsByPeer
  <1>1. live[p] = {} /\ localActive[p] = 0 /\ remoteActive[p] = 0
    BY DEF Init
  <1>2. live[p] \cap Own(p) = {} /\ live[p] \ Own(p) = {}
    BY <1>1
  <1> QED  BY <1>1, <1>2, FS_EmptySet, BoundsAssumption DEF Counted, CountsOf

\* localActiveStreams and remoteActiveStreams always say how many streams of
\* either side the table holds, and never exceed maxInboundStreams: an id enters
\* only when it is new, so no stream is counted twice, and leaves only once.
THEOREM CountsAlwaysExact == Spec => []CountsExact
  <1>1. Init => IdInv /\ CountsExact
    BY InitIds, InitCounts
  <1>2. IdInv /\ CountsExact /\ [Next]_vars => IdInv' /\ CountsExact'
    BY NextIds, NextCounts
  <1> QED  BY <1>1, <1>2, PTL DEF Spec

-----------------------------------------------------------------------------
(* The table holds open streams only                                       *)

\* An entered stream is open and has no call writing behind its COMPLETE; a stream
\* reserves nothing once it has left the table or its inbound direction has closed.
StreamSound(s, in) ==
  /\ in => ~IsClosed(s) /\ (s.busy => ~s.outClosed)
  /\ s.inClosed \/ ~in => s.expected = 0
  /\ s.cancelled => s.inClosed /\ s.outClosed
\* Nothing has been done with a stream whose id is not behind its frontier: an OPEN
\* that is rolled back leaves nothing to give back.
Untouched(s) ==
  /\ ~s.handle /\ s.inCredit = 0 /\ s.expected = 0
  /\ s.calls = 0 /\ s.tail = <<>> /\ ~s.busy /\ s.sent = 0
\* The places of a queue that hold a call of a stream's writeTail.
CallAt(q) == {k \in DOMAIN q : q[k].kind \in {"DATA", "COMPLETE"}}
\* A stream's writeTail has one call writing at a time.
OneCall(q, streams) ==
  /\ \A k \in CallAt(q) : streams[q[k].id].busy
  /\ \A k, m \in CallAt(q) : q[k].id = q[m].id => k = m

\* The accepted ids the application has not taken are the other peer's, and used.
PendingPast(p) == \A k \in DOMAIN pending[p] :
  \E i \in StreamId \ Own(p) : pending[p][k] = i /\ IsPast(p, i)

\* The inductive invariant of TableIsOpen, for one peer.
Sound(p) ==
  /\ \A i \in StreamId : StreamSound(stream[p][i], i \in live[p])
  /\ \A i \in StreamId : ~IsPast(p, i) => Untouched(stream[p][i])
  /\ PendingPast(p) /\ OneCall(jobs[p], stream[p])
  /\ ~Ready(p) => live[p] = {} /\ jobs[p] = <<>>
TableInv == IdInv /\ \A p \in Peer : Sound(p)

\* A step of p leaves what the other peer holds alone.
Alone(p) == \A q \in Peer \ {p} :
  /\ stream'[q] = stream[q] /\ live'[q] = live[q] /\ jobs'[q] = jobs[q]
  /\ pending'[q] = pending[q] /\ session'[q] = session[q]
  /\ nextId'[q] = nextId[q] /\ highestRemote'[q] = highestRemote[q]

LEMMA SoundElsewhere ==
  ASSUME TableInv, NEW p \in Peer, Alone(p), Sound(p)'
  PROVE  \A q \in Peer : Sound(q)'
  <1>1. \A q \in Peer : Sound(q)
    BY DEF TableInv
  <1>2. ASSUME NEW q \in Peer \ {p} PROVE Sound(q)'
    <2>1. Sound(q)
      BY <1>1
    <2>2. /\ stream'[q] = stream[q] /\ live'[q] = live[q] /\ jobs'[q] = jobs[q]
          /\ pending'[q] = pending[q] /\ session'[q] = session[q]
          /\ nextId'[q] = nextId[q] /\ highestRemote'[q] = highestRemote[q]
      BY DEF Alone
    <2>3. \A i : IsPast(q, i)' <=> IsPast(q, i)
      BY <2>2 DEF IsPast
    <2>4. Ready(q)' <=> Ready(q)
      BY <2>2 DEF Ready
    <2>5. /\ OneCall(jobs[q], stream[q])' <=> OneCall(jobs[q], stream[q])
          /\ PendingPast(q)' <=> PendingPast(q)
      BY <2>2, <2>3 DEF OneCall, PendingPast
    <2> QED  BY <2>1, <2>2, <2>3, <2>4, <2>5 DEF Sound
  <1> QED  BY <1>2

\* A step that changes one stream, and perhaps whether it is in the table.
LEMMA SoundAt ==
  ASSUME TableInv, Next, NEW p \in Peer, NEW i \in StreamId, NEW t \in Stream, Alone(p),
         stream' = [stream EXCEPT ![p][i] = t], live'[p] \ {i} = live[p] \ {i},
         Ready(p)', StreamSound(t, i \in live'[p]), ~IsPast(p, i)' => Untouched(t),
         PendingPast(p)', OneCall(jobs'[p], stream'[p])
  PROVE  \A q \in Peer : Sound(q)'
  <1>1. Sound(p) /\ IdInv
    BY DEF TableInv
  <1>2. stream'[p][i] = t /\ \A k \in StreamId \ {i} : stream'[p][k] = stream[p][k]
    BY <1>1 DEF IdInv, TypeInv, TypeOK, TableType
  <1>3. \A k \in StreamId : StreamSound(stream'[p][k], k \in live'[p])
    BY <1>1, <1>2 DEF Sound, StreamSound
  <1>4. \A k \in StreamId : ~IsPast(p, k)' => Untouched(stream'[p][k])
    <2>1. \A k \in StreamId : IsPast(p, k) => IsPast(p, k)'
      BY <1>1, UsedIdsStayOut
    <2> QED  BY <1>1, <1>2, <2>1 DEF Sound
  <1>5. Sound(p)'
    <2>1. (\A k \in StreamId : StreamSound(stream[p][k], k \in live[p]))'
      BY <1>3
    <2>2. (\A k \in StreamId : ~IsPast(p, k) => Untouched(stream[p][k]))'
      BY <1>4
    <2>3. OneCall(jobs[p], stream[p])'
      OBVIOUS
    <2>4. (~Ready(p) => live[p] = {} /\ jobs[p] = <<>>)'
      OBVIOUS
    <2> QED  BY <2>1, <2>2, <2>3, <2>4 DEF Sound
  <1> QED  BY <1>5, SoundElsewhere

\* A quiet step keeps the ids: what matters is the one stream and the queue.
LEMMA SoundQuietly ==
  ASSUME TableInv, Next, NEW p \in Peer, NEW i \in StreamId, NEW t \in Stream,
         Quietly(p), UNCHANGED session, Ready(p),
         pending' = pending \/ (pending[p] # <<>> /\ pending' = [pending EXCEPT ![p] = Tail(@)]),
         stream' = [stream EXCEPT ![p][i] = t], live'[p] \ {i} = live[p] \ {i},
         StreamSound(t, i \in live'[p]), ~IsPast(p, i) => Untouched(t),
         OneCall(jobs'[p], stream'[p])
  PROVE  \A q \in Peer : Sound(q)'
  <1>1. IdInv /\ Sound(p) /\ TypeInv
    BY DEF TableInv, IdInv
  <1>2. UNCHANGED <<nextId, highestRemote>> /\ Narrows(p) /\ jobs' = [jobs EXCEPT ![p] = jobs'[p]]
    BY DEF Quietly
  <1>3. Alone(p)
    <2>1. \A q \in Peer \ {p} : live'[q] = live[q]
      BY <1>1, <1>2, NarrowsLive
    <2>2. \A q \in Peer \ {p} : stream'[q] = stream[q] /\ jobs'[q] = jobs[q]
      BY <1>1, <1>2 DEF TypeInv, TypeOK, TableType, WriterType
    <2>3. \A q \in Peer \ {p} : pending'[q] = pending[q]
      BY <1>1 DEF TypeInv, TypeOK, IdType
    <2> QED  BY <1>2, <2>1, <2>2, <2>3 DEF Alone
  <1>4. \A k : IsPast(p, k)' <=> IsPast(p, k)
    BY <1>2 DEF IsPast
  <1>5. \A k \in DOMAIN pending'[p] : \E m \in DOMAIN pending[p] : pending'[p][k] = pending[p][m]
    <2>0. pending[p] \in Seq(StreamId)
      BY <1>1 DEF TypeInv, TypeOK, IdType
    <2>1. CASE pending' = pending
      BY <2>1
    <2>2. CASE pending[p] # <<>> /\ pending' = [pending EXCEPT ![p] = Tail(@)]
      <3>1. pending'[p] = Tail(pending[p])
        BY <1>1, <2>2 DEF TypeInv, TypeOK, IdType
      <3>2. \A k \in DOMAIN Tail(pending[p]) :
              k + 1 \in DOMAIN pending[p] /\ Tail(pending[p])[k] = pending[p][k + 1]
        BY <2>0, <2>2
      <3> QED  BY <3>1, <3>2
    <2> QED  BY <2>1, <2>2
  <1>6. PendingPast(p)'
    BY <1>1, <1>4, <1>5 DEF Sound, PendingPast
  <1>7. Ready(p)'
    BY DEF Ready
  <1>8. ~IsPast(p, i)' => Untouched(t)
    BY <1>4
  <1> QED  BY <1>3, <1>6, <1>7, <1>8, SoundAt

\* ... and a step that changes no stream.
LEMMA SoundStill ==
  ASSUME TableInv, Next, NEW p \in Peer, Quietly(p), Ready(p),
         UNCHANGED <<stream, live, pending, session>>, OneCall(jobs'[p], stream[p])
  PROVE  \A q \in Peer : Sound(q)'
  <1>1. IdInv /\ Sound(p) /\ TypeInv
    BY DEF TableInv, IdInv
  <1>2. PICK i \in StreamId : TRUE
    BY BoundsAssumption DEF StreamId
  <1>3. stream' = [stream EXCEPT ![p][i] = stream[p][i]] /\ stream[p][i] \in Stream
    BY <1>1, <1>2 DEF TypeInv, TypeOK, TableType
  <1>4. StreamSound(stream[p][i], i \in live'[p]) /\ (~IsPast(p, i) => Untouched(stream[p][i]))
    BY <1>1 DEF Sound
  <1>5. OneCall(jobs'[p], stream'[p])
    OBVIOUS
  <1> HIDE DEF Next, Quietly
  <1> QED  BY <1>3, <1>4, <1>5, SoundQuietly

\* What a queue's calls become when a job joins it, and when its first job leaves.
LEMMA CallsAppended ==
  ASSUME NEW q \in Seq(Job), NEW job \in Job
  PROVE  \A k \in CallAt(Append(q, job)) :
           \/ k \in CallAt(q) /\ Append(q, job)[k] = q[k]
           \/ k = Len(q) + 1 /\ job.kind \in {"DATA", "COMPLETE"} /\ Append(q, job)[k] = job
  BY DEF CallAt

LEMMA CallsTail ==
  ASSUME NEW q \in Seq(Job), q # <<>>
  PROVE  /\ Tail(q) \in Seq(Job)
         /\ \A k \in CallAt(Tail(q)) : /\ k \in Nat \ {0} /\ k + 1 \in CallAt(q)
                                       /\ Tail(q)[k] = q[k + 1]
  BY DEF CallAt

\* A job that is no call changes nothing.
LEMMA OneCallAppend ==
  ASSUME NEW q \in Seq(Job), NEW job \in Job, job.kind \notin {"DATA", "COMPLETE"},
         NEW a, NEW b, OneCall(q, a), \A i \in StreamId : a[i].busy => b[i].busy
  PROVE  OneCall(Append(q, job), b)
  <1>1. \A k \in CallAt(Append(q, job)) : k \in CallAt(q) /\ Append(q, job)[k] = q[k]
    BY CallsAppended
  <1>2. \A k \in CallAt(q) : q[k].id \in StreamId
    <2>1. \A j \in Job : j.kind \in {"DATA", "COMPLETE"} => j.id \in StreamId
      BY DEF Job, JobOf, JobKind
    <2> QED  BY <2>1 DEF CallAt
  <1> QED  BY <1>1, <1>2 DEF OneCall

LEMMA OneCallSame ==
  ASSUME NEW q \in Seq(Job), NEW a, NEW b, OneCall(q, a),
         \A i \in StreamId : a[i].busy => b[i].busy
  PROVE  OneCall(q, b)
  <1>1. \A k \in CallAt(q) : q[k].id \in StreamId
    <2>1. \A j \in Job : j.kind \in {"DATA", "COMPLETE"} => j.id \in StreamId
      BY DEF Job, JobOf, JobKind
    <2> QED  BY <2>1 DEF CallAt
  <1> QED  BY <1>1 DEF OneCall

\* A call is queued for a stream that has none.
LEMMA OneCallNew ==
  ASSUME NEW q \in Seq(Job), NEW job \in Job,
         NEW a, NEW b, OneCall(q, a), ~a[job.id].busy, b[job.id].busy,
         \A i \in StreamId \ {job.id} : a[i].busy => b[i].busy
  PROVE  OneCall(Append(q, job), b)
  <1> DEFINE r == Append(q, job)
  <1>1. \A k \in CallAt(q) : q[k].id \in StreamId \ {job.id}
    <2>1. \A j \in Job : j.kind \in {"DATA", "COMPLETE"} => j.id \in StreamId
      BY DEF Job, JobOf, JobKind
    <2> QED  BY <2>1 DEF CallAt, OneCall
  <1>2. \A k \in CallAt(r) : \/ k \in CallAt(q) /\ r[k] = q[k]
                             \/ /\ k = Len(q) + 1 /\ job.kind \in {"DATA", "COMPLETE"}
                                /\ r[k] = job
    BY CallsAppended, Zenon
  <1> HIDE DEF r
  <1>3. \A k \in CallAt(r) : b[r[k].id].busy
    BY <1>1, <1>2 DEF OneCall
  <1>4. \A k, m \in CallAt(r) : r[k].id = r[m].id => k = m
    BY <1>1, <1>2 DEF OneCall
  <1>5. OneCall(r, b)
    BY <1>3, <1>4 DEF OneCall
  <1> QED  BY <1>5 DEF r

\* A call that is done leaves its stream free.
LEMMA OneCallDone ==
  ASSUME NEW q \in Seq(Job), q # <<>>, NEW a, NEW b, OneCall(q, a),
         \A i \in StreamId :
           i # Head(q).id \/ Head(q).kind \notin {"DATA", "COMPLETE"} => (a[i].busy => b[i].busy)
  PROVE  OneCall(Tail(q), b)
  <1>1. \A k \in CallAt(q) : q[k].id \in StreamId
    <2>1. \A j \in Job : j.kind \in {"DATA", "COMPLETE"} => j.id \in StreamId
      BY DEF Job, JobOf, JobKind
    <2> QED  BY <2>1 DEF CallAt
  <1>2. 1 \in DOMAIN q /\ q[1] = Head(q)
    BY EmptySeq
  <1>3. ASSUME NEW k \in CallAt(Tail(q))
        PROVE  b[Tail(q)[k].id].busy
    <2>1. k \in Nat \ {0} /\ k + 1 \in CallAt(q) /\ Tail(q)[k] = q[k + 1]
      BY CallsTail
    <2>2. a[q[k + 1].id].busy /\ q[k + 1].id \in StreamId
      BY <1>1, <2>1 DEF OneCall
    <2>3. q[k + 1].id # Head(q).id \/ Head(q).kind \notin {"DATA", "COMPLETE"}
      <3>1. k + 1 # 1
        BY <2>1
      <3> QED  BY <1>2, <2>1, <3>1 DEF OneCall, CallAt
    <2> QED  BY <2>1, <2>2, <2>3
  <1>4. ASSUME NEW k \in CallAt(Tail(q)), NEW m \in CallAt(Tail(q)), Tail(q)[k].id = Tail(q)[m].id
        PROVE  k = m
    <2>1. /\ k \in Nat \ {0} /\ k + 1 \in CallAt(q) /\ Tail(q)[k] = q[k + 1]
          /\ m \in Nat \ {0} /\ m + 1 \in CallAt(q) /\ Tail(q)[m] = q[m + 1]
      BY CallsTail
    <2>2. k + 1 = m + 1
      BY <1>4, <2>1 DEF OneCall
    <2> QED  BY <2>1, <2>2
  <1> QED  BY <1>3, <1>4 DEF OneCall

\* What the invariant says of one stream and of the queue.
LEMMA SoundOf ==
  ASSUME TableInv, NEW p \in Peer, NEW i \in StreamId
  PROVE  /\ IdInv /\ TypeInv /\ stream[p][i] \in Stream
         /\ StreamSound(stream[p][i], i \in live[p])
         /\ ~IsPast(p, i) => Untouched(stream[p][i])
         /\ jobs[p] \in Seq(Job) /\ OneCall(jobs[p], stream[p])
  <1>1. IdInv /\ TypeInv /\ Sound(p)
    BY DEF TableInv, IdInv
  <1>2. stream[p][i] \in Stream /\ jobs[p] \in Seq(Job)
    BY <1>1 DEF TypeInv, TypeOK, TableType, WriterType
  <1> QED  BY <1>1, <1>2 DEF Sound

LEMMA ChangedStream ==
  ASSUME TypeInv, NEW p \in Peer, NEW i \in StreamId, NEW t,
         stream' = [stream EXCEPT ![p][i] = t]
  PROVE  stream'[p][i] = t /\ \A k \in StreamId \ {i} : stream'[p][k] = stream[p][k]
  BY DEF TypeInv, TypeOK, TableType

LEMMA QueuedJob ==
  ASSUME TypeInv, NEW p \in Peer, NEW job, Queue(p, job)
  PROVE  jobs'[p] = Append(jobs[p], job)
  BY DEF TypeInv, TypeOK, WriterType, Queue

\* Two states of a stream that differ in its credit and its items only ...
SameCalls(s, t) ==
  /\ t.handle = s.handle /\ t.calls = s.calls /\ t.tail = s.tail /\ t.busy = s.busy
  /\ t.sent = s.sent
SameEnds(s, t) ==
  t.inClosed = s.inClosed /\ t.outClosed = s.outClosed /\ t.cancelled = s.cancelled

\* ... and two of which the later has a call writing behind its end only if the
\* earlier has.
StaysOpen(s, t) == t.busy /\ t.outClosed => s.busy /\ s.outClosed

LEMMA SameSound ==
  ASSUME NEW s, NEW t, NEW in, SameEnds(s, t), t.expected = s.expected, StaysOpen(s, t),
         StreamSound(s, in)
  PROVE  StreamSound(t, in)
  BY DEF SameEnds, StaysOpen, StreamSound, IsClosed

LEMMA SoundRequest ==
  ASSUME TableInv, Next, NEW p \in Peer, NEW i \in StreamId, NEW n \in Demands, Request(p, i, n)
  PROVE  \A q \in Peer : Sound(q)'
  <1> DEFINE s == stream[p][i]
             t == [s EXCEPT !.inCredit = AddCredit(@, n), !.asked = @ + n]
             job == [Plain("DEMAND", i) EXCEPT !.amount = n]
  <1>1. /\ IdInv /\ TypeInv /\ s \in Stream /\ StreamSound(s, i \in live[p])
        /\ ~IsPast(p, i) => Untouched(s)
        /\ jobs[p] \in Seq(Job) /\ OneCall(jobs[p], stream[p])
    BY SoundOf
  <1>2. /\ Update(p, i, t) /\ Queue(p, job) /\ s.handle /\ Ready(p)
        /\ UNCHANGED <<pending, session>>
    BY DEF Request, Holds, Calls, idVars, stateVars
  <1>3. n \in Nat
    BY CallsAssumption, BoundsAssumption
  <1>4. t \in Stream /\ SameCalls(s, t) /\ SameEnds(s, t) /\ t.expected = s.expected
    <2>1. t \in Stream
      BY <1>1, <1>3, RequestedType
    <2> QED  BY <1>1, <2>1 DEF Stream, SameCalls, SameEnds
  <1>20. StaysOpen(s, t)
    BY <1>4 DEF SameCalls, SameEnds, StaysOpen
  <1>5. job \in Job /\ job.kind \notin {"DATA", "COMPLETE"}
    <2>1. job \in Job
      BY <1>3, PlainType, JobChanges DEF JobKind
    <2> QED  BY <2>1, SMTT(30) DEF Plain
  <1>6. Quietly(p)
    BY <1>1, QuietCalls
  <1> HIDE DEF t, job
  <1>7. stream' = [stream EXCEPT ![p][i] = t] /\ live' = live
    BY <1>2 DEF Update
  <1>8. \A k \in StreamId : stream[p][k].busy => stream'[p][k].busy
    BY <1>1, <1>4, <1>7, ChangedStream DEF SameCalls
  <1>9. OneCall(jobs'[p], stream'[p])
    <2>1. jobs'[p] = Append(jobs[p], job)
      BY <1>1, <1>2, QueuedJob
    <2> QED  BY <1>1, <1>5, <1>8, <2>1, OneCallAppend, SMTT(30)
  <1>10. StreamSound(t, i \in live'[p])
    BY <1>20, <1>1, <1>4, <1>7, SameSound
  <1>11. ~IsPast(p, i) => Untouched(t)
    BY <1>1, <1>2 DEF Untouched
  <1> QED  BY <1>2, <1>4, <1>6, <1>7, <1>9, <1>10, <1>11, SoundQuietly

\* Update keeps the table: with the directions as they were, and no more reserved,
\* only the untouched ids and the queue are left to look at.
LEMMA SoundUpdate ==
  ASSUME TableInv, Next, NEW p \in Peer, NEW i \in StreamId, NEW t \in Stream,
         Quietly(p), UNCHANGED session, Ready(p),
         pending' = pending \/ (pending[p] # <<>> /\ pending' = [pending EXCEPT ![p] = Tail(@)]),
         Update(p, i, t), SameEnds(stream[p][i], t), t.expected \in {0, stream[p][i].expected},
         StaysOpen(stream[p][i], t),
         ~IsPast(p, i) => Untouched(t), OneCall(jobs'[p], stream'[p])
  PROVE  \A q \in Peer : Sound(q)'
  <1>1. StreamSound(stream[p][i], i \in live[p])
    BY SoundOf
  <1>2. stream' = [stream EXCEPT ![p][i] = t] /\ live' = live
    BY DEF Update
  <1>3. StreamSound(t, i \in live'[p])
    BY <1>1, <1>2 DEF StreamSound, SameEnds, StaysOpen, IsClosed
  <1> QED  BY <1>2, <1>3, SoundQuietly

\* With the queue as it was, no stream may lose its call.
LEMMA SameQueue ==
  ASSUME TableInv, NEW p \in Peer, NEW i \in StreamId, NEW t, UNCHANGED jobs,
         stream' = [stream EXCEPT ![p][i] = t], stream[p][i].busy => t.busy
  PROVE  OneCall(jobs'[p], stream'[p])
  <1>1. /\ TypeInv /\ jobs[p] \in Seq(Job) /\ OneCall(jobs[p], stream[p])
    BY SoundOf
  <1>2. \A k \in StreamId : stream[p][k].busy => stream'[p][k].busy
    BY <1>1, ChangedStream
  <1>3. jobs'[p] = jobs[p]
    OBVIOUS
  <1> QED  BY <1>1, <1>2, <1>3, OneCallSame

\* The calls of the application.
LEMMA SoundSend ==
  ASSUME TableInv, Next, NEW p \in Peer, NEW i \in StreamId, NEW size \in ItemSizes,
         Send(p, i, size)
  PROVE  \A q \in Peer : Sound(q)'
  <1> DEFINE s == stream[p][i]
             op == [kind |-> "send", item |-> s.calls + 1, size |-> size]
             t == [s EXCEPT !.calls = @ + 1, !.tail = Append(@, op)]
  <1>1. s \in Stream /\ IdInv /\ TypeInv /\ (~IsPast(p, i) => Untouched(s))
    BY SoundOf
  <1>2. /\ Update(p, i, t) /\ s.handle /\ Ready(p)
        /\ UNCHANGED <<pending, session, jobs>>
    BY DEF Send, Holds, Calls, idVars, stateVars, writerVars
  <1>3. t \in Stream /\ SameEnds(s, t) /\ t.expected = s.expected /\ t.busy = s.busy
    <2>1. op \in Op
      BY <1>1, CallsAssumption, SMTT(30) DEF Op, Stream
    <2>2. t \in Stream
      BY <1>1, <2>1, SentType
    <2> QED  BY <1>1, <2>2 DEF Stream, SameEnds
  <1>20. StaysOpen(s, t)
    BY <1>3 DEF SameEnds, StaysOpen
  <1>4. Quietly(p)
    BY <1>1, QuietCalls
  <1> HIDE DEF t
  <1>5. OneCall(jobs'[p], stream'[p])
    BY <1>2, <1>3, SameQueue DEF Update
  <1>6. ~IsPast(p, i) => Untouched(t)
    BY <1>1, <1>2 DEF Untouched
  <1> QED  BY <1>2, <1>3, <1>4, <1>5, <1>6, <1>20, SoundUpdate

LEMMA SoundComplete ==
  ASSUME TableInv, Next, NEW p \in Peer, NEW i \in StreamId, Complete(p, i)
  PROVE  \A q \in Peer : Sound(q)'
  <1> DEFINE s == stream[p][i]
             op == [kind |-> "complete", item |-> 0, size |-> 1]
             t == [s EXCEPT !.tail = Append(@, op)]
  <1>1. s \in Stream /\ IdInv /\ TypeInv /\ (~IsPast(p, i) => Untouched(s))
    BY SoundOf
  <1>2. /\ Update(p, i, t) /\ s.handle /\ Ready(p)
        /\ UNCHANGED <<pending, session, jobs>>
    BY DEF Complete, Holds, Calls, idVars, stateVars, writerVars
  <1>3. t \in Stream /\ SameEnds(s, t) /\ t.expected = s.expected /\ t.busy = s.busy
    <2>1. op \in Op
      BY DEF Op
    <2>2. t \in Stream
      BY <1>1, <2>1, SentType
    <2> QED  BY <1>1, <2>2 DEF Stream, SameEnds
  <1>20. StaysOpen(s, t)
    BY <1>3 DEF SameEnds, StaysOpen
  <1>4. Quietly(p)
    BY <1>1, QuietCalls
  <1> HIDE DEF t
  <1>5. OneCall(jobs'[p], stream'[p])
    BY <1>2, <1>3, SameQueue DEF Update
  <1>6. ~IsPast(p, i) => Untouched(t)
    BY <1>1, <1>2 DEF Untouched
  <1> QED  BY <1>2, <1>3, <1>4, <1>5, <1>6, <1>20, SoundUpdate

LEMMA SoundTakeIncoming ==
  ASSUME TableInv, Next, NEW p \in Peer, TakeIncoming(p)
  PROVE  \A q \in Peer : Sound(q)'
  <1> DEFINE i == Head(pending[p])
             s == stream[p][i]
             t == [s EXCEPT !.handle = TRUE]
  <1>1. TypeInv /\ PendingPast(p)
    BY DEF TableInv, IdInv, Sound
  <1>2. /\ Update(p, i, t) /\ pending[p] # <<>> /\ Ready(p)
        /\ pending' = [pending EXCEPT ![p] = Tail(@)] /\ UNCHANGED <<session, jobs>>
    BY DEF TakeIncoming, stateVars, writerVars
  <1>3. i \in StreamId /\ IsPast(p, i)
    <2>1. pending[p] \in Seq(StreamId)
      BY <1>1 DEF TypeInv, TypeOK, IdType
    <2>2. 1 \in DOMAIN pending[p] /\ pending[p][1] = i
      BY <1>2, <2>1, EmptySeq
    <2> QED  BY <1>1, <2>2 DEF PendingPast
  <1>4. s \in Stream
    BY <1>3, SoundOf
  <1>5. t \in Stream /\ SameEnds(s, t) /\ t.expected = s.expected /\ t.busy = s.busy
    <2>1. t \in Stream
      BY <1>4, HandledType
    <2> QED  BY <1>4, <2>1 DEF Stream, SameEnds
  <1>20. StaysOpen(s, t)
    BY <1>5 DEF SameEnds, StaysOpen
  <1>6. Quietly(p)
    BY <1>1, QuietSession
  <1> HIDE DEF t, i
  <1>7. OneCall(jobs'[p], stream'[p])
    BY <1>2, <1>3, <1>5, SameQueue DEF Update
  <1> QED  BY <1>2, <1>3, <1>5, <1>6, <1>7, <1>20, SoundUpdate

\* cancel() and fail(), and the cancellations the read loop makes.
LEMMA SoundCancelStream ==
  ASSUME TableInv, Next, NEW p \in Peer, NEW i \in StreamId, NEW u \in Stream, NEW late,
         Quietly(p), Ready(p), UNCHANGED <<session, pending>>,
         CancelStream(p, i, u, late), SameCalls(stream[p][i], u),
         IsPast(p, i) \/ u.inCredit = 0,
         OneCall(jobs'[p], stream[p])
  PROVE  \A q \in Peer : Sound(q)'
  <1> DEFINE t == Cancelled(u)
  <1>1. TypeInv /\ (~IsPast(p, i) => Untouched(stream[p][i]))
    BY SoundOf
  <1>2. stream' = [stream EXCEPT ![p][i] = t] /\ Leave(p, i)
    BY DEF CancelStream
  <1>3. live'[p] = live[p] \ {i}
    BY <1>1, <1>2, LeaveLive
  <1>4. t \in Stream
    BY CancelledType
  <1>5. /\ t.cancelled /\ t.inClosed /\ t.outClosed /\ t.expected = 0 /\ t.tail = <<>>
        /\ t.handle = u.handle /\ t.calls = u.calls /\ t.busy = u.busy /\ t.sent = u.sent
        /\ t.inCredit = u.inCredit
    BY DEF Cancelled, Stream
  <1> HIDE DEF t
  <1>6. StreamSound(t, i \in live'[p])
    BY <1>3, <1>5 DEF StreamSound
  <1>7. ~IsPast(p, i) => Untouched(t)
    BY <1>1, <1>5 DEF Untouched, SameCalls
  <1>8. OneCall(jobs'[p], stream'[p])
    <2>1. jobs'[p] \in Seq(Job)
      <3>1. TypeInv'
        BY <1>1, NextType
      <3> QED  BY <3>1 DEF TypeInv, TypeOK, WriterType
    <2>2. \A k \in StreamId : stream[p][k].busy => stream'[p][k].busy
      BY <1>1, <1>2, <1>5, ChangedStream DEF SameCalls
    <2> QED  BY <2>1, <2>2, OneCallSame
  <1> QED  BY <1>2, <1>3, <1>4, <1>6, <1>7, <1>8, SoundQuietly

\* The queue gains, or loses, a job that is no call.
LEMMA OneCallQueued ==
  ASSUME TableInv, NEW p \in Peer, NEW job \in Job, job.kind \notin {"DATA", "COMPLETE"},
         Queue(p, job)
  PROVE  OneCall(jobs'[p], stream[p])
  <1>1. TypeInv /\ jobs[p] \in Seq(Job) /\ OneCall(jobs[p], stream[p])
    BY DEF TableInv, IdInv, Sound, TypeInv, TypeOK, WriterType
  <1>2. jobs'[p] = Append(jobs[p], job)
    BY <1>1, QueuedJob
  <1>3. \A i \in StreamId : stream[p][i].busy => stream[p][i].busy
    OBVIOUS
  <1>4. OneCall(Append(jobs[p], job), stream[p])
    BY <1>1, <1>3, OneCallAppend
  <1> QED  BY <1>2, <1>4

LEMMA OneCallLeft ==
  ASSUME TableInv, NEW p \in Peer, jobs[p] # <<>>, jobs' = [jobs EXCEPT ![p] = Tail(@)],
         NEW b, \A i \in StreamId :
           i # Head(jobs[p]).id \/ Head(jobs[p]).kind \notin {"DATA", "COMPLETE"}
             => (stream[p][i].busy => b[i].busy)
  PROVE  OneCall(jobs'[p], b)
  <1>1. jobs[p] \in Seq(Job) /\ OneCall(jobs[p], stream[p])
    BY DEF TableInv, IdInv, Sound, TypeInv, TypeOK, WriterType
  <1>2. jobs'[p] = Tail(jobs[p])
    BY DEF TableInv, IdInv, TypeInv, TypeOK, WriterType
  <1>3. OneCall(Tail(jobs[p]), b)
    BY <1>1, OneCallDone
  <1> QED  BY <1>2, <1>3

LEMMA SoundEnd ==
  ASSUME TableInv, Next, NEW p \in Peer, NEW i \in StreamId, Cancel(p, i) \/ Fail(p, i)
  PROVE  \A q \in Peer : Sound(q)'
  <1>1. PICK call \in {"cancel", "fail"}, kind \in {"CANCEL", "ERROR"} : End(p, i, call, kind)
    BY DEF Cancel, Fail
  <1>2. PICK fits \in Encodable : Queue(p, [Plain(kind, i) EXCEPT !.fits = fits])
    BY <1>1 DEF End
  <1>3. /\ [Plain(kind, i) EXCEPT !.fits = fits] \in Job
        /\ [Plain(kind, i) EXCEPT !.fits = fits].kind \notin {"DATA", "COMPLETE"}
    <2>1. [Plain(kind, i) EXCEPT !.fits = fits] \in Job
      BY PlainType, JobChanges, CallsAssumption DEF JobKind
    <2> QED  BY <2>1, SMTT(30) DEF Plain
  <1>4. OneCall(jobs'[p], stream[p])
    BY <1>2, <1>3, OneCallQueued
  <1>5. /\ CancelStream(p, i, stream[p][i], TRUE) /\ stream[p][i].handle /\ Ready(p)
        /\ UNCHANGED <<session, pending>>
    BY <1>1 DEF End, Holds, Calls, idVars, stateVars
  <1>6. stream[p][i] \in Stream /\ IsPast(p, i) /\ TypeInv
    BY <1>5, SoundOf DEF Untouched
  <1>7. SameCalls(stream[p][i], stream[p][i])
    BY DEF SameCalls
  <1>8. Quietly(p)
    BY <1>6, QuietCalls
  <1> QED  BY <1>4, <1>5, <1>6, <1>7, <1>8, SoundCancelStream

\* Steps that only queue or end a write that is no call, or hand a frame over.
LEMMA SoundClose ==
  ASSUME TableInv, Next, NEW p \in Peer, Close(p)
  PROVE  \A q \in Peer : Sound(q)'
  <1>1. PICK fits \in Encodable : Queue(p, [Plain("CLOSE", 0) EXCEPT !.fits = fits])
    BY DEF Close
  <1>2. /\ [Plain("CLOSE", 0) EXCEPT !.fits = fits] \in Job
        /\ [Plain("CLOSE", 0) EXCEPT !.fits = fits].kind \notin {"DATA", "COMPLETE"}
    <2>1. [Plain("CLOSE", 0) EXCEPT !.fits = fits] \in Job
      BY CloseJobType, CallsAssumption
    <2> QED  BY <2>1 DEF Plain
  <1>3. OneCall(jobs'[p], stream[p])
    BY <1>1, <1>2, OneCallQueued
  <1>4. Ready(p) /\ UNCHANGED <<stream, live, pending, session>>
    BY DEF Close, Calls, tableVars, idVars
  <1>5. Quietly(p)
    BY QuietSession DEF TableInv, IdInv
  <1> QED  BY <1>3, <1>4, <1>5, SoundStill

LEMMA SoundCloseDetached ==
  ASSUME TableInv, NEW p \in Peer, CloseDetached(p)
  PROVE  \A q \in Peer : Sound(q)'
  <1>1. /\ UNCHANGED <<stream, live, jobs, pending, nextId, highestRemote>>
        /\ session' = [session EXCEPT ![p] = "closed"] /\ session[p] = "detached"
    BY DEF CloseDetached, tableVars, idVars, writerVars
  <1>2. Alone(p)
    BY <1>1 DEF Alone, TableInv, IdInv, TypeInv, TypeOK, StateType
  <1>3. session'[p] = "closed"
    BY <1>1 DEF TableInv, IdInv, TypeInv, TypeOK, StateType
  <1>4. Sound(p) /\ ~Ready(p) /\ ~Ready(p)'
    BY <1>1, <1>3 DEF TableInv, Ready
  <1>5. \A k : IsPast(p, k)' <=> IsPast(p, k)
    BY <1>1 DEF IsPast
  <1>6. PendingPast(p)' <=> PendingPast(p)
    BY <1>1, <1>5 DEF PendingPast
  <1>7. Sound(p)'
    BY <1>1, <1>4, <1>5, <1>6 DEF Sound
  <1> QED  BY <1>2, <1>7, SoundElsewhere

LEMMA SoundDropReason ==
  ASSUME TableInv, Next, NEW p \in Peer, DropReason(p)
  PROVE  \A q \in Peer : Sound(q)'
  <1> DEFINE job == [Head(jobs[p]) EXCEPT !.fits = TRUE]
  <1>1. /\ jobs[p] # <<>> /\ Head(jobs[p]).kind \in {"CANCEL", "ERROR", "CLOSE"}
        /\ jobs' = [jobs EXCEPT ![p] = Append(Tail(jobs[p]), job)] /\ Ready(p)
        /\ UNCHANGED <<stream, live, pending, session>>
    BY DEF DropReason, CanWrite, HasReason, tableVars, idVars, stateVars
  <1>2. jobs[p] \in Seq(Job) /\ OneCall(jobs[p], stream[p]) /\ TypeInv
    BY DEF TableInv, IdInv, Sound, TypeInv, TypeOK, WriterType
  <1>3. Head(jobs[p]) \in Job
    BY <1>1, <1>2, HeadTailProperties
  <1>4. \A j \in Job : [j EXCEPT !.fits = TRUE] \in Job /\ [j EXCEPT !.fits = TRUE].kind = j.kind
    BY DEF Job, JobOf
  <1>5. job \in Job /\ job.kind \notin {"DATA", "COMPLETE"}
    BY <1>1, <1>3, <1>4
  <1> HIDE DEF job
  <1>6. jobs'[p] = Append(Tail(jobs[p]), job)
    BY <1>1, <1>2 DEF TypeInv, TypeOK, WriterType
  <1>7. \A i \in StreamId : stream[p][i].busy => stream[p][i].busy
    OBVIOUS
  <1>8. Tail(jobs[p]) \in Seq(Job) /\ OneCall(Tail(jobs[p]), stream[p])
    BY <1>1, <1>2, <1>7, OneCallDone, CallsTail
  <1>9. OneCall(Append(Tail(jobs[p]), job), stream[p])
    BY <1>5, <1>7, <1>8, OneCallAppend
  <1>10. Quietly(p)
    BY <1>2, QuietWrite
  <1> QED  BY <1>1, <1>6, <1>9, <1>10, SoundStill

LEMMA SoundLane ==
  ASSUME TableInv, Next, NEW p \in Peer, WriteFrame(p) \/ FragmentWritten(p) \/ ReadLate(p)
  PROVE  \A q \in Peer : Sound(q)'
  <1>1. UNCHANGED <<stream, live, pending, session, jobs>> /\ Ready(p)
    BY DEF WriteFrame, CanWrite, FragmentWritten, ReadLate, Reads, CanRead, tableVars, idVars,
           writerVars, stateVars
  <1>2. OneCall(jobs'[p], stream[p])
    BY <1>1 DEF TableInv, Sound
  <1>3. Quietly(p)
    BY QuietWrite, QuietRead DEF TableInv, IdInv
  <1> QED  BY <1>1, <1>2, <1>3, SoundStill

LEMMA SoundWritten ==
  ASSUME TableInv, Next, NEW p \in Peer, DemandWritten(p) \/ EndingWritten(p)
  PROVE  \A q \in Peer : Sound(q)'
  <1>1. /\ JobDone(p) /\ Ready(p) /\ UNCHANGED <<stream, live, pending, session>>
        /\ Head(jobs[p]).kind \notin {"DATA", "COMPLETE"} /\ flying[p]
    BY DEF DemandWritten, EndingWritten, JobWritten, tableVars, idVars, stateVars
  <1>2. jobs[p] # <<>> /\ jobs' = [jobs EXCEPT ![p] = Tail(@)]
    BY <1>1 DEF JobDone, TableInv, IdInv, TypeInv, WritesFirst
  <1>3. OneCall(jobs'[p], stream[p])
    BY <1>1, <1>2, OneCallLeft
  <1>4. Quietly(p)
    BY QuietWrite DEF TableInv, IdInv
  <1> QED  BY <1>1, <1>3, <1>4, SoundStill

\* The calls of a stream's writeTail: one that begins marks its stream busy.
LEMMA SoundSendNext ==
  ASSUME TableInv, Next, NEW p \in Peer, NEW i \in StreamId, SendNext(p, i)
  PROVE  \A q \in Peer : Sound(q)'
  <1> DEFINE s == stream[p][i]
             t == [s EXCEPT !.outCredit = @ - 1, !.tail = Tail(@), !.busy = TRUE]
             job == [Plain("DATA", i) EXCEPT !.item = Head(s.tail).item,
                                             !.size = Head(s.tail).size]
  <1>1. /\ s \in Stream /\ TypeInv /\ (~IsPast(p, i) => Untouched(s))
        /\ jobs[p] \in Seq(Job) /\ OneCall(jobs[p], stream[p])
    BY SoundOf
  <1>2. /\ Update(p, i, t) /\ Queue(p, job) /\ s.tail # <<>> /\ ~s.busy /\ s.outCredit > 0
        /\ Ready(p) /\ UNCHANGED <<pending, session>>
    BY DEF SendNext, Waiting, HasCredit, idVars, stateVars
  <1>3. s.tail \in Seq(Op) /\ s.outCredit \in 0..MaxCredit
    BY <1>1 DEF Stream
  <1>4. Head(s.tail) \in Op /\ Tail(s.tail) \in Seq(Op) /\ s.outCredit - 1 \in 0..MaxCredit
    BY <1>2, <1>3, HeadTailProperties, CreditFacts
  <1>5. t \in Stream /\ SameEnds(s, t) /\ t.expected = s.expected /\ t.busy
    <2>1. t \in Stream
      BY <1>1, <1>4 DEF Stream
    <2> QED  BY <1>1, <2>1 DEF Stream, SameEnds
  <1>20. StaysOpen(s, t)
    BY <1>5 DEF SendNext, Waiting, SameEnds, StaysOpen
  <1>6. job \in Job /\ job.id = i
    <2>1. job \in Job
      BY <1>4, PlainType, JobChanges DEF JobKind, Op
    <2> QED  BY <2>1 DEF Plain
  <1>7. Quietly(p)
    BY <1>1, QuietTail DEF StreamTail
  <1>8. ~IsPast(p, i) => Untouched(t)
    BY <1>1, <1>2 DEF Untouched
  <1> HIDE DEF t, job
  <1>9. stream' = [stream EXCEPT ![p][i] = t]
    BY <1>2 DEF Update
  <1>10. OneCall(jobs'[p], stream'[p])
    <2>1. jobs'[p] = Append(jobs[p], job)
      BY <1>1, <1>2, QueuedJob
    <2>2. stream'[p][i] = t /\ \A k \in StreamId \ {i} : stream'[p][k] = stream[p][k]
      BY <1>1, <1>9, ChangedStream
    <2>3. /\ ~stream[p][job.id].busy /\ stream'[p][job.id].busy
          /\ \A k \in StreamId \ {job.id} : stream[p][k].busy => stream'[p][k].busy
      BY <1>2, <1>5, <1>6, <2>2
    <2>4. OneCall(Append(jobs[p], job), stream'[p])
      BY <1>1, <1>6, <2>3, OneCallNew
    <2> QED  BY <2>1, <2>4
  <1> QED  BY <1>2, <1>5, <1>7, <1>8, <1>10, <1>20, SoundUpdate

LEMMA SoundCompleteNext ==
  ASSUME TableInv, Next, NEW p \in Peer, NEW i \in StreamId, CompleteNext(p, i)
  PROVE  \A q \in Peer : Sound(q)'
  <1> DEFINE s == stream[p][i]
             t == [s EXCEPT !.tail = Tail(@), !.busy = TRUE]
             job == Plain("COMPLETE", i)
  <1>1. /\ s \in Stream /\ TypeInv /\ (~IsPast(p, i) => Untouched(s))
        /\ jobs[p] \in Seq(Job) /\ OneCall(jobs[p], stream[p])
    BY SoundOf
  <1>2. /\ Update(p, i, t) /\ Queue(p, job) /\ s.tail # <<>> /\ ~s.busy
        /\ Ready(p) /\ UNCHANGED <<pending, session>>
    BY DEF CompleteNext, Waiting, idVars, stateVars
  <1>3. Tail(s.tail) \in Seq(Op)
    BY <1>1, <1>2, HeadTailProperties DEF Stream
  <1>4. t \in Stream /\ SameEnds(s, t) /\ t.expected = s.expected /\ t.busy
    <2>1. t \in Stream
      BY <1>1, <1>3 DEF Stream
    <2> QED  BY <1>1, <2>1 DEF Stream, SameEnds
  <1>20. StaysOpen(s, t)
    BY <1>4 DEF CompleteNext, Waiting, SameEnds, StaysOpen
  <1>5. job \in Job /\ job.id = i
    BY PlainType, JobChanges DEF JobKind, Plain
  <1>6. Quietly(p)
    BY <1>1, QuietTail DEF StreamTail
  <1>7. ~IsPast(p, i) => Untouched(t)
    BY <1>1, <1>2 DEF Untouched
  <1> HIDE DEF t, job
  <1>8. stream' = [stream EXCEPT ![p][i] = t]
    BY <1>2 DEF Update
  <1>9. OneCall(jobs'[p], stream'[p])
    <2>1. jobs'[p] = Append(jobs[p], job)
      BY <1>1, <1>2, QueuedJob
    <2>2. stream'[p][i] = t /\ \A k \in StreamId \ {i} : stream'[p][k] = stream[p][k]
      BY <1>1, <1>8, ChangedStream
    <2>3. /\ ~stream[p][job.id].busy /\ stream'[p][job.id].busy
          /\ \A k \in StreamId \ {job.id} : stream[p][k].busy => stream'[p][k].busy
      BY <1>2, <1>4, <1>5, <2>2
    <2>4. OneCall(Append(jobs[p], job), stream'[p])
      BY <1>1, <1>5, <2>3, OneCallNew
    <2> QED  BY <2>1, <2>4
  <1> QED  BY <1>2, <1>4, <1>6, <1>7, <1>9, <1>20, SoundUpdate

LEMMA SoundSendTooLarge ==
  ASSUME TableInv, Next, NEW p \in Peer, NEW i \in StreamId, SendTooLarge(p, i)
  PROVE  \A q \in Peer : Sound(q)'
  <1> DEFINE s == stream[p][i]
             t == [s EXCEPT !.outCredit = Refund(s), !.tail = Tail(@)]
  <1>1. s \in Stream /\ TypeInv /\ (~IsPast(p, i) => Untouched(s))
    BY SoundOf
  <1>2. /\ Update(p, i, t) /\ s.tail # <<>> /\ s.outCredit > 0
        /\ Ready(p) /\ UNCHANGED <<pending, session, jobs>>
    BY DEF SendTooLarge, Waiting, HasCredit, idVars, stateVars, writerVars
  <1>3. Tail(s.tail) \in Seq(Op) /\ Refund(s) \in 0..MaxCredit
    <2>1. Tail(s.tail) \in Seq(Op)
      BY <1>1, <1>2, HeadTailProperties DEF Stream
    <2>2. s.outCredit - 1 \in Nat
      BY <1>1, <1>2, CreditFacts DEF Stream
    <2> QED  BY <2>1, <2>2, AddCreditType DEF Refund
  <1>4. t \in Stream /\ SameEnds(s, t) /\ t.expected = s.expected /\ t.busy = s.busy
    <2>1. t \in Stream
      BY <1>1, <1>3 DEF Stream
    <2> QED  BY <1>1, <2>1 DEF Stream, SameEnds
  <1>20. StaysOpen(s, t)
    BY <1>4 DEF SameEnds, StaysOpen
  <1>5. Quietly(p)
    BY <1>1, QuietTail DEF StreamTail
  <1>6. ~IsPast(p, i) => Untouched(t)
    BY <1>1, <1>2 DEF Untouched
  <1> HIDE DEF t
  <1>7. OneCall(jobs'[p], stream'[p])
    BY <1>2, <1>4, SameQueue DEF Update
  <1> QED  BY <1>2, <1>4, <1>5, <1>6, <1>7, <1>20, SoundUpdate

\* The call at the head of the queue: its stream is busy, so its id is used.
LEMMA HeadCall ==
  ASSUME TableInv, NEW p \in Peer, jobs[p] # <<>>,
         Head(jobs[p]).kind \in {"DATA", "COMPLETE"}
  PROVE  LET i == Head(jobs[p]).id
         IN i \in StreamId /\ stream[p][i] \in Stream /\ stream[p][i].busy /\ IsPast(p, i)
  <1> DEFINE i == Head(jobs[p]).id
  <1>1. TypeInv /\ jobs[p] \in Seq(Job) /\ OneCall(jobs[p], stream[p])
    BY DEF TableInv, IdInv, Sound, TypeInv, TypeOK, WriterType
  <1>2. i \in StreamId
    BY <1>1, FirstJob DEF TypeInv, TypeOK
  <1>3. 1 \in CallAt(jobs[p]) /\ jobs[p][1] = Head(jobs[p])
    BY <1>1, EmptySeq DEF CallAt
  <1>4. stream[p][i].busy
    BY <1>1, <1>3 DEF OneCall
  <1>5. stream[p][i] \in Stream /\ IsPast(p, i)
    BY <1>2, <1>4, SoundOf DEF Untouched
  <1> QED  BY <1>2, <1>4, <1>5

\* The end of a call leaves the rest of its stream alone.
LEMMA CallEnded ==
  ASSUME NEW s \in Stream, NEW t, t = [s EXCEPT !.busy = FALSE]
  PROVE  t \in Stream /\ SameEnds(s, t) /\ t.expected = s.expected
  <1>1. t \in Stream
    BY HandledType
  <1>2. t.inClosed = s.inClosed /\ t.outClosed = s.outClosed
    BY DEF Stream
  <1>3. t.cancelled = s.cancelled /\ t.expected = s.expected
    BY DEF Stream
  <1> QED  BY <1>1, <1>2, <1>3 DEF SameEnds

LEMMA SoundAbandon ==
  ASSUME TableInv, Next, NEW p \in Peer, Abandon(p)
  PROVE  \A q \in Peer : Sound(q)'
  <1> DEFINE i == Head(jobs[p]).id
             s == stream[p][i]
             t == [s EXCEPT !.busy = FALSE]
  <1>1. /\ jobs[p] # <<>> /\ Head(jobs[p]).kind = "DATA" /\ Update(p, i, t) /\ Ready(p)
        /\ jobs' = [jobs EXCEPT ![p] = Tail(@)] /\ UNCHANGED <<session, pending>>
    BY DEF Abandon, CanWrite, Abandoned, idVars, stateVars
  <1>2. i \in StreamId /\ s \in Stream /\ IsPast(p, i) /\ TypeInv
    BY <1>1, HeadCall, SMTT(30) DEF TableInv, IdInv
  <1>3. t \in Stream /\ SameEnds(s, t) /\ t.expected = s.expected
    <2> HIDE DEF i, s
    <2> QED  BY <1>2, CallEnded
  <1>20. StaysOpen(s, t)
    BY <1>2 DEF Stream, StaysOpen
  <1>4. Quietly(p)
    BY <1>2, QuietWrite
  <1> HIDE DEF t
  <1>5. \A k \in StreamId \ {i} : stream'[p][k] = stream[p][k]
    BY <1>1, <1>2, ChangedStream DEF Update
  <1>6. OneCall(jobs'[p], stream'[p])
    <2>1. \A k \in StreamId :
            k # Head(jobs[p]).id \/ Head(jobs[p]).kind \notin {"DATA", "COMPLETE"}
              => (stream[p][k].busy => stream'[p][k].busy)
      BY <1>1, <1>5
    <2> HIDE DEF i
    <2> QED  BY <1>1, <2>1, OneCallLeft
  <1> QED  BY <1>1, <1>2, <1>3, <1>4, <1>6, <1>20, SoundUpdate

LEMMA SoundDataWritten ==
  ASSUME TableInv, Next, NEW p \in Peer, DataWritten(p)
  PROVE  \A q \in Peer : Sound(q)'
  <1> DEFINE i == Head(jobs[p]).id
             s == stream[p][i]
             t == [s EXCEPT !.busy = FALSE, !.sent = @ + 1]
  <1>1. /\ flying[p] /\ Head(jobs[p]).kind = "DATA" /\ Update(p, i, t) /\ Ready(p)
        /\ jobs' = [jobs EXCEPT ![p] = Tail(@)] /\ UNCHANGED <<session, pending>>
    BY DEF DataWritten, JobWritten, JobDone, idVars, stateVars
  <1>2. jobs[p] # <<>> /\ TypeInv
    BY <1>1, SMTT(30) DEF TableInv, IdInv, TypeInv, WritesFirst
  <1>3. i \in StreamId /\ s \in Stream /\ IsPast(p, i)
    BY <1>1, <1>2, HeadCall, SMTT(30)
  <1>4. t \in Stream /\ SameEnds(s, t) /\ t.expected = s.expected
    <2>1. t \in Stream
      BY <1>3, HandledType
    <2> QED  BY <1>3, <2>1 DEF Stream, SameEnds
  <1>20. StaysOpen(s, t)
    BY <1>3 DEF Stream, StaysOpen
  <1>5. Quietly(p)
    BY <1>2, QuietWrite
  <1> HIDE DEF t
  <1>6. \A k \in StreamId \ {i} : stream'[p][k] = stream[p][k]
    BY <1>1, <1>2, <1>3, ChangedStream DEF Update
  <1>7. OneCall(jobs'[p], stream'[p])
    <2>1. \A k \in StreamId :
            k # Head(jobs[p]).id \/ Head(jobs[p]).kind \notin {"DATA", "COMPLETE"}
              => (stream[p][k].busy => stream'[p][k].busy)
      BY <1>1, <1>6
    <2> HIDE DEF i
    <2> QED  BY <1>1, <1>2, <2>1, OneCallLeft
  <1> QED  BY <1>1, <1>3, <1>4, <1>5, <1>7, <1>20, SoundUpdate

\* An end of one direction: releaseStream takes a closed stream out of the table.
LEMMA SoundRelease ==
  ASSUME TableInv, Next, NEW p \in Peer, NEW i \in StreamId, NEW t \in Stream,
         Quietly(p), UNCHANGED <<session, pending>>, Ready(p), Release(p, i, t),
         t.cancelled = stream[p][i].cancelled, t.expected = stream[p][i].expected,
         stream[p][i].inClosed => t.inClosed, stream[p][i].outClosed => t.outClosed,
         t.inClosed => t.expected = 0, StaysOpen(stream[p][i], t), ~IsPast(p, i) => Untouched(t),
         OneCall(jobs'[p], stream'[p])
  PROVE  \A q \in Peer : Sound(q)'
  <1>1. StreamSound(stream[p][i], i \in live[p]) /\ TypeInv
    BY SoundOf
  <1>2. stream' = [stream EXCEPT ![p][i] = t]
    BY DEF Release
  <1>3. StreamSound(t, i \in live'[p]) /\ live'[p] \ {i} = live[p] \ {i}
    <2>1. CASE IsClosed(t)
      <3>1. live'[p] = live[p] \ {i}
        BY <1>1, <2>1, LeaveLive DEF Release
      <3> QED  BY <1>1, <2>1, <3>1 DEF StreamSound, IsClosed
    <2>2. CASE ~IsClosed(t)
      <3>1. live' = live
        BY <2>2 DEF Release
      <3> QED  BY <1>1, <2>2, <3>1 DEF StreamSound, StaysOpen
    <2> QED  BY <2>1, <2>2
  <1> QED  BY <1>2, <1>3, SoundQuietly

LEMMA SoundCompleteWritten ==
  ASSUME TableInv, Next, NEW p \in Peer, CompleteWritten(p)
  PROVE  \A q \in Peer : Sound(q)'
  <1> DEFINE i == Head(jobs[p]).id
             s == stream[p][i]
             t == [s EXCEPT !.outClosed = TRUE, !.tail = <<>>, !.busy = FALSE]
  <1>1. /\ flying[p] /\ Head(jobs[p]).kind = "COMPLETE" /\ Release(p, i, t) /\ Ready(p)
        /\ jobs' = [jobs EXCEPT ![p] = Tail(@)] /\ UNCHANGED <<session, pending>>
    BY DEF CompleteWritten, JobWritten, JobDone, idVars, stateVars
  <1>2. jobs[p] # <<>> /\ TypeInv
    BY <1>1 DEF TableInv, IdInv, TypeInv, WritesFirst
  <1>3. i \in StreamId /\ s \in Stream /\ IsPast(p, i)
    BY <1>1, <1>2, HeadCall, SMTT(30)
  <1>4. /\ t \in Stream /\ t.expected = s.expected /\ t.cancelled = s.cancelled
        /\ t.inClosed = s.inClosed /\ t.outClosed
    <2>1. t \in Stream
      BY <1>3, ClosedType
    <2> QED  BY <1>3, <2>1 DEF Stream
  <1>20. StaysOpen(s, t)
    BY <1>3 DEF Stream, StaysOpen
  <1>5. s.inClosed => s.expected = 0
    BY <1>3, SoundOf DEF StreamSound
  <1>6. Quietly(p)
    BY <1>2, QuietWrite
  <1> HIDE DEF t
  <1>7. \A k \in StreamId \ {i} : stream'[p][k] = stream[p][k]
    BY <1>1, <1>2, <1>3, ChangedStream DEF Release
  <1>8. OneCall(jobs'[p], stream'[p])
    <2>1. \A k \in StreamId :
            k # Head(jobs[p]).id \/ Head(jobs[p]).kind \notin {"DATA", "COMPLETE"}
              => (stream[p][k].busy => stream'[p][k].busy)
      BY <1>1, <1>7
    <2> HIDE DEF i
    <2> QED  BY <1>1, <1>2, <2>1, OneCallLeft
  <1> QED  BY <1>1, <1>3, <1>4, <1>5, <1>6, <1>8, <1>20, SoundRelease

\* A frame for a stream of the table, that neither ends it nor queues anything.
LEMMA SoundReceives ==
  ASSUME TableInv, Next, NEW p \in Peer, NEW i \in StreamId, NEW t \in Stream,
         Quietly(p), Ready(p), UNCHANGED <<session, pending, jobs, live>>,
         stream' = [stream EXCEPT ![p][i] = t], SameEnds(stream[p][i], t),
         t.busy = stream[p][i].busy,
         \/ t.expected \in {0, stream[p][i].expected}
         \/ ~stream[p][i].inClosed /\ i \in live[p],
         ~IsPast(p, i) => Untouched(t)
  PROVE  \A q \in Peer : Sound(q)'
  <1>1. StreamSound(stream[p][i], i \in live[p])
    BY SoundOf
  <1>2. StreamSound(t, i \in live'[p])
    BY <1>1 DEF StreamSound, SameEnds, IsClosed
  <1>3. OneCall(jobs'[p], stream'[p])
    BY SameQueue
  <1> QED  BY <1>2, <1>3, SoundQuietly

LEMMA SoundReadDemand ==
  ASSUME TableInv, Next, NEW p \in Peer, ReadDemand(p)
  PROVE  \A q \in Peer : Sound(q)'
  <1> DEFINE f == Incoming(p)
             i == f.id
             s == stream[p][i]
             t == [s EXCEPT !.outCredit = AddCredit(@, f.amount)]
  <1>1. /\ Reads(p, {"DEMAND"}) /\ Update(p, i, t) /\ Ready(p)
        /\ UNCHANGED <<session, pending, jobs>>
    BY DEF ReadDemand, ReadsLive, Reads, CanRead, idVars, stateVars, writerVars
  <1>2. i \in StreamId /\ f.amount \in Nat /\ TypeInv
    BY <1>1, ReadsType DEF TableInv, IdInv
  <1>3. s \in Stream /\ (~IsPast(p, i) => Untouched(s))
    BY <1>2, SoundOf
  <1>4. t \in Stream /\ SameEnds(s, t) /\ SameCalls(s, t) /\ t.expected = s.expected
        /\ t.inCredit = s.inCredit
    <2>1. t \in Stream
      BY <1>2, <1>3, GrantedType
    <2> QED  BY <1>3, <2>1 DEF Stream, SameEnds, SameCalls
  <1>5. Quietly(p)
    BY <1>2, QuietRead
  <1> HIDE DEF t
  <1>6. /\ stream' = [stream EXCEPT ![p][i] = t] /\ UNCHANGED live
        /\ t.busy = s.busy /\ (~IsPast(p, i) => Untouched(t))
    BY <1>1, <1>3, <1>4 DEF Update, SameCalls, Untouched
  <1> HIDE DEF i
  <1> QED  BY <1>1, <1>2, <1>4, <1>5, <1>6, SoundReceives

\* DATA finds credit: its stream is not an untouched one.
LEMMA DataIsPast ==
  ASSUME TableInv, NEW p \in Peer, ReadsLive(p, {"DATA"})
  PROVE  LET i == Incoming(p).id
         IN /\ IsPast(p, i) /\ ~stream[p][i].inClosed /\ i \in live[p] /\ Ready(p) /\ TypeInv
  <1> DEFINE i == Incoming(p).id
  <1>1. /\ TypeInv /\ Reads(p, {"DATA"}) /\ i \in live[p] /\ Incoming(p).kind = "DATA" /\ Ready(p)
        /\ ~Illegal(p, Incoming(p))
    BY DEF TableInv, IdInv, ReadsLive, Reads, CanRead
  <1>2. i \in StreamId /\ stream[p][i].inCredit - 1 \in 0..MaxCredit
    BY <1>1, LegalData
  <1>3. IsPast(p, i)
    BY <1>2, SoundOf DEF Untouched
  <1>4. ~stream[p][i].inClosed
    BY <1>1 DEF Illegal, IllegalHere
  <1> QED  BY <1>1, <1>3, <1>4

LEMMA SoundReadData ==
  ASSUME TableInv, Next, NEW p \in Peer, ReadData(p)
  PROVE  \A q \in Peer : Sound(q)'
  <1> DEFINE f == Incoming(p)
             i == f.id
             s == stream[p][i]
             t == [s EXCEPT !.inCredit = @ - 1, !.got = Push(s, <<Payload(f)>>)]
  <1>1. /\ ReadsLive(p, {"DATA"}) /\ Update(p, i, t) /\ UNCHANGED <<session, pending, jobs>>
    BY DEF ReadData, idVars, stateVars, writerVars
  <1>2. IsPast(p, i) /\ Ready(p) /\ TypeInv
    BY <1>1, DataIsPast
  <1>3. /\ i \in StreamId /\ s \in Stream /\ Payload(f) \in Unit
        /\ s.inCredit - 1 \in 0..MaxCredit
    BY <1>1, <1>2, LegalData
  <1>4. t \in Stream /\ SameEnds(s, t) /\ t.busy = s.busy /\ t.expected = s.expected
    <2>1. <<Payload(f)>> \in Seq(Unit)
      BY <1>3
    <2>2. t \in Stream
      BY <1>3, <2>1, PublishedType DEF Push
    <2> QED  BY <1>3, <2>2, SMTT(30) DEF Stream, SameEnds
  <1>5. Quietly(p)
    BY <1>2, QuietRead
  <1> HIDE DEF t
  <1>6. stream' = [stream EXCEPT ![p][i] = t] /\ UNCHANGED live
    BY <1>1 DEF Update
  <1> HIDE DEF i
  <1> QED  BY <1>1, <1>2, <1>3, <1>4, <1>5, <1>6, SoundReceives

LEMMA SoundStartReassembly ==
  ASSUME TableInv, Next, NEW p \in Peer, StartReassembly(p)
  PROVE  \A q \in Peer : Sound(q)'
  <1> DEFINE f == Incoming(p)
             i == f.id
             s == stream[p][i]
             t == [s EXCEPT !.inCredit = @ - 1, !.expected = f.size, !.partial = <<Payload(f)>>]
  <1>1. ReadsLive(p, {"DATA"}) /\ UNCHANGED <<session, pending, jobs, live>>
    BY DEF StartReassembly, idVars, stateVars, writerVars
  <1>2. IsPast(p, i) /\ Ready(p) /\ TypeInv /\ ~s.inClosed /\ i \in live[p]
    BY <1>1, DataIsPast
  <1>3. /\ i \in StreamId /\ s \in Stream /\ Payload(f) \in Unit /\ f.size \in Nat
        /\ s.inCredit - 1 \in 0..MaxCredit
    BY <1>1, <1>2, LegalData
  <1>4. stream' = [stream EXCEPT ![p][i] = t]
    BY <1>2, <1>3 DEF StartReassembly, TypeInv, TypeOK, TableType
  <1>5. t \in Stream /\ SameEnds(s, t) /\ t.busy = s.busy
    <2>1. <<Payload(f)>> \in Seq(Unit)
      BY <1>3, SMTT(30)
    <2>2. t \in Stream
      BY <1>3, <2>1, PublishedType
    <2> QED  BY <1>3, <2>2 DEF Stream, SameEnds
  <1>6. Quietly(p)
    BY <1>2, QuietRead
  <1> HIDE DEF t, i
  <1> QED  BY <1>1, <1>2, <1>3, <1>4, <1>5, <1>6, SoundReceives

LEMMA SoundReadFragment ==
  ASSUME TableInv, Next, NEW p \in Peer, ReadFragment(p)
  PROVE  \A q \in Peer : Sound(q)'
  <1> DEFINE f == Incoming(p)
             i == f.id
             s == stream[p][i]
             data == Append(s.partial, Payload(f))
             part == [s EXCEPT !.partial = data]
             whole == [s EXCEPT !.expected = 0, !.partial = <<>>, !.got = Push(s, data)]
  <1>1. /\ Reads(p, {"FRAGMENT"}) /\ i \in live[p] /\ f.kind = "FRAGMENT" /\ ~Illegal(p, f)
        /\ Ready(p) /\ UNCHANGED <<session, pending, jobs>> /\ TypeInv
    BY DEF ReadFragment, ReadsLive, Reads, CanRead, idVars, stateVars, writerVars,
           TableInv, IdInv
  <1>2. i \in StreamId /\ Payload(f) \in Unit
    BY <1>1, ReadsType DEF Payload, Unit
  <1>3. s \in Stream /\ s.partial \in Seq(Unit) /\ (~IsPast(p, i) => s.expected = 0)
    BY <1>2, SoundOf DEF Untouched, Stream
  <1>4. IsPast(p, i)
    <2>1. ~(Len(s.partial) + 1 > s.expected)
      BY <1>1 DEF Illegal, IllegalHere
    <2>2. Len(s.partial) \in Nat
      BY <1>3
    <2> QED  BY <1>3, <2>1, <2>2, SMTT(30)
  <1>5. data \in Seq(Unit)
    BY <1>2, <1>3, AppendType
  <1>6. part \in Stream /\ SameEnds(s, part) /\ part.busy = s.busy /\ part.expected = s.expected
    <2>1. part \in Stream
      BY <1>3, <1>5, PublishedType
    <2> QED  BY <1>3, <2>1, SMTT(30) DEF Stream, SameEnds
  <1>7. whole \in Stream /\ SameEnds(s, whole) /\ whole.busy = s.busy /\ whole.expected = 0
    <2>1. whole \in Stream
      BY <1>3, <1>5, PublishedType DEF Push
    <2>2. SameEnds(s, whole)
      BY <1>3, <2>1 DEF Stream, SameEnds
    <2> QED  BY <1>3, <2>1, <2>2, SMTT(30) DEF Stream
  <1>8. /\ UNCHANGED live
        /\ \/ stream' = [stream EXCEPT ![p][i] = part]
           \/ stream' = [stream EXCEPT ![p][i] = whole]
    <2>1. CASE Whole(data, s)
      BY <2>1, Zenon DEF ReadFragment
    <2>2. CASE ~Whole(data, s)
      BY <2>2, Zenon DEF ReadFragment, Update
    <2> QED  BY <2>1, <2>2
  <1>9. Quietly(p)
    BY <1>1, QuietRead
  <1> HIDE DEF part, whole, i
  <1>10. CASE stream' = [stream EXCEPT ![p][i] = part]
    BY <1>1, <1>2, <1>4, <1>6, <1>8, <1>9, <1>10, SoundReceives
  <1>11. CASE stream' = [stream EXCEPT ![p][i] = whole]
    BY <1>1, <1>2, <1>4, <1>7, <1>8, <1>9, <1>11, SoundReceives
  <1> QED  BY <1>8, <1>10, <1>11

\* COMPLETE is legal only between items: nothing stays reserved behind it.
LEMMA SoundReadComplete ==
  ASSUME TableInv, Next, NEW p \in Peer, ReadComplete(p)
  PROVE  \A q \in Peer : Sound(q)'
  <1> DEFINE f == Incoming(p)
             i == f.id
             s == stream[p][i]
             t == [s EXCEPT !.inClosed = TRUE]
  <1>1. /\ Reads(p, {"COMPLETE"}) /\ i \in live[p] /\ f.kind = "COMPLETE" /\ ~Illegal(p, f)
        /\ Ready(p) /\ Release(p, i, t) /\ UNCHANGED <<session, pending, jobs>> /\ TypeInv
    BY DEF ReadComplete, ReadsLive, Reads, CanRead, idVars, stateVars, writerVars,
           TableInv, IdInv
  <1>2. i \in StreamId
    BY <1>1, ReadsType
  <1>3. s \in Stream /\ s.expected \in Nat /\ ~(s.expected > 0)
    BY <1>1, <1>2, SoundOf DEF Illegal, IllegalHere, Stream
  <1>4. /\ t \in Stream /\ t.inClosed /\ t.cancelled = s.cancelled /\ t.outClosed = s.outClosed
        /\ t.expected = s.expected /\ SameCalls(s, t) /\ t.inCredit = s.inCredit
    <2>1. t \in Stream
      BY <1>3, ClosedType
    <2> QED  BY <1>3, <2>1 DEF Stream, SameCalls
  <1>20. StaysOpen(s, t)
    BY <1>4 DEF SameCalls, StaysOpen
  <1>5. Quietly(p)
    BY <1>1, QuietRead
  <1> HIDE DEF t
  <1>6. stream' = [stream EXCEPT ![p][i] = t]
    BY <1>1 DEF Release
  <1>7. OneCall(jobs'[p], stream'[p])
    BY <1>1, <1>2, <1>4, <1>6, SameQueue DEF SameCalls
  <1>8. ~IsPast(p, i) => Untouched(t)
    BY <1>2, <1>4, SoundOf DEF Untouched, SameCalls
  <1> HIDE DEF i
  <1> QED  BY <1>1, <1>2, <1>3, <1>4, <1>5, <1>7, <1>8, <1>20, SoundRelease

LEMMA SoundReadEnding ==
  ASSUME TableInv, Next, NEW p \in Peer, ReadEnding(p)
  PROVE  \A q \in Peer : Sound(q)'
  <1> DEFINE i == Incoming(p).id
  <1>1. /\ Reads(p, {"CANCEL", "ERROR"}) /\ CancelStream(p, i, stream[p][i], FALSE) /\ Ready(p)
        /\ UNCHANGED <<session, pending, jobs>> /\ TypeInv
    BY DEF ReadEnding, ReadsLive, Reads, CanRead, idVars, stateVars, writerVars, TableInv, IdInv
  <1>2. i \in StreamId
    BY <1>1, ReadsType
  <1>3. /\ stream[p][i] \in Stream /\ (IsPast(p, i) \/ stream[p][i].inCredit = 0)
        /\ OneCall(jobs[p], stream[p])
    BY <1>2, SoundOf DEF Untouched
  <1>4. SameCalls(stream[p][i], stream[p][i]) /\ jobs'[p] = jobs[p]
    BY <1>1 DEF SameCalls
  <1>5. Quietly(p)
    BY <1>1, QuietRead
  <1> HIDE DEF i
  <1> QED  BY <1>1, <1>2, <1>3, <1>4, <1>5, SoundCancelStream

\* The read loop's own ERROR is no call.
LEMMA RefusalQueued ==
  ASSUME TableInv, NEW p \in Peer, NEW i \in StreamId, Refuse(p, i)
  PROVE  OneCall(jobs'[p], stream[p])
  <1>1. PICK fits \in Encodable :
          Queue(p, [Plain("ERROR", i) EXCEPT !.fits = fits, !.reader = TRUE])
    BY DEF Refuse
  <1> DEFINE job == [Plain("ERROR", i) EXCEPT !.fits = fits, !.reader = TRUE]
  <1>2. job \in Job /\ job.kind \notin {"DATA", "COMPLETE"}
    <2>1. job \in Job
      BY PlainType, JobChanges, CallsAssumption DEF JobKind
    <2> QED  BY <2>1, SMTT(30) DEF Plain
  <1>3. Queue(p, job)
    BY <1>1
  <1> HIDE DEF job
  <1> QED  BY <1>2, <1>3, OneCallQueued

LEMMA SoundRefuseReassembly ==
  ASSUME TableInv, Next, NEW p \in Peer, RefuseReassembly(p)
  PROVE  \A q \in Peer : Sound(q)'
  <1> DEFINE i == Incoming(p).id
             s == stream[p][i]
             u == [s EXCEPT !.inCredit = @ - 1]
  <1>1. /\ ReadsLive(p, {"DATA"}) /\ CancelStream(p, i, u, TRUE) /\ Refuse(p, i)
        /\ UNCHANGED <<session, pending>>
    BY DEF RefuseReassembly, idVars, stateVars
  <1>2. IsPast(p, i) /\ Ready(p) /\ TypeInv
    BY <1>1, DataIsPast
  <1>3. i \in StreamId /\ s \in Stream /\ s.inCredit - 1 \in 0..MaxCredit
    BY <1>1, <1>2, LegalData
  <1>4. u \in Stream /\ SameCalls(s, u)
    <2>1. u \in Stream
      BY <1>3 DEF Stream
    <2> QED  BY <1>3, <2>1 DEF Stream, SameCalls
  <1>5. OneCall(jobs'[p], stream[p])
    BY <1>1, <1>3, RefusalQueued
  <1>6. Quietly(p)
    BY <1>2, QuietRead
  <1> HIDE DEF u, i
  <1> QED  BY <1>1, <1>2, <1>3, <1>4, <1>5, <1>6, SoundCancelStream

\* The steps that open a stream: the entered stream is new.
LEMMA NewStreamSound ==
  ASSUME NEW w \in Nat, NEW in
  PROVE  /\ NewStream(w) \in Stream /\ StreamSound(NewStream(w), in) /\ Untouched(NewStream(w))
         /\ [NewStream(w) EXCEPT !.handle = TRUE] \in Stream
         /\ StreamSound([NewStream(w) EXCEPT !.handle = TRUE], in)
         /\ Cancelled(NewStream(w)) \in Stream
         /\ ~in => StreamSound(Cancelled(NewStream(w)), in)
         /\ ~[NewStream(w) EXCEPT !.handle = TRUE].busy /\ ~NewStream(w).busy
         /\ ~Cancelled(NewStream(w)).busy
  <1>1. NewStream(w) \in Stream
    BY NewStreamType
  <1>2. [NewStream(w) EXCEPT !.handle = TRUE] \in Stream /\ Cancelled(NewStream(w)) \in Stream
    BY <1>1, HandledType, CancelledType
  <1>3. StreamSound(NewStream(w), in) /\ Untouched(NewStream(w)) /\ ~NewStream(w).busy
    BY DEF NewStream, StreamSound, Untouched, IsClosed
  <1>4. /\ StreamSound([NewStream(w) EXCEPT !.handle = TRUE], in)
        /\ ~[NewStream(w) EXCEPT !.handle = TRUE].busy
    BY DEF NewStream, StreamSound, IsClosed
  <1>5. ~in => StreamSound(Cancelled(NewStream(w)), in)
    BY DEF NewStream, Cancelled, StreamSound
  <1>6. ~Cancelled(NewStream(w)).busy
    BY DEF NewStream, Cancelled
  <1> QED  BY <1>1, <1>2, <1>3, <1>4, <1>5, <1>6

LEMMA SoundOpen ==
  ASSUME TableInv, Next, NEW p \in Peer, Open(p)
  PROVE  \A q \in Peer : Sound(q)'
  <1> DEFINE i == nextId[p]
  <1>1. PICK w \in Weights, fits \in Encodable :
          /\ stream' = [stream EXCEPT ![p][i] = NewStream(w)] /\ Enter(p, i)
          /\ Queue(p, [Plain("OPEN", i) EXCEPT !.amount = w, !.fits = fits])
    BY DEF Open
  <1> DEFINE job == [Plain("OPEN", i) EXCEPT !.amount = w, !.fits = fits]
             t == NewStream(w)
  <1>2. i \in StreamId /\ ~opening[p] /\ w \in Nat /\ fits \in BOOLEAN /\ Ready(p)
    BY CallsAssumption DEF Open, Calls
  <1>3. UNCHANGED <<nextId, highestRemote, pending, session>>
    BY DEF Open, stateVars
  <1>4. /\ TypeInv /\ IdInv /\ Sound(p) /\ ~IsPast(p, i) /\ ~stream[p][i].busy
        /\ jobs[p] \in Seq(Job) /\ OneCall(jobs[p], stream[p])
    BY <1>2, SoundOf, NextIdFresh DEF Untouched, TableInv
  <1>5. job \in Job /\ job.kind \notin {"DATA", "COMPLETE"}
    <2>1. job \in Job
      BY <1>2, PlainType, JobChanges DEF JobKind
    <2> QED  BY <2>1, SMTT(30) DEF Plain
  <1>6. t \in Stream /\ Untouched(t) /\ StreamSound(t, i \in live'[p])
    BY <1>2, NewStreamSound
  <1>7. Queue(p, job) /\ stream' = [stream EXCEPT ![p][i] = t]
    BY <1>1
  <1>8. live'[p] = live[p] \cup {i} /\ \A q \in Peer \ {p} : live'[q] = live[q]
    BY <1>1, <1>2, <1>4, EnterLive
  <1> HIDE DEF job, t
  <1>9. OneCall(jobs'[p], stream'[p])
    <2>1. \A k \in StreamId : stream[p][k].busy => stream'[p][k].busy
      BY <1>2, <1>4, <1>7, ChangedStream
    <2>2. jobs'[p] = Append(jobs[p], job)
      BY <1>4, <1>7, QueuedJob
    <2>3. OneCall(Append(jobs[p], job), stream'[p])
      BY <1>4, <1>5, <2>1, OneCallAppend
    <2> QED  BY <2>2, <2>3
  <1>10. Alone(p)
    <2>1. \A q \in Peer \ {p} : stream'[q] = stream[q] /\ jobs'[q] = jobs[q]
      BY <1>4, <1>7 DEF TypeInv, TypeOK, TableType, WriterType, Queue
    <2> QED  BY <1>3, <1>8, <2>1 DEF Alone
  <1>11. \A k : IsPast(p, k)' <=> IsPast(p, k)
    BY <1>3 DEF IsPast
  <1>12. PendingPast(p)'
    BY <1>3, <1>4, <1>11 DEF Sound, PendingPast
  <1>13. Ready(p)' /\ live'[p] \ {i} = live[p] \ {i}
    BY <1>2, <1>3, <1>8 DEF Ready
  <1> QED  BY <1>2, <1>6, <1>7, <1>9, <1>10, <1>12, <1>13, SoundAt

\* OPEN has been written: the id is used from now on.
LEMMA SoundOpenWritten ==
  ASSUME TableInv, Next, NEW p \in Peer, OpenWritten(p)
  PROVE  \A q \in Peer : Sound(q)'
  <1>0. PICK i \in StreamId : i = Head(jobs[p]).id
    BY JobWrittenType DEF OpenWritten, JobKind, TableInv, IdInv
  <1> DEFINE s == stream[p][i]
             t == [s EXCEPT !.handle = TRUE]
  <1>1. /\ flying[p] /\ Head(jobs[p]).kind = "OPEN" /\ Update(p, i, t) /\ Ready(p)
        /\ jobs' = [jobs EXCEPT ![p] = Tail(@)] /\ UNCHANGED <<session, pending, highestRemote>>
        /\ nextId' = [nextId EXCEPT ![p] = @ + 2] /\ TypeInv /\ IdInv /\ Sound(p)
    BY <1>0 DEF OpenWritten, JobWritten, JobDone, stateVars, TableInv, IdInv
  <1>2. jobs[p] # <<>>
    BY <1>1 DEF TypeInv, WritesFirst
  <1>3. i = nextId[p] /\ opening[p] /\ \A q \in Peer \ {p} : jobs'[q] = jobs[q]
    BY <1>0, <1>1, <1>2, OpenDone
  <1>4. i \in StreamId /\ nextId[p] \in Nat
    BY <1>1, <1>2, FirstJob DEF TypeInv, TypeOK, IdType
  <1>5. s \in Stream /\ StreamSound(s, i \in live[p])
    BY <1>4, SoundOf
  <1>6. t \in Stream /\ SameEnds(s, t) /\ t.expected = s.expected /\ t.busy = s.busy
    <2>1. t \in Stream
      BY <1>5, HandledType
    <2> QED  BY <1>5, <2>1 DEF Stream, SameEnds
  <1>20. StaysOpen(s, t)
    BY <1>6 DEF SameEnds, StaysOpen
  <1> HIDE DEF t
  <1>7. stream' = [stream EXCEPT ![p][i] = t] /\ live' = live
    BY <1>1 DEF Update
  <1>8. StreamSound(t, i \in live'[p])
    BY <1>20, <1>5, <1>6, <1>7, SameSound
  <1>9. nextId'[p] = nextId[p] + 2 /\ \A q \in Peer \ {p} : nextId'[q] = nextId[q]
    BY <1>1 DEF TypeInv, TypeOK, IdType
  <1>10. i \in Own(p) /\ IsPast(p, i)'
    <2>1. InOrder(p, nextId[p], highestRemote[p], opening[p], live[p])
      BY <1>1, IdInvByPeer DEF IdInv, Ordered
    <2>2. i \in Own(p)
      BY <1>3, <1>4, <2>1 DEF InOrder, Own, Parity
    <2> QED  BY <1>3, <1>4, <1>9, <2>2 DEF IsPast
  <1>11. OneCall(jobs'[p], stream'[p])
    <2>1. \A k \in StreamId : stream[p][k].busy => stream'[p][k].busy
      BY <1>1, <1>4, <1>6, <1>7, ChangedStream
    <2>2. \A k \in StreamId :
            k # Head(jobs[p]).id \/ Head(jobs[p]).kind \notin {"DATA", "COMPLETE"}
              => (stream[p][k].busy => stream'[p][k].busy)
      BY <2>1
    <2> QED  BY <1>1, <1>2, <2>2, OneCallLeft
  <1>12. Alone(p)
    <2>1. \A q \in Peer \ {p} : stream'[q] = stream[q]
      BY <1>1, <1>7 DEF TypeInv, TypeOK, TableType
    <2> QED  BY <1>1, <1>3, <1>7, <1>9, <2>1 DEF Alone
  <1>13. PendingPast(p)'
    <2>1. \A k \in StreamId \ Own(p) : IsPast(p, k)' <=> IsPast(p, k)
      BY <1>1 DEF IsPast
    <2> QED  BY <1>1, <2>1 DEF Sound, PendingPast
  <1>14. Ready(p)' /\ live'[p] \ {i} = live[p] \ {i}
    BY <1>1, <1>7 DEF Ready
  <1> QED  BY <1>4, <1>6, <1>7, <1>8, <1>10, <1>11, <1>12, <1>13, <1>14, SoundAt

\* An OPEN that is rolled back leaves an untouched stream outside the table.
LEMMA SoundRollBack ==
  ASSUME TableInv, Next, NEW p \in Peer, RollBackOpen(p)
  PROVE  \A q \in Peer : Sound(q)'
  <1> DEFINE i == Head(jobs[p]).id
             s == stream[p][i]
  <1>1. /\ jobs[p] # <<>> /\ Head(jobs[p]).kind = "OPEN" /\ Leave(p, i) /\ Ready(p)
        /\ jobs' = [jobs EXCEPT ![p] = Tail(@)]
        /\ UNCHANGED <<session, pending, highestRemote, nextId, stream>>
        /\ TypeInv /\ IdInv /\ Sound(p)
    BY DEF RollBackOpen, CanWrite, stateVars, TableInv, IdInv
  <1>2. i = nextId[p] /\ opening[p] /\ \A q \in Peer \ {p} : jobs'[q] = jobs[q]
    BY <1>1, OpenDone
  <1>3. i \in StreamId /\ nextId[p] \in Nat
    BY <1>1, FirstJob DEF TypeInv, TypeOK, IdType
  <1>4. ~IsPast(p, i)
    <2>1. InOrder(p, nextId[p], highestRemote[p], opening[p], live[p])
      BY <1>1, IdInvByPeer DEF IdInv, Ordered
    <2>2. i \in Own(p)
      BY <1>2, <1>3, <2>1 DEF InOrder, Own, Parity
    <2> QED  BY <1>2, <1>3, <2>2 DEF IsPast
  <1>5. s \in Stream /\ StreamSound(s, i \in live[p]) /\ Untouched(s)
    BY <1>3, <1>4, SoundOf
  <1>6. live'[p] = live[p] \ {i} /\ \A q \in Peer \ {p} : live'[q] = live[q]
    BY <1>1, <1>3, LeaveLive
  <1>7. StreamSound(s, i \in live'[p])
    BY <1>5, <1>6 DEF StreamSound, Untouched
  <1>8. stream' = [stream EXCEPT ![p][i] = s]
    BY <1>1, <1>3 DEF TypeInv, TypeOK, TableType
  <1>9. OneCall(jobs'[p], stream'[p])
    <2>1. \A k \in StreamId :
            k # Head(jobs[p]).id \/ Head(jobs[p]).kind \notin {"DATA", "COMPLETE"}
              => (stream[p][k].busy => stream'[p][k].busy)
      BY <1>1
    <2> HIDE DEF i
    <2> QED  BY <1>1, <2>1, OneCallLeft
  <1>10. Alone(p)
    BY <1>1, <1>2, <1>6 DEF Alone
  <1>11. \A k : IsPast(p, k)' <=> IsPast(p, k)
    BY <1>1 DEF IsPast
  <1>12. PendingPast(p)'
    BY <1>1, <1>11 DEF Sound, PendingPast
  <1>13. Ready(p)' /\ live'[p] \ {i} = live[p] \ {i}
    BY <1>1, <1>6 DEF Ready
  <1> HIDE DEF i
  <1> QED  BY <1>3, <1>5, <1>7, <1>8, <1>9, <1>10, <1>12, <1>13, SoundAt

\* An OPEN that has been read is behind the remote frontier.
LEMMA SoundRemote ==
  ASSUME TableInv, Next, NEW p \in Peer, ReadsOpen(p), NEW t \in Stream,
         LET i == Incoming(p).id
         IN /\ stream' = [stream EXCEPT ![p][i] = t] /\ live'[p] \ {i} = live[p] \ {i}
            /\ StreamSound(t, i \in live'[p])
            /\ pending' = pending \/ pending' = [pending EXCEPT ![p] = Append(@, i)],
         \A q \in Peer \ {p} : live'[q] = live[q] /\ jobs'[q] = jobs[q],
         OneCall(jobs'[p], stream'[p])
  PROVE  \A q \in Peer : Sound(q)'
  <1>1. /\ IdInv /\ TypeInv /\ Sound(p) /\ Ready(p) /\ UNCHANGED <<session, nextId>>
        /\ highestRemote' = [highestRemote EXCEPT ![p] = Incoming(p).id]
    BY DEF TableInv, IdInv, ReadsOpen, Reads, CanRead, stateVars
  <1>2. PICK i \in StreamId \ Own(p) : i = Incoming(p).id /\ i > highestRemote[p]
    BY <1>1, RemoteIdFresh
  <1>3. highestRemote'[p] = i /\ \A q \in Peer \ {p} : highestRemote'[q] = highestRemote[q]
    BY <1>1, <1>2 DEF TypeInv, TypeOK, IdType
  <1>4. IsPast(p, i)' /\ highestRemote[p] \in Nat /\ i \in Nat
    BY <1>1, <1>2, <1>3 DEF IsPast, TypeInv, TypeOK, IdType, StreamId
  <1>5. \A k \in StreamId \ Own(p) : IsPast(p, k) => IsPast(p, k)'
    BY <1>2, <1>3, <1>4 DEF IsPast, StreamId
  <1>6. PendingPast(p)'
    <2>0. pending[p] \in Seq(StreamId)
      BY <1>1 DEF TypeInv, TypeOK, IdType
    <2>1. \A k \in DOMAIN pending[p] :
            \E m \in StreamId \ Own(p) : pending[p][k] = m /\ IsPast(p, m)'
      BY <1>1, <1>5 DEF Sound, PendingPast
    <2>2. CASE pending' = pending
      BY <2>1, <2>2 DEF PendingPast
    <2>3. CASE pending' = [pending EXCEPT ![p] = Append(@, i)]
      <3>1. pending'[p] = Append(pending[p], i)
        BY <1>1, <2>3 DEF TypeInv, TypeOK, IdType
      <3>2. \A k \in DOMAIN Append(pending[p], i) :
              \/ k \in DOMAIN pending[p] /\ Append(pending[p], i)[k] = pending[p][k]
              \/ Append(pending[p], i)[k] = i
        BY <2>0
      <3>3. \A k \in DOMAIN pending'[p] :
              \E m \in StreamId \ Own(p) : pending'[p][k] = m /\ IsPast(p, m)'
        BY <1>2, <1>4, <2>1, <3>1, <3>2
      <3> QED  BY <3>3 DEF PendingPast
    <2> QED  BY <1>2, <2>2, <2>3
  <1>7. Alone(p)
    <2>1. \A q \in Peer \ {p} : stream'[q] = stream[q] /\ pending'[q] = pending[q]
      BY <1>1 DEF TypeInv, TypeOK, TableType, IdType
    <2> QED  BY <1>1, <1>3, <2>1 DEF Alone
  <1>8. /\ stream' = [stream EXCEPT ![p][i] = t] /\ live'[p] \ {i} = live[p] \ {i}
        /\ StreamSound(t, i \in live'[p]) /\ Ready(p)'
    BY <1>1, <1>2 DEF Ready
  <1> QED  BY <1>2, <1>4, <1>6, <1>7, <1>8, SoundAt

\* Refusals: the stream is not entered.
LEMMA SoundTurnsAway ==
  ASSUME TableInv, Next, NEW p \in Peer, TurnsAway(p)
  PROVE  \A q \in Peer : Sound(q)'
  <1>1. /\ ReadsOpen(p) /\ Refuse(p, Incoming(p).id) /\ UNCHANGED <<live, pending>>
        /\ IdInv /\ TypeInv
    BY DEF TurnsAway, RejectOpen, AcceptorThrows, TableInv, IdInv
  <1>2. PICK i \in StreamId \ Own(p) : i = Incoming(p).id /\ i \notin live[p] /\ ~IsPast(p, i)
    BY <1>1, RemoteIdFresh
  <1>3. /\ stream[p][i] \in Stream /\ Untouched(stream[p][i])
        /\ StreamSound(stream[p][i], FALSE) /\ jobs[p] \in Seq(Job)
    <2>1. /\ stream[p][i] \in Stream /\ Untouched(stream[p][i]) /\ jobs[p] \in Seq(Job)
          /\ StreamSound(stream[p][i], i \in live[p])
      BY <1>2, SoundOf
    <2> QED  BY <1>2, <2>1 DEF StreamSound
  <1>4. Incoming(p).amount \in Nat
    BY <1>1, ReadsOpenType
  <1>5. OneCall(jobs'[p], stream[p]) /\ \A q \in Peer \ {p} : jobs'[q] = jobs[q]
    <2>1. OneCall(jobs'[p], stream[p])
      BY <1>1, <1>2, RefusalQueued
    <2>2. \A q \in Peer \ {p} : jobs'[q] = jobs[q]
      BY <1>1 DEF Refuse, Queue, TypeInv, TypeOK, WriterType
    <2> QED  BY <2>1, <2>2
  <1>6. CASE RejectOpen(p)
    <2>1. stream' = stream
      BY <1>6 DEF RejectOpen
    <2>2. stream' = [stream EXCEPT ![p][i] = stream[p][i]]
      BY <1>1, <2>1 DEF TypeInv, TypeOK, TableType
    <2>3. StreamSound(stream[p][i], i \in live'[p])
      BY <1>1, <1>2, <1>3 DEF StreamSound
    <2>4. OneCall(jobs'[p], stream'[p])
      BY <1>5, <2>1
    <2> QED  BY <1>1, <1>2, <1>3, <1>5, <2>2, <2>3, <2>4, SoundRemote
  <1>7. CASE AcceptorThrows(p)
    <2> DEFINE t == Cancelled(NewStream(Incoming(p).amount))
    <2>1. stream' = [stream EXCEPT ![p][i] = t]
      BY <1>2, <1>7 DEF AcceptorThrows
    <2>2. t \in Stream /\ StreamSound(t, FALSE)
      BY <1>4, NewStreamSound
    <2> HIDE DEF t
    <2>3. StreamSound(t, i \in live'[p])
      BY <1>1, <1>2, <2>2 DEF StreamSound
    <2>4. OneCall(jobs'[p], stream'[p])
      <3>1. \A k \in StreamId : stream[p][k].busy => stream'[p][k].busy
        BY <1>1, <1>2, <1>3, <2>1, ChangedStream DEF Untouched
      <3>2. jobs'[p] \in Seq(Job)
        <4>1. TypeInv'
          BY <1>1, NextType
        <4> QED  BY <4>1 DEF TypeInv, TypeOK, WriterType
      <3> QED  BY <1>5, <3>1, <3>2, OneCallSame
    <2> QED  BY <1>1, <1>2, <1>5, <2>1, <2>2, <2>3, <2>4, SoundRemote
  <1> QED  BY <1>6, <1>7 DEF TurnsAway

LEMMA SoundAdmits ==
  ASSUME TableInv, Next, NEW p \in Peer, Admits(p)
  PROVE  \A q \in Peer : Sound(q)'
  <1>1. /\ ReadsOpen(p) /\ Enter(p, Incoming(p).id) /\ UNCHANGED jobs /\ IdInv /\ TypeInv
    BY DEF Admits, HandleOpen, PendOpen, TableInv, IdInv
  <1>2. PICK i \in StreamId \ Own(p) : i = Incoming(p).id /\ i \notin live[p] /\ ~IsPast(p, i)
    BY <1>1, RemoteIdFresh
  <1>3. /\ live'[p] = live[p] \cup {i} /\ \A q \in Peer \ {p} : live'[q] = live[q]
    BY <1>1, <1>2, EnterLive
  <1>4. Incoming(p).amount \in Nat
    BY <1>1, ReadsOpenType
  <1>5. PICK t \in Stream : /\ stream' = [stream EXCEPT ![p][i] = t]
                            /\ StreamSound(t, i \in live'[p])
    <2> DEFINE new == NewStream(Incoming(p).amount)
               held == [new EXCEPT !.handle = TRUE]
    <2>1. /\ new \in Stream /\ StreamSound(new, i \in live'[p])
          /\ held \in Stream /\ StreamSound(held, i \in live'[p])
      BY <1>4, NewStreamSound
    <2>2. \/ stream' = [stream EXCEPT ![p][i] = new]
          \/ stream' = [stream EXCEPT ![p][i] = held]
      BY <1>2 DEF Admits, HandleOpen, PendOpen
    <2> HIDE DEF new, held
    <2> QED  BY <2>1, <2>2
  <1>6. pending' = pending \/ pending' = [pending EXCEPT ![p] = Append(@, i)]
    BY <1>2 DEF Admits, HandleOpen, PendOpen
  <1>7. OneCall(jobs'[p], stream'[p])
    <2>1. ~stream[p][i].busy
      BY <1>2, SoundOf DEF Untouched
    <2> QED  BY <1>1, <1>2, <1>5, <2>1, SameQueue
  <1>8. \A q \in Peer \ {p} : jobs'[q] = jobs[q]
    BY <1>1
  <1>9. live'[p] \ {i} = live[p] \ {i}
    BY <1>3
  <1> QED  BY <1>1, <1>2, <1>3, <1>5, <1>6, <1>7, <1>8, <1>9, SoundRemote

\* detach and finishClosed leave nothing behind.
LEMMA SoundOver ==
  ASSUME TableInv, Next, NEW p \in Peer, Ends(p)
  PROVE  \A q \in Peer : Sound(q)'
  <1>1. PICK state \in {"closed", "detached"}, why \in {"none", "lost", "violation", "exhausted"} :
          Over(p, state, why)
    BY DEF Ends
  <1>2. /\ TypeInv /\ Sound(p) /\ UNCHANGED <<nextId, highestRemote>>
    BY DEF Ends, TableInv, IdInv
  <1>3. /\ jobs'[p] = <<>> /\ live'[p] = {} /\ pending'[p] = <<>> /\ session'[p] = state
        /\ \A q \in Peer \ {p} : /\ jobs'[q] = jobs[q] /\ live'[q] = live[q]
                                 /\ pending'[q] = pending[q] /\ session'[q] = session[q]
    BY <1>1, <1>2 DEF Over, TypeInv, TypeOK, WriterType, TableType, IdType, StateType
  <1>4. /\ \A q \in Peer \ {p} : stream'[q] = stream[q]
        /\ \A i \in StreamId : \/ stream'[p][i] = [Cancelled(stream[p][i]) EXCEPT !.busy = FALSE]
                               \/ /\ i \notin live[p]
                                  /\ stream'[p][i] = [stream[p][i] EXCEPT !.busy = FALSE]
    <2> DEFINE v == [i \in StreamId |-> IF i \in live[p]
                           THEN [Cancelled(stream[p][i]) EXCEPT !.busy = FALSE]
                           ELSE [stream[p][i] EXCEPT !.busy = FALSE]]
    <2>1. stream' = [stream EXCEPT ![p] = v]
      BY <1>1 DEF Over
    <2>2. \A i \in StreamId : \/ v[i] = [Cancelled(stream[p][i]) EXCEPT !.busy = FALSE]
                              \/ /\ i \notin live[p]
                                 /\ v[i] = [stream[p][i] EXCEPT !.busy = FALSE]
      OBVIOUS
    <2> HIDE DEF v
    <2>3. stream'[p] = v /\ \A q \in Peer \ {p} : stream'[q] = stream[q]
      BY <1>2, <2>1 DEF TypeInv, TypeOK, TableType
    <2> QED  BY <2>2, <2>3
  <1>5. \A s \in Stream :
          LET t == [Cancelled(s) EXCEPT !.busy = FALSE]
          IN StreamSound(t, FALSE) /\ (Untouched(s) => Untouched(t))
    BY DEF Cancelled, StreamSound, Untouched, Stream
  <1>6. \A s \in Stream :
          LET t == [s EXCEPT !.busy = FALSE]
          IN (StreamSound(s, FALSE) => StreamSound(t, FALSE)) /\ (Untouched(s) => Untouched(t))
    BY DEF StreamSound, Untouched, Stream
  <1>7. \A i \in StreamId : StreamSound(stream'[p][i], i \in live'[p])
    <2> SUFFICES ASSUME NEW i \in StreamId PROVE StreamSound(stream'[p][i], FALSE)
      BY <1>3 DEF StreamSound
    <2>1. stream[p][i] \in Stream /\ (i \notin live[p] => StreamSound(stream[p][i], FALSE))
      BY SoundOf DEF StreamSound
    <2> QED  BY <1>4, <1>5, <1>6, <2>1
  <1>8. \A i : IsPast(p, i)' <=> IsPast(p, i)
    BY <1>2 DEF IsPast
  <1>9. \A i \in StreamId : ~IsPast(p, i)' => Untouched(stream'[p][i])
    <2> SUFFICES ASSUME NEW i \in StreamId, ~IsPast(p, i) PROVE Untouched(stream'[p][i])
      BY <1>8
    <2>1. stream[p][i] \in Stream /\ Untouched(stream[p][i])
      BY SoundOf
    <2> QED  BY <1>4, <1>5, <1>6, <2>1
  <1>10. PendingPast(p)'
    BY <1>3 DEF PendingPast
  <1>11. OneCall(jobs[p], stream[p])'
    BY <1>3 DEF OneCall, CallAt
  <1>12. Sound(p)'
    BY <1>3, <1>7, <1>9, <1>10, <1>11 DEF Sound
  <1>13. Alone(p)
    BY <1>2, <1>3, <1>4 DEF Alone
  <1> QED  BY <1>12, <1>13, SoundElsewhere

LEMMA InitTable == Init => TableInv
  <1> SUFFICES ASSUME Init PROVE TableInv
    OBVIOUS
  <1>1. IdInv
    BY InitIds
  <1>2. \A p \in Peer, i \in StreamId : stream[p][i] = NewStream(0)
    BY DEF Init
  <1>3. \A in : StreamSound(NewStream(0), in) /\ Untouched(NewStream(0))
    BY NewStreamSound
  <1>4. ASSUME NEW p \in Peer PROVE Sound(p)
    <2>1. /\ live[p] = {} /\ jobs[p] = <<>> /\ pending[p] = <<>>
      BY DEF Init
    <2>2. PendingPast(p) /\ OneCall(jobs[p], stream[p])
      BY <2>1 DEF PendingPast, OneCall, CallAt
    <2> QED  BY <1>2, <1>3, <2>1, <2>2 DEF Sound
  <1> QED  BY <1>1, <1>4 DEF TableInv

LEMMA NextTable ==
  ASSUME TableInv, [Next]_vars
  PROVE  TableInv'
  <1>1. IdInv'
    BY NextIds DEF TableInv
  <1>2. \A q \in Peer : Sound(q)'
    <2>1. CASE Next
      <3>1. PICK p \in Peer : \/ Application(p) \/ Write(p) \/ LaneFails(p) \/ Read(p)
                              \/ \E i \in StreamId : StreamTail(p, i)
        BY <2>1 DEF Next
      <3>2. TypeInv
        BY DEF TableInv, IdInv
      <3>3. CASE Application(p)
        BY <2>1, <3>3, SoundOpen, SoundTakeIncoming, SoundClose, SoundCloseDetached,
           SoundRequest, SoundSend, SoundComplete, SoundEnd, Zenon DEF Application
      <3>4. CASE Write(p)
        BY <2>1, <3>2, <3>4, SessionEnds, SoundOver, SoundAbandon, SoundRollBack,
           SoundDropReason, SoundLane, SoundOpenWritten, SoundWritten, SoundDataWritten,
           SoundCompleteWritten, Zenon DEF Write
      <3>5. CASE LaneFails(p)
        BY <2>1, <3>2, <3>5, SessionEnds, SoundOver
      <3>6. CASE Read(p)
        BY <2>1, <3>2, <3>6, SessionEnds, SoundOver, SoundLane, SoundTurnsAway, SoundAdmits,
           SoundReadDemand, SoundReadData, SoundStartReassembly, SoundRefuseReassembly,
           SoundReadFragment, SoundReadComplete, SoundReadEnding, Zenon
           DEF Read, TurnsAway, Admits
      <3>7. CASE \E i \in StreamId : StreamTail(p, i)
        BY <2>1, <3>7, SoundSendNext, SoundSendTooLarge, SoundCompleteNext, Zenon DEF StreamTail
      <3> QED  BY <3>1, <3>3, <3>4, <3>5, <3>6, <3>7
    <2>2. CASE UNCHANGED vars
      <3>1. UNCHANGED <<stream, live, jobs, pending, session, nextId, highestRemote>>
        BY <2>2 DEF vars, tableVars, idVars, writerVars, stateVars
      <3>2. \A q, i : IsPast(q, i)' <=> IsPast(q, i)
        BY <3>1 DEF IsPast
      <3>3. \A q \in Peer : (PendingPast(q)' <=> PendingPast(q)) /\ (Ready(q)' <=> Ready(q))
        BY <3>1, <3>2 DEF PendingPast, Ready
      <3> QED  BY <3>1, <3>2, <3>3 DEF TableInv, Sound
    <2> QED  BY <2>1, <2>2
  <1> QED  BY <1>1, <1>2 DEF TableInv

\* A stream leaves the table when its second direction closes, what it had reserved is
\* given back with it, and an ended session keeps neither streams nor writes: whatever
\* ended the stream, and however its end crossed the peer's (releaseStream,
\* cancelStream, detach, finishClosed).
THEOREM TableAlwaysOpen == Spec => []TableIsOpen
  <1>1. TableInv => TableIsOpen
    <2> SUFFICES ASSUME TableInv, NEW p \in Peer
                 PROVE  /\ \A i \in live[p] : ~IsClosed(stream[p][i])
                        /\ \A i \in StreamId \ live[p] : stream[p][i].expected = 0
                        /\ ~Ready(p) => live[p] = {} /\ jobs[p] = <<>>
      BY DEF TableIsOpen
    <2>1. live[p] \subseteq StreamId
      BY DEF TableInv, IdInv, TypeInv, TypeOK, TableType
    <2> QED  BY <2>1 DEF TableInv, Sound, StreamSound
  <1> QED  BY <1>1, InitTable, NextTable, PTL DEF Spec

-----------------------------------------------------------------------------
(* What Total counts                                                       *)

\* The pairs one of them contributes.
LEMMA HeldSize ==
  ASSUME NEW s, NEW field, NEW i, s[i][field] \in Nat
  PROVE  IsFiniteSet({i} \X (1..s[i][field])) /\ Cardinality({i} \X (1..s[i][field])) = s[i][field]
  <1> DEFINE n == s[i][field]
  <1>1. n \in Nat
    OBVIOUS
  <1> HIDE DEF n
  <1>2. IsFiniteSet(1..n) /\ Cardinality(1..n) = n
    BY <1>1, FS_Interval
  <1>3. IsFiniteSet({i}) /\ Cardinality({i}) = 1
    BY FS_Singleton
  <1>4. IsFiniteSet({i} \X (1..n)) /\ Cardinality({i} \X (1..n)) = 1 * n
    BY <1>2, <1>3, FS_Product, ZenonT(60)
  <1> QED  BY <1>1, <1>4 DEF n

LEMMA TotalFinite ==
  ASSUME NEW s, NEW field, NEW ids, IsFiniteSet(ids), \A i \in ids : s[i][field] \in Nat
  PROVE  /\ IsFiniteSet(UNION {{i} \X (1..s[i][field]) : i \in ids})
         /\ Total(s, field, ids) \in Nat
  <1> DEFINE f == [i \in ids |-> {i} \X (1..s[i][field])]
             S == {{i} \X (1..s[i][field]) : i \in ids}
  <1>1. f \in Surjection(ids, S)
    BY DEF Surjection
  <1>2. IsFiniteSet(S)
    BY <1>1, FS_Surjection
  <1>3. \A T \in S : IsFiniteSet(T)
    <2>1. \A i \in ids : IsFiniteSet({i} \X (1..s[i][field]))
      BY HeldSize
    <2> QED  BY <2>1
  <1>4. IsFiniteSet(UNION S)
    BY <1>2, <1>3, FS_UNION
  <1> QED  BY <1>4, FS_CardinalityType DEF Total

LEMMA TotalSame ==
  ASSUME NEW s, NEW t, NEW field, NEW ids, \A i \in ids : s[i][field] = t[i][field]
  PROVE  Total(s, field, ids) = Total(t, field, ids)
  <1>1. {{i} \X (1..s[i][field]) : i \in ids} = {{i} \X (1..t[i][field]) : i \in ids}
    OBVIOUS
  <1> QED  BY <1>1 DEF Total

LEMMA TotalNone ==
  ASSUME NEW s, NEW field
  PROVE  Total(s, field, {}) = 0
  <1>1. UNION {{i} \X (1..s[i][field]) : i \in {}} = {}
    OBVIOUS
  <1> QED  BY <1>1, FS_EmptySet DEF Total

LEMMA TotalAdd ==
  ASSUME NEW s, NEW field, NEW ids, IsFiniteSet(ids), \A i \in ids : s[i][field] \in Nat,
         NEW x, x \notin ids, s[x][field] \in Nat
  PROVE  Total(s, field, ids \cup {x}) = Total(s, field, ids) + s[x][field]
  <1> DEFINE A == UNION {{i} \X (1..s[i][field]) : i \in ids}
             B == {x} \X (1..s[x][field])
  <1>1. UNION {{i} \X (1..s[i][field]) : i \in ids \cup {x}} = A \cup B
    OBVIOUS
  <1>2. A \cap B = {}
    OBVIOUS
  <1>3. IsFiniteSet(A) /\ Total(s, field, ids) \in Nat
    BY TotalFinite
  <1>7. Cardinality(A) = Total(s, field, ids)
    BY DEF Total
  <1>4. IsFiniteSet(B) /\ Cardinality(B) = s[x][field]
    BY HeldSize
  <1>5. Total(s, field, ids \cup {x}) = Cardinality(A \cup B)
    BY <1>1 DEF Total
  <1> HIDE DEF A, B
  <1>6. Cardinality(A \cup B) = Cardinality(A) + Cardinality(B) - Cardinality(A \cap B)
    BY <1>3, <1>4, FS_Union
  <1>8. Cardinality(A \cap B) = 0
    BY <1>2, FS_EmptySet
  <1> QED  BY <1>3, <1>4, <1>5, <1>6, <1>7, <1>8

LEMMA TotalRemove ==
  ASSUME NEW s, NEW field, NEW ids, IsFiniteSet(ids), \A i \in ids : s[i][field] \in Nat,
         NEW x \in ids
  PROVE  /\ Total(s, field, ids) = Total(s, field, ids \ {x}) + s[x][field]
         /\ Total(s, field, ids \ {x}) \in Nat
  <1> DEFINE rest == ids \ {x}
  <1>1. IsFiniteSet(rest) /\ ids = rest \cup {x} /\ x \notin rest
    BY FS_RemoveElement
  <1>2. \A i \in rest : s[i][field] \in Nat
    OBVIOUS
  <1> HIDE DEF rest
  <1>3. Total(s, field, rest) \in Nat
    BY <1>1, <1>2, TotalFinite
  <1>4. Total(s, field, rest \cup {x}) = Total(s, field, rest) + s[x][field]
    BY <1>1, <1>2, TotalAdd
  <1> QED  BY <1>1, <1>3, <1>4 DEF rest

\* One term of a sum changes.
LEMMA TotalChange ==
  ASSUME NEW s, NEW t, NEW field, NEW ids, IsFiniteSet(ids), NEW x \in ids,
         \A i \in ids : s[i][field] \in Nat /\ t[i][field] \in Nat,
         \A i \in ids \ {x} : s[i][field] = t[i][field]
  PROVE  Total(t, field, ids) + s[x][field] = Total(s, field, ids) + t[x][field]
  <1>1. /\ Total(s, field, ids) = Total(s, field, ids \ {x}) + s[x][field]
        /\ Total(s, field, ids \ {x}) \in Nat
    BY TotalRemove
  <1>2. Total(t, field, ids) = Total(t, field, ids \ {x}) + t[x][field]
    BY TotalRemove
  <1>3. Total(s, field, ids \ {x}) = Total(t, field, ids \ {x})
    BY TotalSame
  <1> QED  BY <1>1, <1>2, <1>3

-----------------------------------------------------------------------------
(* The two byte budgets                                                    *)

BudgetsOf(table, streams, held, reserved) ==
  /\ held = Total(streams, "weight", table) /\ held <= MaxAttributeWeight
  /\ reserved = Total(streams, "expected", table) /\ reserved <= MaxReassembly
Budgeted(p) == BudgetsOf(live[p], stream[p], retained[p], reassembling[p])
\* Two states of a stream that have reserved the same.
SameHoldings(s, t) == t.weight = s.weight /\ t.expected = s.expected

LEMMA BudgetsByPeer == BudgetsExact <=> \A p \in Peer : Budgeted(p)
  BY DEF BudgetsExact, Budgeted, BudgetsOf

LEMMA BudgetTypes ==
  ASSUME TypeInv, NEW p \in Peer
  PROVE  /\ IsFiniteSet(live[p]) /\ live[p] \subseteq StreamId
         /\ retained[p] \in Nat /\ reassembling[p] \in Nat
         /\ \A i \in StreamId : /\ stream[p][i]["weight"] \in Nat
                                /\ stream[p][i]["expected"] \in Nat
  <1>1. /\ live[p] \subseteq StreamId /\ retained[p] \in Nat /\ reassembling[p] \in Nat
        /\ stream[p] \in [StreamId -> Stream]
    BY DEF TypeInv, TypeOK, TableType
  <1>2. IsFiniteSet(StreamId)
    BY FS_Interval, BoundsAssumption DEF StreamId
  <1>3. IsFiniteSet(live[p])
    BY <1>1, <1>2, FS_Subset
  <1>4. \A s \in Stream : s["weight"] \in Nat /\ s["expected"] \in Nat
    BY DEF Stream
  <1> QED  BY <1>1, <1>3, <1>4

LEMMA BudgetedElsewhere ==
  ASSUME BudgetsExact, NEW p \in Peer, Budgeted(p)',
         \A q \in Peer \ {p} : /\ live'[q] = live[q] /\ stream'[q] = stream[q]
                               /\ retained'[q] = retained[q] /\ reassembling'[q] = reassembling[q]
  PROVE  BudgetsExact'
  <1>1. \A q \in Peer \ {p} : Budgeted(q)'
    BY BudgetsByPeer DEF Budgeted
  <1>2. \A q \in Peer : Budgeted(q)'
    BY <1>1
  <1> QED  BY <1>2 DEF BudgetsExact, Budgeted, BudgetsOf

\* Streams that hold what they held.
LEMMA BudgetsHeld ==
  ASSUME NEW table, NEW s, NEW t, NEW held, NEW reserved, BudgetsOf(table, s, held, reserved),
         \A i \in table : SameHoldings(s[i], t[i])
  PROVE  BudgetsOf(table, t, held, reserved)
  <1>1. \A i \in table : s[i]["weight"] = t[i]["weight"] /\ s[i]["expected"] = t[i]["expected"]
    BY DEF SameHoldings
  <1>2. /\ Total(s, "weight", table) = Total(t, "weight", table)
        /\ Total(s, "expected", table) = Total(t, "expected", table)
    BY <1>1, TotalSame
  <1> QED  BY <1>2 DEF BudgetsOf

\* A stream leaves, and gives back what it had reserved.
LEMMA BudgetsLess ==
  ASSUME NEW table, IsFiniteSet(table), NEW s, NEW held \in Nat, NEW reserved \in Nat,
         BudgetsOf(table, s, held, reserved), NEW x \in table,
         \A i \in table : s[i]["weight"] \in Nat /\ s[i]["expected"] \in Nat
  PROVE  BudgetsOf(table \ {x}, s, Less(held, s[x].weight), Less(reserved, s[x].expected))
  <1>1. /\ Total(s, "weight", table) = Total(s, "weight", table \ {x}) + s[x]["weight"]
        /\ Total(s, "weight", table \ {x}) \in Nat
    BY TotalRemove
  <1>2. /\ Total(s, "expected", table) = Total(s, "expected", table \ {x}) + s[x]["expected"]
        /\ Total(s, "expected", table \ {x}) \in Nat
    BY TotalRemove
  <1>3. \A a, b \in Nat : Less(a + b, b) = a /\ a <= a + b
    BY DEF Less
  <1>4. /\ Less(held, s[x].weight) = Total(s, "weight", table \ {x})
        /\ Total(s, "weight", table \ {x}) <= held
    BY <1>1, <1>3, ZenonT(60) DEF BudgetsOf
  <1>5. /\ Less(reserved, s[x].expected) = Total(s, "expected", table \ {x})
        /\ Total(s, "expected", table \ {x}) <= reserved
    BY <1>2, <1>3, ZenonT(60) DEF BudgetsOf
  <1>6. held <= MaxAttributeWeight /\ reserved <= MaxReassembly
    BY DEF BudgetsOf
  <1>7. MaxAttributeWeight \in Nat /\ MaxReassembly \in Nat
    BY BoundsAssumption
  <1> QED  BY <1>1, <1>2, <1>4, <1>5, <1>6, <1>7 DEF BudgetsOf

\* A stream enters with its attributes and nothing to put together.
LEMMA BudgetsMore ==
  ASSUME NEW table, IsFiniteSet(table), NEW s, NEW held \in Nat, NEW reserved \in Nat,
         BudgetsOf(table, s, held, reserved), NEW x, x \notin table,
         \A i \in table : s[i]["weight"] \in Nat /\ s[i]["expected"] \in Nat,
         s[x]["weight"] \in Nat, s[x]["expected"] = 0,
         held + s[x]["weight"] <= MaxAttributeWeight
  PROVE  BudgetsOf(table \cup {x}, s, held + s[x].weight, reserved)
  <1>1. Total(s, "weight", table \cup {x}) = Total(s, "weight", table) + s[x]["weight"]
    BY TotalAdd
  <1>2. Total(s, "expected", table \cup {x}) = Total(s, "expected", table) + s[x]["expected"]
    BY TotalAdd
  <1> QED  BY <1>1, <1>2 DEF BudgetsOf

\* A stream of the table begins, or ends, putting an item together.
LEMMA BudgetsPut ==
  ASSUME NEW table, IsFiniteSet(table), NEW s, NEW t, NEW held \in Nat, NEW reserved \in Nat,
         BudgetsOf(table, s, held, reserved), NEW x \in table, NEW next \in Nat,
         \A i \in table : /\ s[i]["weight"] \in Nat /\ s[i]["expected"] \in Nat
                          /\ t[i]["weight"] = s[i]["weight"],
         \A i \in table \ {x} : t[i]["expected"] = s[i]["expected"],
         t[x]["expected"] \in Nat, next <= MaxReassembly,
         next + s[x]["expected"] = reserved + t[x]["expected"]
  PROVE  BudgetsOf(table, t, held, next)
  <1>1. \A i \in table : s[i]["expected"] \in Nat /\ t[i]["expected"] \in Nat
    OBVIOUS
  <1>2. Total(t, "expected", table) + s[x]["expected"]
          = Total(s, "expected", table) + t[x]["expected"]
    BY <1>1, TotalChange
  <1>3. Total(s, "expected", table) \in Nat /\ Total(t, "expected", table) \in Nat
    BY <1>1, TotalFinite
  <1>4. Total(t, "weight", table) = Total(s, "weight", table)
    BY TotalSame
  <1> QED  BY <1>2, <1>3, <1>4 DEF BudgetsOf

-----------------------------------------------------------------------------
(* What the steps do to the budgets                                        *)

\* The table, or what one of its streams has reserved, changes at one peer only.
LEMMA BudgetPeer ==
  ASSUME TableInv, BudgetsExact, NEW p \in Peer
  PROVE  /\ TypeInv /\ IdInv /\ BudgetsOf(live[p], stream[p], retained[p], reassembling[p])
         /\ IsFiniteSet(live[p]) /\ retained[p] \in Nat /\ reassembling[p] \in Nat
         /\ live[p] \subseteq StreamId
         /\ \A i \in StreamId : /\ stream[p][i]["weight"] \in Nat
                                /\ stream[p][i]["expected"] \in Nat
         /\ \A i \in StreamId \ live[p] : stream[p][i].expected = 0
  <1>1. TypeInv /\ IdInv
    BY DEF TableInv, IdInv
  <1>2. BudgetsOf(live[p], stream[p], retained[p], reassembling[p])
    BY BudgetsByPeer DEF Budgeted
  <1>3. \A i \in StreamId \ live[p] : stream[p][i].expected = 0
    BY SoundOf DEF StreamSound
  <1> QED  BY <1>1, <1>2, <1>3, BudgetTypes

LEMMA BudgetsKept ==
  ASSUME BudgetsExact, UNCHANGED <<stream, live, retained, reassembling>>
  PROVE  BudgetsExact'
  BY DEF BudgetsExact

\* A stream changes without what it has reserved, or is not in the table.
LEMMA BudgetsUpdate ==
  ASSUME TableInv, BudgetsExact, NEW p \in Peer, NEW i \in StreamId, NEW t,
         stream' = [stream EXCEPT ![p][i] = t], UNCHANGED <<live, retained, reassembling>>,
         SameHoldings(stream[p][i], t) \/ i \notin live[p]
  PROVE  BudgetsExact'
  <1>0. live[p] \subseteq StreamId /\ TypeInv
    BY BudgetPeer
  <1>1. /\ stream'[p][i] = t /\ \A k \in StreamId \ {i} : stream'[p][k] = stream[p][k]
        /\ live[p] \subseteq StreamId /\ TypeInv
    BY <1>0 DEF TypeInv, TypeOK, TableType
  <1>2. \A k \in live[p] : SameHoldings(stream[p][k], stream'[p][k])
    BY <1>1 DEF SameHoldings
  <1>3. BudgetsOf(live[p], stream'[p], retained[p], reassembling[p])
    BY <1>2, BudgetPeer, BudgetsHeld
  <1>4. Budgeted(p)'
    BY <1>3 DEF Budgeted
  <1>5. \A q \in Peer \ {p} : stream'[q] = stream[q]
    BY <1>1 DEF TypeInv, TypeOK, TableType
  <1> QED  BY <1>4, <1>5, BudgetedElsewhere

\* Leave takes off what the stream has in the table.
LEMMA LeaveBudget ==
  ASSUME TypeInv, NEW p \in Peer, NEW i \in StreamId, Leave(p, i)
  PROVE  /\ live'[p] = live[p] \ {i}
         /\ retained'[p] = IF i \in live[p] THEN Less(retained[p], stream[p][i].weight)
                                            ELSE retained[p]
         /\ \A q \in Peer \ {p} : live'[q] = live[q] /\ retained'[q] = retained[q]
  <1>1. live'[p] = live[p] \ {i} /\ \A q \in Peer \ {p} : live'[q] = live[q]
    BY LeaveLive
  <1>2. CASE i \in live[p]
    BY <1>1, <1>2 DEF Leave, TypeInv, TypeOK, TableType
  <1>3. CASE i \notin live[p]
    BY <1>1, <1>3 DEF Leave
  <1> QED  BY <1>2, <1>3

\* A stream leaves the table, if it is there, with what it had reserved.
LEMMA BudgetsLeave ==
  ASSUME TableInv, BudgetsExact, NEW p \in Peer, NEW i \in StreamId, NEW t, Leave(p, i),
         stream' = [stream EXCEPT ![p][i] = t],
         reassembling' = [reassembling EXCEPT ![p] = Less(@, stream[p][i].expected)]
  PROVE  BudgetsExact'
  <1>1. /\ TypeInv /\ IsFiniteSet(live[p]) /\ live[p] \subseteq StreamId
        /\ BudgetsOf(live[p], stream[p], retained[p], reassembling[p])
        /\ retained[p] \in Nat /\ reassembling[p] \in Nat
        /\ \A k \in live[p] : /\ stream[p][k]["weight"] \in Nat
                              /\ stream[p][k]["expected"] \in Nat
    BY BudgetPeer
  <1>2. /\ live'[p] = live[p] \ {i}
        /\ retained'[p] = IF i \in live[p] THEN Less(retained[p], stream[p][i].weight)
                                           ELSE retained[p]
        /\ \A q \in Peer \ {p} : live'[q] = live[q] /\ retained'[q] = retained[q]
    BY <1>1, LeaveBudget
  <1>3. /\ \A k \in StreamId \ {i} : stream'[p][k] = stream[p][k]
        /\ \A q \in Peer \ {p} : stream'[q] = stream[q]
    BY <1>1 DEF TypeInv, TypeOK, TableType
  <1>4. /\ reassembling'[p] = Less(reassembling[p], stream[p][i].expected)
        /\ \A q \in Peer \ {p} : reassembling'[q] = reassembling[q]
    BY <1>1 DEF TypeInv, TypeOK, TableType
  <1>5. BudgetsOf(live'[p], stream[p], retained'[p], reassembling'[p])
    <2>1. CASE i \in live[p]
      <3>1. BudgetsOf(live[p] \ {i}, stream[p], Less(retained[p], stream[p][i].weight),
                      Less(reassembling[p], stream[p][i].expected))
        BY <1>1, <2>1, BudgetsLess
      <3> QED  BY <1>2, <1>4, <2>1, <3>1
    <2>2. CASE i \notin live[p]
      <3>1. stream[p][i].expected = 0
        BY <2>2, BudgetPeer
      <3>2. \A n \in Nat : Less(n, 0) = n
        BY DEF Less
      <3>3. live'[p] = live[p] /\ retained'[p] = retained[p] /\ reassembling'[p] = reassembling[p]
        BY <1>1, <1>2, <1>4, <2>2, <3>1, <3>2
      <3> QED  BY <1>1, <3>3
    <2> QED  BY <2>1, <2>2
  <1>6. \A k \in live'[p] : SameHoldings(stream[p][k], stream'[p][k])
    BY <1>1, <1>2, <1>3 DEF SameHoldings
  <1>7. Budgeted(p)'
    BY <1>5, <1>6, BudgetsHeld DEF Budgeted
  <1> QED  BY <1>2, <1>3, <1>4, <1>7, BudgetedElsewhere

LEMMA BudgetsCancel ==
  ASSUME TableInv, BudgetsExact, NEW p \in Peer, NEW i \in StreamId, NEW u, NEW late,
         CancelStream(p, i, u, late), u.expected = stream[p][i].expected
  PROVE  BudgetsExact'
  <1> DEFINE t == Cancelled(u)
  <1>1. /\ stream' = [stream EXCEPT ![p][i] = t] /\ Leave(p, i)
        /\ reassembling' = [reassembling EXCEPT ![p] = Less(@, stream[p][i].expected)]
    BY DEF CancelStream
  <1> HIDE DEF t
  <1> QED  BY <1>1, BudgetsLeave

\* releaseStream: a stream that closes has nothing left to put together.
LEMMA BudgetsRelease ==
  ASSUME TableInv, TableInv', BudgetsExact, NEW p \in Peer, NEW i \in StreamId, NEW t,
         Release(p, i, t), SameHoldings(stream[p][i], t)
  PROVE  BudgetsExact'
  <1>1. stream' = [stream EXCEPT ![p][i] = t] /\ UNCHANGED reassembling
    BY DEF Release
  <1>2. CASE ~IsClosed(t)
    <2>1. UNCHANGED <<live, retained>>
      BY <1>2 DEF Release
    <2> QED  BY <1>1, <2>1, BudgetsUpdate
  <1>3. CASE IsClosed(t)
    <2>1. Leave(p, i) /\ TypeInv
      BY <1>3, BudgetPeer DEF Release
    <2>2. i \notin live'[p] /\ stream'[p][i] = t
      <3>1. live'[p] = live[p] \ {i}
        BY <2>1, LeaveLive
      <3>2. stream'[p][i] = t
        BY <1>1, <2>1, ChangedStream, ZenonT(60)
      <3> QED  BY <3>1, <3>2
    <2>3. t.expected = 0
      <3>1. StreamSound(stream'[p][i], i \in live'[p])
        BY DEF TableInv, Sound
      <3> QED  BY <2>2, <3>1 DEF StreamSound
    <2>4. stream[p][i].expected = 0
      BY <2>3 DEF SameHoldings
    <2>5. \A n \in Nat : Less(n, 0) = n
      BY DEF Less
    <2>6. reassembling' = [reassembling EXCEPT ![p] = Less(@, stream[p][i].expected)]
      BY <1>1, <2>1, <2>4, <2>5, BudgetPeer DEF TypeInv, TypeOK, TableType
    <2> QED  BY <1>1, <2>1, <2>6, BudgetsLeave
  <1> QED  BY <1>2, <1>3

\* A stream enters the table with its attributes, within the limit.
LEMMA BudgetsEnter ==
  ASSUME TableInv, BudgetsExact, NEW p \in Peer, NEW i \in StreamId, i \notin live[p], NEW t,
         stream' = [stream EXCEPT ![p][i] = t], Enter(p, i), UNCHANGED reassembling,
         t.weight \in Nat, t.expected = 0, retained[p] + t.weight <= MaxAttributeWeight
  PROVE  BudgetsExact'
  <1>1. /\ TypeInv /\ IsFiniteSet(live[p]) /\ live[p] \subseteq StreamId
        /\ BudgetsOf(live[p], stream[p], retained[p], reassembling[p])
        /\ retained[p] \in Nat /\ reassembling[p] \in Nat
        /\ \A k \in live[p] : /\ stream[p][k]["weight"] \in Nat
                              /\ stream[p][k]["expected"] \in Nat
    BY BudgetPeer
  <1>2. /\ stream'[p][i] = t /\ \A k \in StreamId \ {i} : stream'[p][k] = stream[p][k]
        /\ \A q \in Peer \ {p} : stream'[q] = stream[q]
    BY <1>1 DEF TypeInv, TypeOK, TableType
  <1>3. live'[p] = live[p] \cup {i} /\ \A q \in Peer \ {p} : live'[q] = live[q]
    BY <1>1, EnterLive
  <1>4. /\ retained'[p] = retained[p] + stream'[p][i].weight
        /\ \A q \in Peer \ {p} : retained'[q] = retained[q]
    BY <1>1 DEF Enter, TypeInv, TypeOK, TableType
  <1>5. \A k \in live[p] : SameHoldings(stream[p][k], stream'[p][k])
    BY <1>1, <1>2 DEF SameHoldings
  <1>6. BudgetsOf(live[p], stream'[p], retained[p], reassembling[p])
    BY <1>1, <1>5, BudgetsHeld
  <1>7. \A k \in live[p] : /\ stream'[p][k]["weight"] \in Nat
                          /\ stream'[p][k]["expected"] \in Nat
    BY <1>1, <1>2
  <1>8. BudgetsOf(live[p] \cup {i}, stream'[p], retained[p] + stream'[p][i].weight, reassembling[p])
    BY <1>1, <1>2, <1>6, <1>7, BudgetsMore
  <1>9. Budgeted(p)'
    BY <1>3, <1>4, <1>8 DEF Budgeted
  <1> QED  BY <1>2, <1>3, <1>4, <1>9, BudgetedElsewhere

\* The bytes of an item that begins are reserved, those of a whole one given back.
LEMMA BudgetsReassembly ==
  ASSUME TableInv, BudgetsExact, NEW p \in Peer, NEW i \in live[p], NEW t, NEW n \in Nat,
         stream' = [stream EXCEPT ![p][i] = t], UNCHANGED <<live, retained>>,
         reassembling' = [reassembling EXCEPT ![p] = n], n <= MaxReassembly,
         t.weight = stream[p][i].weight, t.expected \in Nat,
         n + stream[p][i].expected = reassembling[p] + t.expected
  PROVE  BudgetsExact'
  <1>1. /\ TypeInv /\ IsFiniteSet(live[p]) /\ live[p] \subseteq StreamId
        /\ BudgetsOf(live[p], stream[p], retained[p], reassembling[p])
        /\ retained[p] \in Nat /\ reassembling[p] \in Nat
        /\ \A k \in live[p] : /\ stream[p][k]["weight"] \in Nat
                              /\ stream[p][k]["expected"] \in Nat
    BY BudgetPeer
  <1>2. /\ stream'[p][i] = t /\ \A k \in StreamId \ {i} : stream'[p][k] = stream[p][k]
        /\ \A q \in Peer \ {p} : stream'[q] = stream[q]
    BY <1>1 DEF TypeInv, TypeOK, TableType
  <1>3. reassembling'[p] = n /\ \A q \in Peer \ {p} : reassembling'[q] = reassembling[q]
    BY <1>1 DEF TypeInv, TypeOK, TableType
  <1>4. /\ \A k \in live[p] : stream'[p][k]["weight"] = stream[p][k]["weight"]
        /\ \A k \in live[p] \ {i} : stream'[p][k]["expected"] = stream[p][k]["expected"]
        /\ stream'[p][i]["expected"] \in Nat
        /\ n + stream[p][i]["expected"] = reassembling[p] + stream'[p][i]["expected"]
    BY <1>1, <1>2
  <1>5. BudgetsOf(live[p], stream'[p], retained[p], n)
    <2> DEFINE s == stream[p]
               u == stream'[p]
    <2>1. \A k \in live[p] : /\ s[k]["weight"] \in Nat /\ s[k]["expected"] \in Nat
                            /\ u[k]["weight"] = s[k]["weight"]
      BY <1>1, <1>4
    <2>2. \A k \in live[p] \ {i} : u[k]["expected"] = s[k]["expected"]
      BY <1>4
    <2>3. /\ u[i]["expected"] \in Nat
          /\ n + s[i]["expected"] = reassembling[p] + u[i]["expected"]
      BY <1>4
    <2>4. BudgetsOf(live[p], s, retained[p], reassembling[p])
      BY <1>1
    <2> HIDE DEF s, u
    <2>5. /\ IsFiniteSet(live[p]) /\ retained[p] \in Nat /\ reassembling[p] \in Nat
      BY <1>1
    <2>6. BudgetsOf(live[p], u, retained[p], n)
      BY <2>1, <2>2, <2>3, <2>4, <2>5, BudgetsPut
    <2> QED  BY <2>6 DEF u
  <1>6. Budgeted(p)'
    BY <1>3, <1>5 DEF Budgeted
  <1> QED  BY <1>2, <1>3, <1>6, BudgetedElsewhere

\* A session that ends gives back everything.
LEMMA BudgetsOver ==
  ASSUME TableInv, BudgetsExact, NEW p \in Peer, Ends(p)
  PROVE  BudgetsExact'
  <1>1. /\ TypeInv /\ BudgetsOf(live[p], stream[p], retained[p], reassembling[p])
        /\ retained[p] \in Nat /\ reassembling[p] \in Nat
    BY BudgetPeer
  <1>2. /\ live'[p] = {}
        /\ retained'[p] = Less(retained[p], Total(stream[p], "weight", live[p]))
        /\ reassembling'[p] = Less(reassembling[p], Total(stream[p], "expected", live[p]))
    BY <1>1 DEF Ends, Over, TypeInv, TypeOK, TableType
  <1>3. \A q \in Peer \ {p} : /\ live'[q] = live[q] /\ stream'[q] = stream[q]
                              /\ retained'[q] = retained[q] /\ reassembling'[q] = reassembling[q]
    BY <1>1 DEF Ends, Over, TypeInv, TypeOK, TableType
  <1>4. \A n \in Nat : Less(n, n) = 0
    BY DEF Less
  <1>5. retained'[p] = 0 /\ reassembling'[p] = 0
    BY <1>1, <1>2, <1>4 DEF BudgetsOf
  <1>6. Total(stream'[p], "weight", {}) = 0 /\ Total(stream'[p], "expected", {}) = 0
    BY TotalNone
  <1>7. MaxAttributeWeight \in Nat /\ MaxReassembly \in Nat
    BY BoundsAssumption
  <1>8. Budgeted(p)'
    BY <1>2, <1>5, <1>6, <1>7 DEF Budgeted, BudgetsOf
  <1> QED  BY <1>3, <1>8, BudgetedElsewhere

-----------------------------------------------------------------------------
(* The steps                                                               *)

LEMMA BudgetsCalls ==
  ASSUME TableInv, BudgetsExact, NEW p \in Peer, NEW i \in StreamId,
         \/ \E n \in Demands : Request(p, i, n)
         \/ \E size \in ItemSizes : Send(p, i, size)
         \/ Complete(p, i) \/ StreamTail(p, i)
  PROVE  BudgetsExact'
  <1> DEFINE s == stream[p][i]
  <1>1. s \in Stream
    BY SoundOf
  <1>2. CASE \E n \in Demands : Request(p, i, n)
    <2>1. PICK n \in Demands : Request(p, i, n)
      BY <1>2
    <2> DEFINE t == [s EXCEPT !.inCredit = AddCredit(@, n), !.asked = @ + n]
    <2>2. Update(p, i, t)
      BY <2>1 DEF Request
    <2> HIDE DEF s
    <2>3. SameHoldings(s, t)
      BY <1>1 DEF Stream, SameHoldings
    <2> HIDE DEF t
    <2> QED  BY <2>2, <2>3, BudgetsUpdate DEF Update, s
  <1>3. CASE \E size \in ItemSizes : Send(p, i, size)
    <2>1. PICK size \in ItemSizes : Send(p, i, size)
      BY <1>3
    <2> DEFINE t == [s EXCEPT !.calls = @ + 1,
                 !.tail = Append(@, [kind |-> "send", item |-> s.calls + 1, size |-> size])]
    <2>2. Update(p, i, t)
      BY <2>1 DEF Send
    <2> HIDE DEF s
    <2>3. SameHoldings(s, t)
      BY <1>1 DEF Stream, SameHoldings
    <2> HIDE DEF t
    <2> QED  BY <2>2, <2>3, BudgetsUpdate DEF Update, s
  <1>4. CASE Complete(p, i)
    <2> DEFINE t == [s EXCEPT !.tail = Append(@, [kind |-> "complete", item |-> 0, size |-> 1])]
    <2>2. Update(p, i, t)
      BY <1>4 DEF Complete
    <2> HIDE DEF s
    <2>3. SameHoldings(s, t)
      BY <1>1 DEF Stream, SameHoldings
    <2> HIDE DEF t
    <2> QED  BY <2>2, <2>3, BudgetsUpdate DEF Update, s
  <1>5. CASE SendNext(p, i)
    <2> DEFINE t == [s EXCEPT !.outCredit = @ - 1, !.tail = Tail(@), !.busy = TRUE]
    <2>2. Update(p, i, t)
      BY <1>5 DEF SendNext
    <2> HIDE DEF s
    <2>3. SameHoldings(s, t)
      BY <1>1 DEF Stream, SameHoldings
    <2> HIDE DEF t
    <2> QED  BY <2>2, <2>3, BudgetsUpdate DEF Update, s
  <1>6. CASE SendTooLarge(p, i)
    <2> DEFINE t == [s EXCEPT !.outCredit = Refund(s), !.tail = Tail(@)]
    <2>2. Update(p, i, t)
      BY <1>6 DEF SendTooLarge
    <2> HIDE DEF s
    <2>3. SameHoldings(s, t)
      BY <1>1 DEF Stream, SameHoldings
    <2> HIDE DEF t
    <2> QED  BY <2>2, <2>3, BudgetsUpdate DEF Update, s
  <1>7. CASE CompleteNext(p, i)
    <2> DEFINE t == [s EXCEPT !.tail = Tail(@), !.busy = TRUE]
    <2>2. Update(p, i, t)
      BY <1>7 DEF CompleteNext
    <2> HIDE DEF s
    <2>3. SameHoldings(s, t)
      BY <1>1 DEF Stream, SameHoldings
    <2> HIDE DEF t
    <2> QED  BY <2>2, <2>3, BudgetsUpdate DEF Update, s
  <1> QED  BY <1>2, <1>3, <1>4, <1>5, <1>6, <1>7 DEF StreamTail

\* A handle is given out, or the call of a job ends.
LEMMA BudgetsSettle ==
  ASSUME TableInv, BudgetsExact, NEW p \in Peer,
         TakeIncoming(p) \/ Abandon(p) \/ OpenWritten(p) \/ DataWritten(p)
  PROVE  BudgetsExact'
  <1>0. TypeInv /\ jobs[p] \in Seq(Job)
    BY DEF TableInv, IdInv, TypeInv, TypeOK, WriterType
  <1>1. PICK i \in StreamId :
          \E t \in {[stream[p][i] EXCEPT !.handle = TRUE], [stream[p][i] EXCEPT !.busy = FALSE],
                    [stream[p][i] EXCEPT !.busy = FALSE, !.sent = @ + 1]} : Update(p, i, t)
    <2>1. CASE TakeIncoming(p)
      <3>1. pending[p] # <<>> /\ Update(p, Head(pending[p]),
                                       [stream[p][Head(pending[p])] EXCEPT !.handle = TRUE])
        BY <2>1 DEF TakeIncoming
      <3>2. Head(pending[p]) \in StreamId
        BY <1>0, <3>1, HeadTailProperties, SMTT(30) DEF TypeInv, TypeOK, IdType
      <3> QED  BY <3>1, <3>2
    <2>2. CASE Abandon(p)
      <3>1. /\ jobs[p] # <<>> /\ Head(jobs[p]).kind = "DATA"
            /\ Update(p, Head(jobs[p]).id, [stream[p][Head(jobs[p]).id] EXCEPT !.busy = FALSE])
        BY <2>2 DEF Abandon, CanWrite, Abandoned
      <3>2. Head(jobs[p]).id \in StreamId
        BY <1>0, <3>1, FirstJob, SMTT(30) DEF TypeInv, TypeOK
      <3> QED  BY <3>1, <3>2
    <2>3. CASE OpenWritten(p)
      <3>1. Head(jobs[p]).id \in StreamId
        BY <1>0, <2>3, JobWrittenType DEF OpenWritten, JobKind
      <3>2. Update(p, Head(jobs[p]).id, [stream[p][Head(jobs[p]).id] EXCEPT !.handle = TRUE])
        BY <2>3 DEF OpenWritten
      <3> QED  BY <3>1, <3>2
    <2>4. CASE DataWritten(p)
      <3>1. Head(jobs[p]).id \in StreamId
        BY <1>0, <2>4, JobWrittenType DEF DataWritten, JobKind
      <3>2. Update(p, Head(jobs[p]).id,
                   [stream[p][Head(jobs[p]).id] EXCEPT !.busy = FALSE, !.sent = @ + 1])
        BY <2>4 DEF DataWritten
      <3> QED  BY <3>1, <3>2
    <2> QED  BY <2>1, <2>2, <2>3, <2>4
  <1> DEFINE s == stream[p][i]
  <1>4. PICK t \in {[s EXCEPT !.handle = TRUE], [s EXCEPT !.busy = FALSE],
                    [s EXCEPT !.busy = FALSE, !.sent = @ + 1]} : Update(p, i, t)
    BY <1>1
  <1>2. s \in Stream
    BY SoundOf
  <1> HIDE DEF s
  <1>3. SameHoldings(s, t)
    <2>1. CASE t = [s EXCEPT !.handle = TRUE]
      BY <1>2, <2>1 DEF Stream, SameHoldings
    <2>2. CASE t = [s EXCEPT !.busy = FALSE]
      BY <1>2, <2>2 DEF Stream, SameHoldings
    <2>3. CASE t = [s EXCEPT !.busy = FALSE, !.sent = @ + 1]
      BY <1>2, <2>3 DEF Stream, SameHoldings
    <2> QED  BY <2>1, <2>2, <2>3
  <1> QED  BY <1>3, <1>4, BudgetsUpdate DEF Update, s

\* Frames that change what a stream holds, or whether it is in the table.
LEMMA BudgetsReceive ==
  ASSUME TableInv, BudgetsExact, NEW p \in Peer, ReadDemand(p) \/ ReadData(p)
  PROVE  BudgetsExact'
  <1> DEFINE f == Incoming(p)
             i == f.id
             s == stream[p][i]
             granted == [s EXCEPT !.outCredit = AddCredit(@, f.amount)]
             pushed == [s EXCEPT !.inCredit = @ - 1, !.got = Push(s, <<Payload(f)>>)]
  <1>1. TypeInv /\ (Reads(p, {"DEMAND"}) \/ Reads(p, {"DATA"}))
        /\ (Update(p, i, granted) \/ Update(p, i, pushed))
    BY DEF TableInv, IdInv, ReadDemand, ReadData, ReadsLive
  <1>2. i \in StreamId
    BY <1>1, ReadsType
  <1>3. s \in Stream
    BY <1>2, SoundOf
  <1> HIDE DEF i, s
  <1>4. SameHoldings(s, granted)
    BY <1>3 DEF Stream, SameHoldings
  <1>5. SameHoldings(s, pushed)
    BY <1>3 DEF Stream, SameHoldings
  <1> HIDE DEF granted, pushed
  <1>6. CASE Update(p, i, granted)
    BY <1>2, <1>4, <1>6, BudgetsUpdate DEF Update, s
  <1>7. CASE Update(p, i, pushed)
    BY <1>2, <1>5, <1>7, BudgetsUpdate DEF Update, s
  <1> QED  BY <1>1, <1>6, <1>7

LEMMA BudgetsStart ==
  ASSUME TableInv, BudgetsExact, NEW p \in Peer, StartReassembly(p)
  PROVE  BudgetsExact'
  <1> DEFINE f == Incoming(p)
             i == f.id
             s == stream[p][i]
             t == [s EXCEPT !.inCredit = @ - 1, !.expected = f.size, !.partial = <<Payload(f)>>]
             n == reassembling[p] + f.size
  <1>1. /\ ReadsLive(p, {"DATA"}) /\ n <= MaxReassembly
        /\ reassembling' = [reassembling EXCEPT ![p] = n] /\ UNCHANGED <<live, retained>>
    BY DEF StartReassembly
  <1>2. TypeInv /\ i \in live[p] /\ reassembling[p] \in Nat
    BY <1>1, BudgetPeer DEF ReadsLive
  <1>3. i \in StreamId /\ s \in Stream /\ f.size \in Nat /\ s.expected = 0
    BY <1>1, <1>2, LegalData
  <1>4. stream' = [stream EXCEPT ![p][i] = t]
    BY <1>2, <1>3 DEF StartReassembly, TypeInv, TypeOK, TableType
  <1>5. t.weight = s.weight /\ t.expected = f.size
    BY <1>3 DEF Stream
  <1> HIDE DEF t
  <1>6. n \in Nat /\ n + s.expected = reassembling[p] + t.expected
    BY <1>2, <1>3, <1>5
  <1> HIDE DEF n, i
  <1> QED  BY <1>1, <1>2, <1>3, <1>4, <1>5, <1>6, BudgetsReassembly

LEMMA BudgetsFragment ==
  ASSUME TableInv, BudgetsExact, NEW p \in Peer, ReadFragment(p)
  PROVE  BudgetsExact'
  <1> DEFINE f == Incoming(p)
             i == f.id
             s == stream[p][i]
             data == Append(s.partial, Payload(f))
             part == [s EXCEPT !.partial = data]
             whole == [s EXCEPT !.expected = 0, !.partial = <<>>, !.got = Push(s, data)]
             n == Less(reassembling[p], s.expected)
  <1>1. Reads(p, {"FRAGMENT"}) /\ i \in live[p] /\ TypeInv
    BY DEF ReadFragment, ReadsLive, TableInv, IdInv
  <1>2. i \in StreamId
    BY <1>1, ReadsType
  <1>3. s \in Stream
    BY <1>2, SoundOf
  <1>4. \/ Update(p, i, part)
        \/ /\ stream' = [stream EXCEPT ![p][i] = whole] /\ UNCHANGED <<live, retained>>
           /\ reassembling' = [reassembling EXCEPT ![p] = Less(@, s.expected)]
    <2>1. CASE Whole(data, s)
      BY <2>1, Zenon DEF ReadFragment
    <2>2. CASE ~Whole(data, s)
      BY <2>2, Zenon DEF ReadFragment
    <2> QED  BY <2>1, <2>2
  <1>5. SameHoldings(s, part)
    <2> HIDE DEF data, s
    <2> QED  BY <1>3 DEF Stream, SameHoldings
  <1>6. whole.weight = s.weight /\ whole.expected = 0
    <2> HIDE DEF data, s
    <2> QED  BY <1>3 DEF Stream
  <1> HIDE DEF part, whole, i
  <1>7. CASE Update(p, i, part)
    BY <1>2, <1>5, <1>7, BudgetsUpdate DEF Update
  <1>8. CASE /\ stream' = [stream EXCEPT ![p][i] = whole] /\ UNCHANGED <<live, retained>>
             /\ reassembling' = [reassembling EXCEPT ![p] = Less(@, s.expected)]
    <2>1. /\ IsFiniteSet(live[p]) /\ reassembling[p] \in Nat
          /\ BudgetsOf(live[p], stream[p], retained[p], reassembling[p])
          /\ \A k \in live[p] : stream[p][k]["expected"] \in Nat
      BY BudgetPeer
    <2>2. /\ Total(stream[p], "expected", live[p])
               = Total(stream[p], "expected", live[p] \ {i}) + stream[p][i]["expected"]
          /\ Total(stream[p], "expected", live[p] \ {i}) \in Nat
      BY <1>1, <2>1, TotalRemove
    <2>3. s.expected \in Nat /\ s.expected <= reassembling[p] /\ reassembling[p] <= MaxReassembly
      BY <1>1, <2>1, <2>2 DEF BudgetsOf
    <2>4. MaxReassembly \in Nat
      BY BoundsAssumption
    <2>5. n \in Nat /\ n <= MaxReassembly /\ n + s.expected = reassembling[p] + whole.expected
      BY <1>6, <2>1, <2>3, <2>4 DEF Less
    <2>6. /\ stream' = [stream EXCEPT ![p][i] = whole] /\ UNCHANGED <<live, retained>>
          /\ reassembling' = [reassembling EXCEPT ![p] = n]
      BY <1>8, <2>1
    <2>7. whole.weight = stream[p][i].weight /\ whole.expected \in Nat
      BY <1>6
    <2> HIDE DEF n
    <2> QED  BY <1>1, <2>5, <2>6, <2>7, BudgetsReassembly
  <1> QED  BY <1>4, <1>7, <1>8

LEMMA BudgetsEnding ==
  ASSUME TableInv, BudgetsExact, NEW p \in Peer,
         \/ RefuseReassembly(p) \/ ReadEnding(p)
         \/ \E i \in StreamId : Cancel(p, i) \/ Fail(p, i)
  PROVE  BudgetsExact'
  <1>1. TypeInv
    BY DEF TableInv, IdInv
  <1>2. CASE RefuseReassembly(p)
    <2> DEFINE i == Incoming(p).id
               s == stream[p][i]
               u == [s EXCEPT !.inCredit = @ - 1]
    <2>1. ReadsLive(p, {"DATA"}) /\ CancelStream(p, i, u, TRUE)
      BY <1>2 DEF RefuseReassembly
    <2>2. i \in StreamId /\ s \in Stream
      BY <1>1, <2>1, LegalData
    <2> HIDE DEF s
    <2>3. u.expected = s.expected
      BY <2>2 DEF Stream
    <2> HIDE DEF u, i
    <2> QED  BY <2>1, <2>2, <2>3, BudgetsCancel DEF s
  <1>3. CASE ReadEnding(p)
    <2> DEFINE i == Incoming(p).id
    <2>1. Reads(p, {"CANCEL", "ERROR"}) /\ CancelStream(p, i, stream[p][i], FALSE)
      BY <1>3 DEF ReadEnding, ReadsLive
    <2>2. i \in StreamId
      BY <1>1, <2>1, ReadsType
    <2> HIDE DEF i
    <2> QED  BY <2>1, <2>2, BudgetsCancel
  <1>4. CASE \E i \in StreamId : Cancel(p, i) \/ Fail(p, i)
    <2>1. PICK i \in StreamId : CancelStream(p, i, stream[p][i], TRUE)
      BY <1>4 DEF Cancel, Fail, End
    <2> QED  BY <2>1, BudgetsCancel
  <1> QED  BY <1>2, <1>3, <1>4

\* COMPLETE, read or written.
LEMMA BudgetsClosing ==
  ASSUME TableInv, TableInv', BudgetsExact, NEW p \in Peer, ReadComplete(p) \/ CompleteWritten(p)
  PROVE  BudgetsExact'
  <1>1. TypeInv
    BY DEF TableInv, IdInv
  <1>2. CASE ReadComplete(p)
    <2> DEFINE i == Incoming(p).id
               s == stream[p][i]
               t == [s EXCEPT !.inClosed = TRUE]
    <2>1. Reads(p, {"COMPLETE"}) /\ Release(p, i, t)
      BY <1>2 DEF ReadComplete, ReadsLive
    <2>2. i \in StreamId
      BY <1>1, <2>1, ReadsType
    <2>3. s \in Stream
      BY <2>2, SoundOf
    <2> HIDE DEF i, s
    <2>4. SameHoldings(s, t)
      BY <2>3 DEF Stream, SameHoldings
    <2> HIDE DEF t
    <2> QED  BY <2>1, <2>2, <2>4, BudgetsRelease DEF s
  <1>3. CASE CompleteWritten(p)
    <2> DEFINE i == Head(jobs[p]).id
               s == stream[p][i]
               t == [s EXCEPT !.outClosed = TRUE, !.tail = <<>>, !.busy = FALSE]
    <2>1. JobWritten(p, {"COMPLETE"}) /\ Release(p, i, t)
      BY <1>3 DEF CompleteWritten
    <2>2. i \in StreamId
      BY <1>1, <1>3, JobWrittenType DEF CompleteWritten, JobKind
    <2>3. s \in Stream
      BY <2>2, SoundOf
    <2> HIDE DEF i, s
    <2>4. SameHoldings(s, t)
      BY <2>3 DEF Stream, SameHoldings
    <2> HIDE DEF t
    <2> QED  BY <2>1, <2>2, <2>4, BudgetsRelease DEF s
  <1> QED  BY <1>2, <1>3

\* OPEN, called for, rolled back, turned away or admitted.
LEMMA BudgetsOpening ==
  ASSUME TableInv, BudgetsExact, NEW p \in Peer,
         Open(p) \/ RollBackOpen(p) \/ TurnsAway(p) \/ Admits(p)
  PROVE  BudgetsExact'
  <1>1. TypeInv /\ IdInv
    BY DEF TableInv, IdInv
  <1>2. CASE Open(p)
    <2> DEFINE i == nextId[p]
    <2>1. PICK w \in Weights : /\ retained[p] + w <= MaxAttributeWeight
                               /\ stream' = [stream EXCEPT ![p][i] = NewStream(w)]
                               /\ Enter(p, i)
      BY <1>2 DEF Open
    <2>2. i \in StreamId /\ i \notin live[p] /\ UNCHANGED reassembling
      BY <1>1, <1>2, NextIdFresh DEF Open
    <2>3. NewStream(w).weight \in Nat /\ NewStream(w).expected = 0 /\ NewStream(w).weight = w
      BY CallsAssumption DEF NewStream
    <2> DEFINE t == NewStream(w)
    <2>4. /\ stream' = [stream EXCEPT ![p][i] = t] /\ retained[p] + t.weight <= MaxAttributeWeight
          /\ t.weight \in Nat /\ t.expected = 0
      BY <2>1, <2>3
    <2> HIDE DEF i, t
    <2> QED  BY <2>1, <2>2, <2>4, BudgetsEnter
  <1>3. CASE RollBackOpen(p)
    <2> DEFINE i == Head(jobs[p]).id
    <2>1. /\ jobs[p] # <<>> /\ Head(jobs[p]).kind = "OPEN" /\ Leave(p, i)
          /\ UNCHANGED <<stream, reassembling>>
      BY <1>3 DEF RollBackOpen, CanWrite
    <2>2. i = nextId[p]
      BY <1>1, <1>3, <2>1, OpenDone DEF RollBackOpen
    <2>3. i \in StreamId /\ nextId[p] \in Nat
      BY <1>1, <2>1, FirstJob DEF TypeInv, TypeOK, IdType
    <2>4. InOrder(p, nextId[p], highestRemote[p], opening[p], live[p])
      BY <1>1, IdInvByPeer DEF IdInv, Ordered
    <2>5. ~IsPast(p, i)
      <3>1. i \in Own(p)
        BY <2>2, <2>3, <2>4 DEF InOrder, Own, Parity
      <3> QED  BY <2>2, <2>3, <3>1 DEF IsPast
    <2>6. stream[p][i].expected = 0
      BY <2>3, <2>5, SoundOf DEF Untouched
    <2> HIDE DEF i
    <2>7. \A n \in Nat : Less(n, 0) = n
      BY DEF Less
    <2>8. reassembling[p] \in Nat
      BY BudgetPeer
    <2>9. reassembling' = [reassembling EXCEPT ![p] = Less(@, stream[p][i].expected)]
      BY <1>1, <2>1, <2>6, <2>7, <2>8 DEF TypeInv, TypeOK, TableType
    <2>10. stream' = [stream EXCEPT ![p][i] = stream[p][i]]
      BY <1>1, <2>1, <2>3 DEF TypeInv, TypeOK, TableType
    <2> QED  BY <2>1, <2>3, <2>9, <2>10, BudgetsLeave
  <1>4. CASE RejectOpen(p)
    BY <1>4, BudgetsKept DEF RejectOpen, ReadsOpen
  <1>5. CASE AcceptorThrows(p)
    <2> DEFINE i == Incoming(p).id
               t == Cancelled(NewStream(Incoming(p).amount))
    <2>1. ReadsOpen(p) /\ stream' = [stream EXCEPT ![p][i] = t]
          /\ UNCHANGED <<live, retained, reassembling>>
      BY <1>5 DEF AcceptorThrows, ReadsOpen
    <2>2. i \in StreamId /\ i \notin live[p]
      BY <1>1, <2>1, RemoteIdFresh
    <2> HIDE DEF i, t
    <2> QED  BY <2>1, <2>2, BudgetsUpdate
  <1>6. CASE Admits(p)
    <2> DEFINE i == Incoming(p).id
               w == Incoming(p).amount
    <2>1. /\ ReadsOpen(p) /\ Enter(p, i) /\ UNCHANGED reassembling
          /\ retained[p] + w <= MaxAttributeWeight
      BY <1>6 DEF Admits, HandleOpen, PendOpen, ReadsOpen, Admissible
    <2>2. i \in StreamId /\ i \notin live[p]
      BY <1>1, <2>1, RemoteIdFresh
    <2>3. w \in Nat
      BY <1>1, <2>1, ReadsType DEF ReadsOpen
    <2> HIDE DEF w, i
    <2>4. PICK t : /\ stream' = [stream EXCEPT ![p][i] = t]
                   /\ t = NewStream(w) \/ t = [NewStream(w) EXCEPT !.handle = TRUE]
      BY <1>6 DEF Admits, HandleOpen, PendOpen, w, i
    <2>5. t.weight = w /\ t.expected = 0
      BY <2>4 DEF NewStream
    <2>6. retained[p] + t.weight <= MaxAttributeWeight /\ t.weight \in Nat
      BY <2>1, <2>3, <2>5
    <2> QED  BY <2>1, <2>2, <2>4, <2>5, <2>6, BudgetsEnter
  <1> QED  BY <1>2, <1>3, <1>4, <1>5, <1>6 DEF TurnsAway

\* Everything else leaves the table as it is.
LEMMA BudgetsStill ==
  ASSUME BudgetsExact, NEW p \in Peer,
         \/ Close(p) \/ CloseDetached(p) \/ DropReason(p) \/ WriteFrame(p) \/ FragmentWritten(p)
         \/ DemandWritten(p) \/ EndingWritten(p) \/ ReadLate(p)
  PROVE  BudgetsExact'
  <1>1. UNCHANGED <<stream, live, retained, reassembling>>
    BY DEF Close, CloseDetached, DropReason, WriteFrame, FragmentWritten, DemandWritten,
           EndingWritten, ReadLate, tableVars
  <1> QED  BY <1>1, BudgetsKept

LEMMA NextBudgets ==
  ASSUME TableInv, BudgetsExact, [Next]_vars
  PROVE  BudgetsExact'
  <1>1. TypeInv /\ TableInv'
    BY NextTable DEF TableInv, IdInv
  <1>2. CASE Next
    <2>1. PICK p \in Peer : \/ Application(p) \/ Write(p) \/ LaneFails(p) \/ Read(p)
                            \/ \E i \in StreamId : StreamTail(p, i)
      BY <1>2 DEF Next
    <2>2. CASE Application(p)
      BY <2>2, BudgetsOpening, BudgetsSettle, BudgetsStill, BudgetsCalls, BudgetsEnding, Zenon
         DEF Application
    <2>3. CASE Write(p)
      BY <1>1, <2>3, SessionEnds, BudgetsOver, BudgetsSettle, BudgetsOpening, BudgetsStill,
         BudgetsClosing, Zenon DEF Write
    <2>4. CASE LaneFails(p)
      BY <1>1, <2>4, SessionEnds, BudgetsOver
    <2>5. CASE Read(p)
      BY <1>1, <2>5, SessionEnds, BudgetsOver, BudgetsOpening, BudgetsStill, BudgetsReceive,
         BudgetsStart, BudgetsFragment, BudgetsEnding, BudgetsClosing, Zenon
         DEF Read, TurnsAway, Admits
    <2>6. CASE \E i \in StreamId : StreamTail(p, i)
      BY <2>6, BudgetsCalls
    <2> QED  BY <2>1, <2>2, <2>3, <2>4, <2>5, <2>6
  <1>3. CASE UNCHANGED vars
    BY <1>3, BudgetsKept DEF vars, tableVars
  <1> QED  BY <1>2, <1>3

LEMMA InitBudgets == Init => BudgetsExact
  <1> SUFFICES ASSUME Init, NEW p \in Peer PROVE Budgeted(p)
    BY BudgetsByPeer
  <1>1. live[p] = {} /\ retained[p] = 0 /\ reassembling[p] = 0
    BY DEF Init
  <1>2. Total(stream[p], "weight", {}) = 0 /\ Total(stream[p], "expected", {}) = 0
    BY TotalNone
  <1>3. MaxAttributeWeight \in Nat /\ MaxReassembly \in Nat
    BY BoundsAssumption
  <1> QED  BY <1>1, <1>2, <1>3 DEF Budgeted, BudgetsOf

\* The bytes counted as retained for attributes, and as reserved for incomplete
\* items, are those of the streams in the table, and within their limits: no rollback,
\* refusal, ending or detachment leaves a byte reserved behind a stream that is gone
\* (retainedStreamAttributeBytes and inFlightReassemblyBytes, in every place that
\* counts them up or down).
THEOREM BudgetsAlwaysExact == Spec => []BudgetsExact
  <1>1. Init => TableInv /\ BudgetsExact
    BY InitTable, InitBudgets
  <1>2. (TableInv /\ BudgetsExact) /\ [Next]_vars => (TableInv /\ BudgetsExact)'
    BY NextTable, NextBudgets
  <1> QED  BY <1>1, <1>2, PTL DEF Spec
=============================================================================
