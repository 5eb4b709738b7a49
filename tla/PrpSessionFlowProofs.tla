------------------------ MODULE PrpSessionFlowProofs ------------------------
(***************************************************************************)
(* Every step of PrpSession is a step of DemandFlow in each direction of a *)
(* stream, or none, for every value of the constants.                      *)
(*                                                                         *)
(* FlowInv adds to WayInv what the refinement needs.  DemandFlow asks that *)
(* a begun item was asked for, also while addCredit saturates and after    *)
(* one end has dropped the stream: what p has of a stream, and what may    *)
(* still reach it, was asked for by p (Paid).  It asks that nothing        *)
(* happens to a direction that has ended, and the model gives an id a new  *)
(* record when its OPEN was rolled back: then nothing had happened on it   *)
(* (Unmet), which holds because the other peer ends only streams it has    *)
(* read the OPEN of (Known, Endings), and it has no demand (Gone).         *)
(***************************************************************************)
EXTENDS PrpSessionFlow, PrpSessionCompletionProofs

-----------------------------------------------------------------------------
(* What the refinement of DemandFlow needs besides                         *)

\* What p has of stream i, and what may still reach it, was asked for by p.
Paid(p, i) ==
  Due(p, i) + Len(stream[p][i].got) + One(stream[p][i].expected > 0) <= stream[p][i].asked
\* A stream the application holds, or has asked items of, is in the table or has ended.
Gone(p, i) ==
  Reach(p, i) \/ stream[p][i].asked > 0 => i \in live[p] \/ IsClosed(stream[p][i])
\* What ends a stream is queued for an id that has been used.
Endings(p, i) == \A kind \in {"CANCEL", "ERROR"} : On(jobs[p], kind, i) => IsPast(p, i)
\* The other peer ends a stream of p only after it has read the OPEN.
Known(p, i) == \A kind \in {"CANCEL", "ERROR", "COMPLETE"} :
  i \in Own(p) /\ Ready(p) /\ On(wire[Other(p)], kind, i) => ~Fresh(p, i)
\* Nothing has ended on an id that has not been used.
Unmet(p, i) ==
  Ready(p) /\ Fresh(p, i) => ~stream[p][i].cancelled /\ ~stream[p][i].inClosed

FlowInv ==
  /\ WayInv
  /\ \A p \in Peer, i \in StreamId :
       Paid(p, i) /\ Gone(p, i) /\ Endings(p, i) /\ Known(p, i) /\ Unmet(p, i)

-----------------------------------------------------------------------------
\* The numbers Due is the sum of.
DueNumbers == \A p \in Peer, i \in StreamId :
  /\ stream[Other(p)][i].outCredit \in Nat /\ stream[p][i].asked \in Nat
  /\ Underway(p, "DEMAND", i) \in Nat /\ Underway(Other(p), "DATA", i) \in Nat

LEMMA DueIsNat == TypeInv => DueNumbers
  <1> SUFFICES ASSUME TypeInv, NEW p \in Peer, NEW i \in StreamId
               PROVE  /\ stream[Other(p)][i].outCredit \in Nat /\ stream[p][i].asked \in Nat
                      /\ Underway(p, "DEMAND", i) \in Nat /\ Underway(Other(p), "DATA", i) \in Nat
    BY DEF DueNumbers
  <1>1. Other(p) \in Peer
    BY CreditNumbers
  <1> QED  BY <1>1, CreditNumbers

LEMMA DueStaysNat == TypeInv' => DueNumbers'
  BY DueIsNat, PTL

\* No step raises what may still reach a peer by more than the peer asks for.
LEMMA DueMoves ==
  ASSUME CreditInv, TypeInv', Next, NEW r \in Peer, NEW i \in StreamId
  PROVE  /\ Due(r, i)' + stream[r][i].asked <= Due(r, i) + stream'[r][i].asked
         /\ Due(r, i) \in Nat /\ Due(r, i)' \in Nat
  <1> DEFINE o == Other(r)
             a == stream[r][i].asked
             b == stream'[r][i].asked
             c == stream[o][i].outCredit
             d == stream'[o][i].outCredit
             m == Underway(r, "DEMAND", i)
             n == Underway(r, "DEMAND", i)'
             x == Underway(o, "DATA", i)
             y == Underway(o, "DATA", i)'
  <1>0. TypeInv
    BY DEF CreditInv, TableInv, IdInv
  <1>1. /\ o \in Peer /\ o # r /\ Other(o) = r /\ \A q \in Peer : q = r \/ q = o
    BY <1>0, CreditNumbers
  <1>2. a \in Nat /\ c \in Nat /\ m \in Nat /\ x \in Nat
    BY <1>0, DueIsNat DEF DueNumbers
  <1>3. b \in Nat /\ d \in Nat /\ n \in Nat /\ y \in Nat
    BY DueStaysNat DEF DueNumbers
  <1>4. Due(r, i) = c + m + x /\ Due(r, i)' = d + n + y
    BY DEF Due
  <1>5. ASSUME Passive(i) PROVE Due(r, i)' + a <= Due(r, i) + b
    <2>1. b = a /\ d \in {c, 0} /\ n <= m /\ y <= x
      BY <1>1, <1>5 DEF Passive, Fading, Credited
    <2> HIDE DEF a, b, c, d, m, n, x, y
    <2> QED  BY <1>2, <1>3, <1>4, <2>1
  <1>6. ASSUME NEW p \in Peer, Sends(p, i)
        PROVE  Due(r, i)' + a <= Due(r, i) + b
    <2>1. CASE p = r
      <3>1. b = a /\ d = c /\ n = m /\ y = x
        BY <1>1, <1>6, <2>1 DEF Sends, Beside, SameCredit, Shifted, Credited
      <3> HIDE DEF a, b, c, d, m, n, x, y
      <3> QED  BY <1>2, <1>3, <1>4, <3>1
    <2>2. CASE p = o
      <3>1. b = a /\ d = c - 1 /\ n = m /\ y = x + 1
        BY <1>1, <1>6, <2>2 DEF Sends, Beside, SameCredit, Shifted, Credited
      <3> HIDE DEF a, b, c, d, m, n, x, y
      <3> QED  BY <1>2, <1>3, <1>4, <3>1
    <2> QED  BY <1>1, <2>1, <2>2
  <1>7. ASSUME NEW p \in Peer, Gets(p, i)
        PROVE  Due(r, i)' + a <= Due(r, i) + b
    <2>1. CASE p = r
      <3>1. b = a /\ d = c /\ n = m /\ y = x + (-1)
        BY <1>1, <1>7, <2>1 DEF Gets, Beside, SameCredit, Shifted, Credited
      <3> HIDE DEF a, b, c, d, m, n, x, y
      <3> QED  BY <1>2, <1>3, <1>4, <3>1
    <2>2. CASE p = o
      <3>1. b = a /\ d = c /\ n = m /\ y = x
        BY <1>1, <1>7, <2>2 DEF Gets, Beside, SameCredit, Shifted, Credited
      <3> HIDE DEF a, b, c, d, m, n, x, y
      <3> QED  BY <1>2, <1>3, <1>4, <3>1
    <2> QED  BY <1>1, <2>1, <2>2
  <1>8. ASSUME NEW p \in Peer, NEW k \in Nat, Asks(p, i, k)
        PROVE  Due(r, i)' + a <= Due(r, i) + b
    <2>1. CASE p = r
      <3>1. b = a + k /\ d = c /\ n = m + k /\ y = x
        BY <1>1, <1>8, <2>1 DEF Asks, Beside, SameCredit, Shifted, Credited
      <3> HIDE DEF a, b, c, d, m, n, x, y
      <3> QED  BY <1>2, <1>3, <1>4, <3>1
    <2>2. CASE p = o
      <3>1. b = a /\ d = c /\ n = m /\ y = x
        BY <1>1, <1>8, <2>2 DEF Asks, Beside, SameCredit, Shifted, Credited
      <3> HIDE DEF a, b, c, d, m, n, x, y
      <3> QED  BY <1>2, <1>3, <1>4, <3>1
    <2> QED  BY <1>1, <2>1, <2>2
  <1>9. ASSUME NEW p \in Peer, NEW k \in Nat, Granted(p, i, k)
        PROVE  Due(r, i)' + a <= Due(r, i) + b
    <2>1. CASE p = r
      <3>1. b = a /\ d = c /\ n = m /\ y = x
        BY <1>1, <1>9, <2>1 DEF Granted, Beside, SameCredit, Shifted, Credited
      <3> HIDE DEF a, b, c, d, m, n, x, y
      <3> QED  BY <1>2, <1>3, <1>4, <3>1
    <2>2. CASE p = o
      <3>1. b = a /\ d = AddCredit(c, k) /\ n = m + (-k) /\ y = x
        BY <1>1, <1>9, <2>2 DEF Granted, Beside, SameCredit, Shifted, Credited
      <3>2. AddCredit(c, k) <= c + k
        BY <1>2, CreditFacts DEF AddCredit
      <3> HIDE DEF a, b, c, d, m, n, x, y
      <3> QED  BY <1>2, <1>3, <1>4, <3>1, <3>2
    <2> QED  BY <1>1, <2>1, <2>2
  <1>10. Due(r, i) \in Nat /\ Due(r, i)' \in Nat
    <2> HIDE DEF a, b, c, d, m, n, x, y
    <2> QED  BY <1>2, <1>3, <1>4
  <1>11. Passive(i) \/ \E p \in Peer : Moves(p, i)
    BY CreditKinds
  <1> QED  BY <1>5, <1>6, <1>7, <1>8, <1>9, <1>10, <1>11 DEF Moves

LEMMA GotIsNat ==
  ASSUME TypeInv, NEW p \in Peer, NEW i \in StreamId
  PROVE  Len(stream[p][i].got) \in Nat /\ stream[p][i].expected \in Nat
  <1> DEFINE s == stream[p][i]
  <1>1. s \in Stream
    BY CreditNumbers
  <1> HIDE DEF s
  <1>2. s.got \in Seq(Seq(Unit)) /\ s.expected \in Nat
    BY <1>1 DEF Stream
  <1>3. Len(s.got) \in Nat
    BY <1>2
  <1> QED  BY <1>2, <1>3 DEF s

\* What p has been paid for stays so while it takes no item.
LEMMA PaidKept ==
  ASSUME CreditInv, TypeInv', Next, NEW r \in Peer, NEW i \in StreamId, Paid(r, i),
         stream'[r][i].got = stream[r][i].got,
         stream'[r][i].expected = stream[r][i].expected \/ stream'[r][i].expected = 0
  PROVE  Paid(r, i)'
  <1> DEFINE s == stream[r][i]
             t == stream'[r][i]
             g == Len(s.got)
             m == One(s.expected > 0)
             n == One(t.expected > 0)
  <1>0. TypeInv
    BY DEF CreditInv, TableInv, IdInv
  <1>1. /\ Due(r, i)' + s.asked <= Due(r, i) + t.asked
        /\ Due(r, i) \in Nat /\ Due(r, i)' \in Nat
    BY DueMoves
  <1>2. g \in Nat /\ s.asked \in Nat
    BY <1>0, GotIsNat, CreditNumbers
  <1>3. m \in {0, 1} /\ n \in {0, 1} /\ n <= m
    BY <1>0, GotIsNat DEF One
  <1>4. t.asked \in Nat
    BY DueStaysNat DEF DueNumbers
  <1>5. Due(r, i) + g + m <= s.asked
    BY DEF Paid
  <1>6. Paid(r, i)' <=> Due(r, i)' + g + n <= t.asked
    BY DEF Paid, One
  <1> DEFINE a == s.asked
             b == t.asked
             x == Due(r, i)
             y == Due(r, i)'
  <1>7. y + a <= x + b /\ x \in Nat /\ y \in Nat /\ a \in Nat /\ b \in Nat /\ x + g + m <= a
    BY <1>1, <1>2, <1>4, <1>5
  <1> HIDE DEF a, b, x, y, g, m, n
  <1>8. y + g + n <= b
    BY <1>2, <1>3, <1>7
  <1> QED  BY <1>6, <1>8 DEF b, y

LEMMA PaidInbound ==
  ASSUME CreditInv, CreditInv', Next, NEW p \in Peer, NEW i \in StreamId, Paid(p, i),
         InboundMild(p, i)
  PROVE  Paid(p, i)'
  <1> DEFINE s == stream[p][i]
             t == stream'[p][i]
  <1>0. TypeInv'
    BY DEF CreditInv, TableInv, IdInv
  <1>1. CASE t.got = s.got /\ (t.expected = s.expected \/ t.expected = 0)
    BY <1>0, <1>1, PaidKept
  <1>2. CASE t.got = <<>> /\ t.expected = 0
    <2>1. Ledger(p, i)'
      BY DEF CreditInv, Credit
    <2>2. Due(p, i)' \in Nat
      BY <1>0, DueMoves
    <2>3. Len(t.got) = 0 /\ One(t.expected > 0) = 0
      BY <1>2 DEF One
    <2> QED  BY <2>1, <2>2, <2>3 DEF Ledger, Paid
  <1> QED  BY <1>1, <1>2 DEF InboundMild, SameInbound, CutInbound

\* An item that is read is no longer on its way.
LEMMA DueRead ==
  ASSUME TypeInv, NEW p \in Peer, NEW q \in Peer, q = Other(p), NEW kind \in {"DATA", "FRAGMENT"},
         ReadsLive(p, {kind}), NEW k, k = Incoming(p).id, stream'[q] = stream[q],
         \A r \in Peer : /\ jobs'[r] = jobs[r] /\ written'[r] = written[r]
                         /\ flying'[r] = flying[r]
  PROVE  Due(p, k) = Due(p, k)' + IF kind = "DATA" THEN 1 ELSE 0
  <1> DEFINE c == stream[q][k].outCredit
             m == Underway(p, "DEMAND", k)
             x == Underway(q, "DATA", k)
             y == Underway(q, "DATA", k)'
             n == Counts(Head(wire[q]), "DATA", k)
  <1>1. /\ k \in StreamId /\ Incoming(p).kind = kind /\ wire[q] # <<>>
        /\ wire'[q] = Tail(wire[q]) /\ wire'[p] = wire[p] /\ Incoming(p) = Head(wire[q])
    BY FrameTaken
  <1>2. m' = m
    BY <1>1, UnderwayStill
  <1>3. x = y + n /\ y \in Nat /\ n \in Nat
    BY <1>1, UnderwayRead
  <1>4. n = IF kind = "DATA" THEN 1 ELSE 0
    BY <1>1 DEF Counts, Units
  <1>5. c \in Nat /\ m \in Nat
    BY <1>1, CreditNumbers
  <1>6. Due(p, k) = c + m + x /\ Due(p, k)' = c + m + y
    BY <1>2 DEF Due
  <1> HIDE DEF c, m, x, y, n
  <1> QED  BY <1>3, <1>4, <1>5, <1>6

LEMMA PaidGathers ==
  ASSUME WayInv, CreditInv', Next, NEW p \in Peer, Elsewhere(p), Gathers(p),
         \A i \in StreamId : Paid(p, i)
  PROVE  \A i \in StreamId : Paid(p, i)'
  <1>0. CreditInv /\ TableInv /\ TypeInv /\ TypeInv'
    BY DEF WayInv, CreditInv, TableInv, IdInv
  <1>k. PICK k : k = Incoming(p).id
    OBVIOUS
  <1>q. PICK q \in Peer : q = Other(p)
    BY PeerFacts
  <1>1. CASE ReadComplete(p)
    <2>1. /\ k \in StreamId
          /\ stream' = [stream EXCEPT ![p][k] = [stream[p][k] EXCEPT !.inClosed = TRUE]]
      <3>1. k \in StreamId
        BY <1>0, <1>k, <1>q, <1>1, FrameTaken DEF ReadComplete
      <3> QED  BY <1>k, <1>1, <3>1 DEF ReadComplete, Release
    <2>2. stream[p][k] \in Stream
      BY <1>0, <2>1, CreditNumbers
    <2> SUFFICES ASSUME NEW i \in StreamId PROVE Paid(p, i)'
      OBVIOUS
    <2>3. stream'[p][i].got = stream[p][i].got /\ stream'[p][i].expected = stream[p][i].expected
      <3> DEFINE t == [stream[p][k] EXCEPT !.inClosed = TRUE]
      <3>1. t.got = stream[p][k].got /\ t.expected = stream[p][k].expected
        BY <2>2 DEF Stream
      <3>2. stream' = [stream EXCEPT ![p][k] = t]
        BY <2>1
      <3>a. k \in StreamId
        BY <2>1
      <3> HIDE DEF t
      <3>3. stream'[p][k] = t /\ \A m \in StreamId \ {k} : stream'[p][m] = stream[p][m]
        BY ONLY <1>0, <3>a, <3>2, p \in Peer, ChangedStream
      <3> QED  BY <3>1, <3>3
    <2> QED  BY <1>0, <2>3, PaidKept
  <1>2. CASE ReadData(p) \/ StartReassembly(p) \/ ReadFragment(p)
    <2>1. /\ UNCHANGED <<live, pending, jobs, written, flying, nextId, highestRemote>>
          /\ \E kind \in {"DATA", "FRAGMENT"}, t \in Stream :
               /\ ReadsLive(p, {kind}) /\ stream' = [stream EXCEPT ![p][k] = t]
               /\ Took(stream[p][k], t, IF kind = "DATA" THEN 1 ELSE 0)
      BY <1>0, <1>k, <1>2, ReadItemAt
    <2>2. PICK kind \in {"DATA", "FRAGMENT"}, t \in Stream :
            /\ ReadsLive(p, {kind}) /\ stream' = [stream EXCEPT ![p][k] = t]
            /\ Took(stream[p][k], t, IF kind = "DATA" THEN 1 ELSE 0)
      BY <2>1
    <2>3. k \in StreamId
      BY <1>0, <1>k, <1>q, <2>2, FrameTaken
    <2>4. stream'[p][k] = t /\ \A m \in StreamId \ {k} : stream'[p][m] = stream[p][m]
      BY ONLY <1>0, <2>2, <2>3, p \in Peer, ChangedStream
    <2>5. stream'[q] = stream[q]
      BY <1>0, <1>q, OtherKept, <2>3
    <2>6. Due(p, k) = Due(p, k)' + IF kind = "DATA" THEN 1 ELSE 0
      BY <1>0, <1>k, <1>q, <2>1, <2>2, <2>5, DueRead
    <2>7. Due(p, k) \in Nat /\ Due(p, k)' \in Nat
      BY <1>0, <2>3, DueMoves
    <2>8. Paid(p, k)'
      <3> DEFINE s == stream[p][k]
                 g == Len(s.got)
                 h == Len(t.got)
                 m == One(s.expected > 0)
                 o == One(t.expected > 0)
                 n == IF kind = "DATA" THEN 1 ELSE 0
                 x == Due(p, k)
                 y == Due(p, k)'
                 a == s.asked
      <3>1. x + g + m <= a
        BY <2>3 DEF Paid
      <3>2. Paid(p, k)' <=> y + h + o <= a
        BY <2>2, <2>4 DEF Paid, One, Took
      <3>3. h + o = g + m + n /\ g \in Nat /\ h \in Nat
        BY <2>2 DEF Took
      <3>4. a \in Nat /\ m \in Nat /\ o \in Nat /\ n \in Nat
        BY <1>0, <2>3, CreditNumbers DEF One
      <3>5. x = y + n /\ x \in Nat /\ y \in Nat
        BY <2>6, <2>7
      <3> HIDE DEF g, h, m, o, n, x, y, a
      <3>6. y + h + o <= a
        BY <3>1, <3>3, <3>4, <3>5
      <3> QED  BY <3>2, <3>6
    <2> SUFFICES ASSUME NEW i \in StreamId, i # k PROVE Paid(p, i)'
      BY <2>8
    <2>9. stream'[p][i] = stream[p][i]
      BY <2>4
    <2> QED  BY <1>0, <2>9, PaidKept
  <1> QED  BY <1>1, <1>2 DEF Gathers

\* The demand of a stream grows only where the application holds it.
AskedFor(p, i) == stream'[p][i].asked > 0 => stream[p][i].asked > 0 \/ Reach(p, i)

LEMMA GoneStep ==
  ASSUME NEW p \in Peer, NEW i \in StreamId, Gone(p, i), Tables(p), AskedFor(p, i)
  PROVE  Gone(p, i)'
  <1> SUFFICES ASSUME Reach(p, i)' \/ stream'[p][i].asked > 0, i \notin live'[p]
               PROVE  IsClosed(stream'[p][i])
    BY DEF Gone
  <1>1. stream'[p][i].handle => Reach(p, i)
    BY DEF Tables, HandleKept
  <1>2. On(jobs'[p], "OPEN", i) => Reach(p, i)
    BY DEF Tables, Reach
  <1>3. (\E k \in DOMAIN pending'[p] : pending'[p][k] = i) => Reach(p, i)
    BY DEF Tables, Pends, Reach
  <1>4. Reach(p, i)' => Reach(p, i)
    BY <1>1, <1>2, <1>3 DEF Reach
  <1>5. Reach(p, i) \/ stream[p][i].asked > 0
    BY <1>4 DEF AskedFor
  <1>6. i \in live[p] \/ IsClosed(stream[p][i])
    BY <1>5 DEF Gone
  <1>7. CASE i \in live[p]
    <2>1. \/ IsClosed(stream'[p][i])
          \/ ~Reach(p, i)' /\ stream'[p][i].asked = 0
      BY <1>7 DEF Tables, LeavesEnded
    <2> QED  BY <2>1
  <1>8. CASE IsClosed(stream[p][i])
    BY <1>8 DEF Tables, EndKept
  <1> QED  BY <1>6, <1>7, <1>8

LEMMA AskedForDemand ==
  ASSUME TypeInv, NEW p \in Peer, Demanding(p), NEW i \in StreamId
  PROVE  AskedFor(p, i)
  <1>1. PICK k \in StreamId, n \in Demands : Request(p, k, n)
    BY DEF Demanding
  <1> DEFINE t == [stream[p][k] EXCEPT !.inCredit = AddCredit(@, n), !.asked = @ + n]
  <1>2. stream' = [stream EXCEPT ![p][k] = t] /\ stream[p][k].handle
    BY <1>1 DEF Request, Update, Holds
  <1> HIDE DEF t
  <1>3. stream'[p][k] = t /\ \A m \in StreamId \ {k} : stream'[p][m] = stream[p][m]
    <2>1. stream' = [stream EXCEPT ![p][k] = t]
      BY <1>2
    <2> QED  BY ONLY TypeInv, <2>1, k \in StreamId, p \in Peer, ChangedStream
  <1> QED  BY <1>2, <1>3 DEF AskedFor, Reach

\* Writing frames and reading items ask for nothing.
LEMMA AskedStill ==
  ASSUME TableInv, NEW p \in Peer, Hastens(p) \/ Gathers(p), NEW i \in StreamId
  PROVE  stream'[p][i].asked = stream[p][i].asked
  <1>0. TypeInv
    BY DEF TableInv, IdInv
  <1>1. ASSUME NEW k \in StreamId, NEW t, stream' = [stream EXCEPT ![p][k] = t],
               t.asked = stream[p][k].asked
        PROVE  stream'[p][i].asked = stream[p][i].asked
    <2>1. stream'[p][k] = t /\ \A m \in StreamId \ {k} : stream'[p][m] = stream[p][m]
      BY ONLY <1>0, <1>1, p \in Peer, ChangedStream
    <2> QED  BY <1>1, <2>1
  <1>2. \A k \in StreamId : stream[p][k] \in Stream
    BY <1>0, CreditNumbers
  <1>3. CASE WriteFrame(p)
    BY <1>3 DEF WriteFrame, tableVars
  <1>4. ASSUME DataWritten(p) \/ CompleteWritten(p)
        PROVE  stream'[p][i].asked = stream[p][i].asked
    <2> DEFINE k == Head(jobs[p]).id
               s == stream[p][k]
    <2>1. k \in StreamId
      <3>1. jobs[p] # <<>> /\ Head(jobs[p]).kind \in {"DATA", "COMPLETE"}
        BY <1>0, <1>4 DEF DataWritten, CompleteWritten, JobWritten, TypeInv, WritesFirst
      <3>2. Head(jobs[p]) \in Job
        BY <1>0, <3>1 DEF TypeInv, TypeOK, WriterType
      <3> QED  BY <3>1, <3>2 DEF Job, JobOf, JobKind
    <2>2. \/ stream' = [stream EXCEPT ![p][k] = [s EXCEPT !.busy = FALSE, !.sent = @ + 1]]
          \/ stream' = [stream EXCEPT ![p][k] =
               [s EXCEPT !.outClosed = TRUE, !.tail = <<>>, !.busy = FALSE]]
      BY <1>4 DEF DataWritten, CompleteWritten, Update, Release
    <2>3. s \in Stream
      BY <1>2, <2>1
    <2> HIDE DEF k, s
    <2>4. /\ [s EXCEPT !.busy = FALSE, !.sent = @ + 1].asked = s.asked
          /\ [s EXCEPT !.outClosed = TRUE, !.tail = <<>>, !.busy = FALSE].asked = s.asked
      BY <2>3 DEF Stream
    <2> QED  BY <1>1, <2>1, <2>2, <2>4 DEF s
  <1>5. ASSUME NEW k \in StreamId, SendNext(p, k) \/ CompleteNext(p, k)
        PROVE  stream'[p][i].asked = stream[p][i].asked
    <2> DEFINE s == stream[p][k]
    <2>1. \/ stream' = [stream EXCEPT ![p][k] =
               [s EXCEPT !.outCredit = @ - 1, !.tail = Tail(@), !.busy = TRUE]]
          \/ stream' = [stream EXCEPT ![p][k] = [s EXCEPT !.tail = Tail(@), !.busy = TRUE]]
      BY <1>5 DEF SendNext, CompleteNext, Update
    <2>2. s \in Stream
      BY <1>2
    <2> HIDE DEF s
    <2>3. /\ [s EXCEPT !.outCredit = @ - 1, !.tail = Tail(@), !.busy = TRUE].asked = s.asked
          /\ [s EXCEPT !.tail = Tail(@), !.busy = TRUE].asked = s.asked
      BY <2>2 DEF Stream
    <2> QED  BY <1>1, <2>1, <2>3 DEF s
  <1>6. ASSUME ReadData(p) \/ StartReassembly(p) \/ ReadFragment(p)
        PROVE  stream'[p][i].asked = stream[p][i].asked
    <2>k. PICK k : k = Incoming(p).id
      OBVIOUS
    <2>1. PICK kind \in {"DATA", "FRAGMENT"}, t \in Stream :
            /\ ReadsLive(p, {kind}) /\ stream' = [stream EXCEPT ![p][k] = t]
            /\ Took(stream[p][k], t, IF kind = "DATA" THEN 1 ELSE 0)
      BY <1>6, <2>k, ReadItemAt
    <2>2. k \in StreamId
      BY <1>0, <2>k, <2>1, PeerFacts, FrameTaken
    <2> QED  BY <1>1, <2>1, <2>2 DEF Took
  <1>7. ASSUME ReadComplete(p) PROVE stream'[p][i].asked = stream[p][i].asked
    <2>k. PICK k : k = Incoming(p).id
      OBVIOUS
    <2>1. k \in StreamId
      BY <1>0, <1>7, <2>k, PeerFacts, FrameTaken DEF ReadComplete
    <2>2. stream' = [stream EXCEPT ![p][k] = [stream[p][k] EXCEPT !.inClosed = TRUE]]
      BY <1>7, <2>k DEF ReadComplete, Release
    <2>3. [stream[p][k] EXCEPT !.inClosed = TRUE].asked = stream[p][k].asked
      BY <1>2, <2>1 DEF Stream
    <2> QED  BY <1>1, <2>1, <2>2, <2>3
  <1> QED  BY <1>3, <1>4, <1>5, <1>6, <1>7 DEF Hastens, Gathers

-----------------------------------------------------------------------------
\* An id that is fresh was so before.
LEMMA FreshBack ==
  ASSUME TableInv, Next, NEW p \in Peer, NEW i \in StreamId, Fresh(p, i)', Ready(p)'
  PROVE  Fresh(p, i) /\ Ready(p)
  <1>0. TypeInv /\ IdInv
    BY DEF TableInv, IdInv
  <1>1. ~IsPast(p, i)
    BY NextOnward DEF Onward, Fresh
  <1>2. Ready(p)
    BY <1>0, NoneBecomesReady DEF NoneReadied
  <1> SUFFICES ASSUME i = nextId[p], OpenBegun(p) PROVE FALSE
    BY <1>1, <1>2 DEF Fresh
  <1>3. i \in Own(p)
    BY <1>0 DEF IdInv, IdsInOrder, Parity, Own
  <1>4. /\ flying[p] /\ jobs[p] # <<>> /\ Head(jobs[p]).kind = "OPEN"
        /\ flying \in [Peer -> BOOLEAN] /\ nextId[p] \in Nat /\ nextId \in [Peer -> Nat]
        /\ jobs \in [Peer -> Seq(Job)] /\ written[p] \in Nat
        /\ session \in [Peer -> {"ready", "closed", "detached"}]
    BY <1>0 DEF OpenBegun, TypeInv, TypeOK, WriterType, WritesFirst, IdType, StateType
  <1>5. ~(nextId'[p] = nextId[p] /\ flying'[p] /\ Head(jobs'[p]).kind = "OPEN")
    BY DEF Fresh, OpenBegun
  <1>6. nextId'[p] # nextId[p] + 2
    BY <1>3, <1>4 DEF Fresh, IsPast
  <1>7. PICK r \in Peer : \/ Stays \/ Drops(r) \/ WriteFrame(r) \/ FragmentWritten(r)
                          \/ Finishes(r) \/ Receives(r) \/ EndsLane(r)
    BY <1>0, LaneKinds
  <1>8. CASE Stays \/ Receives(r)
    <2>1. HeadsKept /\ UNCHANGED <<flying, nextId>>
      BY <1>8 DEF Stays, Receives
    <2> QED  BY <1>4, <1>5, <2>1 DEF HeadsKept
  <1>9. CASE Drops(r) \/ WriteFrame(r) \/ FragmentWritten(r) \/ Finishes(r) \/ EndsLane(r)
    <2>1. CASE r = p
      <3>1. ~CanWrite(p)
        BY <1>4 DEF CanWrite
      <3>2. ~FragmentWritten(p)
        BY <1>4 DEF FragmentWritten, FrameCount
      <3>3. ~Finishes(p)
        <4> SUFFICES ASSUME Finishes(p) PROVE FALSE
          OBVIOUS
        <4>1. nextId' = [nextId EXCEPT ![p] = @ + 2]
          BY <1>4 DEF Finishes
        <4> QED  BY <1>4, <1>6, <4>1
      <3>4. ~EndsLane(p)
        <4> SUFFICES ASSUME EndsLane(p) PROVE FALSE
          OBVIOUS
        <4>1. PICK state \in {"closed", "detached"} : session' = [session EXCEPT ![p] = state]
          BY DEF EndsLane, Ends, Over
        <4> QED  BY <1>4, <4>1 DEF Ready
      <3> QED  BY <1>9, <2>1, <3>1, <3>2, <3>3, <3>4 DEF Drops, WriteFrame
    <2>2. CASE r # p
      <3>1. nextId'[p] = nextId[p]
        BY <1>4, <1>9, <2>2 DEF Drops, WriteFrame, FragmentWritten, Finishes, EndsLane, Ends, idVars
      <3>2. flying'[p] = flying[p]
        BY <1>4, <1>9, <2>2 DEF Drops, WriteFrame, FragmentWritten, Finishes, JobDone, EndsLane,
                                Ends, Over
      <3>3. jobs'[p] = jobs[p]
        BY <1>4, <1>9, <2>2 DEF Drops, WriteFrame, FragmentWritten, Finishes, JobDone, EndsLane,
                                Ends, Over
      <3> QED  BY <1>4, <1>5, <3>1, <3>2, <3>3
    <2> QED  BY <2>1, <2>2
  <1> QED  BY <1>7, <1>8, <1>9

\* What q hands to the lane to end a stream of the other peer, that peer has opened.
LEMMA KnownWritten ==
  ASSUME WayInv, NEW p \in Peer, NEW q \in Peer, q = Other(p), NEW i \in StreamId, Endings(q, i),
         WriteFrame(q), i \in Own(p), Ready(p),
         Head(jobs[q]).kind \in {"CANCEL", "ERROR", "COMPLETE"}, Head(jobs[q]).id = i
  PROVE  ~Fresh(p, i)
  <1>0. TypeInv /\ IdInv /\ TableInv /\ Frontier(p)
    BY DEF WayInv, CreditInv, TableInv, IdInv, FrontierInv
  <1>1. jobs[q] # <<>> /\ Ready(q) /\ jobs[q] \in Seq(Job)
    BY <1>0, FrameHanded
  <1>2. On(jobs[q], Head(jobs[q]).kind, i)
    BY <1>1, OnTail
  <1>3. IsPast(q, i)
    <2>1. CASE Head(jobs[q]).kind \in {"CANCEL", "ERROR"}
      BY <1>2, <2>1 DEF Endings
    <2>2. CASE Head(jobs[q]).kind = "COMPLETE"
      <3>1. 1 \in CallAt(jobs[q]) /\ jobs[q][1].id = i
        BY <1>1, <2>2 DEF CallAt
      <3>2. stream[q][i].busy
        BY <1>0, <3>1 DEF TableInv, Sound, OneCall
      <3> QED  BY <1>0, <3>2 DEF TableInv, Sound, Untouched
    <2> QED  BY <2>1, <2>2
  <1>4. i \notin Own(q) /\ i \in Nat \ {0}
    <2>1. i \in Nat \ {0}
      BY BoundsAssumption DEF StreamId
    <2> QED  BY <2>1 DEF Own, Other, Peer
  <1>5. i <= highestRemote[q] /\ highestRemote[q] \in Nat /\ nextId[p] \in Nat
    BY <1>0, <1>3, <1>4 DEF IsPast, TypeInv, TypeOK, IdType
  <1>6. ExpectedId(q) = highestRemote[q] + 2
    BY <1>4, <1>5 DEF ExpectedId
  <1>7. nextId[p] + (IF OpenBegun(p) THEN 2 ELSE 0) >= i + 2
    <2> DEFINE n == Cardinality(OpenAt(wire[p]))
    <2>1. n \in Nat
      BY <1>0, OpensFinite DEF TypeInv, TypeOK, ReaderType
    <2>2. nextId[p] + (IF OpenBegun(p) THEN 2 ELSE 0) = ExpectedId(q) + 2 * n
      BY <1>0, <1>1 DEF Frontier
    <2> HIDE DEF n
    <2> QED  BY <1>4, <1>5, <1>6, <2>1, <2>2
  <1>8. CASE OpenBegun(p)
    <2>1. i <= nextId[p]
      BY <1>4, <1>5, <1>7, <1>8
    <2> QED  BY <1>4, <1>5, <1>8, <2>1 DEF Fresh, IsPast
  <1>9. CASE ~OpenBegun(p)
    <2>1. i < nextId[p]
      BY <1>4, <1>5, <1>7, <1>9
    <2> QED  BY <2>1 DEF Fresh, IsPast
  <1> QED  BY <1>8, <1>9

\* A frame that no step has just written was on the wire before.
LEMMA WireBack ==
  ASSUME TypeInv, Next, NEW q \in Peer, NEW i, NEW kind, kind # "FRAGMENT", On(wire'[q], kind, i)
  PROVE  \/ On(wire[q], kind, i)
         \/ WriteFrame(q) /\ Head(jobs[q]).kind = kind /\ Head(jobs[q]).id = i
  <1>1. PICK r \in Peer : \/ Stays \/ Drops(r) \/ WriteFrame(r) \/ FragmentWritten(r)
                          \/ Finishes(r) \/ Receives(r) \/ EndsLane(r)
    BY LaneKinds
  <1>2. wire \in [Peer -> Seq(Frame)]
    BY DEF TypeInv, TypeOK, ReaderType
  <1>3. CASE wire'[q] = wire[q]
    BY <1>3
  <1>4. CASE wire[q] # <<>> /\ wire'[q] = Tail(wire[q])
    BY <1>2, <1>4, OnTail
  <1>5. CASE WriteFrame(q)
    <2>1. PICK f \in Frame :
            /\ wire'[q] = Append(wire[q], f) /\ f.id = Head(jobs[q]).id
            /\ f.kind = IF written[q] > 0 THEN "FRAGMENT" ELSE Head(jobs[q]).kind
      BY <1>5, FrameHanded
    <2>2. wire[q] \in Seq(Frame)
      BY <1>2
    <2>3. On(wire[q], kind, i) \/ (f.kind = kind /\ f.id = i)
      BY ONLY <2>1, <2>2, On(wire'[q], kind, i), OnAppend
    <2> QED  BY <1>5, <2>1, <2>3
  <1>6. CASE WriteFrame(r) /\ r # q
    <2>1. PICK f : wire' = [wire EXCEPT ![r] = Append(@, f)]
      BY <1>6 DEF WriteFrame
    <2>2. wire'[q] = wire[q]
      BY <1>2, <1>6, <2>1
    <2> QED  BY <1>3, <2>2
  <1>7. CASE Stays \/ Drops(r) \/ FragmentWritten(r) \/ Finishes(r)
    <2>1. wire' = wire
      BY <1>7 DEF Stays, Drops, FragmentWritten, readerVars, Finishes
    <2> QED  BY <1>3, <2>1
  <1>8. CASE Receives(r) \/ EndsLane(r)
    <2>1. \/ wire' = wire
          \/ wire[Other(r)] # <<>> /\ wire' = [wire EXCEPT ![Other(r)] = Tail(@)]
      BY <1>8 DEF Receives, CanRead, Consume, EndsLane
    <2>2. wire'[q] = wire[q] \/ (wire[q] # <<>> /\ wire'[q] = Tail(wire[q]))
      BY <1>2, <2>1
    <2> QED  BY <1>3, <1>4, <2>2
  <1> QED  BY <1>1, <1>5, <1>6, <1>7, <1>8

LEMMA KnownStep ==
  ASSUME WayInv, Next, \A r \in Peer, k \in StreamId : Known(r, k) /\ Endings(r, k),
         NEW p \in Peer, NEW i \in StreamId
  PROVE  Known(p, i)'
  <1>0. TypeInv /\ TableInv
    BY DEF WayInv, CreditInv, TableInv, IdInv
  <1>q. PICK q \in Peer : q = Other(p)
    BY <1>0, PeerFacts
  <1> SUFFICES ASSUME NEW kind \in {"CANCEL", "ERROR", "COMPLETE"}, i \in Own(p), Ready(p)',
                      On(wire'[q], kind, i), Fresh(p, i)'
               PROVE  FALSE
    BY <1>q DEF Known
  <1>1. Fresh(p, i) /\ Ready(p)
    BY <1>0, FreshBack
  <1>2. \/ On(wire[q], kind, i)
        \/ WriteFrame(q) /\ Head(jobs[q]).kind = kind /\ Head(jobs[q]).id = i
    BY <1>0, WireBack
  <1>3. ~On(wire[q], kind, i)
    BY <1>1, <1>q DEF Known
  <1> QED  BY <1>1, <1>2, <1>3, <1>q, KnownWritten

\* A frame that ends a stream in the table is for an id that is not fresh.
LEMMA EndingKnown ==
  ASSUME IdInv, NEW p \in Peer, NEW i \in StreamId, Known(p, i), Ready(p), i \in live[p],
         NEW kind \in {"CANCEL", "ERROR", "COMPLETE"}, On(wire[Other(p)], kind, i)
  PROVE  ~Fresh(p, i)
  <1>1. CASE i \in Own(p)
    BY <1>1 DEF Known
  <1>2. CASE i \notin Own(p)
    BY <1>2 DEF IdInv, IdsInOrder, Fresh, IsPast
  <1> QED  BY <1>1, <1>2

LEMMA UnmetInbound ==
  ASSUME WayInv, WayInv', Next, NEW p \in Peer, NEW i \in StreamId, Unmet(p, i), Known(p, i),
         InboundMild(p, i)
  PROVE  Unmet(p, i)'
  <1> DEFINE s == stream[p][i]
             t == stream'[p][i]
  <1>0. TypeInv /\ TableInv /\ IdInv
    BY DEF WayInv, CreditInv, TableInv, IdInv
  <1> SUFFICES ASSUME Ready(p)', Fresh(p, i)'
               PROVE  ~t.cancelled /\ ~t.inClosed
    BY DEF Unmet
  <1>1. Fresh(p, i) /\ Ready(p)
    BY <1>0, FreshBack
  <1>2. ~s.cancelled /\ ~s.inClosed
    BY <1>1 DEF Unmet
  <1>3. ~Cause(p, i)
    <2> SUFFICES ASSUME Cause(p, i) PROVE FALSE
      OBVIOUS
    <2>1. /\ CanRead(p) /\ i \in live[p]
          /\ Incoming(p).kind \in {"CANCEL", "ERROR"} /\ Incoming(p).id = i
      BY <1>1 DEF Cause, Fresh
    <2>2. wire[Other(p)] # <<>> /\ wire[Other(p)] \in Seq(Frame)
      BY <1>0, <2>1, PeerFacts DEF CanRead, TypeInv, TypeOK, ReaderType
    <2>3. On(wire[Other(p)], Incoming(p).kind, i)
      BY <2>1, <2>2, OnTail DEF Incoming
    <2> QED  BY <1>0, <1>1, <2>1, <2>3, EndingKnown
  <1>4. CASE t.inClosed = t.cancelled /\ (i \in live'[p] \/ (t.cancelled /\ IsPast(p, i)'))
    <2>1. i \in live'[p]
      BY <1>4 DEF Fresh
    <2>2. TableInv'
      BY DEF WayInv, CreditInv
    <2>3. StreamSound(t, TRUE)
      BY <2>1, <2>2 DEF TableInv, Sound
    <2> QED  BY <1>4, <2>3 DEF StreamSound, IsClosed
  <1> QED  BY <1>2, <1>3, <1>4 DEF InboundMild, SameInbound

LEMMA UnmetGathers ==
  ASSUME WayInv, Next, NEW p \in Peer, Gathers(p),
         \A i \in StreamId : Unmet(p, i) /\ Known(p, i)
  PROVE  \A i \in StreamId : Unmet(p, i)'
  <1>0. TypeInv /\ TableInv /\ IdInv
    BY DEF WayInv, CreditInv, TableInv, IdInv
  <1> SUFFICES ASSUME NEW i \in StreamId, Ready(p)', Fresh(p, i)'
               PROVE  ~stream'[p][i].cancelled /\ ~stream'[p][i].inClosed
    BY DEF Unmet
  <1>k. PICK k : k = Incoming(p).id
    OBVIOUS
  <1>q. PICK q \in Peer : q = Other(p)
    BY <1>0, PeerFacts
  <1>1. Fresh(p, i) /\ Ready(p)
    BY <1>0, FreshBack
  <1>2. ~stream[p][i].cancelled /\ ~stream[p][i].inClosed
    BY <1>1 DEF Unmet
  <1>3. CASE ReadComplete(p)
    <2>1. ReadsLive(p, {"COMPLETE"})
      BY <1>3 DEF ReadComplete
    <2>2. k \in StreamId /\ k \in live[p] /\ On(wire[q], "COMPLETE", k)
      BY <1>0, <1>k, <1>q, <2>1, FrameTaken
    <2>3. i # k
      BY <1>0, <1>1, <1>q, <2>2, EndingKnown
    <2> DEFINE t == [stream[p][k] EXCEPT !.inClosed = TRUE]
    <2>4. stream' = [stream EXCEPT ![p][k] = t]
      BY <1>3, <1>k DEF ReadComplete, Release
    <2>5. k \in StreamId
      BY <2>2
    <2> HIDE DEF t
    <2>6. stream'[p][i] = stream[p][i]
      BY ONLY <1>0, <2>3, <2>4, <2>5, p \in Peer, i \in StreamId, ChangedStream
    <2> QED  BY <1>2, <2>6
  <1>4. CASE ReadData(p) \/ StartReassembly(p) \/ ReadFragment(p)
    <2>1. PICK kind \in {"DATA", "FRAGMENT"}, t \in Stream :
            /\ ReadsLive(p, {kind}) /\ stream' = [stream EXCEPT ![p][k] = t]
            /\ Took(stream[p][k], t, IF kind = "DATA" THEN 1 ELSE 0)
      BY <1>0, <1>4, <1>k, ReadItemAt
    <2>2. k \in StreamId
      BY <1>0, <1>k, <1>q, <2>1, FrameTaken
    <2>3. stream'[p][k] = t /\ \A m \in StreamId \ {k} : stream'[p][m] = stream[p][m]
      BY ONLY <1>0, <2>1, <2>2, p \in Peer, ChangedStream
    <2> QED  BY <1>2, <2>1, <2>3 DEF Took
  <1> QED  BY <1>3, <1>4 DEF Gathers

\* What every step of p does to the direction towards p, and to the table.
FlowStep(p) ==
  /\ Elsewhere(p) /\ Tables(p) /\ (Inbound(p) \/ Gathers(p))
  /\ (\A i \in StreamId : AskedKept(p, i)) \/ Demanding(p)
  /\ wire'[p] = wire[p] \/ WriteFrame(p)

LEMMA FlowSteps ==
  ASSUME WayInv, Next
  PROVE  \E p \in Peer : FlowStep(p)
  <1>1. CreditInv /\ TableInv
    BY DEF WayInv, CreditInv
  <1>2. PICK p \in Peer :
         /\ Elsewhere(p)
         /\ (Soft(p) /\ Asked(p)) \/ (Soft(p) /\ Demanding(p)) \/ Hastens(p) \/ Gathers(p)
    BY <1>1, FlowKinds
  <1>3. CASE Soft(p) /\ (Asked(p) \/ Demanding(p))
    BY <1>2, <1>3 DEF Soft, Asked, Outbound, WriteLane, FlowStep
  <1>4. CASE Hastens(p)
    <2>1. Inbound(p) /\ Tables(p)
      BY <1>2, <1>4, HastensWay
    <2>2. \A i \in StreamId : AskedKept(p, i)
      BY <1>1, <1>4, AskedStill DEF AskedKept
    <2>3. wire'[p] = wire[p] \/ WriteFrame(p)
      BY <1>4 DEF Hastens, DataWritten, CompleteWritten, SendNext, CompleteNext, readerVars
    <2> QED  BY <1>2, <2>1, <2>2, <2>3 DEF FlowStep
  <1>5. CASE Gathers(p)
    <2>1. Tables(p) /\ Outbound(p)
      BY <1>2, <1>5, GathersWay, PeerFacts DEF WayInv, CreditInv, TableInv, IdInv
    <2>2. \A i \in StreamId : AskedKept(p, i)
      BY <1>1, <1>5, AskedStill DEF AskedKept
    <2> QED  BY <1>2, <1>5, <2>1, <2>2 DEF Outbound, WriteLane, FlowStep
  <1> QED  BY <1>2, <1>3, <1>4, <1>5

LEMMA FlowActor ==
  ASSUME FlowInv, WayInv', Next, NEW p \in Peer, FlowStep(p), NEW i \in StreamId
  PROVE  Paid(p, i)' /\ Gone(p, i)' /\ Endings(p, i)' /\ Unmet(p, i)'
  <1>0. WayInv /\ CreditInv /\ CreditInv' /\ TableInv /\ TypeInv /\ Elsewhere(p) /\ Tables(p)
    BY DEF FlowInv, WayInv, CreditInv, TableInv, IdInv, FlowStep
  <1>1. \A k \in StreamId :
          Paid(p, k) /\ Gone(p, k) /\ Endings(p, k) /\ Known(p, k) /\ Unmet(p, k)
    BY DEF FlowInv
  <1>2. AskedFor(p, i)
    <2>1. CASE AskedKept(p, i)
      BY <2>1 DEF AskedKept, AskedFor
    <2>2. CASE Demanding(p)
      BY <1>0, <2>2, AskedForDemand
    <2> QED  BY <2>1, <2>2 DEF FlowStep
  <1>3. Gone(p, i)'
    BY <1>0, <1>1, <1>2, GoneStep
  <1>4. Endings(p, i)'
    <2>1. IsPast(p, i) => IsPast(p, i)'
      BY <1>0, NextOnward DEF Onward
    <2>2. \A kind \in {"CANCEL", "ERROR"} :
            On(jobs'[p], kind, i) => On(jobs[p], kind, i) \/ IsPast(p, i)'
      BY <1>0 DEF Tables
    <2>3. Endings(p, i)
      BY <1>1
    <2> QED  BY <2>1, <2>2, <2>3 DEF Endings
  <1>5. CASE Inbound(p)
    <2>1. InboundMild(p, i)
      BY <1>5 DEF Inbound
    <2>2. Paid(p, i)'
      BY <1>0, <1>1, <2>1, PaidInbound
    <2>3. Unmet(p, i)'
      BY <1>0, <1>1, <2>1, UnmetInbound
    <2> QED  BY <1>3, <1>4, <2>2, <2>3
  <1>6. CASE Gathers(p)
    <2>1. Paid(p, i)'
      BY <1>0, <1>1, <1>6, PaidGathers
    <2>2. Unmet(p, i)'
      BY <1>0, <1>1, <1>6, UnmetGathers
    <2> QED  BY <1>3, <1>4, <2>1, <2>2
  <1> QED  BY <1>5, <1>6 DEF FlowStep

LEMMA FlowOther ==
  ASSUME FlowInv, WayInv', Next, NEW p \in Peer, FlowStep(p), NEW q \in Peer, q = Other(p),
         NEW i \in StreamId
  PROVE  Paid(q, i)' /\ Gone(q, i)' /\ Endings(q, i)' /\ Unmet(q, i)'
  <1>0. WayInv /\ CreditInv /\ TypeInv' /\ TableInv /\ TypeInv /\ Elsewhere(p)
    BY DEF FlowInv, WayInv, CreditInv, TableInv, IdInv, FlowStep
  <1>1. Paid(q, i) /\ Gone(q, i) /\ Endings(q, i) /\ Unmet(q, i)
    BY DEF FlowInv
  <1>2. /\ stream'[q] = stream[q] /\ jobs'[q] = jobs[q] /\ live'[q] = live[q]
        /\ pending'[q] = pending[q] /\ (IsPast(q, i)' <=> IsPast(q, i))
    BY <1>0, OtherKept
  <1>3. Paid(q, i)'
    BY <1>0, <1>1, <1>2, PaidKept
  <1>4. Gone(q, i)'
    BY <1>1, <1>2 DEF Gone, Reach
  <1>5. Endings(q, i)'
    BY <1>1, <1>2 DEF Endings
  <1>6. Unmet(q, i)'
    <2> SUFFICES ASSUME Ready(q)', Fresh(q, i)'
                 PROVE  ~stream[q][i].cancelled /\ ~stream[q][i].inClosed
      BY <1>2 DEF Unmet
    <2>1. Ready(q) /\ Fresh(q, i)
      BY <1>0, FreshBack
    <2> QED  BY <1>1, <2>1 DEF Unmet
  <1> QED  BY <1>3, <1>4, <1>5, <1>6

LEMMA InitFlow == Init => FlowInv
  <1> SUFFICES ASSUME Init PROVE FlowInv
    OBVIOUS
  <1>1. WayInv
    BY InitWay
  <1>2. CreditInv /\ TypeInv
    BY <1>1 DEF WayInv, CreditInv, TableInv, IdInv
  <1> SUFFICES ASSUME NEW p \in Peer, NEW i \in StreamId
               PROVE  Paid(p, i) /\ Gone(p, i) /\ Endings(p, i) /\ Known(p, i) /\ Unmet(p, i)
    BY <1>1 DEF FlowInv
  <1>3. stream[p][i] = NewStream(0) /\ jobs[p] = <<>> /\ pending[p] = <<>>
    BY DEF Init
  <1>4. wire[Other(p)] = <<>>
    BY <1>2, PeerFacts DEF Init
  <1>5. Paid(p, i)
    <2>1. Len(stream[p][i].got) = 0 /\ One(stream[p][i].expected > 0) = 0
      BY <1>3 DEF NewStream, One
    <2>2. Ledger(p, i) /\ Due(p, i) \in Nat
      <3>1. Ledger(p, i)
        BY <1>2 DEF CreditInv, Credit
      <3>2. /\ stream[Other(p)][i].outCredit \in Nat
            /\ Underway(p, "DEMAND", i) \in Nat /\ Underway(Other(p), "DATA", i) \in Nat
        BY <1>2, DueIsNat DEF DueNumbers
      <3> QED  BY <3>1, <3>2 DEF Due
    <2> QED  BY <2>1, <2>2 DEF Paid, Ledger
  <1>6. Gone(p, i) /\ Endings(p, i) /\ Known(p, i) /\ Unmet(p, i)
    BY <1>3, <1>4, OnNone DEF Gone, Reach, Endings, Known, Unmet, NewStream
  <1> QED  BY <1>5, <1>6

LEMMA NextFlow ==
  ASSUME FlowInv, Next
  PROVE  FlowInv'
  <1>1. WayInv /\ WayInv'
    BY NextWay DEF FlowInv
  <1>2. PICK p \in Peer : FlowStep(p)
    BY <1>1, FlowSteps
  <1>3. PICK q \in Peer : q = Other(p) /\ \A r \in Peer : r = p \/ r = q
    BY PeerFacts DEF Peer, Other, WayInv, CreditInv, TableInv, IdInv
  <1>4. ASSUME NEW r \in Peer, NEW i \in StreamId
        PROVE  Paid(r, i)' /\ Gone(r, i)' /\ Endings(r, i)' /\ Known(r, i)' /\ Unmet(r, i)'
    <2>1. Known(r, i)'
      <3>1. \A x \in Peer, k \in StreamId : Known(x, k) /\ Endings(x, k)
        BY DEF FlowInv
      <3> QED  BY <1>1, <3>1, KnownStep
    <2>2. CASE r = p
      BY <1>1, <1>2, <2>1, <2>2, FlowActor
    <2>3. CASE r = q
      BY <1>1, <1>2, <1>3, <2>1, <2>3, FlowOther
    <2> QED  BY <1>3, <2>2, <2>3
  <1> QED  BY <1>1, <1>4 DEF FlowInv

LEMMA FlowStutter ==
  ASSUME FlowInv, UNCHANGED vars
  PROVE  FlowInv'
  <1>1. WayInv'
    BY NextWay DEF FlowInv
  <1>2. /\ stream' = stream /\ live' = live /\ jobs' = jobs /\ written' = written
        /\ flying' = flying /\ wire' = wire /\ session' = session /\ nextId' = nextId
        /\ highestRemote' = highestRemote /\ pending' = pending
    BY DEF vars, tableVars, idVars, writerVars, readerVars, stateVars
  <1> SUFFICES ASSUME NEW p \in Peer, NEW i \in StreamId
               PROVE  Paid(p, i)' /\ Gone(p, i)' /\ Endings(p, i)' /\ Known(p, i)' /\ Unmet(p, i)'
    BY <1>1 DEF FlowInv
  <1>3. Paid(p, i) /\ Gone(p, i) /\ Endings(p, i) /\ Known(p, i) /\ Unmet(p, i)
    BY DEF FlowInv
  <1>4. /\ IsPast(p, i)' <=> IsPast(p, i)
        /\ Ready(p)' <=> Ready(p)
        /\ OpenBegun(p)' <=> OpenBegun(p)
    BY <1>2 DEF IsPast, Ready, OpenBegun
  <1>5. Fresh(p, i)' <=> Fresh(p, i)
    BY <1>2, <1>4 DEF Fresh
  <1>6. Gone(p, i)' /\ Endings(p, i)'
    BY <1>2, <1>3, <1>4 DEF Gone, Reach, Endings
  <1>7. Known(p, i)' /\ Unmet(p, i)'
    BY <1>2, <1>3, <1>4, <1>5 DEF Known, Unmet
  <1>8. Due(p, i)' = Due(p, i)
    BY <1>2 DEF Due, Underway, Skip
  <1>9. Paid(p, i)'
    BY <1>2, <1>3, <1>8 DEF Paid, One
  <1> QED  BY <1>6, <1>7, <1>9

LEMMA FlowInvariant == Spec => []FlowInv
  <1>1. FlowInv /\ [Next]_vars => FlowInv'
    BY NextFlow, FlowStutter
  <1> QED  BY InitFlow, <1>1, PTL DEF Spec

-----------------------------------------------------------------------------
(* Every step is a step of DemandFlow in each direction, or none           *)

FlowState(a, x, g, e) == [asked |-> a, started |-> x, got |-> g, ended |-> e]
\* The items that are underway toward p on stream i.
Shown(p, i) ==
  LET s == stream[p][i]
  IN IF Ended(s) = "open" THEN Laid(Other(p), i) + One(s.expected > 0) ELSE 0
LEMMA TowardIs ==
  ASSUME TypeInv, NEW p \in Peer, NEW i \in StreamId
  PROVE  Toward(p, i) = FlowState(stream[p][i].asked, Len(stream[p][i].got) + Shown(p, i),
                                  Len(stream[p][i].got), Ended(stream[p][i]))
  <1> DEFINE w == wire[Other(p)]
             M == {k \in 1..Len(w) : k > 0 /\ w[k].kind = "DATA" /\ w[k].id = i}
             D == {k \in DOMAIN w : w[k].kind = "DATA" /\ w[k].id = i}
  <1>1. w \in Seq(Frame)
    BY PeerFacts DEF TypeInv, TypeOK, ReaderType
  <1>2. M = D /\ Len(w) \in Nat
    BY <1>1
  <1>3. Laid(Other(p), i) = Cardinality(M)
    <2>1. Amount(w, 0, "DATA", i) = Cardinality(M)
      BY ONLY <1>2, ItemTotal
    <2> QED  BY <2>1 DEF Laid
  <1>4. Started(p, i) = Len(stream[p][i].got) + IF Ended(stream[p][i]) # "open" THEN 0
                        ELSE Cardinality(D) + IF stream[p][i].expected > 0 THEN 1 ELSE 0
    BY DEF Started
  <1> HIDE DEF M, D, w
  <1>5. Started(p, i) = Len(stream[p][i].got) + Shown(p, i)
    BY <1>2, <1>3, <1>4 DEF Shown, One
  <1> QED  BY <1>5 DEF Toward, FlowState

LEMMA StepsOf ==
  ASSUME NEW a, NEW x, NEW g
  PROVE  /\ \A b : b > a => Flow!Step(FlowState(a, x, g, "open"), FlowState(b, x, g, "open"))
         /\ x < a => Flow!Step(FlowState(a, x, g, "open"), FlowState(a, x + 1, g, "open"))
         /\ g < x => Flow!Step(FlowState(a, x, g, "open"), FlowState(a, x, g + 1, "open"))
         /\ Flow!Step(FlowState(a, g, g, "open"), FlowState(a, g, g, "completed"))
         /\ \A e : e # "cut" => Flow!Step(FlowState(a, x, g, e), FlowState(a, g, g, "cut"))
  <1>1. ASSUME NEW b, b > a
        PROVE  Flow!Ask(FlowState(a, x, g, "open"), FlowState(b, x, g, "open"))
    BY <1>1 DEF Flow!Ask, FlowState
  <1>2. x < a => Flow!Start(FlowState(a, x, g, "open"), FlowState(a, x + 1, g, "open"))
    BY DEF Flow!Start, FlowState
  <1>3. g < x => Flow!Deliver(FlowState(a, x, g, "open"), FlowState(a, x, g + 1, "open"))
    BY DEF Flow!Deliver, FlowState
  <1>4. Flow!Complete(FlowState(a, g, g, "open"), FlowState(a, g, g, "completed"))
    BY DEF Flow!Complete, FlowState
  <1>5. ASSUME NEW e, e # "cut"
        PROVE  Flow!Cut(FlowState(a, x, g, e), FlowState(a, g, g, "cut"))
    <2> DEFINE r == FlowState(a, x, g, e)
               t == [r EXCEPT !.ended = "cut"]
    <2>1. r.ended = e /\ r.got = g /\ t = FlowState(a, x, g, "cut")
      BY DEF FlowState
    <2>2. [t EXCEPT !.started = g] = FlowState(a, g, g, "cut")
      <3> HIDE DEF t
      <3> QED  BY <2>1 DEF FlowState
    <2>3. [r EXCEPT !.ended = "cut", !.started = g] = FlowState(a, g, g, "cut")
      BY <2>2
    <2> QED  BY <1>5, <2>1, <2>3 DEF Flow!Cut
  <1> QED  BY <1>1, <1>2, <1>3, <1>4, <1>5 DEF Flow!Step

\* The direction towards p of stream i makes a step of DemandFlow, or none.
Follows(p, i) == Flow!Step(Toward(p, i), Toward(p, i)') \/ Toward(p, i)' = Toward(p, i)

\* The numbers of the direction towards p, and what DemandFlow sees of it.
Seen(p, i) ==
  LET s == stream[p][i] IN
  /\ Laid(Other(p), i) \in Nat /\ One(s.expected > 0) \in {0, 1}
  /\ Len(s.got) \in Nat /\ s.asked \in Nat
  /\ Laid(Other(p), i) + Len(s.got) + One(s.expected > 0) <= s.asked
  /\ Shown(p, i) = IF Ended(s) = "open" THEN Laid(Other(p), i) + One(s.expected > 0) ELSE 0
  /\ Toward(p, i) = FlowState(s.asked, Len(s.got) + Shown(p, i), Len(s.got), Ended(s))
AllSeen == \A p \in Peer, i \in StreamId : Seen(p, i)

LEMMA FlowSeen == FlowInv => AllSeen
  <1> SUFFICES ASSUME FlowInv, NEW p \in Peer, NEW i \in StreamId PROVE Seen(p, i)
    BY DEF AllSeen
  <1>q. PICK q \in Peer : q = Other(p)
    BY PeerFacts DEF FlowInv, WayInv, CreditInv, TableInv, IdInv
  <1>0. TypeInv /\ Paid(p, i) /\ p = Other(q)
    BY <1>q, CreditNumbers DEF FlowInv, WayInv, CreditInv, TableInv, IdInv
  <1>1. Laid(q, i) \in Nat /\ Laid(q, i) <= Due(p, i)
    BY <1>0, LaidFacts
  <1>2. One(stream[p][i].expected > 0) \in {0, 1}
    BY DEF One
  <1>3. Len(stream[p][i].got) \in Nat /\ stream[p][i].asked \in Nat
    BY <1>0, GotIsNat, CreditNumbers
  <1>4. Due(p, i) \in Nat
    <2>1. /\ stream[Other(p)][i].outCredit \in Nat
          /\ Underway(p, "DEMAND", i) \in Nat /\ Underway(Other(p), "DATA", i) \in Nat
      BY <1>0, DueIsNat DEF DueNumbers
    <2> QED  BY <2>1 DEF Due
  <1>5. Laid(q, i) + Len(stream[p][i].got) + One(stream[p][i].expected > 0)
          <= stream[p][i].asked
    <2> DEFINE x == Laid(q, i)
               d == Due(p, i)
               g == Len(stream[p][i].got)
               m == One(stream[p][i].expected > 0)
               a == stream[p][i].asked
    <2>1. d + g + m <= a /\ x <= d /\ x \in Nat /\ d \in Nat /\ g \in Nat /\ m \in {0, 1} /\ a \in Nat
      BY <1>0, <1>1, <1>2, <1>3, <1>4 DEF Paid
    <2> HIDE DEF x, d, g, m, a
    <2>2. x + g + m <= a
      BY <2>1
    <2> QED  BY <2>2 DEF x, g, m, a
  <1>6. Toward(p, i) = FlowState(stream[p][i].asked, Len(stream[p][i].got) + Shown(p, i),
                         Len(stream[p][i].got), Ended(stream[p][i]))
    BY <1>0, TowardIs
  <1>7. Shown(p, i) = IF Ended(stream[p][i]) = "open"
                      THEN Laid(q, i) + One(stream[p][i].expected > 0) ELSE 0
    BY <1>q DEF Shown
  <1> QED  BY <1>q, <1>1, <1>2, <1>3, <1>5, <1>6, <1>7 DEF Seen

LEMMA FlowSeenLater == FlowInv' => AllSeen'
  BY FlowSeen, PTL

\* Nothing of the direction has moved.
LEMMA FollowsStill ==
  ASSUME FlowInv, FlowInv', NEW p \in Peer, NEW i \in StreamId,
         stream'[p][i].asked = stream[p][i].asked, stream'[p][i].got = stream[p][i].got,
         Ended(stream'[p][i]) = Ended(stream[p][i]),
         Shown(p, i)' = Shown(p, i)
  PROVE  Follows(p, i)
  <1>1. Seen(p, i) /\ Seen(p, i)'
    BY FlowSeen, FlowSeenLater DEF AllSeen
  <1>2. Ended(stream[p][i])' = Ended(stream[p][i])
    BY DEF Ended
  <1>3. Toward(p, i) = FlowState(stream[p][i].asked, Len(stream[p][i].got) + Shown(p, i),
                                 Len(stream[p][i].got), Ended(stream[p][i]))
    BY <1>1 DEF Seen
  <1>4. Toward(p, i)' = FlowState(stream'[p][i].asked, Len(stream'[p][i].got) + Shown(p, i)',
                                  Len(stream'[p][i].got), Ended(stream'[p][i]))
    BY <1>1 DEF Seen, Ended
  <1>5. Toward(p, i)' = Toward(p, i)
    BY <1>3, <1>4
  <1> QED  BY <1>5 DEF Follows

\* The direction from p to the other peer: an item is begun, or nothing happens.
LEMMA FollowsOther ==
  ASSUME FlowInv, FlowInv', Next, NEW p \in Peer, Elsewhere(p), NEW q \in Peer, q = Other(p),
         wire'[p] = wire[p] \/ WriteFrame(p), NEW i \in StreamId
  PROVE  Follows(q, i)
  <1> DEFINE s == stream[q][i]
  <1>0. TypeInv
    BY DEF FlowInv, WayInv, CreditInv, TableInv, IdInv
  <1>1. stream'[q] = stream[q] /\ p = Other(q)
    BY <1>0, OtherKept
  <1>2. CASE Laid(p, i)' = Laid(p, i)
    <2>1. Shown(q, i)' = Shown(q, i)
      BY <1>1, <1>2 DEF Shown, Ended, One
    <2> QED  BY <1>1, <2>1, FollowsStill
  <1>3. CASE Ended(s) # "open"
    <2>1. Shown(q, i)' = Shown(q, i)
      BY <1>1, <1>3 DEF Shown, Ended
    <2> QED  BY <1>1, <2>1, FollowsStill
  <1>4. CASE Laid(p, i)' = Laid(p, i) + 1 /\ Ended(s) = "open"
    <2>1. Seen(q, i) /\ Seen(q, i)'
      BY FlowSeen, FlowSeenLater DEF AllSeen
    <2> DEFINE g == Len(s.got)
               a == s.asked
               x == g + Shown(q, i)
               l == Laid(p, i)
               o == One(s.expected > 0)
    <2>2. /\ l \in Nat /\ o \in {0, 1} /\ g \in Nat /\ a \in Nat
          /\ Shown(q, i) = l + o /\ Toward(q, i) = FlowState(a, x, g, "open")
      BY <1>1, <1>4, <2>1 DEF Seen
    <2>3. Ended(s)' = "open" /\ One(s.expected > 0)' = o
      BY <1>1, <1>4 DEF Ended, One
    <2>4. /\ (l + 1) + g + o <= a /\ Shown(q, i)' = (l + 1) + o
          /\ Toward(q, i)' = FlowState(a, g + Shown(q, i)', g, "open")
      BY <1>1, <1>4, <2>1, <2>3 DEF Seen
    <2>5. x \in Nat /\ x < a /\ g + Shown(q, i)' = x + 1
      <3> HIDE DEF l, o, g, a
      <3> QED  BY <2>2, <2>4
    <2> HIDE DEF x, l, o, g, a
    <2>6. Flow!Step(FlowState(a, x, g, "open"), FlowState(a, x + 1, g, "open"))
      BY <2>5, StepsOf
    <2> QED  BY <2>2, <2>4, <2>5, <2>6 DEF Follows
  <1>5. Laid(p, i)' = Laid(p, i) \/ Laid(p, i)' = Laid(p, i) + 1
    <2>1. CASE wire'[p] = wire[p]
      BY <2>1 DEF Laid
    <2>2. CASE WriteFrame(p)
      <3>1. PICK f \in Frame : wire'[p] = Append(wire[p], f)
        BY <1>0, <2>2, FrameHanded
      <3>2. wire[p] \in Seq(Frame) /\ \A y \in Frame : Units(y) \in Nat
        BY <1>0, UnitsNat DEF TypeInv, TypeOK, ReaderType
      <3>3. Amount(Append(wire[p], f), 0, "DATA", i)
              = Amount(wire[p], 0, "DATA", i) + Counts(f, "DATA", i)
        <4>1. 0 <= Len(wire[p])
          BY <3>2
        <4> QED  BY ONLY <3>2, <4>1, f \in Frame, AmountAppend
      <3>4. Counts(f, "DATA", i) \in {0, 1}
        BY DEF Counts, Units
      <3>5. Laid(p, i) \in Nat
        BY <1>0, LaidFacts
      <3> QED  BY <3>1, <3>3, <3>4, <3>5 DEF Laid
    <2> QED  BY <2>1, <2>2
  <1> QED  BY <1>2, <1>3, <1>4, <1>5

\* The application of p asks for items.
LEMMA FollowsDemanding ==
  ASSUME FlowInv, FlowInv', Next, NEW p \in Peer, Demanding(p), NEW i \in StreamId
  PROVE  Follows(p, i)
  <1>0. TypeInv
    BY DEF FlowInv, WayInv, CreditInv, TableInv, IdInv
  <1>1. PICK k \in StreamId, n \in Demands : Request(p, k, n)
    BY DEF Demanding
  <1> DEFINE s == stream[p][k]
             t == [s EXCEPT !.inCredit = AddCredit(@, n), !.asked = @ + n]
  <1>2. /\ stream' = [stream EXCEPT ![p][k] = t] /\ ~s.cancelled /\ ~s.inClosed
        /\ UNCHANGED wire
    BY <1>1 DEF Request, Update, readerVars
  <1>3. s \in Stream
    BY <1>0, CreditNumbers
  <1>4. /\ t.asked = s.asked + n /\ t.got = s.got
        /\ t.cancelled = s.cancelled /\ t.inClosed = s.inClosed
    BY <1>3 DEF Stream
  <1>5. t.expected = s.expected
    BY <1>3 DEF Stream
  <1> HIDE DEF t
  <1>6. stream'[p][k] = t /\ \A m \in StreamId \ {k} : stream'[p][m] = stream[p][m]
    <2>1. stream' = [stream EXCEPT ![p][k] = t]
      BY <1>2
    <2> QED  BY ONLY <1>0, <2>1, k \in StreamId, p \in Peer, ChangedStream
  <1>7. CASE i # k
    <2>1. stream'[p][i] = stream[p][i]
      BY <1>6, <1>7
    <2>2. Shown(p, i)' = Shown(p, i)
      BY <1>2, <2>1 DEF Shown, Ended, One, Laid
    <2> QED  BY <2>1, <2>2, FollowsStill
  <1>8. CASE i = k
    <2>1. Seen(p, k) /\ Seen(p, k)'
      BY FlowSeen, FlowSeenLater DEF AllSeen
    <2>2. Ended(s) = "open" /\ Ended(t) = "open"
      BY <1>2, <1>4 DEF Ended
    <2>3. Shown(p, k)' = Shown(p, k)
      BY <1>2, <1>4, <1>5, <1>6, <2>2 DEF Shown, Ended, One, Laid
    <2> DEFINE g == Len(s.got)
               a == s.asked
               x == g + Shown(p, k)
    <2>4. Toward(p, k) = FlowState(a, x, g, "open") /\ a \in Nat
      BY <2>1, <2>2 DEF Seen
    <2>5. Toward(p, k)' = FlowState(a + n, x, g, "open")
      BY <1>4, <1>6, <2>1, <2>2, <2>3 DEF Seen, Ended
    <2>6. n \in Nat \ {0}
      BY CallsAssumption, CreditFacts
    <2>7. a + n > a
      BY <2>4, <2>6
    <2> HIDE DEF g, a, x
    <2>8. Flow!Step(FlowState(a, x, g, "open"), FlowState(a + n, x, g, "open"))
      BY <2>7, StepsOf
    <2> QED  BY <1>8, <2>4, <2>5, <2>8 DEF Follows
  <1> QED  BY <1>7, <1>8

\* A direction is cut off.
LEMMA FollowsCut ==
  ASSUME FlowInv, FlowInv', NEW p \in Peer, NEW i \in StreamId,
         stream'[p][i].asked = stream[p][i].asked, stream'[p][i].got = stream[p][i].got,
         stream'[p][i].cancelled
  PROVE  Follows(p, i)
  <1> DEFINE s == stream[p][i]
             t == stream'[p][i]
             a == s.asked
             g == Len(s.got)
             x == g + Shown(p, i)
  <1>1. Seen(p, i) /\ Seen(p, i)'
    BY FlowSeen, FlowSeenLater DEF AllSeen
  <1>2. Ended(s)' = "cut" /\ Shown(p, i)' = 0 /\ Ended(t) = "cut"
    BY DEF Ended, Shown
  <1>3. Toward(p, i) = FlowState(a, x, g, Ended(s)) /\ g \in Nat
    BY <1>1 DEF Seen
  <1>4. Toward(p, i)' = FlowState(a, g + 0, g, "cut")
    BY <1>1, <1>2 DEF Seen
  <1>5. CASE Ended(s) = "cut"
    <2>1. Shown(p, i) = 0
      BY <1>5 DEF Shown
    <2> QED  BY <1>2, <1>5, <2>1, FollowsStill
  <1>6. CASE Ended(s) # "cut"
    <2> DEFINE e == Ended(s)
    <2> HIDE DEF e, a, g, x
    <2>1. Flow!Step(FlowState(a, x, g, e), FlowState(a, g, g, "cut"))
      BY <1>6, StepsOf DEF e
    <2>2. g + 0 = g
      BY <1>3
    <2> QED  BY <1>3, <1>4, <2>1, <2>2 DEF Follows, e
  <1> QED  BY <1>5, <1>6

\* The direction towards p, when p takes no item.
LEMMA FollowsInbound ==
  ASSUME FlowInv, FlowInv', Next, NEW p \in Peer, Elsewhere(p), Inbound(p), NEW i \in StreamId,
         AskedKept(p, i)
  PROVE  Follows(p, i)
  <1> DEFINE s == stream[p][i]
             t == stream'[p][i]
  <1>q. PICK q \in Peer : q = Other(p)
    BY PeerFacts DEF FlowInv, WayInv, CreditInv, TableInv, IdInv
  <1>0. TypeInv /\ TableInv /\ Covered(p, i) /\ Unmet(p, i) /\ Gone(p, i)' /\ ReadLane(p)
    BY DEF FlowInv, WayInv, CreditInv, TableInv, IdInv, Credit, Inbound
  <1>1. InboundMild(p, i)
    BY DEF Inbound
  <1>2. t.asked = s.asked
    BY <1>0 DEF AskedKept, Covered
  <1>3. Seen(p, i) /\ Seen(p, i)'
    BY FlowSeen, FlowSeenLater DEF AllSeen
  <1>4. /\ Laid(q, i) \in Nat /\ Len(s.got) \in Nat /\ One(s.expected > 0) \in {0, 1}
        /\ Laid(q, i) + Len(s.got) + One(s.expected > 0) <= s.asked
    BY <1>q, <1>3 DEF Seen
  <1>5. /\ Laid(q, i)' \in Nat /\ Laid(q, i)' <= Laid(q, i)
        /\ Laid(q, i)' = Laid(q, i) \/ i \notin live'[p]
    <2>1. /\ Laid(q, i)' \in Nat /\ Laid(q, i)' <= Laid(q, i)
          /\ \/ Laid(q, i)' = Laid(q, i)
             \/ wire'[q] # wire[q] /\ Incoming(p).kind = "DATA" /\ Incoming(p).id = i
      BY <1>0, <1>q, LaneRead DEF ReadLane
    <2> QED  BY <1>0, <1>q, <2>1 DEF ReadLane
  <1>6. s.asked = 0 => Laid(q, i) = 0 /\ Len(s.got) = 0 /\ One(s.expected > 0) = 0
    BY <1>4
  <1>7. CASE SameInbound(s, t)
    <2>1. Ended(t) = Ended(s) /\ t.got = s.got /\ t.expected = s.expected
      BY <1>7 DEF SameInbound, Ended
    <2>2. CASE Laid(q, i)' = Laid(q, i) \/ Ended(s) # "open"
      <3>1. Shown(p, i)' = Shown(p, i)
        BY <1>q, <2>1, <2>2 DEF Shown, Ended, One
      <3> QED  BY <1>2, <2>1, <3>1, FollowsStill
    <2>3. CASE i \notin live'[p] /\ Ended(s) = "open"
      <3>1. ~IsClosed(t)
        BY <2>1, <2>3 DEF Ended, IsClosed
      <3>2. ~(t.asked > 0)
        BY <1>0, <2>3, <3>1 DEF Gone
      <3>3. s.asked = 0
        BY <1>2, <1>3, <3>2 DEF Seen
      <3>4. Laid(q, i)' = Laid(q, i)
        BY <1>4, <1>5, <1>6, <3>3
      <3> QED  BY <2>2, <3>4
    <2> QED  BY <1>5, <2>2, <2>3
  <1>8. CASE CutInbound(s, t)
    BY <1>2, <1>8, FollowsCut DEF CutInbound
  <1>9. CASE Fresh(p, i) /\ Ready(p) /\ t.got = <<>> /\ t.expected = 0 /\ t.inClosed = t.cancelled
    <2>1. ~s.cancelled /\ ~s.inClosed
      BY <1>0, <1>9 DEF Unmet
    <2>2. s.asked = 0
      BY <1>0, <1>9 DEF Covered, Fresh
    <2>3. s.got = t.got
      <3>1. s.got \in Seq(Seq(Unit)) /\ Len(s.got) = 0
        <4>1. s \in Stream
          BY <1>0, CreditNumbers
        <4> HIDE DEF s
        <4>2. s.got \in Seq(Seq(Unit))
          BY <4>1 DEF Stream
        <4> QED  BY <1>6, <2>2, <4>2
      <3>2. s.got = <<>>
        BY <3>1
      <3> QED  BY <1>9, <3>2
    <2>4. CASE t.cancelled
      BY <1>2, <2>3, <2>4, FollowsCut
    <2>5. CASE ~t.cancelled
      <3>1. Ended(s) = "open" /\ Ended(t) = "open"
        BY <1>9, <2>1, <2>5 DEF Ended
      <3>2. Shown(p, i) = 0 + 0
        BY <1>q, <1>6, <2>2, <3>1 DEF Shown
      <3>3. Laid(q, i)' = 0 /\ One(t.expected > 0) = 0
        BY <1>5, <1>6, <1>9, <2>2 DEF One
      <3>4. Shown(p, i)' = 0 + 0
        BY <1>q, <3>1, <3>3 DEF Shown, Ended, One
      <3>5. Shown(p, i)' = Shown(p, i)
        BY <3>2, <3>4
      <3> QED  BY <1>2, <2>3, <3>1, <3>5, FollowsStill
    <2> QED  BY <2>4, <2>5
  <1> QED  BY <1>1, <1>7, <1>8, <1>9 DEF InboundMild

-----------------------------------------------------------------------------
\* The frame p reads carries no other item.
LEMMA LaidElsewhere ==
  ASSUME TypeInv, NEW p \in Peer, NEW q \in Peer, q = Other(p), wire[q] # <<>>,
         wire'[q] = Tail(wire[q]), NEW i \in StreamId,
         Incoming(p).kind # "DATA" \/ Incoming(p).id # i
  PROVE  Laid(q, i)' = Laid(q, i)
  <1>1. /\ Laid(q, i) = Laid(q, i)' + Counts(Head(wire[q]), "DATA", i)
        /\ Laid(q, i)' \in Nat
    BY LaidRead
  <1>2. Counts(Head(wire[q]), "DATA", i) = 0
    BY DEF Counts, Incoming
  <1> QED  BY <1>1, <1>2

\* p reads a frame that carries a unit of an item.
LEMMA FollowsItem ==
  ASSUME FlowInv, FlowInv', Next, NEW p \in Peer, Elsewhere(p),
         ReadData(p) \/ StartReassembly(p) \/ ReadFragment(p), NEW i \in StreamId
  PROVE  Follows(p, i)
  <1>q. PICK q \in Peer : q = Other(p)
    BY PeerFacts DEF FlowInv, WayInv, CreditInv, TableInv, IdInv
  <1>k. PICK k : k = Incoming(p).id
    OBVIOUS
  <1>0. TypeInv /\ TableInv
    BY DEF FlowInv, WayInv, CreditInv, TableInv, IdInv
  <1>1. PICK kind \in {"DATA", "FRAGMENT"}, t \in Stream :
          /\ ReadsLive(p, {kind}) /\ stream' = [stream EXCEPT ![p][k] = t]
          /\ Took(stream[p][k], t, IF kind = "DATA" THEN 1 ELSE 0)
    BY <1>0, <1>k, ReadItemAt
  <1> DEFINE s == stream[p][k]
  <1>2. /\ k \in StreamId /\ k \in live[p] /\ Incoming(p).kind = kind /\ wire[q] # <<>>
        /\ wire'[q] = Tail(wire[q]) /\ ~IllegalHere(p, Incoming(p))
        /\ Incoming(p) = Head(wire[q])
    BY <1>0, <1>q, <1>k, <1>1, FrameTaken
  <1>3. stream'[p][k] = t /\ \A m \in StreamId \ {k} : stream'[p][m] = stream[p][m]
    <2>1. stream' = [stream EXCEPT ![p][k] = t]
      BY <1>1
    <2>2. k \in StreamId
      BY <1>2
    <2> QED  BY ONLY <1>0, <2>1, <2>2, p \in Peer, ChangedStream
  <1>4. CASE i # k
    <2>1. Laid(q, i)' = Laid(q, i)
      BY <1>0, <1>q, <1>k, <1>2, <1>4, LaidElsewhere
    <2>2. stream'[p][i] = stream[p][i]
      BY <1>3, <1>4
    <2>3. Shown(p, i)' = Shown(p, i)
      BY <1>q, <2>1, <2>2 DEF Shown, Ended, One
    <2> QED  BY <2>2, <2>3, FollowsStill
  <1>5. CASE i = k
    <2>1. Ended(s) = "open" /\ Ended(t) = "open" /\ t.asked = s.asked
      <3>1. ~s.inClosed /\ ~s.cancelled
        BY <1>k, <1>2 DEF IllegalHere
      <3> QED  BY <1>1, <3>1 DEF Took, Ended
    <2>2. Seen(p, k) /\ Seen(p, k)'
      BY <1>2, FlowSeen, FlowSeenLater DEF AllSeen
    <2> DEFINE g == Len(s.got)
               h == Len(t.got)
               m == One(s.expected > 0)
               o == One(t.expected > 0)
               l == Laid(q, k)
               r == Laid(q, k)'
               n == IF kind = "DATA" THEN 1 ELSE 0
               a == s.asked
    <2>3. /\ Toward(p, k) = FlowState(a, g + (l + m), g, "open")
          /\ l \in Nat /\ g \in Nat /\ m \in {0, 1}
      BY <1>q, <2>1, <2>2 DEF Seen
    <2>4. Ended(s)' = "open" /\ One(s.expected > 0)' = o /\ Len(s.got)' = h
      BY <1>3, <2>1 DEF Ended, One
    <2>5. Shown(p, k)' = r + o /\ r \in Nat
      BY <1>q, <2>2, <2>4 DEF Seen
    <2>6. Toward(p, k)' = FlowState(a, h + (r + o), h, "open") /\ o \in {0, 1}
      <3>1. o \in {0, 1}
        BY DEF One
      <3> QED  BY <1>3, <2>1, <2>2, <2>4, <2>5, <3>1 DEF Seen
    <2>7. l = r + n
      <3>1. l = r + Counts(Head(wire[q]), "DATA", k)
        BY <1>0, <1>2, LaidRead
      <3>2. Counts(Head(wire[q]), "DATA", k) = n
        BY <1>k, <1>2 DEF Counts, Units
      <3> QED  BY <3>1, <3>2
    <2>8. h \in {g, g + 1} /\ h + o = g + m + n /\ n \in {0, 1}
      BY <1>1 DEF Took
    <2> HIDE DEF g, h, m, o, l, r, n, a
    <2>9. h + (r + o) = g + (l + m)
      BY <2>3, <2>5, <2>6, <2>7, <2>8
    <2>10. CASE h = g
      <3>1. Toward(p, k)' = Toward(p, k)
        BY <2>3, <2>6, <2>9, <2>10
      <3> QED  BY <1>5, <3>1 DEF Follows
    <2>11. CASE h = g + 1
      <3> DEFINE x == g + (l + m)
      <3>1. g < x
        BY <2>3, <2>5, <2>6, <2>9, <2>11
      <3>2. Toward(p, k) = FlowState(a, x, g, "open") /\ Toward(p, k)' = FlowState(a, x, g + 1, "open")
        BY <2>3, <2>6, <2>9, <2>11
      <3> HIDE DEF x
      <3>3. Flow!Step(FlowState(a, x, g, "open"), FlowState(a, x, g + 1, "open"))
        BY <3>1, StepsOf
      <3> QED  BY <1>5, <3>2, <3>3 DEF Follows
    <2> QED  BY <2>8, <2>10, <2>11
  <1> QED  BY <1>4, <1>5

\* p reads the COMPLETE of a stream.
LEMMA FollowsComplete ==
  ASSUME FlowInv, FlowInv', Next, NEW p \in Peer, Elsewhere(p), ReadComplete(p), NEW i \in StreamId
  PROVE  Follows(p, i)
  <1>q. PICK q \in Peer : q = Other(p)
    BY PeerFacts DEF FlowInv, WayInv, CreditInv, TableInv, IdInv
  <1>k. PICK k : k = Incoming(p).id
    OBVIOUS
  <1>0. WayInv /\ TypeInv /\ TableInv
    BY DEF FlowInv, WayInv, CreditInv, TableInv, IdInv
  <1> DEFINE s == stream[p][k]
             t == [s EXCEPT !.inClosed = TRUE]
  <1>1. ReadsLive(p, {"COMPLETE"}) /\ stream' = [stream EXCEPT ![p][k] = t]
    BY <1>k DEF ReadComplete, Release
  <1>2. /\ k \in StreamId /\ k \in live[p] /\ Incoming(p).kind = "COMPLETE" /\ wire[q] # <<>>
        /\ wire'[q] = Tail(wire[q]) /\ s \in Stream
    BY <1>0, <1>q, <1>k, <1>1, FrameTaken
  <1>3. /\ t.asked = s.asked /\ t.got = s.got /\ t.cancelled = s.cancelled /\ t.inClosed
        /\ t.expected = s.expected
    BY <1>2 DEF Stream
  <1> HIDE DEF t
  <1>4. stream'[p][k] = t /\ \A m \in StreamId \ {k} : stream'[p][m] = stream[p][m]
    <2>1. stream' = [stream EXCEPT ![p][k] = t]
      BY <1>1
    <2>2. k \in StreamId
      BY <1>2
    <2> QED  BY ONLY <1>0, <2>1, <2>2, p \in Peer, ChangedStream
  <1>5. CASE i # k
    <2>1. Laid(q, i)' = Laid(q, i)
      BY <1>0, <1>q, <1>2, LaidElsewhere
    <2>2. stream'[p][i] = stream[p][i]
      BY <1>4, <1>5
    <2>3. Shown(p, i)' = Shown(p, i)
      BY <1>q, <2>1, <2>2 DEF Shown, Ended, One
    <2> QED  BY <2>2, <2>3, FollowsStill
  <1>6. CASE i = k
    <2>1. ~s.cancelled
      BY <1>0, <1>2 DEF TableInv, Sound, StreamSound, IsClosed
    <2>2. Laid(q, k) = 0 /\ ~(s.expected > 0)
      BY <1>0, <1>q, <1>k, <1>1, CompleteRead
    <2>3. Seen(p, k) /\ Seen(p, k)'
      BY <1>2, FlowSeen, FlowSeenLater DEF AllSeen
    <2>4. Ended(t) = "completed" /\ Ended(s)' = "completed"
      BY <1>3, <1>4, <2>1 DEF Ended
    <2>5. Shown(p, k)' = 0
      BY <1>4, <2>4 DEF Shown
    <2>6. Shown(p, k) = 0
      <3>1. Shown(p, k) = IF Ended(s) = "open" THEN 0 + 0 ELSE 0
        BY <1>q, <2>2 DEF Shown, One
      <3> QED  BY <3>1
    <2>7. CASE s.inClosed
      <3>1. Ended(s) = "completed"
        BY <2>1, <2>7 DEF Ended
      <3> QED  BY <1>3, <1>4, <1>6, <2>4, <2>5, <2>6, <3>1, FollowsStill
    <2>8. CASE ~s.inClosed
      <3> DEFINE g == Len(s.got)
                 a == s.asked
      <3>1. Ended(s) = "open"
        BY <2>1, <2>8 DEF Ended
      <3>2. Toward(p, k) = FlowState(a, g + 0, g, "open") /\ g \in Nat
        BY <2>3, <2>6, <3>1 DEF Seen
      <3>3. Toward(p, k)' = FlowState(a, g + 0, g, "completed")
        BY <1>3, <1>4, <2>3, <2>4, <2>5 DEF Seen
      <3>4. g + 0 = g
        BY <3>2
      <3> HIDE DEF g, a
      <3>5. Flow!Step(FlowState(a, g, g, "open"), FlowState(a, g, g, "completed"))
        BY StepsOf
      <3> QED  BY <1>6, <3>2, <3>3, <3>4, <3>5 DEF Follows
    <2> QED  BY <2>7, <2>8
  <1> QED  BY <1>5, <1>6

-----------------------------------------------------------------------------
LEMMA NextFollows ==
  ASSUME FlowInv, Next
  PROVE  \A r \in Peer, i \in StreamId : Follows(r, i)
  <1>1. WayInv /\ FlowInv' /\ TypeInv
    BY NextFlow DEF FlowInv, WayInv, CreditInv, TableInv, IdInv
  <1>2. PICK p \in Peer : FlowStep(p)
    BY <1>1, FlowSteps
  <1>3. PICK q \in Peer : q = Other(p) /\ \A r \in Peer : r = p \/ r = q
    BY <1>1, PeerFacts DEF Peer, Other
  <1>4. ASSUME NEW i \in StreamId PROVE Follows(q, i)
    BY <1>1, <1>2, <1>3, FollowsOther DEF FlowStep
  <1>5. ASSUME NEW i \in StreamId PROVE Follows(p, i)
    <2>1. CASE Demanding(p)
      BY <1>1, <2>1, FollowsDemanding
    <2>2. CASE Inbound(p) /\ AskedKept(p, i)
      BY <1>1, <1>2, <2>2, FollowsInbound DEF FlowStep
    <2>3. CASE Gathers(p)
      BY <1>1, <1>2, <2>3, FollowsItem, FollowsComplete DEF FlowStep, Gathers
    <2> QED  BY <1>2, <2>1, <2>2, <2>3 DEF FlowStep
  <1> QED  BY <1>3, <1>4, <1>5

LEMMA InitMaps == Init => Flow!Init
  <1> SUFFICES ASSUME Init PROVE Flow!Init
    OBVIOUS
  <1>1. FlowInv
    BY InitFlow
  <1>2. ASSUME NEW p \in Peer, NEW i \in StreamId
        PROVE  Toward(p, i) = [asked |-> 0, started |-> 0, got |-> 0, ended |-> "open"]
    <2> DEFINE s == stream[p][i]
    <2>1. s = NewStream(0)
      BY DEF Init
    <2>2. s.asked = 0 /\ Len(s.got) = 0 /\ Ended(s) = "open"
      BY <2>1 DEF NewStream, Ended
    <2>3. Seen(p, i)
      BY <1>1, FlowSeen DEF AllSeen
    <2>4. Laid(Other(p), i) = 0 /\ One(s.expected > 0) = 0
      BY <2>2, <2>3 DEF Seen
    <2>5. Shown(p, i) = 0 + 0
      BY <2>2, <2>3, <2>4 DEF Seen
    <2>6. Toward(p, i) = FlowState(0, 0 + (0 + 0), 0, "open")
      BY <2>2, <2>3, <2>5 DEF Seen
    <2>7. 0 + (0 + 0) = 0
      OBVIOUS
    <2> QED  BY <2>6, <2>7 DEF FlowState
  <1>3. ASSUME NEW f \in Peer \X StreamId
        PROVE  Toward(f[1], f[2]) = [asked |-> 0, started |-> 0, got |-> 0, ended |-> "open"]
    BY <1>2
  <1> QED  BY <1>3 DEF Flow!Init, Directions

LEMMA NextMaps ==
  ASSUME FlowInv, [Next]_vars
  PROVE  [Flow!Next]_Directions
  <1>1. CASE Next
    <2>1. ASSUME NEW f \in Peer \X StreamId
          PROVE  Flow!Step(Directions[f], Directions'[f]) \/ Directions'[f] = Directions[f]
      <3>1. Directions[f] = Toward(f[1], f[2]) /\ Directions'[f] = Toward(f[1], f[2])'
        BY DEF Directions
      <3>2. Follows(f[1], f[2])
        BY <1>1, NextFollows
      <3> QED  BY <3>1, <3>2 DEF Follows
    <2> QED  BY <2>1 DEF Flow!Next
  <1>2. CASE UNCHANGED vars
    <2>1. stream' = stream /\ wire' = wire
      BY <1>2 DEF vars, tableVars, readerVars
    <2>2. \A p, i : Toward(p, i)' = Toward(p, i)
      BY <2>1 DEF Toward, Started, Ended
    <2>3. Directions' = Directions
      BY <2>2 DEF Directions
    <2> QED  BY <2>3
  <1> QED  BY <1>1, <1>2

\* Each direction of each stream implements DemandFlow: items are put on the wire only
\* within the demand granted for them (request, receiveDemand, the credit loop of
\* send), arrive exactly once (receiveData), and are all there when COMPLETE is read.
THEOREM DirectionsKeepFlow == Spec => FlowKept
  <1>1. FlowInv /\ [Next]_vars => [Flow!Next]_Directions
    BY NextMaps
  <1> QED  BY InitMaps, FlowInvariant, <1>1, PTL DEF Spec, FlowKept, Flow!Spec
=============================================================================
