------------------------ MODULE RSocketSessionProofs ------------------------
(***************************************************************************)
(* Type correctness of RSocketSession, and the order in which a session    *)
(* keeps its streams, requests and writes, for every value of the          *)
(* constants.                                                              *)
(*                                                                         *)
(* TypeOK is not inductive. A stream has a sender's wire id while it is in *)
(* the table because its request took one, a credit below zero is avoided  *)
(* because a sender that goes on has some, and the first of startTail is   *)
(* there while its request is written: each rests on which activity of     *)
(* which stream is where. Sound says so of one session, SessionsSound of   *)
(* both and of the frames between them.                                    *)
(*                                                                         *)
(* Every operator that makes a new session out of one has a lemma of its   *)
(* own; Calmer and Quieter name what all the endings have in common. Then  *)
(* there is one lemma per action.                                          *)
(***************************************************************************)
EXTENDS RSocketSession, TLAPS, FiniteSetTheorems, SequenceTheorems

-----------------------------------------------------------------------------
(* Types                                                                   *)

Number == Nat \ {0}
Name == Peers \X Number
AnyName == Name \cup {NoStream}
Kinds == {"setup", "refusal", "request", "item", "answer", "complete", "cancel",
          "error", "demand", "keepalive", "pong", "close"}

StreamType ==
  [pattern : Patterns \cup {"none"}, wire : Nat, table : BOOLEAN, pending : BOOLEAN,
   started : BOOLEAN, pregranted : Nat, initialDemand : Nat, allowance : Nat,
   credit : Int, inClosed : BOOLEAN, outClosed : BOOLEAN, cancelled : BOOLEAN,
   ended : BOOLEAN, sends : Seq(Number), sending : Sending, sent : Nat,
   completing : BOOLEAN, granted : Nat, got : Nat, dead : BOOLEAN,
   revived : BOOLEAN, hasty : BOOLEAN]

JobType(D) ==
  [what : Kinds, k : D \cup {NoStream}, wire : AnyName, n : Nat, size : Number, part : Nat,
   item : Nat, read : BOOLEAN]

FrameType ==
  [kind : Kinds, stream : AnyName, n : Nat, item : Nat, part : Number,
   follows : BOOLEAN, pattern : Patterns \cup {"none"}]

Assembly == [first : FrameType, parts : Seq(Nat \X Number)]
Assemblies == UNION {[D -> Assembly] : D \in SUBSET AnyName}

States == {"idle", "connecting", "ready", "detached", "closed"}
Reasons == {"none", "setup", "lost", "closed", "violation", "early", "remote",
            "timeout", "silence"}

\* A session whose streams are the names in D.
SessionType(D) ==
  [state : States, lane : BOOLEAN,
   attach : {"idle", "waiting", "resolved", "rejected"},
   reader : {"reading", "writing", "done"},
   streams : [D -> StreamType], starts : Seq(D), starting : BOOLEAN,
   next : Number, highest : Nat, jobs : Seq(JobType(D)), writing : BOOLEAN,
   fragments : Assemblies, inFlight : Int, reason : Reasons]

LEMMA NamesAreNames ==
  ASSUME NEW c \in DOMAIN Configurations
  PROVE  /\ Names(c) \subseteq Name
         /\ NoStream \notin Names(c)
         /\ Configurations[c].requests \in [Peers -> Seq(Patterns)]
         /\ Configurations[c].items \in [Peers -> Nat]
         /\ Configurations[c].lengths \subseteq Number
         /\ Configurations[c].reassembly \in Number
         /\ Configurations[c].limit \in Nat
  <1> DEFINE C == Configurations[c]
  <1>1. /\ C.requests \in [Peers -> Seq(Patterns)]
        /\ C.items \in [Peers -> Nat]
        /\ C.lengths \subseteq Number
        /\ C.reassembly \in Number
        /\ C.limit \in Nat
    BY ConfigurationsAssumption DEF Number
  <1>2. \A p \in Peers : Len(C.requests[p]) \in Nat
    BY <1>1
  <1>3. Names(c) \subseteq Name
    BY <1>2 DEF Names, Name, Number
  <1>4. NoStream \notin Name
    BY DEF NoStream, Name, Number, Peers
  <1> QED  BY <1>1, <1>3, <1>4

LEMMA NewStreamType ==
  NewStream \in StreamType
  BY DEF NewStream, StreamType, Sending

LEMMA RetireType ==
  ASSUME NEW x \in StreamType
  PROVE  Retire(x) \in StreamType
  <1>1. [x EXCEPT !.table = FALSE] \in StreamType
    BY DEF StreamType
  <1> QED  BY <1>1 DEF Retire

LEMMA RejectedType ==
  ASSUME NEW x \in StreamType, x.sending = "credit" => x.sends # <<>>
  PROVE  Rejected(x) \in StreamType
  <1>1. CASE x.sending = "credit"
    <2>1. Tail(x.sends) \in Seq(Number)
      BY <1>1 DEF StreamType
    <2>2. \A t \in Seq(Number) : [x EXCEPT !.sending = "none", !.sends = t] \in StreamType
      BY DEF StreamType, Sending
    <2> QED  BY <1>1, <2>1, <2>2 DEF Rejected
  <1> QED  BY <1>1 DEF Rejected

\* y is x or what is left of it when its session or it alone is given up, or when it
\* is retired.
Quieter(x, y) ==
  /\ y \in StreamType
  /\ y.pattern = x.pattern /\ y.wire = x.wire /\ y.started = x.started
  /\ y.credit = x.credit /\ y.allowance = x.allowance /\ y.sent = x.sent
  /\ y.table => x.table
  /\ x.table => y.table \/ y.cancelled \/ y.outClosed
  /\ x.cancelled => y.cancelled
  /\ x.outClosed => y.outClosed
  /\ \/ y.sending = x.sending /\ y.sends = x.sends
     \/ /\ x.sending = "credit" /\ y.sending = "none" /\ y.sends = Tail(x.sends)
        /\ y.cancelled /\ y.outClosed /\ ~y.table

LEMMA QuieterSelf ==
  ASSUME NEW x \in StreamType
  PROVE  Quieter(x, x)
  BY DEF Quieter

LEMMA EndingQuieter ==
  ASSUME NEW x \in StreamType, x.sending = "credit" => x.sends # <<>>
  PROVE  Quieter(x, Ending(x)) /\ ~Ending(x).table /\ Ending(x).cancelled
  <1> DEFINE a == Rejected(x)
             b == [a EXCEPT !.pending = FALSE, !.table = FALSE]
             c == [b EXCEPT !.cancelled = TRUE, !.inClosed = TRUE, !.outClosed = TRUE]
             d == [c EXCEPT !.ended = TRUE, !.dead = TRUE]
  <1>0. d = Ending(x)
    BY DEF Ending
  <1>1. a \in StreamType
    BY RejectedType
  <1>2. /\ a.pattern = x.pattern /\ a.wire = x.wire /\ a.started = x.started
        /\ a.credit = x.credit /\ a.allowance = x.allowance /\ a.sent = x.sent
    BY DEF Rejected, StreamType
  <1>3. \/ a.sending = x.sending /\ a.sends = x.sends
        \/ x.sending = "credit" /\ a.sending = "none" /\ a.sends = Tail(x.sends)
    BY DEF Rejected, StreamType
  <1> HIDE DEF a
  <1>4. b \in StreamType /\ ~b.table
    BY <1>1 DEF StreamType
  <1>5. /\ b.pattern = a.pattern /\ b.wire = a.wire /\ b.started = a.started
        /\ b.credit = a.credit /\ b.allowance = a.allowance /\ b.sent = a.sent
        /\ b.sending = a.sending /\ b.sends = a.sends
    BY <1>1 DEF StreamType
  <1> HIDE DEF b
  <1>6. c \in StreamType /\ ~c.table /\ c.cancelled /\ c.outClosed
    BY <1>4 DEF StreamType
  <1>7. /\ c.pattern = b.pattern /\ c.wire = b.wire /\ c.started = b.started
        /\ c.credit = b.credit /\ c.allowance = b.allowance /\ c.sent = b.sent
        /\ c.sending = b.sending /\ c.sends = b.sends
    BY <1>4 DEF StreamType
  <1> HIDE DEF c
  <1>8. d \in StreamType /\ ~d.table /\ d.cancelled /\ d.outClosed
    BY <1>6 DEF StreamType
  <1>9. /\ d.pattern = c.pattern /\ d.wire = c.wire /\ d.started = c.started
        /\ d.credit = c.credit /\ d.allowance = c.allowance /\ d.sent = c.sent
        /\ d.sending = c.sending /\ d.sends = c.sends
    BY <1>6 DEF StreamType
  <1> HIDE DEF d
  <1>10. Quieter(x, d)
    BY <1>2, <1>3, <1>5, <1>7, <1>8, <1>9 DEF Quieter
  <1> QED  BY <1>0, <1>8, <1>10

LEMMA RetireQuieter ==
  ASSUME NEW x \in StreamType
  PROVE  Quieter(x, Retire(x))
  <1>1. CASE x.cancelled \/ (x.inClosed /\ x.outClosed)
    <2> DEFINE y == [x EXCEPT !.table = FALSE]
    <2>1. y \in StreamType /\ ~y.table /\ y.cancelled = x.cancelled /\ y.outClosed = x.outClosed
      BY DEF StreamType
    <2>2. /\ y.pattern = x.pattern /\ y.wire = x.wire /\ y.started = x.started
          /\ y.credit = x.credit /\ y.allowance = x.allowance /\ y.sent = x.sent
          /\ y.sending = x.sending /\ y.sends = x.sends
      BY DEF StreamType
    <2> HIDE DEF y
    <2>3. Quieter(x, y)
      BY <1>1, <2>1, <2>2 DEF Quieter
    <2> QED  BY <1>1, <2>3 DEF Retire, y
  <1>2. CASE ~(x.cancelled \/ (x.inClosed /\ x.outClosed))
    BY <1>2, QuieterSelf DEF Retire
  <1> QED  BY <1>1, <1>2

-----------------------------------------------------------------------------
(* Sessions                                                                *)

LEMMA StreamChange ==
  ASSUME NEW D, NEW r \in SessionType(D), NEW k \in D, NEW y \in StreamType
  PROVE  [r EXCEPT !.streams[k] = y] \in SessionType(D)
  BY DEF SessionType

LEMMA StreamsChange ==
  ASSUME NEW D, NEW r \in SessionType(D), NEW g \in [D -> StreamType]
  PROVE  [r EXCEPT !.streams = g] \in SessionType(D)
  BY DEF SessionType

LEMMA EmptyFragments ==
  <<>> \in Assemblies /\ DOMAIN <<>> = {}
  <1>1. DOMAIN <<>> = {} /\ <<>> = [w \in {} |-> Assembly]
    OBVIOUS
  <1>2. <<>> \in [{} -> Assembly]
    BY <1>1
  <1> QED  BY <1>1, <1>2 DEF Assemblies

\* t is r with streams that were given up or retired, and perhaps without its lane.
Calmer(D, r, t) ==
  /\ t \in SessionType(D)
  /\ t.starts = r.starts /\ t.starting = r.starting /\ t.next = r.next
  /\ t.highest = r.highest /\ t.jobs = r.jobs /\ t.writing = r.writing
  /\ t.attach = r.attach
  /\ \A k \in D : Quieter(r.streams[k], t.streams[k])
  /\ DOMAIN t.fragments \subseteq DOMAIN r.fragments
  /\ \A w \in DOMAIN t.fragments : t.fragments[w] = r.fragments[w]
  /\ t.lane => r.lane

SendsWait(D, r) == \A k \in D : r.streams[k].sending = "credit" => r.streams[k].sends # <<>>

LEMMA DropCalmer ==
  ASSUME NEW D, NEW r \in SessionType(D), NEW w
  PROVE  Calmer(D, r, Drop(r, w)) /\ w \notin DOMAIN Drop(r, w).fragments
         /\ Drop(r, w).streams = r.streams /\ Drop(r, w).state = r.state
         /\ Drop(r, w).lane = r.lane /\ Drop(r, w).reader = r.reader
  <1>1. \A k \in D : Quieter(r.streams[k], r.streams[k])
    BY QuieterSelf DEF SessionType
  <1>2. CASE w \in DOMAIN r.fragments
    <2> DEFINE g == Without(r.fragments, w)
               n == r.inFlight - Len(r.fragments[w].parts)
               t == [r EXCEPT !.fragments = g, !.inFlight = n]
    <2>1. PICK E \in SUBSET AnyName : r.fragments \in [E -> Assembly]
      BY DEF SessionType, Assemblies
    <2>2. g \in [E \ {w} -> Assembly] /\ \A v \in E \ {w} : g[v] = r.fragments[v]
      BY <2>1 DEF Without
    <2>3. g \in Assemblies
      BY <2>2 DEF Assemblies
    <2>4. r.fragments[w].parts \in Seq(Nat \X Number)
      BY <1>2, <2>1 DEF Assembly
    <2>5. n \in Int
      BY <2>4 DEF SessionType
    <2> HIDE DEF g, n
    <2>6. t \in SessionType(D) /\ t.fragments = g
      BY <2>3, <2>5 DEF SessionType
    <2>7. /\ t.starts = r.starts /\ t.starting = r.starting /\ t.next = r.next
          /\ t.highest = r.highest /\ t.jobs = r.jobs /\ t.writing = r.writing
          /\ t.streams = r.streams /\ t.lane = r.lane /\ t.attach = r.attach
          /\ t.state = r.state /\ t.reader = r.reader
      BY DEF SessionType
    <2> HIDE DEF t
    <2>8. Calmer(D, r, t)
      BY <1>1, <2>1, <2>2, <2>6, <2>7 DEF Calmer
    <2>9. t = Drop(r, w)
      BY <1>2 DEF t, g, n, Drop
    <2> QED  BY <2>1, <2>2, <2>6, <2>7, <2>8, <2>9
  <1>3. CASE w \notin DOMAIN r.fragments
    BY <1>1, <1>3 DEF Drop, Calmer
  <1> QED  BY <1>2, <1>3

LEMMA TerminateCalmer ==
  ASSUME NEW D, NEW r \in SessionType(D), NEW k \in D, SendsWait(D, r)
  PROVE  /\ Calmer(D, r, Terminate(r, k))
         /\ ~Terminate(r, k).streams[k].table
         /\ Terminate(r, k).streams[k].cancelled
         /\ \A j \in D \ {k} : Terminate(r, k).streams[j] = r.streams[j]
         /\ Terminate(r, k).state = r.state
         /\ Terminate(r, k).lane = r.lane
         /\ Terminate(r, k).reader = r.reader
  <1> DEFINE y == Ending(r.streams[k])
             t == [r EXCEPT !.streams[k] = y]
             w == <<k[1], r.streams[k].wire>>
  <1>1. Quieter(r.streams[k], y) /\ ~y.table /\ y.cancelled
    BY EndingQuieter DEF SessionType, SendsWait
  <1>2. Terminate(r, k) = Drop(t, w)
    BY DEF Terminate
  <1> HIDE DEF y, w
  <1>3. y \in StreamType
    BY <1>1 DEF Quieter
  <1>4. t \in SessionType(D) /\ t.streams = [r.streams EXCEPT ![k] = y]
    BY <1>3 DEF SessionType
  <1>5. /\ t.starts = r.starts /\ t.starting = r.starting /\ t.next = r.next
        /\ t.highest = r.highest /\ t.jobs = r.jobs /\ t.writing = r.writing
        /\ t.lane = r.lane /\ t.attach = r.attach /\ t.fragments = r.fragments
        /\ t.state = r.state /\ t.reader = r.reader
    BY DEF SessionType
  <1> HIDE DEF t
  <1>6. r.streams \in [D -> StreamType]
    BY DEF SessionType
  <1>7. \A j \in D : Quieter(r.streams[j], t.streams[j])
    BY <1>1, <1>4, <1>6, QuieterSelf
  <1>8. Calmer(D, t, Drop(t, w)) /\ Drop(t, w).streams = t.streams
        /\ Drop(t, w).state = t.state /\ Drop(t, w).lane = t.lane /\ Drop(t, w).reader = t.reader
    BY <1>4, DropCalmer
  <1>9. Calmer(D, r, Drop(t, w))
    BY <1>5, <1>7, <1>8 DEF Calmer
  <1> QED  BY <1>1, <1>2, <1>4, <1>5, <1>6, <1>8, <1>9

LEMMA EndCalmer ==
  ASSUME NEW D, NEW r \in SessionType(D), SendsWait(D, r),
         NEW state \in States, NEW why \in Reasons
  PROVE  /\ Calmer(D, r, End(r, state, why))
         /\ \A k \in D : ~End(r, state, why).streams[k].table
         /\ End(r, state, why).state = state
         /\ ~End(r, state, why).lane
         /\ End(r, state, why).reader = r.reader
         /\ End(r, state, why).fragments = <<>>
  <1> DEFINE g == [k \in DOMAIN r.streams |->
                    IF r.streams[k].table \/ r.streams[k].pending THEN Ending(r.streams[k])
                    ELSE r.streams[k]]
             z == IF r.reason = "none" THEN why ELSE r.reason
             t == [r EXCEPT !.state = state, !.lane = FALSE, !.fragments = <<>>,
                            !.inFlight = 0, !.reason = z, !.streams = g]
  <1>1. r.streams \in [D -> StreamType]
    BY DEF SessionType
  <1>2. \A k \in D : Quieter(r.streams[k], g[k]) /\ ~g[k].table
    BY <1>1, EndingQuieter, QuieterSelf DEF SendsWait
  <1>3. g \in [D -> StreamType]
    BY <1>1, <1>2 DEF Quieter
  <1>4. z \in Reasons
    BY DEF SessionType
  <1>5. t = End(r, state, why)
    BY DEF End
  <1> HIDE DEF g, z
  <1>6. t \in SessionType(D)
    <2> DEFINE a == [r EXCEPT !.state = state, !.lane = FALSE]
               none == <<>>
               b == [a EXCEPT !.fragments = none, !.inFlight = 0]
    <2>1. a \in SessionType(D)
      BY DEF SessionType
    <2> HIDE DEF a
    <2>2. none \in Assemblies
      BY EmptyFragments
    <2> HIDE DEF none
    <2>3. b \in SessionType(D)
      <3>1. \A f \in Assemblies, n \in Int :
              [a EXCEPT !.fragments = f, !.inFlight = n] \in SessionType(D)
        BY <2>1 DEF SessionType
      <3>2. 0 \in Int
        OBVIOUS
      <3> QED  BY <2>2, <3>1, <3>2, Zenon
    <2> HIDE DEF b
    <2>4. [b EXCEPT !.reason = z, !.streams = g] \in SessionType(D)
      BY <1>3, <1>4, <2>3 DEF SessionType
    <2> QED  BY <2>4 DEF a, b, none
  <1>7. /\ t.starts = r.starts /\ t.starting = r.starting /\ t.next = r.next
        /\ t.highest = r.highest /\ t.jobs = r.jobs /\ t.writing = r.writing
        /\ t.attach = r.attach /\ t.reader = r.reader
    BY DEF SessionType
  <1>8. ~t.lane /\ t.fragments = <<>> /\ t.streams = g /\ t.state = state
    BY DEF SessionType
  <1> HIDE DEF t
  <1>9. Calmer(D, r, t)
    BY <1>2, <1>6, <1>7, <1>8, EmptyFragments DEF Calmer
  <1> QED  BY <1>2, <1>5, <1>7, <1>8, <1>9

-----------------------------------------------------------------------------
(* What every session of one peer keeps                                    *)

StreamSound(p, k, x) ==
  /\ x.sending \in {"credit", "woken"} => x.sends # <<>> /\ x.started
  /\ Len(x.sends) <= x.sent
  /\ x.credit >= 0
  /\ x.sending = "credit" => x.credit = 0
  /\ x.sending = "woken" => x.credit > 0
  /\ x.pattern = "none" => x.sends = <<>> /\ x.sending = "none" /\ ~x.started
  /\ x.table => x.started
  /\ x.started => x.wire > 0
  /\ ~Local(p, k) /\ x.pattern # "none" => x.started
  /\ Local(p, k) /\ x.started /\ x.pattern # "duplex" => x.outClosed
  /\ ~Local(p, k) /\ x.pattern = "notify" => x.outClosed
  /\ ~Local(p, k) /\ x.pattern # "none" /\ ~x.cancelled /\ ~x.outClosed => x.table
  /\ ~Local(p, k) /\ x.pattern = "unary" /\ x.sending = "none" /\ ~x.cancelled
        /\ ~x.outClosed => x.credit > 0

StreamsSound(D, p, r) ==
  /\ \A k \in D : StreamSound(p, k, r.streams[k])
  /\ ~r.lane => \A k \in D : ~Local(p, k) => ~r.streams[k].table
  /\ \A k \in D : ~Local(p, k) /\ r.streams[k].pattern # "none" => k[2] <= r.highest
  /\ \A j, k \in D : (Local(p, j) /\ Local(p, k) /\ j[2] <= k[2]
                      /\ r.streams[k].pattern # "none") => r.streams[j].pattern # "none"

\* Requests are written in the order of startTail, one at a time.
StartsSound(D, p, r) ==
  /\ r.starting => r.starts # <<>>
  /\ \A i \in DOMAIN r.starts :
       /\ Local(p, r.starts[i])
       /\ r.streams[r.starts[i]].sending = "starting"
       /\ (i = 1 /\ r.starting) \/ r.streams[r.starts[i]].sends # <<>>
  /\ \A i, m \in DOMAIN r.starts : r.starts[i] = r.starts[m] => i = m
  /\ \A i \in DOMAIN r.jobs : r.jobs[i].what = "request" =>
       r.starting /\ r.jobs[i].k = r.starts[1] /\ r.jobs[i].wire = <<p, r.next>>
  /\ \A i, m \in DOMAIN r.jobs :
       r.jobs[i].what = "request" /\ r.jobs[m].what = "request" => i = m

\* The first job is the one being written.
JobsSound(r) ==
  /\ r.writing => r.jobs # <<>> /\ r.jobs[1].part > 0
  /\ \A i \in DOMAIN r.jobs :
       /\ r.jobs[i].part <= r.jobs[i].size
       /\ i # 1 => r.jobs[i].part = 0
       /\ r.jobs[i].part = r.jobs[i].size => r.writing
       /\ r.jobs[i].what = "demand" => r.jobs[i].n > 0

\* A stream has one item in the session's queue.
Carries(j) == j.what \in {"item", "answer"}
ItemsSound(D, p, r) ==
  /\ \A i \in DOMAIN r.jobs : Carries(r.jobs[i]) =>
       /\ r.jobs[i].k \in D /\ r.streams[r.jobs[i].k].sending = "writing"
       /\ r.jobs[i].what = "item" =>
            Local(p, r.jobs[i].k) \/ r.streams[r.jobs[i].k].pattern # "unary"
  /\ \A i, m \in DOMAIN r.jobs :
       Carries(r.jobs[i]) /\ Carries(r.jobs[m]) /\ r.jobs[i].k = r.jobs[m].k => i = m

\* A request that is being assembled is for a stream the session has not had.
FragmentsSound(D, p, r) ==
  \A w \in DOMAIN r.fragments :
    /\ r.fragments[w].first.stream = w
    /\ r.fragments[w].first.kind \in {"request", "item", "answer", "complete", "setup",
                                      "refusal", "keepalive", "pong", "close"}
    /\ r.fragments[w].first.kind = "request" =>
         /\ w \in Name /\ w[1] # p /\ w[2] <= r.highest
         /\ w \in D => r.streams[w].pattern = "none"
         /\ r.fragments[w].first.pattern # "none"

\* A session that has ended has given up its lane.
LaneSound(r) == r.state # "idle" /\ (Over(r) => ~r.lane)

Sound(D, p, r) ==
  /\ r \in SessionType(D)
  /\ LaneSound(r)
  /\ StreamsSound(D, p, r)
  /\ StartsSound(D, p, r)
  /\ JobsSound(r)
  /\ ItemsSound(D, p, r)
  /\ FragmentsSound(D, p, r)

LEMMA QuieterSound ==
  ASSUME NEW p, NEW k, NEW x \in StreamType, NEW y, StreamSound(p, k, x), Quieter(x, y)
  PROVE  StreamSound(p, k, y)
  <1>1. y \in StreamType
    BY DEF Quieter
  <1>2. CASE y.sending = x.sending /\ y.sends = x.sends
    BY <1>2 DEF Quieter, StreamSound
  <1>3. CASE /\ x.sending = "credit" /\ y.sending = "none" /\ y.sends = Tail(x.sends)
             /\ y.cancelled /\ y.outClosed /\ ~y.table
    <2>1. x.sends \in Seq(Number) /\ x.sends # <<>> /\ x.sent \in Nat /\ Len(x.sends) <= x.sent
      BY <1>3 DEF StreamSound, StreamType
    <2>2. Len(y.sends) <= y.sent
      BY <1>3, <2>1 DEF Quieter
    <2> QED  BY <1>1, <1>3, <2>2 DEF Quieter, StreamSound
  <1> QED  BY <1>2, <1>3 DEF Quieter

LEMMA SoundWaits ==
  ASSUME NEW D, NEW p, NEW r, Sound(D, p, r)
  PROVE  SendsWait(D, r)
  BY DEF Sound, StreamsSound, StreamSound, SendsWait

LEMMA CalmerSound ==
  ASSUME NEW D, NEW p \in Peers, NEW r, NEW t, Sound(D, p, r), Calmer(D, r, t), LaneSound(t),
         ~t.lane => \A k \in D : ~Local(p, k) => ~t.streams[k].table
  PROVE  Sound(D, p, t)
  <1>1. r \in SessionType(D) /\ t \in SessionType(D)
    BY DEF Sound, Calmer
  <1>2. r.streams \in [D -> StreamType] /\ t.streams \in [D -> StreamType]
        /\ r.starts \in Seq(D) /\ r.jobs \in Seq(JobType(D))
    BY <1>1 DEF SessionType
  <1>3. /\ t.starts = r.starts /\ t.starting = r.starting /\ t.next = r.next
        /\ t.highest = r.highest /\ t.jobs = r.jobs /\ t.writing = r.writing
        /\ \A k \in D : Quieter(r.streams[k], t.streams[k])
    BY DEF Calmer
  <1>4. \A k \in D : /\ t.streams[k].pattern = r.streams[k].pattern
                     /\ r.streams[k].sending # "credit" =>
                          /\ t.streams[k].sending = r.streams[k].sending
                          /\ t.streams[k].sends = r.streams[k].sends
    BY <1>3 DEF Quieter
  <1>5. StreamsSound(D, p, t)
    BY <1>2, <1>3, <1>4, QuieterSound DEF Sound, StreamsSound
  <1>6. StartsSound(D, p, t)
    <2>1. \A i \in DOMAIN r.starts : r.starts[i] \in D
      BY <1>2
    <2> QED  BY <1>3, <1>4, <2>1 DEF Sound, StartsSound
  <1>7. JobsSound(t)
    BY <1>3 DEF Sound, JobsSound
  <1>8. ItemsSound(D, p, t)
    BY <1>3, <1>4 DEF Sound, ItemsSound
  <1>9. FragmentsSound(D, p, t)
    <2>1. \A w \in DOMAIN t.fragments :
            w \in DOMAIN r.fragments /\ t.fragments[w] = r.fragments[w]
      BY DEF Calmer
    <2> QED  BY <1>3, <1>4, <2>1 DEF Sound, FragmentsSound
  <1> QED  BY <1>1, <1>5, <1>6, <1>7, <1>8, <1>9 DEF Sound

LEMMA QueueFields ==
  ASSUME NEW D, NEW r \in SessionType(D), NEW j \in JobType(D)
  PROVE  /\ Queue(r, j) \in SessionType(D) /\ Queue(r, j).jobs = Append(r.jobs, j)
         /\ Queue(r, j).starts = r.starts /\ Queue(r, j).starting = r.starting
         /\ Queue(r, j).next = r.next /\ Queue(r, j).highest = r.highest
         /\ Queue(r, j).writing = r.writing /\ Queue(r, j).streams = r.streams
         /\ Queue(r, j).fragments = r.fragments /\ Queue(r, j).lane = r.lane
         /\ Queue(r, j).state = r.state /\ Queue(r, j).inFlight = r.inFlight
         /\ Queue(r, j).reader = r.reader /\ Queue(r, j).attach = r.attach
         /\ Queue(r, j).reason = r.reason
  <1>1. r.jobs \in Seq(JobType(D))
    BY DEF SessionType
  <1>2. Append(r.jobs, j) \in Seq(JobType(D))
    BY <1>1
  <1>3. \A q \in Seq(JobType(D)) : [r EXCEPT !.jobs = q] \in SessionType(D)
    BY DEF SessionType
  <1> QED  BY <1>2, <1>3 DEF Queue, SessionType

\* Every other job can be queued at any time.
Plain(j) == /\ j.part = 0 /\ j.what \notin {"request", "item", "answer"}
            /\ j.what = "demand" => j.n > 0

LEMMA QueuePlain ==
  ASSUME NEW D, NEW p \in Peers, NEW r, NEW t, Sound(D, p, r), t \in SessionType(D),
         NEW j \in JobType(D), Plain(j), t.jobs = Append(r.jobs, j),
         t.starts = r.starts, t.starting = r.starting, t.next = r.next,
         t.highest = r.highest, t.writing = r.writing, t.streams = r.streams,
         t.fragments = r.fragments, t.lane = r.lane, t.state = r.state
  PROVE  Sound(D, p, t)
  <1>1. r \in SessionType(D)
    BY DEF Sound
  <1>2. r.jobs \in Seq(JobType(D))
    BY <1>1 DEF SessionType
  <1>3. /\ DOMAIN t.jobs = 1..(Len(r.jobs) + 1) /\ DOMAIN r.jobs = 1..Len(r.jobs)
        /\ Len(r.jobs) \in Nat
        /\ t.jobs[Len(r.jobs) + 1] = j
        /\ \A i \in DOMAIN r.jobs : t.jobs[i] = r.jobs[i]
        /\ t.jobs # <<>>
    BY <1>2
  <1>4. \A i \in DOMAIN t.jobs : i \in DOMAIN r.jobs \/ t.jobs[i] = j
    BY <1>3
  <1>5. StreamsSound(D, p, t) /\ FragmentsSound(D, p, t) /\ LaneSound(t)
    BY DEF Sound, StreamsSound, FragmentsSound, LaneSound, Over
  <1>6. StartsSound(D, p, t)
    BY <1>3, <1>4 DEF Sound, StartsSound, Plain
  <1>7. JobsSound(t)
    <2>1. j.size \in Number
      BY DEF JobType
    <2>2. r.writing => 1 \in DOMAIN r.jobs
      BY <1>2 DEF Sound, JobsSound
    <2> QED  BY <1>3, <1>4, <2>1, <2>2 DEF Sound, JobsSound, Plain, Number
  <1>8. ItemsSound(D, p, t)
    BY <1>3, <1>4 DEF Sound, ItemsSound, Plain, Carries
  <1> QED  BY <1>5, <1>6, <1>7, <1>8 DEF Sound

\* What ends a session leaves what it has queued.
LEMMA DetachSound ==
  ASSUME NEW D, NEW p \in Peers, NEW r, Sound(D, p, r), NEW why \in Reasons
  PROVE  /\ Sound(D, p, Detach(r, why)) /\ Calmer(D, r, Detach(r, why))
         /\ Detach(r, why).reader = r.reader
         /\ Over(Detach(r, why)) /\ ~Detach(r, why).lane
  <1>1. r \in SessionType(D) /\ SendsWait(D, r)
    BY SoundWaits DEF Sound
  <1>2. CASE Over(r)
    <2>1. \A k \in D : Quieter(r.streams[k], r.streams[k])
      BY <1>1, QuieterSelf DEF SessionType
    <2> QED  BY <1>1, <1>2, <2>1 DEF Detach, Calmer, Over, Sound, LaneSound
  <1>3. CASE ~Over(r)
    <2> DEFINE t == End(r, "detached", why)
    <2>1. "detached" \in States
      BY DEF States
    <2>2. /\ Calmer(D, r, t) /\ \A k \in D : ~t.streams[k].table
          /\ t.state = "detached" /\ t.reader = r.reader /\ ~t.lane
      BY <1>1, <2>1, EndCalmer
    <2> HIDE DEF t
    <2>3. Sound(D, p, t)
      BY <2>2, CalmerSound DEF LaneSound, Over
    <2> QED  BY <1>3, <2>2, <2>3 DEF Detach, t, Over
  <1> QED  BY <1>2, <1>3

LEMMA FinishClosedSound ==
  ASSUME NEW D, NEW p \in Peers, NEW r, Sound(D, p, r)
  PROVE  /\ Sound(D, p, FinishClosed(r)) /\ Calmer(D, r, FinishClosed(r))
         /\ FinishClosed(r).reader = r.reader
         /\ Over(FinishClosed(r)) /\ ~FinishClosed(r).lane
  <1>1. r \in SessionType(D) /\ SendsWait(D, r)
    BY SoundWaits DEF Sound
  <1>2. CASE r.state = "closed"
    <2>1. \A k \in D : Quieter(r.streams[k], r.streams[k])
      BY <1>1, QuieterSelf DEF SessionType
    <2> QED  BY <1>1, <1>2, <2>1 DEF FinishClosed, Calmer, Over, Sound, LaneSound
  <1>3. CASE r.state # "closed"
    <2> DEFINE t == End(r, "closed", "closed")
    <2>1. "closed" \in States /\ "closed" \in Reasons
      BY DEF States, Reasons
    <2>2. /\ Calmer(D, r, t) /\ \A k \in D : ~t.streams[k].table
          /\ t.state = "closed" /\ t.reader = r.reader /\ ~t.lane
      BY <1>1, <2>1, EndCalmer
    <2> HIDE DEF t
    <2>3. Sound(D, p, t)
      BY <2>2, CalmerSound DEF LaneSound, Over
    <2> QED  BY <1>3, <2>2, <2>3 DEF FinishClosed, t, Over
  <1> QED  BY <1>2, <1>3

\* Where the read loop, attach() and the state of the lane stand does not matter to the
\* rest.
LEMMA ControlSound ==
  ASSUME NEW D, NEW p \in Peers, NEW r, NEW t, Sound(D, p, r), t \in SessionType(D),
         t.jobs = r.jobs, t.starts = r.starts, t.starting = r.starting, t.next = r.next,
         t.highest = r.highest, t.writing = r.writing, t.streams = r.streams,
         t.fragments = r.fragments, r.lane => t.lane, LaneSound(t)
  PROVE  Sound(D, p, t)
  <1>1. StreamsSound(D, p, t) /\ FragmentsSound(D, p, t)
    BY DEF Sound, StreamsSound, FragmentsSound
  <1>2. StartsSound(D, p, t) /\ JobsSound(t) /\ ItemsSound(D, p, t)
    BY DEF Sound, StartsSound, JobsSound, ItemsSound
  <1> QED  BY <1>1, <1>2 DEF Sound

LEMMA ReadLoopFailsSound ==
  ASSUME NEW D, NEW p \in Peers, NEW r, Sound(D, p, r), NEW why \in Reasons
  PROVE  Sound(D, p, ReadLoopFails(r, why)) /\ Calmer(D, r, ReadLoopFails(r, why))
         /\ Over(ReadLoopFails(r, why)) /\ ~ReadLoopFails(r, why).lane
  <1> DEFINE t == Detach(r, why)
             u == [t EXCEPT !.reader = "done"]
  <1>1. Sound(D, p, t) /\ Calmer(D, r, t) /\ Over(t) /\ ~t.lane
    BY DetachSound
  <1> HIDE DEF t
  <1>2. t \in SessionType(D)
    BY <1>1 DEF Sound
  <1>3. u \in SessionType(D)
    BY <1>2 DEF SessionType
  <1>4. /\ u.jobs = t.jobs /\ u.starts = t.starts /\ u.starting = t.starting
        /\ u.next = t.next /\ u.highest = t.highest /\ u.writing = t.writing
        /\ u.streams = t.streams /\ u.fragments = t.fragments /\ u.lane = t.lane
        /\ u.attach = t.attach /\ u.state = t.state
    BY <1>2 DEF SessionType
  <1> HIDE DEF u
  <1>5. Sound(D, p, u)
    BY <1>1, <1>3, <1>4, ControlSound DEF LaneSound, Over
  <1>6. Calmer(D, r, u) /\ ~u.lane
    BY <1>1, <1>3, <1>4 DEF Calmer
  <1>7. Over(u)
    BY <1>1, <1>4 DEF Over
  <1> QED  BY <1>5, <1>6, <1>7 DEF ReadLoopFails, t, u

LEMMA TerminateSound ==
  ASSUME NEW D, NEW p \in Peers, NEW r, Sound(D, p, r), NEW k \in D
  PROVE  Sound(D, p, Terminate(r, k)) /\ Calmer(D, r, Terminate(r, k))
         /\ Terminate(r, k).lane = r.lane /\ Terminate(r, k).state = r.state
  <1>1. r \in SessionType(D) /\ SendsWait(D, r)
    BY SoundWaits DEF Sound
  <1> DEFINE t == Terminate(r, k)
  <1>2. Calmer(D, r, t) /\ t.lane = r.lane /\ t.state = r.state
    BY <1>1, TerminateCalmer
  <1> HIDE DEF t
  <1>3. \A j \in D : t.streams[j].table => r.streams[j].table
    BY <1>2 DEF Calmer, Quieter
  <1>4. Sound(D, p, t)
    BY <1>2, <1>3, CalmerSound DEF Sound, StreamsSound, LaneSound, Over
  <1> QED  BY <1>2, <1>4 DEF t

LEMMA DropSound ==
  ASSUME NEW D, NEW p \in Peers, NEW r, Sound(D, p, r), NEW w
  PROVE  Sound(D, p, Drop(r, w))
  <1>1. r \in SessionType(D)
    BY DEF Sound
  <1>2. Calmer(D, r, Drop(r, w)) /\ Drop(r, w).streams = r.streams /\ Drop(r, w).lane = r.lane
        /\ Drop(r, w).state = r.state
    BY <1>1, DropCalmer
  <1> QED  BY <1>2, CalmerSound DEF Sound, StreamsSound, LaneSound, Over

LEMMA QueueSound ==
  ASSUME NEW D, NEW p \in Peers, NEW r, Sound(D, p, r), NEW j \in JobType(D), Plain(j)
  PROVE  Sound(D, p, Queue(r, j))
  <1>1. r \in SessionType(D)
    BY DEF Sound
  <1> QED  BY <1>1, QueueFields, QueuePlain

LEMMA ReadWaitsFields ==
  ASSUME NEW D, NEW r \in SessionType(D), NEW j \in JobType(D)
  PROVE  LET h == [j EXCEPT !.read = TRUE]
             t == ReadWaits(r, j)
         IN /\ h \in JobType(D) /\ h.what = j.what /\ h.part = j.part /\ h.n = j.n
            /\ h.wire = j.wire /\ h.item = j.item /\ h.size = j.size /\ h.k = j.k
            /\ t \in SessionType(D) /\ t.jobs = Append(r.jobs, h)
            /\ t.starts = r.starts /\ t.starting = r.starting
            /\ t.next = r.next /\ t.highest = r.highest
            /\ t.writing = r.writing /\ t.streams = r.streams
            /\ t.fragments = r.fragments /\ t.lane = r.lane
            /\ t.state = r.state /\ t.inFlight = r.inFlight
            /\ t.attach = r.attach /\ t.reader = "writing" /\ t.reason = r.reason
  <1> DEFINE h == [j EXCEPT !.read = TRUE]
             u == Queue(r, h)
             t == [u EXCEPT !.reader = "writing"]
  <1>1. /\ h \in JobType(D) /\ h.what = j.what /\ h.part = j.part /\ h.n = j.n
        /\ h.wire = j.wire /\ h.item = j.item /\ h.size = j.size /\ h.k = j.k
    BY DEF JobType
  <1> HIDE DEF h
  <1>2. /\ u \in SessionType(D) /\ u.jobs = Append(r.jobs, h)
        /\ u.starts = r.starts /\ u.starting = r.starting
        /\ u.next = r.next /\ u.highest = r.highest
        /\ u.writing = r.writing /\ u.streams = r.streams
        /\ u.fragments = r.fragments /\ u.lane = r.lane
        /\ u.state = r.state /\ u.inFlight = r.inFlight /\ u.attach = r.attach
        /\ u.reason = r.reason
    BY <1>1, QueueFields
  <1> HIDE DEF u
  <1>3. t \in SessionType(D)
    BY <1>2 DEF SessionType
  <1>4. /\ t.jobs = u.jobs /\ t.starts = u.starts /\ t.starting = u.starting
        /\ t.next = u.next /\ t.highest = u.highest /\ t.writing = u.writing
        /\ t.streams = u.streams /\ t.fragments = u.fragments /\ t.lane = u.lane
        /\ t.state = u.state /\ t.inFlight = u.inFlight /\ t.attach = u.attach
        /\ t.reader = "writing" /\ t.reason = u.reason
    BY <1>2 DEF SessionType
  <1>5. t = ReadWaits(r, j)
    BY DEF ReadWaits, t, u, h
  <1> HIDE DEF t
  <1> QED  BY <1>1, <1>2, <1>3, <1>4, <1>5 DEF h

LEMMA ReadWaitsSound ==
  ASSUME NEW D, NEW p \in Peers, NEW r, Sound(D, p, r), NEW j \in JobType(D), Plain(j)
  PROVE  Sound(D, p, ReadWaits(r, j))
  <1> DEFINE h == [j EXCEPT !.read = TRUE]
             t == ReadWaits(r, j)
  <1>1. r \in SessionType(D)
    BY DEF Sound
  <1>2. /\ h \in JobType(D) /\ h.what = j.what /\ h.part = j.part /\ h.n = j.n
        /\ t \in SessionType(D) /\ t.jobs = Append(r.jobs, h)
        /\ t.starts = r.starts /\ t.starting = r.starting
        /\ t.next = r.next /\ t.highest = r.highest
        /\ t.writing = r.writing /\ t.streams = r.streams
        /\ t.fragments = r.fragments /\ t.lane = r.lane /\ t.state = r.state
    BY <1>1, ReadWaitsFields
  <1> HIDE DEF h, t
  <1>3. Plain(h)
    BY <1>2 DEF Plain
  <1>4. Sound(D, p, t)
    BY <1>2, <1>3, QueuePlain
  <1> QED  BY <1>4 DEF t

\* The jobs that are queued.
LEMMA ControlJob ==
  ASSUME NEW D, NEW what \in Kinds \ {"request", "item", "answer", "demand"}
  PROVE  Control(what) \in JobType(D) /\ Plain(Control(what))
         /\ Control(what).wire = NoStream /\ Control(what).k = NoStream
         /\ Control(what).what = what /\ Control(what).size = 1 /\ Control(what).item = 0
  BY DEF Control, Job, JobType, Plain, Kinds, AnyName, Number

LEMMA StreamJob ==
  ASSUME NEW D, D \subseteq Name, NEW r \in SessionType(D), NEW k \in D,
         NEW what \in Kinds \ {"request", "item", "answer"}, NEW n \in Nat,
         r.streams[k].wire > 0, what = "demand" => n > 0
  PROVE  LET j == OnStream(r, what, k, n)
         IN /\ j \in JobType(D) /\ Plain(j) /\ j.what = what /\ j.k = k
            /\ j.wire = <<k[1], r.streams[k].wire>> /\ j.n = n /\ j.size = 1
            /\ j.item = 0 /\ j.part = 0 /\ ~j.read
  <1>1. r.streams[k].wire \in Number
    BY DEF SessionType, StreamType, Number
  <1>2. <<k[1], r.streams[k].wire>> \in AnyName
    BY <1>1 DEF Name, AnyName
  <1> QED  BY <1>2 DEF OnStream, Job, JobType, Plain, Kinds, Number

\* What is known of the job that was taken from the queue of r.
Taken(D, p, r, j) ==
  /\ j \in JobType(D)
  /\ j.what = "request" =>
       /\ r.starting /\ j.k = r.starts[1] /\ j.wire = <<p, r.next>>
       /\ \A i \in DOMAIN r.jobs : r.jobs[i].what # "request"
  /\ Carries(j) =>
       /\ j.k \in D /\ r.streams[j.k].sending = "writing"
       /\ j.what = "item" => Local(p, j.k) \/ r.streams[j.k].pattern # "unary"
       /\ \A i \in DOMAIN r.jobs : Carries(r.jobs[i]) => r.jobs[i].k # j.k

LEMMA PopSound ==
  ASSUME NEW D, NEW p \in Peers, NEW r, Sound(D, p, r), r.jobs # <<>>,
         NEW t, t \in SessionType(D), t.jobs = Tail(r.jobs), ~t.writing,
         t.starts = r.starts, t.starting = r.starting, t.next = r.next,
         t.highest = r.highest, t.streams = r.streams,
         t.fragments = r.fragments, t.lane = r.lane, t.state = r.state
  PROVE  Sound(D, p, t) /\ Taken(D, p, t, Head(r.jobs))
  <1>1. r \in SessionType(D)
    BY DEF Sound
  <1>2. r.jobs \in Seq(JobType(D))
    BY <1>1 DEF SessionType
  <1>3. /\ DOMAIN t.jobs = 1..(Len(r.jobs) - 1) /\ DOMAIN r.jobs = 1..Len(r.jobs)
        /\ Len(r.jobs) \in Nat \ {0}
        /\ \A i \in DOMAIN t.jobs : i + 1 \in DOMAIN r.jobs /\ t.jobs[i] = r.jobs[i + 1]
        /\ Head(r.jobs) = r.jobs[1] /\ 1 \in DOMAIN r.jobs
        /\ \A i \in DOMAIN t.jobs : i + 1 # 1 /\ i \in Nat
    BY <1>2
  <1>4. StreamsSound(D, p, t) /\ FragmentsSound(D, p, t) /\ LaneSound(t)
    BY DEF Sound, StreamsSound, FragmentsSound, LaneSound, Over
  <1>5. StartsSound(D, p, t)
    <2>1. StartsSound(D, p, r)
      BY DEF Sound
    <2>2. \A i, m \in DOMAIN t.jobs : i + 1 = m + 1 => i = m
      BY <1>3
    <2> QED  BY <1>3, <2>1, <2>2 DEF StartsSound
  <1>6. JobsSound(t)
    <2>1. JobsSound(r)
      BY DEF Sound
    <2>2. \A i \in DOMAIN t.jobs : r.jobs[i + 1].part <= r.jobs[i + 1].size
                                  /\ r.jobs[i + 1].part = 0
                                  /\ (r.jobs[i + 1].what = "demand" => r.jobs[i + 1].n > 0)
      BY <1>3, <2>1 DEF JobsSound
    <2>3. \A i \in DOMAIN t.jobs : r.jobs[i + 1].size \in Number
      <3>1. \A i \in DOMAIN r.jobs : r.jobs[i] \in JobType(D)
        BY <1>2
      <3>2. \A i \in DOMAIN r.jobs : r.jobs[i].size \in Number
        BY <3>1 DEF JobType
      <3> QED  BY <1>3, <3>2
    <2> QED  BY <1>3, <2>2, <2>3 DEF JobsSound, Number
  <1>7. ItemsSound(D, p, t)
    <2>1. ItemsSound(D, p, r)
      BY DEF Sound
    <2>2. \A i, m \in DOMAIN t.jobs : i + 1 = m + 1 => i = m
      BY <1>3
    <2>3. \A i \in DOMAIN t.jobs : Carries(t.jobs[i]) =>
            /\ t.jobs[i].k \in D /\ t.streams[t.jobs[i].k].sending = "writing"
            /\ t.jobs[i].what = "item" =>
                 Local(p, t.jobs[i].k) \/ t.streams[t.jobs[i].k].pattern # "unary"
      BY <1>3, <2>1 DEF ItemsSound
    <2>4. \A i, m \in DOMAIN t.jobs :
            Carries(t.jobs[i]) /\ Carries(t.jobs[m]) /\ t.jobs[i].k = t.jobs[m].k => i = m
      <3> SUFFICES ASSUME NEW i \in DOMAIN t.jobs, NEW m \in DOMAIN t.jobs,
                          Carries(t.jobs[i]), Carries(t.jobs[m]), t.jobs[i].k = t.jobs[m].k
                   PROVE  i = m
        OBVIOUS
      <3>1. /\ i + 1 \in DOMAIN r.jobs /\ t.jobs[i] = r.jobs[i + 1]
            /\ m + 1 \in DOMAIN r.jobs /\ t.jobs[m] = r.jobs[m + 1]
        BY <1>3
      <3>2. i + 1 = m + 1
        BY <2>1, <3>1 DEF ItemsSound
      <3> QED  BY <2>2, <3>2
    <2> QED  BY <2>3, <2>4 DEF ItemsSound
  <1>8. Taken(D, p, t, r.jobs[1])
    <2>1. r.jobs[1] \in JobType(D)
      BY <1>2, <1>3
    <2>2. StartsSound(D, p, r) /\ ItemsSound(D, p, r)
      BY DEF Sound
    <2>3. r.jobs[1].what = "request" =>
            /\ t.starting /\ r.jobs[1].k = t.starts[1] /\ r.jobs[1].wire = <<p, t.next>>
            /\ \A i \in DOMAIN t.jobs : t.jobs[i].what # "request"
      BY <1>3, <2>2 DEF StartsSound
    <2>4. Carries(r.jobs[1]) =>
            /\ r.jobs[1].k \in D /\ t.streams[r.jobs[1].k].sending = "writing"
            /\ r.jobs[1].what = "item" =>
                 Local(p, r.jobs[1].k) \/ t.streams[r.jobs[1].k].pattern # "unary"
            /\ \A i \in DOMAIN t.jobs : Carries(t.jobs[i]) => t.jobs[i].k # r.jobs[1].k
      BY <1>3, <2>2 DEF ItemsSound
    <2> QED  BY <2>1, <2>3, <2>4 DEF Taken
  <1> QED  BY <1>3, <1>4, <1>5, <1>6, <1>7, <1>8 DEF Sound

\* One stream changes; nothing else does.
LEMMA StreamFields ==
  ASSUME NEW D, NEW r \in SessionType(D), NEW k \in D, NEW y \in StreamType
  PROVE  LET t == [r EXCEPT !.streams[k] = y]
         IN /\ t \in SessionType(D) /\ t.streams = [r.streams EXCEPT ![k] = y]
            /\ t.streams[k] = y /\ \A j \in D \ {k} : t.streams[j] = r.streams[j]
            /\ t.starts = r.starts /\ t.starting = r.starting
            /\ t.next = r.next /\ t.highest = r.highest
            /\ t.writing = r.writing /\ t.jobs = r.jobs
            /\ t.fragments = r.fragments /\ t.lane = r.lane
            /\ t.state = r.state /\ t.inFlight = r.inFlight
            /\ t.attach = r.attach /\ t.reader = r.reader /\ t.reason = r.reason
  BY DEF SessionType

\* A stream changes without leaving startTail or the queue and without being born.
LEMMA StreamSoundStep ==
  ASSUME NEW D, NEW p \in Peers, NEW r, Sound(D, p, r), NEW k \in D, NEW y \in StreamType,
         StreamSound(p, k, y),
         y.pattern = r.streams[k].pattern,
         ~Local(p, k) /\ y.table => r.streams[k].table,
         r.streams[k].sending \in {"starting", "writing"} => y.sending = r.streams[k].sending,
         r.streams[k].sending = "starting" /\ r.streams[k].sends # <<>> => y.sends # <<>>
  PROVE  Sound(D, p, [r EXCEPT !.streams[k] = y])
  <1> DEFINE t == [r EXCEPT !.streams[k] = y]
  <1>1. r \in SessionType(D)
    BY DEF Sound
  <1>2. /\ t \in SessionType(D)
        /\ t.streams[k] = y /\ \A j \in D \ {k} : t.streams[j] = r.streams[j]
        /\ t.starts = r.starts /\ t.starting = r.starting
        /\ t.next = r.next /\ t.highest = r.highest
        /\ t.writing = r.writing /\ t.jobs = r.jobs
        /\ t.fragments = r.fragments /\ t.lane = r.lane /\ t.state = r.state
    BY <1>1, StreamFields
  <1> HIDE DEF t
  <1>3. StreamsSound(D, p, t) /\ LaneSound(t)
    BY <1>2 DEF Sound, StreamsSound, LaneSound, Over
  <1>4. StartsSound(D, p, t)
    <2>1. \A i \in DOMAIN r.starts : r.starts[i] \in D
      BY <1>1 DEF SessionType
    <2> QED  BY <1>2, <2>1 DEF Sound, StartsSound
  <1>5. JobsSound(t)
    BY <1>2 DEF Sound, JobsSound
  <1>6. ItemsSound(D, p, t)
    BY <1>2 DEF Sound, ItemsSound
  <1>7. FragmentsSound(D, p, t)
    BY <1>2 DEF Sound, FragmentsSound
  <1>8. Sound(D, p, t)
    BY <1>2, <1>3, <1>4, <1>5, <1>6, <1>7 DEF Sound
  <1> QED  BY <1>8 DEF t

\* The send() whose item has been written, or has failed, is over.
LEMMA SendOver ==
  ASSUME NEW D, NEW p \in Peers, NEW r, Sound(D, p, r), NEW k \in D, NEW y \in StreamType,
         r.streams[k].sending = "writing",
         \A i \in DOMAIN r.jobs : Carries(r.jobs[i]) => r.jobs[i].k # k,
         StreamSound(p, k, y), y.pattern = r.streams[k].pattern,
         y.table => r.streams[k].table
  PROVE  Sound(D, p, [r EXCEPT !.streams[k] = y])
  <1> DEFINE t == [r EXCEPT !.streams[k] = y]
  <1>1. r \in SessionType(D)
    BY DEF Sound
  <1>2. /\ t \in SessionType(D)
        /\ t.streams[k] = y /\ \A j \in D \ {k} : t.streams[j] = r.streams[j]
        /\ t.starts = r.starts /\ t.starting = r.starting
        /\ t.next = r.next /\ t.highest = r.highest
        /\ t.writing = r.writing /\ t.jobs = r.jobs
        /\ t.fragments = r.fragments /\ t.lane = r.lane /\ t.state = r.state
    BY <1>1, StreamFields
  <1> HIDE DEF t
  <1>3. StreamsSound(D, p, t) /\ LaneSound(t)
    BY <1>2 DEF Sound, StreamsSound, LaneSound, Over
  <1>4. StartsSound(D, p, t)
    <2>1. \A i \in DOMAIN r.starts : r.starts[i] \in D /\ r.starts[i] # k
      BY <1>1 DEF SessionType, Sound, StartsSound
    <2> QED  BY <1>2, <2>1 DEF Sound, StartsSound
  <1>5. JobsSound(t)
    BY <1>2 DEF Sound, JobsSound
  <1>6. ItemsSound(D, p, t)
    BY <1>2 DEF Sound, ItemsSound
  <1>7. FragmentsSound(D, p, t)
    BY <1>2 DEF Sound, FragmentsSound
  <1>8. Sound(D, p, t)
    BY <1>2, <1>3, <1>4, <1>5, <1>6, <1>7 DEF Sound
  <1> QED  BY <1>8 DEF t

\* A request has been written, or could not be: the next one in turn may start.
LEMMA StartOver ==
  ASSUME NEW D, NEW p \in Peers, NEW r, Sound(D, p, r), NEW y \in StreamType, r.starting,
         \A i \in DOMAIN r.jobs : r.jobs[i].what # "request",
         StreamSound(p, r.starts[1], y), y.pattern = r.streams[r.starts[1]].pattern,
         NEW t \in SessionType(D), t.streams = [r.streams EXCEPT ![r.starts[1]] = y],
         t.starts = Tail(r.starts), ~t.starting, t.jobs = r.jobs, t.writing = r.writing,
         t.highest = r.highest, t.fragments = r.fragments, t.lane = r.lane, t.state = r.state
  PROVE  Sound(D, p, t)
  <1> DEFINE k == r.starts[1]
  <1>1. r \in SessionType(D)
    BY DEF Sound
  <1>2. r.starts \in Seq(D) /\ r.starts # <<>> /\ r.streams \in [D -> StreamType]
    BY <1>1 DEF SessionType, Sound, StartsSound
  <1>3. /\ DOMAIN t.starts = 1..(Len(r.starts) - 1) /\ DOMAIN r.starts = 1..Len(r.starts)
        /\ Len(r.starts) \in Nat \ {0}
        /\ \A i \in DOMAIN t.starts : i + 1 \in DOMAIN r.starts /\ t.starts[i] = r.starts[i + 1]
                                      /\ i + 1 # 1 /\ i \in Nat
        /\ 1 \in DOMAIN r.starts
    BY <1>2
  <1>4. k \in D /\ Local(p, k) /\ r.streams[k].sending = "starting"
    BY <1>2, <1>3 DEF Sound, StartsSound
  <1>5. t.streams[k] = y /\ \A j \in D \ {k} : t.streams[j] = r.streams[j]
    BY <1>2, <1>4
  <1>6. StreamsSound(D, p, t) /\ LaneSound(t)
    BY <1>4, <1>5 DEF Sound, StreamsSound, LaneSound, Over
  <1>7. StartsSound(D, p, t)
    <2>1. StartsSound(D, p, r)
      BY DEF Sound
    <2>2. \A i \in DOMAIN t.starts : t.starts[i] # k /\ t.starts[i] \in D
      BY <1>2, <1>3, <2>1 DEF StartsSound
    <2>3. \A i, m \in DOMAIN t.starts : i + 1 = m + 1 => i = m
      BY <1>3
    <2> QED  BY <1>3, <1>5, <2>1, <2>2, <2>3 DEF StartsSound
  <1>8. JobsSound(t)
    BY DEF Sound, JobsSound
  <1>9. ItemsSound(D, p, t)
    BY <1>4, <1>5 DEF Sound, ItemsSound
  <1>10. FragmentsSound(D, p, t)
    <2>1. \A w \in D : t.streams[w].pattern = r.streams[w].pattern
      BY <1>5
    <2> QED  BY <2>1 DEF Sound, FragmentsSound
  <1> QED  BY <1>6, <1>7, <1>8, <1>9, <1>10 DEF Sound

LEMMA RequestWrittenSound ==
  ASSUME NEW D, NEW p \in Peers, NEW r, Sound(D, p, r), r.starting,
         \A i \in DOMAIN r.jobs : r.jobs[i].what # "request"
  PROVE  Sound(D, p, RequestWritten(r, r.starts[1]))
  <1> DEFINE k == r.starts[1]
             x == r.streams[k]
             a == [x EXCEPT !.pending = FALSE, !.initialDemand = 0, !.sending = "none"]
             y == Retire(a)
             n == r.next + 1
             t == [r EXCEPT !.next = n, !.starts = Tail(@), !.starting = FALSE,
                            !.streams[k] = y]
  <1>1. r \in SessionType(D)
    BY DEF Sound
  <1>2. r.starts \in Seq(D) /\ r.starts # <<>> /\ r.streams \in [D -> StreamType]
        /\ n \in Number
    BY <1>1 DEF SessionType, Sound, StartsSound, Number
  <1>3. k \in D /\ Local(p, k) /\ x.sending = "starting" /\ Tail(r.starts) \in Seq(D)
    BY <1>2 DEF Sound, StartsSound
  <1>4. x \in StreamType /\ StreamSound(p, k, x)
    BY <1>2, <1>3 DEF Sound, StreamsSound
  <1>5. a \in StreamType
    BY <1>4 DEF StreamType, Sending
  <1>6. StreamSound(p, k, a) /\ a.pattern = x.pattern
    BY <1>3, <1>4 DEF StreamSound, StreamType
  <1> HIDE DEF a
  <1>7. Quieter(a, y)
    BY <1>5, RetireQuieter
  <1> HIDE DEF y
  <1>8. y \in StreamType /\ StreamSound(p, k, y) /\ y.pattern = x.pattern
    BY <1>5, <1>6, <1>7, QuieterSound DEF Quieter
  <1>9. t = RequestWritten(r, k)
    BY DEF RequestWritten, t, y, a
  <1>10. t \in SessionType(D)
    <2>1. \A q \in Seq(D) : [r EXCEPT !.next = n, !.starts = q, !.starting = FALSE] \in SessionType(D)
      BY <1>1, <1>2 DEF SessionType
    <2> DEFINE b == [r EXCEPT !.next = n, !.starts = Tail(@), !.starting = FALSE]
    <2>2. b \in SessionType(D)
      BY <1>3, <2>1
    <2>3. t = [b EXCEPT !.streams[k] = y]
      OBVIOUS
    <2> HIDE DEF b, t
    <2> QED  BY <1>3, <1>8, <2>2, <2>3, StreamFields
  <1>11. /\ t.streams = [r.streams EXCEPT ![k] = y] /\ t.starts = Tail(r.starts) /\ ~t.starting
         /\ t.jobs = r.jobs /\ t.writing = r.writing /\ t.highest = r.highest
         /\ t.fragments = r.fragments /\ t.lane = r.lane /\ t.state = r.state
    BY <1>1 DEF SessionType
  <1> HIDE DEF t
  <1>12. Sound(D, p, t)
    BY <1>8, <1>10, <1>11, StartOver
  <1> QED  BY <1>9, <1>12

LEMMA RequestFailedSound ==
  ASSUME NEW D, NEW p \in Peers, NEW r, Sound(D, p, r), r.starting,
         \A i \in DOMAIN r.jobs : r.jobs[i].what # "request"
  PROVE  Sound(D, p, RequestFailed(r, r.starts[1]))
  <1> DEFINE k == r.starts[1]
             x == r.streams[k]
             a == [x EXCEPT !.table = FALSE, !.wire = 0, !.started = FALSE, !.allowance = 0]
             y == [a EXCEPT !.inClosed = FALSE, !.outClosed = FALSE, !.sending = "none"]
             t == [r EXCEPT !.starts = Tail(@), !.starting = FALSE, !.streams[k] = y]
  <1>1. r \in SessionType(D)
    BY DEF Sound
  <1>2. r.starts \in Seq(D) /\ r.starts # <<>> /\ r.streams \in [D -> StreamType]
    BY <1>1 DEF SessionType, Sound, StartsSound
  <1>3. k \in D /\ Local(p, k) /\ x.sending = "starting" /\ Tail(r.starts) \in Seq(D)
    BY <1>2 DEF Sound, StartsSound
  <1>4. x \in StreamType /\ StreamSound(p, k, x)
    BY <1>2, <1>3 DEF Sound, StreamsSound
  <1>5. a \in StreamType
    BY <1>4 DEF StreamType
  <1>6. /\ a.pattern = x.pattern /\ a.credit = x.credit /\ a.sends = x.sends
        /\ ~a.table /\ ~a.started /\ a.sent = x.sent
    BY <1>4 DEF StreamType
  <1> HIDE DEF a
  <1>7. y \in StreamType
    BY <1>5 DEF StreamType, Sending
  <1>8. /\ y.pattern = a.pattern /\ y.credit = a.credit /\ y.sends = a.sends
        /\ y.sent = a.sent /\ ~y.table /\ ~y.started /\ y.sending = "none"
    BY <1>5, <1>6 DEF StreamType
  <1>9. t = RequestFailed(r, k)
    BY DEF RequestFailed, t, y, a
  <1> HIDE DEF y
  <1>10. StreamSound(p, k, y) /\ y.pattern = x.pattern
    BY <1>3, <1>4, <1>6, <1>8 DEF StreamSound
  <1>11. t \in SessionType(D)
    <2>1. \A q \in Seq(D) : [r EXCEPT !.starts = q, !.starting = FALSE] \in SessionType(D)
      BY <1>1 DEF SessionType
    <2> DEFINE b == [r EXCEPT !.starts = Tail(@), !.starting = FALSE]
    <2>2. b \in SessionType(D)
      BY <1>3, <2>1
    <2>3. t = [b EXCEPT !.streams[k] = y]
      OBVIOUS
    <2> HIDE DEF b, t
    <2> QED  BY <1>3, <1>7, <2>2, <2>3, StreamFields
  <1>12. /\ t.streams = [r.streams EXCEPT ![k] = y] /\ t.starts = Tail(r.starts) /\ ~t.starting
         /\ t.jobs = r.jobs /\ t.writing = r.writing /\ t.highest = r.highest
         /\ t.fragments = r.fragments /\ t.lane = r.lane /\ t.state = r.state
    BY <1>1 DEF SessionType
  <1> HIDE DEF t
  <1>13. Sound(D, p, t)
    BY <1>7, <1>10, <1>11, <1>12, StartOver
  <1> QED  BY <1>9, <1>13

\* The code that awaited a job leaves the session sound, whether the write went well or
\* the lane is gone.
LEMMA ResumeSound ==
  ASSUME NEW D, D \subseteq Name, NEW p \in Peers, NEW r, Sound(D, p, r), NEW j,
         Taken(D, p, r, j), NEW ok \in BOOLEAN, ~ok => ~r.lane
  PROVE  Sound(D, p, Resume(r, j, ok))
  <1> DEFINE t == Resume(r, j, ok)
  <1>1. r \in SessionType(D) /\ j \in JobType(D)
    BY DEF Sound, Taken
  <1>2. r.streams \in [D -> StreamType] /\ NoStream \notin D
    BY <1>1 DEF SessionType, NoStream, Name, Number
  <1>3. j.what \in Kinds /\ (j.k \in D \/ j.k = NoStream)
    BY <1>1 DEF JobType
  <1>4. CASE j.what = "setup" /\ ok
    <2>1. t = [r EXCEPT !.state = "ready", !.attach = "resolved"]
      BY <1>4 DEF Resume
    <2>2. /\ t \in SessionType(D) /\ t.state = "ready" /\ t.lane = r.lane
          /\ t.jobs = r.jobs /\ t.starts = r.starts /\ t.starting = r.starting
          /\ t.next = r.next /\ t.highest = r.highest /\ t.writing = r.writing
          /\ t.streams = r.streams /\ t.fragments = r.fragments
      BY <1>1, <2>1 DEF SessionType, States
    <2> HIDE DEF t
    <2>3. Sound(D, p, t)
      BY <2>2, ControlSound DEF LaneSound, Over
    <2> QED  BY <2>3 DEF t
  <1>5. CASE j.what = "setup" /\ ~ok
    <2> DEFINE u == Detach(r, "lost")
    <2>0. t = [u EXCEPT !.attach = "rejected"]
      BY <1>5 DEF Resume
    <2>1. Sound(D, p, u)
      BY DetachSound DEF Reasons
    <2> HIDE DEF u
    <2>2. u \in SessionType(D)
      BY <2>1 DEF Sound
    <2>3. /\ t \in SessionType(D) /\ t.state = u.state /\ t.lane = u.lane
          /\ t.jobs = u.jobs /\ t.starts = u.starts /\ t.starting = u.starting
          /\ t.next = u.next /\ t.highest = u.highest /\ t.writing = u.writing
          /\ t.streams = u.streams /\ t.fragments = u.fragments
      BY <2>0, <2>2 DEF SessionType
    <2>4. LaneSound(t)
      BY <2>1, <2>3 DEF Sound, LaneSound, Over
    <2> HIDE DEF t
    <2>5. Sound(D, p, t)
      BY <2>1, <2>3, <2>4, ControlSound
    <2> QED  BY <2>5 DEF t
  <1>6. CASE j.what = "refusal"
    BY <1>6, ReadLoopFailsSound DEF Resume, Reasons
  <1>7. CASE j.what = "request"
    <2>1. r.starting /\ j.k = r.starts[1] /\ \A i \in DOMAIN r.jobs : r.jobs[i].what # "request"
      BY <1>7 DEF Taken
    <2>2. t = IF ok THEN RequestWritten(r, r.starts[1]) ELSE RequestFailed(r, r.starts[1])
      BY <1>7, <2>1 DEF Resume
    <2> QED  BY <2>1, <2>2, RequestWrittenSound, RequestFailedSound
  <1>8. CASE Carries(j)
    <2> DEFINE k == j.k
               x == r.streams[k]
               a == [x EXCEPT !.sending = "none"]
               b == [x EXCEPT !.sending = "none", !.outClosed = TRUE]
    <2>1. k \in D /\ x.sending = "writing" /\ \A i \in DOMAIN r.jobs :
            Carries(r.jobs[i]) => r.jobs[i].k # k
      BY <1>8 DEF Taken
    <2>2. x \in StreamType /\ StreamSound(p, k, x)
      BY <1>2, <2>1 DEF Sound, StreamsSound
    <2>3. a \in StreamType /\ b \in StreamType
      BY <2>2 DEF StreamType, Sending
    <2>4. StreamSound(p, k, b) /\ b.pattern = x.pattern /\ b.table = x.table
      BY <2>2 DEF StreamSound, StreamType
    <2>5. a.pattern = x.pattern /\ a.table = x.table /\ a.outClosed = x.outClosed
          /\ a.sending = "none"
      BY <2>2 DEF StreamType
    <2>6. (~Local(p, k) /\ x.pattern = "unary" /\ ~x.cancelled /\ ~x.outClosed => x.credit > 0)
            => StreamSound(p, k, a)
      BY <2>1, <2>2 DEF StreamSound, StreamType
    <2>7. CASE j.what = "item"
      <3>1. t = [r EXCEPT !.streams[k] = a]
        BY <2>7 DEF Resume
      <3>2. ~(~Local(p, k) /\ x.pattern = "unary" /\ ~x.cancelled /\ ~x.outClosed)
              \/ x.credit > 0
        BY <2>7, <1>8 DEF Taken
      <3>3. StreamSound(p, k, a)
        BY <2>6, <3>2
      <3> HIDE DEF a, t
      <3>4. a \in StreamType /\ a.pattern = x.pattern /\ (a.table => x.table)
        BY <2>3, <2>5
      <3>5. Sound(D, p, [r EXCEPT !.streams[k] = a])
        BY <2>1, <3>3, <3>4, SendOver
      <3> QED  BY <3>1, <3>5 DEF t
    <2>8. CASE j.what = "answer" /\ ~ok
      <3>1. t = [r EXCEPT !.streams[k] = a]
        BY <2>8 DEF Resume
      <3>2. ~Local(p, k) => ~x.table
        BY <2>1, <2>8 DEF Sound, StreamsSound
      <3>3. StreamSound(p, k, a)
        <4>1. ~(~Local(p, k) /\ x.pattern = "unary" /\ ~x.cancelled /\ ~x.outClosed)
          BY <2>2, <3>2 DEF StreamSound
        <4> QED  BY <2>6, <4>1
      <3> HIDE DEF a, t
      <3>4. a \in StreamType /\ a.pattern = x.pattern /\ (a.table => x.table)
        BY <2>3, <2>5
      <3>5. Sound(D, p, [r EXCEPT !.streams[k] = a])
        BY <2>1, <3>3, <3>4, SendOver
      <3> QED  BY <3>1, <3>5 DEF t
    <2>9. CASE j.what = "answer" /\ ok
      <3> DEFINE y == Retire(b)
      <3>1. t = [r EXCEPT !.streams[k] = y]
        BY <2>9 DEF Resume
      <3> HIDE DEF b, t
      <3>2. Quieter(b, y)
        BY <2>3, RetireQuieter
      <3> HIDE DEF y
      <3>3. y \in StreamType /\ StreamSound(p, k, y) /\ y.pattern = x.pattern /\ (y.table => x.table)
        BY <2>3, <2>4, <3>2, QuieterSound DEF Quieter
      <3> QED  BY <2>1, <3>1, <3>3, SendOver DEF t
    <2> QED  BY <1>8, <2>7, <2>8, <2>9 DEF Carries
  <1>9. CASE j.what = "complete"
    <2> DEFINE k == j.k
               x == r.streams[k]
               b == [x EXCEPT !.outClosed = TRUE]
               y == Retire(b)
    <2>0. t = [r EXCEPT !.streams[k] = IF ok THEN y ELSE x]
      BY <1>9 DEF Resume
    <2>1. CASE k \in D /\ ok
      <3>1. x \in StreamType /\ StreamSound(p, k, x)
        BY <1>2, <2>1 DEF Sound, StreamsSound
      <3>2. b \in StreamType /\ StreamSound(p, k, b) /\ b.pattern = x.pattern /\ b.table = x.table
            /\ b.sending = x.sending /\ b.sends = x.sends
        BY <3>1 DEF StreamSound, StreamType
      <3> HIDE DEF b, t
      <3>3. Quieter(b, y)
        BY <3>2, RetireQuieter
      <3> HIDE DEF y
      <3>4. y \in StreamType /\ StreamSound(p, k, y) /\ y.pattern = x.pattern /\ (y.table => x.table)
            /\ (x.sending \in {"starting", "writing"} => y.sending = x.sending)
            /\ (x.sending = "starting" /\ x.sends # <<>> => y.sends # <<>>)
        BY <3>2, <3>3, QuieterSound DEF Quieter
      <3>5. Sound(D, p, [r EXCEPT !.streams[k] = y])
        BY <2>1, <3>4, StreamSoundStep
      <3> QED  BY <2>0, <2>1, <3>5 DEF t
    <2>2. CASE k \in D /\ ~ok
      <3>1. [r.streams EXCEPT ![k] = x] = r.streams
        BY <1>2, <2>2
      <3>2. [r EXCEPT !.streams = r.streams] = r
        BY <1>1 DEF SessionType
      <3> QED  BY <2>0, <2>2, <3>1, <3>2
    <2>3. CASE k = NoStream
      <3>1. \A z : [r.streams EXCEPT ![k] = z] = r.streams
        BY <1>2, <2>3
      <3>2. [r EXCEPT !.streams = r.streams] = r
        BY <1>1 DEF SessionType
      <3> QED  BY <2>0, <3>1, <3>2
    <2> QED  BY <1>3, <2>1, <2>2, <2>3
  <1>10. CASE j.what \in {"cancel", "error"} /\ j.k # NoStream
    BY <1>3, <1>10, TerminateSound DEF Resume
  <1>11. CASE j.what = "pong" /\ ~ok
    BY <1>11, ReadLoopFailsSound DEF Resume, Reasons
  <1>12. CASE j.what = "close"
    BY <1>12, FinishClosedSound DEF Resume
  <1>13. CASE \/ j.what \in {"demand", "keepalive"}
              \/ j.what \in {"cancel", "error"} /\ j.k = NoStream
              \/ j.what = "pong" /\ ok
    BY <1>13 DEF Resume
  <1> QED  BY <1>3, <1>4, <1>5, <1>6, <1>7, <1>8, <1>9, <1>10, <1>11, <1>12, <1>13
           DEF Kinds, Carries

\* What every frame on its way to p is.
FrameSound(p, f) ==
  /\ f \in FrameType
  /\ f.kind = "request" => f.stream \in Name /\ f.stream[1] # p /\ f.pattern # "none"
  /\ f.kind = "demand" => f.n > 0

\* A whole frame that finds its stream.
Ripe(D, p, r, f) ==
  /\ FrameSound(p, f)
  /\ r.lane
  /\ f.kind = "request" =>
       /\ f.stream[2] <= r.highest
       /\ f.stream \notin DOMAIN r.fragments
       /\ f.stream \in D => r.streams[f.stream].pattern = "none"

LEMMA ViolationSound ==
  ASSUME NEW D, NEW p \in Peers, NEW r, Sound(D, p, r)
  PROVE  Sound(D, p, Violation(r))
  BY ReadLoopFailsSound DEF Violation, Reasons

LEMMA HandleRequestSound ==
  ASSUME NEW D, D \subseteq Name, NEW p \in Peers, NEW r, Sound(D, p, r), NEW f,
         f.kind = "request", Ripe(D, p, r, f)
  PROVE  Sound(D, p, HandleRequest(r, f))
  <1> DEFINE k == f.stream
             single == f.pattern # "duplex"
             c == IF f.pattern = "unary" THEN 1 ELSE f.n
             y == [NewStream EXCEPT !.pattern = f.pattern, !.wire = f.stream[2], !.table = TRUE,
                     !.started = TRUE, !.pregranted = 1,
                     !.credit = c,
                     !.inClosed = single, !.ended = single, !.outClosed = f.pattern = "notify",
                     !.got = 1]
             t == [r EXCEPT !.streams[k] = y]
  <1>1. r \in SessionType(D) /\ f \in FrameType /\ k \in Name /\ k[1] # p
        /\ f.pattern \in Patterns
    BY DEF Sound, Ripe, FrameSound, FrameType
  <1>2. r.streams \in [D -> StreamType]
    BY <1>1 DEF SessionType
  <1>3. t = HandleRequest(r, f)
    BY DEF HandleRequest
  <1>4. CASE k \notin D
    <2>1. \A z : [r.streams EXCEPT ![k] = z] = r.streams
      BY <1>2, <1>4
    <2>2. [r EXCEPT !.streams = r.streams] = r
      BY <1>1 DEF SessionType
    <2> HIDE DEF y
    <2>3. t = r
      BY <2>1, <2>2
    <2> QED  BY <1>3, <2>3
  <1>5. CASE k \in D
    <2>1. c \in Nat /\ (f.pattern = "unary" => c > 0) /\ k[2] \in Number /\ f.pattern \in Patterns
          /\ single \in BOOLEAN /\ (f.pattern = "notify") \in BOOLEAN
      BY <1>1 DEF FrameType, Name
    <2>2. y \in StreamType
      <3> DEFINE o == f.pattern = "notify"
                 a == [NewStream EXCEPT !.pattern = f.pattern, !.wire = f.stream[2],
                                        !.table = TRUE, !.started = TRUE]
                 b == [a EXCEPT !.pregranted = 1, !.credit = c]
                 d == [b EXCEPT !.inClosed = single, !.ended = single, !.outClosed = o]
      <3> HIDE DEF c, single, o
      <3>1. a \in StreamType
        BY <2>1, NewStreamType DEF StreamType, Number
      <3> HIDE DEF a
      <3>2. b \in StreamType
        <4>1. \A m \in Nat, n \in Int : [a EXCEPT !.pregranted = m, !.credit = n] \in StreamType
          BY <3>1 DEF StreamType
        <4>2. 1 \in Nat /\ c \in Int
          BY <2>1
        <4> QED  BY <4>1, <4>2
      <3> HIDE DEF b
      <3>3. d \in StreamType
        BY <2>1, <3>2 DEF StreamType, o
      <3> HIDE DEF d
      <3>4. [d EXCEPT !.got = 1] \in StreamType
        BY <3>3 DEF StreamType
      <3> QED  BY <3>4 DEF a, b, d, o
    <2>3. /\ y.pattern = f.pattern /\ y.wire = k[2] /\ y.table /\ y.started
          /\ y.credit = c /\ (f.pattern = "notify" => y.outClosed)
          /\ y.sending = "none" /\ y.sends = <<>> /\ y.sent = 0
      BY DEF NewStream
    <2>4. r.streams[k].pattern = "none"
      BY <1>5 DEF Ripe
    <2>5. r.streams[k].sending = "none"
      BY <1>5, <2>4 DEF Sound, StreamsSound, StreamSound
    <2> HIDE DEF y, c
    <2>6. StreamSound(p, k, y)
      <3>1. Len(y.sends) <= y.sent
        BY <2>3
      <3> QED  BY <1>1, <2>1, <2>3, <3>1 DEF StreamSound, Local, Number, Patterns
    <2>7. /\ t \in SessionType(D)
          /\ t.streams[k] = y /\ \A j \in D \ {k} : t.streams[j] = r.streams[j]
          /\ t.starts = r.starts /\ t.starting = r.starting
          /\ t.next = r.next /\ t.highest = r.highest
          /\ t.writing = r.writing /\ t.jobs = r.jobs
          /\ t.fragments = r.fragments /\ t.lane = r.lane /\ t.state = r.state
      BY <1>1, <1>5, <2>2, StreamFields
    <2> HIDE DEF t
    <2>8. StreamsSound(D, p, t) /\ LaneSound(t)
      <3>1. t.lane /\ k[2] <= t.highest
        BY <2>7 DEF Ripe
      <3>2. LaneSound(t)
        BY <2>7 DEF Sound, LaneSound, Over
      <3>3. ~Local(p, k)
        BY <1>1 DEF Local
      <3> QED  BY <2>6, <2>7, <3>1, <3>2, <3>3 DEF Sound, StreamsSound
    <2>9. StartsSound(D, p, t)
      <3>1. \A i \in DOMAIN r.starts : r.starts[i] \in D /\ r.starts[i] # k
        BY <1>1, <2>5 DEF SessionType, Sound, StartsSound
      <3> QED  BY <2>7, <3>1 DEF Sound, StartsSound
    <2>10. JobsSound(t)
      BY <2>7 DEF Sound, JobsSound
    <2>11. ItemsSound(D, p, t)
      BY <2>5, <2>7 DEF Sound, ItemsSound
    <2>12. FragmentsSound(D, p, t)
      <3>1. k \notin DOMAIN r.fragments
        BY DEF Ripe
      <3> QED  BY <2>7, <3>1 DEF Sound, FragmentsSound
    <2>13. Sound(D, p, t)
      BY <2>7, <2>8, <2>9, <2>10, <2>11, <2>12 DEF Sound
    <2> QED  BY <1>3, <2>13
  <1> QED  BY <1>4, <1>5

LEMMA HandleDemandSound ==
  ASSUME NEW D, NEW p \in Peers, NEW r, Sound(D, p, r), NEW k \in D, NEW f \in FrameType, f.n > 0
  PROVE  Sound(D, p, HandleDemand(r, k, f))
  <1> DEFINE x == r.streams[k]
             z == IF x.sending = "credit" THEN "woken" ELSE x.sending
             c == x.credit + f.n
             y == [x EXCEPT !.credit = c, !.sending = z]
             t == [r EXCEPT !.streams[k] = y]
  <1>1. r \in SessionType(D) /\ x \in StreamType /\ StreamSound(p, k, x)
    BY DEF Sound, StreamsSound, SessionType
  <1>2. c \in Int /\ c > 0 /\ z \in Sending
    <2>1. x.credit \in Int /\ x.credit >= 0 /\ x.sending \in Sending /\ f.n \in Nat
      BY <1>1 DEF StreamType, StreamSound, FrameType
    <2> QED  BY <2>1 DEF Sending
  <1>3. t = HandleDemand(r, k, f)
    <2>1. [r EXCEPT !.streams[k].credit = c, !.streams[k].sending = z] = t
      BY <1>1 DEF SessionType, StreamType
    <2> QED  BY <1>1, <2>1 DEF HandleDemand, SessionType, StreamType
  <1>4. (z = x.sending \/ (x.sending = "credit" /\ z = "woken")) /\ z # "credit"
    OBVIOUS
  <1> HIDE DEF z, c
  <1>5. y \in StreamType
    BY <1>1, <1>2 DEF StreamType
  <1>6. /\ y.pattern = x.pattern /\ y.table = x.table /\ y.sending = z /\ y.credit = c
        /\ y.sends = x.sends /\ y.sent = x.sent /\ y.wire = x.wire /\ y.started = x.started
        /\ y.cancelled = x.cancelled /\ y.outClosed = x.outClosed
    BY <1>1 DEF StreamType
  <1> HIDE DEF y, x
  <1>7. StreamSound(p, k, y)
    BY <1>1, <1>2, <1>4, <1>6 DEF StreamSound
  <1>8. Sound(D, p, t)
    BY <1>4, <1>5, <1>6, <1>7, StreamSoundStep DEF x
  <1> QED  BY <1>3, <1>8

LEMMA HandlePayloadSound ==
  ASSUME NEW D, NEW p \in Peers, NEW r, Sound(D, p, r), NEW k \in D, NEW f
  PROVE  Sound(D, p, HandlePayload(p, r, k, f))
  <1> DEFINE x == r.streams[k]
             next == f.kind \in {"item", "answer"}
             unary == Local(p, k) /\ x.pattern = "unary"
             last == f.kind \in {"answer", "complete"} \/ unary
             n == IF x.allowance > 0 THEN x.allowance - 1 ELSE x.allowance
             g == x.got + 1
             a == [x EXCEPT !.allowance = n, !.got = g]
             y == IF next THEN a ELSE x
             b == [y EXCEPT !.inClosed = TRUE, !.ended = TRUE]
             z == IF last THEN Retire(b) ELSE y
             t == [r EXCEPT !.streams[k] = z]
  <1>1. r \in SessionType(D) /\ x \in StreamType /\ StreamSound(p, k, x)
    BY DEF Sound, StreamsSound, SessionType
  <1>2. n \in Nat /\ g \in Nat
    <2>1. x.allowance \in Nat /\ x.got \in Nat
      BY <1>1 DEF StreamType
    <2> QED  BY <2>1
  <1>3. HandlePayload(p, r, k, f) = IF next /\ (x.ended \/ (x.allowance = 0 /\ ~unary))
                                    THEN Violation(r) ELSE t
    BY DEF HandlePayload
  <1> HIDE DEF n, g, last, next
  <1>4. a \in StreamType
    BY <1>1, <1>2 DEF StreamType
  <1>5. /\ a.pattern = x.pattern /\ a.table = x.table /\ a.sending = x.sending
        /\ a.sends = x.sends /\ a.sent = x.sent /\ a.wire = x.wire /\ a.started = x.started
        /\ a.cancelled = x.cancelled /\ a.outClosed = x.outClosed /\ a.credit = x.credit
    BY <1>1 DEF StreamType
  <1> HIDE DEF a
  <1>6. y \in StreamType
    BY <1>1, <1>4
  <1>7. /\ y.pattern = x.pattern /\ y.table = x.table /\ y.sending = x.sending
        /\ y.sends = x.sends /\ y.sent = x.sent /\ y.wire = x.wire /\ y.started = x.started
        /\ y.cancelled = x.cancelled /\ y.outClosed = x.outClosed /\ y.credit = x.credit
    BY <1>5
  <1> HIDE DEF y
  <1>8. b \in StreamType
    BY <1>6 DEF StreamType
  <1>9. /\ b.pattern = y.pattern /\ b.table = y.table /\ b.sending = y.sending
        /\ b.sends = y.sends /\ b.sent = y.sent /\ b.wire = y.wire /\ b.started = y.started
        /\ b.cancelled = y.cancelled /\ b.outClosed = y.outClosed /\ b.credit = y.credit
    BY <1>6 DEF StreamType
  <1> HIDE DEF b
  <1>10. StreamSound(p, k, y) /\ StreamSound(p, k, b)
    BY <1>1, <1>7, <1>9 DEF StreamSound
  <1>11. Quieter(b, Retire(b))
    BY <1>8, RetireQuieter
  <1>12. StreamSound(p, k, Retire(b))
    BY <1>8, <1>10, <1>11, QuieterSound
  <1>13. /\ z \in StreamType /\ StreamSound(p, k, z) /\ z.pattern = x.pattern
         /\ (z.table => x.table)
         /\ (x.sending \in {"starting", "writing"} => z.sending = x.sending)
         /\ (x.sending = "starting" /\ x.sends # <<>> => z.sends # <<>>)
    <2>1. CASE last
      BY <1>7, <1>9, <1>11, <1>12, <2>1 DEF Quieter
    <2>2. CASE ~last
      BY <1>6, <1>7, <1>10, <2>2
    <2> QED  BY <2>1, <2>2
  <1> HIDE DEF z
  <1>14. Sound(D, p, t)
    BY <1>13, StreamSoundStep
  <1> HIDE DEF t
  <1> QED  BY <1>3, <1>14, ViolationSound

LEMMA DispatchSound ==
  ASSUME NEW D, D \subseteq Name, NEW p \in Peers, NEW r, Sound(D, p, r), NEW f,
         Ripe(D, p, r, f)
  PROVE  Sound(D, p, Dispatch(p, r, f))
  <1> DEFINE known == OfWire(r, f.stream)
             k == CHOOSE k \in known : TRUE
  <1>1. known \subseteq D
    BY DEF OfWire, Sound, SessionType
  <1>2. CASE f.kind = "request"
    BY <1>2, HandleRequestSound DEF Dispatch
  <1>3. CASE f.kind # "request" /\ known = {}
    BY <1>3 DEF Dispatch
  <1>4. CASE f.kind # "request" /\ known # {}
    <2>1. k \in D
      BY <1>1, <1>4
    <2>2. f \in FrameType /\ (f.kind = "demand" => f.n > 0)
      BY DEF Ripe, FrameSound
    <2>3. Dispatch(p, r, f) = CASE f.kind = "demand" -> HandleDemand(r, k, f)
                 [] f.kind \in {"cancel", "error"} -> Terminate(r, k)
                 [] OTHER -> HandlePayload(p, r, k, f)
      BY <1>4 DEF Dispatch
    <2> HIDE DEF k
    <2>4. CASE f.kind = "demand"
      BY <2>1, <2>2, <2>3, <2>4, HandleDemandSound
    <2>5. CASE f.kind \in {"cancel", "error"}
      BY <2>1, <2>3, <2>5, TerminateSound
    <2>6. CASE f.kind \notin {"demand", "cancel", "error"}
      BY <2>1, <2>3, <2>6, HandlePayloadSound
    <2> QED  BY <2>4, <2>5, <2>6
  <1> QED  BY <1>2, <1>3, <1>4

LEMMA RefuseSound ==
  ASSUME NEW D, D \subseteq Name, NEW p \in Peers, NEW r, Sound(D, p, r), NEW w \in AnyName
  PROVE  Sound(D, p, Refuse(p, r, w))
  <1> DEFINE known == OfWire(r, w)
             k == CHOOSE k \in known : TRUE
             d == Drop(r, w)
             m == [d EXCEPT !.streams[w].dead = TRUE]
             j == Job("error", NoStream, w, 0, 1, 0)
             u == CASE known # {} -> Terminate(d, k)
                    [] known = {} /\ ~Local(p, w) -> m
                    [] OTHER -> d
  <1>1. known \subseteq D
    BY DEF OfWire, Sound, SessionType
  <1>2. Sound(D, p, d)
    BY DropSound
  <1>3. j \in JobType(D) /\ Plain(j)
    BY DEF Job, JobType, Plain, Kinds, AnyName, Number
  <1>4. Refuse(p, r, w) = ReadWaits(u, j)
    BY DEF Refuse
  <1> HIDE DEF d, j
  <1>5. d \in SessionType(D)
    BY <1>2 DEF Sound
  <1>6. Sound(D, p, m)
    <2>1. CASE w \in D
      <3> DEFINE x == d.streams[w]
                 y == [x EXCEPT !.dead = TRUE]
      <3>1. x \in StreamType /\ StreamSound(p, w, x)
        BY <1>2, <1>5, <2>1 DEF Sound, StreamsSound, SessionType
      <3>2. y \in StreamType
        BY <3>1 DEF StreamType
      <3>3. /\ y.pattern = x.pattern /\ y.table = x.table /\ y.sending = x.sending
            /\ y.sends = x.sends /\ y.sent = x.sent /\ y.wire = x.wire /\ y.started = x.started
            /\ y.cancelled = x.cancelled /\ y.outClosed = x.outClosed /\ y.credit = x.credit
        BY <3>1 DEF StreamType
      <3>4. m = [d EXCEPT !.streams[w] = y]
        OBVIOUS
      <3> HIDE DEF m, y
      <3>5. StreamSound(p, w, y)
        BY <3>1, <3>3 DEF StreamSound
      <3>6. Sound(D, p, [d EXCEPT !.streams[w] = y])
        BY <1>2, <2>1, <3>2, <3>3, <3>5, StreamSoundStep
      <3> QED  BY <3>4, <3>6
    <2>2. CASE w \notin D
      <3>1. d.streams \in [D -> StreamType]
        BY <1>5 DEF SessionType
      <3>2. \A z : [d.streams EXCEPT ![w] = z] = d.streams
        BY <2>2, <3>1
      <3>3. [d EXCEPT !.streams = d.streams] = d
        BY <1>5 DEF SessionType
      <3>4. m = d
        BY <3>2, <3>3
      <3> QED  BY <1>2, <3>4
    <2> QED  BY <2>1, <2>2
  <1> HIDE DEF m
  <1>7. Sound(D, p, u)
    <2>1. CASE known # {}
      <3>1. k \in D
        BY <1>1, <2>1
      <3> HIDE DEF k
      <3> QED  BY <1>2, <2>1, <3>1, TerminateSound
    <2>2. CASE known = {}
      BY <1>2, <1>6, <2>2
    <2> QED  BY <2>1, <2>2
  <1> HIDE DEF u
  <1> QED  BY <1>3, <1>4, <1>7, ReadWaitsSound

\* One more fragment on the budget.
Assembled(r, w, first, parts) ==
  [r EXCEPT !.inFlight = @ + 1,
            !.fragments = [v \in DOMAIN @ \cup {w} |->
              IF v = w THEN [first |-> first, parts |-> parts] ELSE @[v]]]

LEMMA AssembleSound ==
  ASSUME NEW D, NEW p \in Peers, NEW r, Sound(D, p, r), NEW w \in AnyName,
         NEW first \in FrameType, NEW parts \in Seq(Nat \X Number),
         first.stream = w, first.kind \notin {"demand", "cancel", "error"},
         first.kind = "request" =>
           /\ w \in Name /\ w[1] # p /\ w[2] <= r.highest
           /\ w \in D => r.streams[w].pattern = "none"
           /\ first.pattern # "none"
  PROVE  LET t == Assembled(r, w, first, parts)
         IN
         /\ Sound(D, p, t) /\ t.inFlight = r.inFlight + 1 /\ t.lane = r.lane
         /\ t.state = r.state /\ t.streams = r.streams /\ t.jobs = r.jobs
         /\ t.reader = r.reader
         /\ DOMAIN t.fragments = DOMAIN r.fragments \cup {w}
         /\ t.fragments[w].first = first /\ t.fragments[w].parts = parts
         /\ \A v \in DOMAIN r.fragments \ {w} : t.fragments[v] = r.fragments[v]
  <1> DEFINE a == [first |-> first, parts |-> parts]
             g == [v \in DOMAIN r.fragments \cup {w} |-> IF v = w THEN a ELSE r.fragments[v]]
             n == r.inFlight + 1
             t == Assembled(r, w, first, parts)
  <1>1. r \in SessionType(D)
    BY DEF Sound
  <1>2. PICK E \in SUBSET AnyName : r.fragments \in [E -> Assembly]
    BY <1>1 DEF SessionType, Assemblies
  <1>3. a \in Assembly /\ a.first = first /\ a.parts = parts
    BY DEF Assembly
  <1> HIDE DEF a
  <1>4. g \in [E \cup {w} -> Assembly] /\ E \cup {w} \in SUBSET AnyName
    BY <1>2, <1>3
  <1>5. g \in Assemblies /\ n \in Int
    <2>1. r.inFlight \in Int
      BY <1>1 DEF SessionType
    <2>2. n \in Int
      BY <2>1
    <2> HIDE DEF g, n
    <2>3. g \in Assemblies
      BY <1>4 DEF Assemblies
    <2> QED  BY <2>2, <2>3
  <1>6. /\ DOMAIN g = DOMAIN r.fragments \cup {w} /\ g[w] = a
        /\ \A v \in DOMAIN r.fragments \ {w} : g[v] = r.fragments[v]
    OBVIOUS
  <1>7. t = [r EXCEPT !.inFlight = n, !.fragments = g]
    BY DEF a, Assembled
  <1> HIDE DEF g, n, t
  <1>8. /\ t \in SessionType(D) /\ t.fragments = g /\ t.inFlight = n
        /\ t.starts = r.starts /\ t.starting = r.starting
        /\ t.next = r.next /\ t.highest = r.highest
        /\ t.writing = r.writing /\ t.jobs = r.jobs
        /\ t.streams = r.streams /\ t.lane = r.lane /\ t.state = r.state
        /\ t.reader = r.reader
    BY <1>1, <1>5, <1>7 DEF SessionType
  <1>9. StreamsSound(D, p, t) /\ LaneSound(t)
    BY <1>8 DEF Sound, StreamsSound, LaneSound, Over
  <1>10. StartsSound(D, p, t) /\ JobsSound(t) /\ ItemsSound(D, p, t)
    BY <1>8 DEF Sound, StartsSound, JobsSound, ItemsSound
  <1>11. first.kind \in {"request", "item", "answer", "complete", "setup",
                         "refusal", "keepalive", "pong", "close"}
    BY DEF FrameType, Kinds
  <1>12. FragmentsSound(D, p, t)
    BY <1>3, <1>6, <1>8, <1>11 DEF Sound, FragmentsSound
  <1>13. Sound(D, p, t)
    BY <1>8, <1>9, <1>10, <1>12 DEF Sound
  <1> QED  BY <1>3, <1>6, <1>8, <1>13 DEF n, t

\* A frame of a stream as reassemble() takes it.
Fresh(D, p, r, f) ==
  /\ FrameSound(p, f)
  /\ r.lane
  /\ f.kind \notin {"demand", "cancel", "error"}
  /\ f.kind = "request" =>
       /\ f.stream[2] <= r.highest
       /\ f.stream \notin DOMAIN r.fragments
       /\ f.stream \in D => r.streams[f.stream].pattern = "none"

LEMMA ReassembleSound ==
  ASSUME NEW D, D \subseteq Name, NEW p \in Peers, NEW r, Sound(D, p, r), NEW f,
         Fresh(D, p, r, f)
  PROVE  Sound(D, p, Reassemble(p, r, f))
  <1> DEFINE w == f.stream
             existing == w \in DOMAIN r.fragments
             first == IF existing THEN r.fragments[w].first ELSE f
             parts == Append(IF existing THEN r.fragments[w].parts ELSE <<>>, <<f.item, f.part>>)
             last == [first EXCEPT !.kind = IF f.kind = "answer" THEN "answer" ELSE @]
             t == Assembled(r, w, first, parts)
  <1>1. Reassemble(p, r, f) =
          IF ~existing /\ ~f.follows THEN Dispatch(p, r, f)
          ELSE IF r.inFlight + 1 > Config.reassembly THEN Refuse(p, r, w)
          ELSE IF ~f.follows THEN Dispatch(p, Drop(r, w), last)
          ELSE t
    BY DEF Reassemble, Assembled
  <1>2. f \in FrameType /\ w \in AnyName /\ FrameSound(p, f)
    BY DEF Fresh, FrameSound, FrameType
  <1>3. r \in SessionType(D)
    BY DEF Sound
  <1>4. PICK E \in SUBSET AnyName : r.fragments \in [E -> Assembly]
    BY <1>3 DEF SessionType, Assemblies
  <1>5. existing => r.fragments[w] \in Assembly
    BY <1>4
  <1>6. first \in FrameType /\ first.stream = w /\ first.kind \notin {"demand", "cancel", "error"}
    BY <1>2, <1>5 DEF Sound, FragmentsSound, Fresh, Assembly
  <1>7. parts \in Seq(Nat \X Number)
    <2>1. (IF existing THEN r.fragments[w].parts ELSE <<>>) \in Seq(Nat \X Number)
      BY <1>5 DEF Assembly
    <2>2. <<f.item, f.part>> \in Nat \X Number
      BY <1>2 DEF FrameType
    <2> QED  BY <2>1, <2>2
  <1>8. first.kind = "request" =>
           /\ w \in Name /\ w[1] # p /\ w[2] <= r.highest
           /\ w \in D => r.streams[w].pattern = "none"
           /\ first.pattern # "none"
    BY <1>2 DEF Sound, FragmentsSound, Fresh, FrameSound
  <1>9. CASE ~existing /\ ~f.follows
    <2>1. Ripe(D, p, r, f)
      BY DEF Fresh, Ripe
    <2> QED  BY <1>1, <1>9, <2>1, DispatchSound
  <1>10. CASE ~(~existing /\ ~f.follows) /\ r.inFlight + 1 > Config.reassembly
    BY <1>1, <1>2, <1>10, RefuseSound
  <1>11. CASE existing /\ ~f.follows /\ ~(r.inFlight + 1 > Config.reassembly)
    <2>1. Sound(D, p, Drop(r, w)) /\ Drop(r, w).lane = r.lane /\ Drop(r, w).streams = r.streams
          /\ w \notin DOMAIN Drop(r, w).fragments
          /\ Drop(r, w).highest = r.highest
      BY <1>3, DropSound, DropCalmer DEF Calmer
    <2>2. /\ last \in FrameType /\ last.stream = w /\ last.pattern = first.pattern /\ last.n = first.n
          /\ last.kind \in {first.kind, "answer"}
      <3> HIDE DEF first
      <3> QED  BY <1>6 DEF FrameType, Kinds
    <2>3. first.kind = "request" => first.pattern # "none"
      BY <1>8
    <2>4. Ripe(D, p, Drop(r, w), last)
      <3> HIDE DEF last, first
      <3> QED  BY <1>6, <1>8, <2>1, <2>2, <2>3 DEF Ripe, FrameSound, Fresh
    <2>5. Sound(D, p, Dispatch(p, Drop(r, w), last))
      <3> HIDE DEF last
      <3> QED  BY <2>1, <2>4, DispatchSound
    <2> QED  BY <1>1, <1>11, <2>5
  <1>12. CASE f.follows /\ ~(r.inFlight + 1 > Config.reassembly)
    <2>1. Reassemble(p, r, f) = t
      BY <1>1, <1>12
    <2> HIDE DEF first, parts
    <2>2. Sound(D, p, t)
      BY <1>2, <1>6, <1>7, <1>8, AssembleSound
    <2> QED  BY <2>1, <2>2
  <1> QED  BY <1>9, <1>10, <1>11, <1>12

\* HandleStream raises highest before it reassembles a request.
LEMMA HandleStreamSound ==
  ASSUME NEW D, D \subseteq Name, NEW p \in Peers, NEW r, Sound(D, p, r), NEW f,
         FrameSound(p, f), r.lane
  PROVE  Sound(D, p, HandleStream(p, r, f))
  <1> DEFINE h == r.highest + 1
             u == [r EXCEPT !.highest = @ + 1]
  <1>1. r \in SessionType(D) /\ f \in FrameType
    BY DEF Sound, FrameSound
  <1>2. CASE \/ f.kind = "request" /\ f.stream[2] # r.highest + 1
             \/ f.kind \in {"request", "demand"} /\ f.stream \in DOMAIN r.fragments
    BY <1>2, ViolationSound DEF HandleStream
  <1> DEFINE bad == \/ f.kind = "request" /\ f.stream[2] # r.highest + 1
                    \/ f.kind \in {"request", "demand"} /\ f.stream \in DOMAIN r.fragments
  <1>3. CASE ~bad /\ f.kind \in {"cancel", "error"}
    <2>1. Sound(D, p, Drop(r, f.stream)) /\ Drop(r, f.stream).lane = r.lane
      BY <1>1, DropSound, DropCalmer
    <2>2. Ripe(D, p, Drop(r, f.stream), f)
      BY <1>3, <2>1 DEF Ripe
    <2> QED  BY <1>3, <2>1, <2>2, DispatchSound DEF HandleStream
  <1>4. CASE ~bad /\ f.kind = "demand"
    <2>1. Ripe(D, p, r, f)
      BY <1>4 DEF Ripe
    <2> QED  BY <1>4, <2>1, DispatchSound DEF HandleStream
  <1>5. CASE ~bad /\ f.kind = "request"
    <2>0. f.stream[2] = h /\ f.stream \notin DOMAIN r.fragments /\ r.highest \in Nat
      BY <1>1, <1>5 DEF SessionType
    <2>1. u = [r EXCEPT !.highest = h]
      OBVIOUS
    <2>2. h \in Nat /\ h > r.highest
      BY <2>0
    <2> HIDE DEF h
    <2>3. /\ u \in SessionType(D) /\ u.highest = h
          /\ u.jobs = r.jobs /\ u.starts = r.starts /\ u.starting = r.starting
          /\ u.next = r.next /\ u.writing = r.writing /\ u.state = r.state
          /\ u.streams = r.streams /\ u.fragments = r.fragments /\ u.lane = r.lane
      BY <1>1, <2>1, <2>2 DEF SessionType
    <2> HIDE DEF u
    <2>4. StreamsSound(D, p, u) /\ LaneSound(u)
      <3>1. \A k \in D : k[2] \in Nat
        BY DEF Name, Number
      <3>2. \A k \in D : k[2] <= r.highest => k[2] <= h
        BY <2>0, <2>2, <3>1
      <3> QED  BY <2>3, <3>2 DEF Sound, StreamsSound, LaneSound, Over
    <2>5. StartsSound(D, p, u) /\ JobsSound(u) /\ ItemsSound(D, p, u)
      BY <2>3 DEF Sound, StartsSound, JobsSound, ItemsSound
    <2>6. FragmentsSound(D, p, u)
      <3>1. \A w \in Name : w[2] <= r.highest => w[2] <= h
        <4>1. \A w \in Name : w[2] \in Nat
          BY DEF Name, Number
        <4> QED  BY <2>0, <2>2, <4>1
      <3> QED  BY <2>3, <3>1 DEF Sound, FragmentsSound
    <2>7. Sound(D, p, u)
      BY <2>3, <2>4, <2>5, <2>6 DEF Sound
    <2>8. Fresh(D, p, u, f)
      <3>1. f.stream \in Name /\ f.stream[1] # p
        BY <1>5 DEF FrameSound
      <3>2. f.stream \in D => r.streams[f.stream].pattern = "none"
        <4>1. f.stream \in D => ~(f.stream[2] <= r.highest)
          BY <2>0, <2>2
        <4> QED  BY <3>1, <4>1 DEF Sound, StreamsSound, Local
      <3>3. f.stream[2] <= h
        BY <2>0, <2>2
      <3> QED  BY <1>5, <2>0, <2>3, <3>2, <3>3 DEF Fresh
    <2>9. HandleStream(p, r, f) = Reassemble(p, u, f)
      BY <1>5 DEF HandleStream, u
    <2> QED  BY <2>7, <2>8, <2>9, ReassembleSound
  <1>6. CASE ~bad /\ f.kind \notin {"cancel", "error", "demand", "request"}
    <2>1. Fresh(D, p, r, f)
      BY <1>6 DEF Fresh
    <2> QED  BY <1>6, <2>1, ReassembleSound DEF HandleStream
  <1> QED  BY <1>2, <1>3, <1>4, <1>5, <1>6

LEMMA HandleSound ==
  ASSUME NEW D, D \subseteq Name, NEW p \in Peers, NEW r, Sound(D, p, r), NEW f,
         FrameSound(p, f), r.lane
  PROVE  Sound(D, p, Handle(p, r, f))
  <1>1. r \in SessionType(D)
    BY DEF Sound
  <1>2. CASE p = "acceptor" /\ r.state = "connecting" /\ f.kind = "setup"
             /\ "unsupported" \notin Config.events
    <2> DEFINE t == [r EXCEPT !.state = "ready", !.attach = "resolved"]
    <2>1. t = Handle(p, r, f)
      BY <1>2 DEF Handle
    <2>2. /\ t \in SessionType(D) /\ t.state = "ready" /\ t.lane = r.lane
          /\ t.jobs = r.jobs /\ t.starts = r.starts /\ t.starting = r.starting
          /\ t.next = r.next /\ t.highest = r.highest /\ t.writing = r.writing
          /\ t.streams = r.streams /\ t.fragments = r.fragments
      BY <1>1 DEF SessionType, States
    <2> HIDE DEF t
    <2>3. Sound(D, p, t)
      BY <2>2, ControlSound DEF LaneSound, Over
    <2> QED  BY <2>1, <2>3
  <1>3. CASE p = "acceptor" /\ r.state = "connecting"
             /\ ~(f.kind = "setup" /\ "unsupported" \notin Config.events)
    <2>1. Handle(p, r, f) = ReadWaits(r, Control("refusal"))
      BY <1>3 DEF Handle
    <2> QED  BY <2>1, ControlJob, ReadWaitsSound DEF Kinds
  <1>4. CASE ~(p = "acceptor" /\ r.state = "connecting") /\ f.kind = "setup"
    BY <1>4 DEF Handle
  <1>5. CASE ~(p = "acceptor" /\ r.state = "connecting") /\ f.kind # "setup" /\ r.state # "ready"
    BY <1>5, ReadLoopFailsSound DEF Handle, Reasons
  <1>6. CASE ~(p = "acceptor" /\ r.state = "connecting") /\ f.kind # "setup" /\ r.state = "ready"
    <2>1. Handle(p, r, f) =
            CASE f.kind = "keepalive" -> ReadWaits(r, Control("pong"))
              [] f.kind = "pong" -> r
              [] f.kind = "close" -> FinishClosed(r)
              [] f.kind = "refusal" -> ReadLoopFails(r, "remote")
              [] OTHER -> HandleStream(p, r, f)
      BY <1>6 DEF Handle
    <2>2. Sound(D, p, ReadWaits(r, Control("pong")))
      BY ControlJob, ReadWaitsSound DEF Kinds
    <2>3. Sound(D, p, ReadLoopFails(r, "remote")) /\ Sound(D, p, FinishClosed(r))
          /\ Sound(D, p, HandleStream(p, r, f))
      BY ReadLoopFailsSound, FinishClosedSound, HandleStreamSound DEF Reasons
    <2> QED  BY <2>1, <2>2, <2>3
  <1> QED  BY <1>2, <1>3, <1>4, <1>5, <1>6

\* An item joins the queue: its stream had none there.
LEMMA QueueItem ==
  ASSUME NEW D, NEW p \in Peers, NEW r, Sound(D, p, r), NEW k \in D, NEW y \in StreamType,
         NEW j \in JobType(D), Carries(j), j.part = 0, j.k = k,
         j.what = "item" => Local(p, k) \/ y.pattern # "unary",
         r.streams[k].sending \notin {"starting", "writing"},
         StreamSound(p, k, y), y.sending = "writing", y.pattern = r.streams[k].pattern,
         y.table => r.streams[k].table
  PROVE  Sound(D, p, Queue([r EXCEPT !.streams[k] = y], j))
  <1> DEFINE u == [r EXCEPT !.streams[k] = y]
             t == Queue(u, j)
  <1>1. r \in SessionType(D)
    BY DEF Sound
  <1>2. /\ u \in SessionType(D) /\ u.streams = [r.streams EXCEPT ![k] = y]
        /\ u.streams[k] = y /\ \A i \in D \ {k} : u.streams[i] = r.streams[i]
        /\ u.starts = r.starts /\ u.starting = r.starting
        /\ u.next = r.next /\ u.highest = r.highest
        /\ u.writing = r.writing /\ u.jobs = r.jobs
        /\ u.fragments = r.fragments /\ u.lane = r.lane /\ u.state = r.state
    BY <1>1, StreamFields
  <1> HIDE DEF u
  <1>3. /\ t \in SessionType(D) /\ t.jobs = Append(r.jobs, j)
        /\ t.starts = r.starts /\ t.starting = r.starting
        /\ t.next = r.next /\ t.highest = r.highest
        /\ t.writing = r.writing /\ t.streams = u.streams
        /\ t.fragments = r.fragments /\ t.lane = r.lane /\ t.state = r.state
    BY <1>2, QueueFields
  <1> HIDE DEF t
  <1>4. r.jobs \in Seq(JobType(D))
    BY <1>1 DEF SessionType
  <1>5. /\ DOMAIN t.jobs = 1..(Len(r.jobs) + 1) /\ DOMAIN r.jobs = 1..Len(r.jobs)
        /\ Len(r.jobs) \in Nat
        /\ t.jobs[Len(r.jobs) + 1] = j
        /\ \A i \in DOMAIN r.jobs : t.jobs[i] = r.jobs[i]
        /\ t.jobs # <<>>
    BY <1>3, <1>4
  <1>6. \A i \in DOMAIN t.jobs : i \in DOMAIN r.jobs \/ (i = Len(r.jobs) + 1 /\ t.jobs[i] = j)
    BY <1>5
  <1>7. StreamsSound(D, p, t) /\ LaneSound(t)
    BY <1>2, <1>3 DEF Sound, StreamsSound, LaneSound, Over
  <1>8. StartsSound(D, p, t)
    <2>1. \A i \in DOMAIN r.starts : r.starts[i] \in D /\ r.starts[i] # k
      BY <1>1 DEF SessionType, Sound, StartsSound
    <2>2. StartsSound(D, p, r)
      BY DEF Sound
    <2>3. j.what # "request"
      BY DEF Carries
    <2> QED  BY <1>2, <1>3, <1>5, <1>6, <2>1, <2>2, <2>3 DEF StartsSound
  <1>9. JobsSound(t)
    <2>1. j.size \in Number /\ j.what # "demand"
      BY DEF JobType, Carries
    <2>2. r.writing => 1 \in DOMAIN r.jobs
      BY <1>4 DEF Sound, JobsSound
    <2> QED  BY <1>3, <1>5, <1>6, <2>1, <2>2 DEF Sound, JobsSound, Number
  <1>10. ItemsSound(D, p, t)
    <2>1. ItemsSound(D, p, r)
      BY DEF Sound
    <2>2. \A i \in DOMAIN r.jobs : Carries(r.jobs[i]) => r.jobs[i].k # k
      BY <2>1 DEF ItemsSound
    <2>3. \A i \in DOMAIN t.jobs : Carries(t.jobs[i]) =>
            /\ t.jobs[i].k \in D /\ t.streams[t.jobs[i].k].sending = "writing"
            /\ t.jobs[i].what = "item" =>
                 Local(p, t.jobs[i].k) \/ t.streams[t.jobs[i].k].pattern # "unary"
      BY <1>2, <1>3, <1>5, <1>6, <2>1, <2>2 DEF ItemsSound
    <2>4. \A i, m \in DOMAIN t.jobs :
            Carries(t.jobs[i]) /\ Carries(t.jobs[m]) /\ t.jobs[i].k = t.jobs[m].k => i = m
      <3> SUFFICES ASSUME NEW i \in DOMAIN t.jobs, NEW m \in DOMAIN t.jobs,
                          Carries(t.jobs[i]), Carries(t.jobs[m]), t.jobs[i].k = t.jobs[m].k
                   PROVE  i = m
        OBVIOUS
      <3>1. CASE i \in DOMAIN r.jobs /\ m \in DOMAIN r.jobs
        BY <1>5, <2>1, <3>1 DEF ItemsSound
      <3>2. CASE ~(i \in DOMAIN r.jobs /\ m \in DOMAIN r.jobs)
        BY <1>5, <1>6, <2>2, <3>2
      <3> QED  BY <3>1, <3>2
    <2> QED  BY <2>3, <2>4 DEF ItemsSound
  <1>11. FragmentsSound(D, p, t)
    BY <1>2, <1>3 DEF Sound, FragmentsSound
  <1>12. Sound(D, p, t)
    BY <1>3, <1>7, <1>8, <1>9, <1>10, <1>11 DEF Sound
  <1> QED  BY <1>12 DEF t, u

LEMMA EmitSound ==
  ASSUME NEW D, D \subseteq Name, NEW p \in Peers, NEW k \in D, Sound(D, p, s[p]),
         Stream(p, k).sending \in {"none", "woken"}, Stream(p, k).sends # <<>>,
         Stream(p, k).credit > 0, Stream(p, k).started
  PROVE  Sound(D, p, Emit(p, k))
  <1> DEFINE r == s[p]
             x == Stream(p, k)
             c == x.credit - 1
             tail == Tail(x.sends)
             y == [x EXCEPT !.credit = @ - 1, !.sending = "writing", !.sends = Tail(@)]
             what == IF ~Local(p, k) /\ x.pattern = "unary" THEN "answer" ELSE "item"
             j == Job(what, k, <<k[1], x.wire>>, 0, Head(x.sends), x.sent - Len(x.sends) + 1)
  <1>1. r \in SessionType(D) /\ x \in StreamType /\ StreamSound(p, k, x)
    BY DEF Sound, StreamsSound, SessionType, Stream
  <1>2. /\ c \in Int /\ c >= 0 /\ tail \in Seq(Number) /\ Head(x.sends) \in Number
    <2>1. x.credit \in Int /\ x.sends \in Seq(Number)
      BY <1>1 DEF StreamType
    <2> QED  BY <2>1
  <1>3. Emit(p, k) = Queue([r EXCEPT !.streams[k] = y], j)
    BY DEF Emit
  <1>4. y = [x EXCEPT !.credit = c, !.sending = "writing", !.sends = tail]
    BY <1>1 DEF StreamType
  <1>5. y \in StreamType
    <2> HIDE DEF c, tail, y
    <2> QED  BY <1>1, <1>2, <1>4 DEF StreamType, Sending
  <1>6. /\ y.pattern = x.pattern /\ y.table = x.table /\ y.sending = "writing"
        /\ y.sends = tail /\ y.sent = x.sent /\ y.wire = x.wire /\ y.started = x.started
        /\ y.cancelled = x.cancelled /\ y.outClosed = x.outClosed /\ y.credit = c
    BY <1>1 DEF StreamType
  <1> HIDE DEF y
  <1>7. StreamSound(p, k, y)
    <2>1. x.pattern # "none"
      BY <1>1 DEF StreamSound
    <2>2. Len(y.sends) <= y.sent
      BY <1>1, <1>6 DEF StreamSound, StreamType
    <2> HIDE DEF c, tail
    <2> QED  BY <1>1, <1>2, <1>6, <2>1, <2>2 DEF StreamSound
  <1>8. /\ j \in JobType(D) /\ Carries(j) /\ j.part = 0 /\ j.k = k /\ j.what = what
    <2>1. x.wire \in Number
      BY <1>1 DEF StreamSound, StreamType, Number
    <2>2. <<k[1], x.wire>> \in AnyName
      BY <2>1 DEF Name, AnyName
    <2>3. x.sent - Len(x.sends) + 1 \in Nat
      BY <1>1 DEF StreamSound, StreamType
    <2> HIDE DEF x
    <2> QED  BY <1>2, <2>2, <2>3 DEF Job, JobType, Carries, Kinds, Number
  <1> HIDE DEF j
  <1>9. Sound(D, p, Queue([r EXCEPT !.streams[k] = y], j))
    <2>1. j.what = "item" => Local(p, k) \/ y.pattern # "unary"
      BY <1>6, <1>8
    <2>2. r.streams[k] = x
      BY DEF Stream
    <2>3. r.streams[k].sending \notin {"starting", "writing"}
      BY <2>2
    <2> HIDE DEF x
    <2> QED  BY <1>5, <1>6, <1>7, <1>8, <2>1, <2>2, <2>3, QueueItem
  <1> QED  BY <1>3, <1>9

\* Two streams that differ in nothing the session's order depends on.
Alike(x, y) ==
  /\ y \in StreamType
  /\ y.pattern = x.pattern /\ y.wire = x.wire /\ y.started = x.started
  /\ y.credit = x.credit /\ y.sent = x.sent /\ y.table = x.table
  /\ x.cancelled => y.cancelled
  /\ y.outClosed = x.outClosed /\ y.sending = x.sending /\ y.sends = x.sends

LEMMA AlikeSound ==
  ASSUME NEW D, NEW p \in Peers, NEW r, Sound(D, p, r), NEW k \in D, NEW y,
         Alike(r.streams[k], y)
  PROVE  Sound(D, p, [r EXCEPT !.streams[k] = y])
  <1> DEFINE x == r.streams[k]
  <1>1. x \in StreamType /\ StreamSound(p, k, x)
    BY DEF Sound, StreamsSound, SessionType
  <1>2. StreamSound(p, k, y)
    BY <1>1 DEF Alike, StreamSound
  <1>3. /\ y \in StreamType /\ y.pattern = x.pattern /\ (y.table => x.table)
        /\ (x.sending \in {"starting", "writing"} => y.sending = x.sending)
        /\ (x.sending = "starting" /\ x.sends # <<>> => y.sends # <<>>)
    BY DEF Alike
  <1> HIDE DEF x
  <1> QED  BY <1>2, <1>3, StreamSoundStep DEF x

LEMMA RequestSound ==
  ASSUME NEW D, D \subseteq Name, NEW p \in Peers, NEW k \in D, Sound(D, p, s[p]),
         Live(p, k), NEW t,
         LET x == Stream(p, k)
             rest == IF x.pregranted > 0 THEN 0 ELSE 1
         IN t = CASE rest = 0 -> [s[p] EXCEPT !.streams[k].pregranted = @ - 1]
            [] rest = 1 /\ Local(p, k) /\ ~x.started ->
                 [s[p] EXCEPT !.streams[k].initialDemand = @ + 1]
            [] OTHER -> Queue([s[p] EXCEPT !.streams[k].allowance = @ + 1,
                                           !.streams[k].granted = @ + 1],
                              OnStream(s[p], "demand", k, 1))
  PROVE  Sound(D, p, t)
  <1> DEFINE r == s[p]
             x == Stream(p, k)
             a == x.pregranted - 1
             b == x.initialDemand + 1
             c == x.allowance + 1
             d == x.granted + 1
             ya == [x EXCEPT !.pregranted = a]
             yb == [x EXCEPT !.initialDemand = b]
             yc == [x EXCEPT !.allowance = c, !.granted = d]
             j == OnStream(r, "demand", k, 1)
  <1>1. r \in SessionType(D) /\ x \in StreamType /\ StreamSound(p, k, x) /\ r.streams[k] = x
    BY DEF Sound, StreamsSound, SessionType, Stream
  <1>2. /\ (x.pregranted > 0 => a \in Nat) /\ b \in Nat /\ c \in Nat /\ d \in Nat
    <2>1. x.pregranted \in Nat /\ x.initialDemand \in Nat /\ x.allowance \in Nat /\ x.granted \in Nat
      BY <1>1 DEF StreamType
    <2> QED  BY <2>1
  <1>3. t = IF x.pregranted > 0 THEN [r EXCEPT !.streams[k] = ya]
            ELSE IF Local(p, k) /\ ~x.started THEN [r EXCEPT !.streams[k] = yb]
            ELSE Queue([r EXCEPT !.streams[k] = yc], j)
    <2>1. [s[p] EXCEPT !.streams[k].pregranted = @ - 1] = [r EXCEPT !.streams[k] = ya]
      BY DEF Stream
    <2>2. [s[p] EXCEPT !.streams[k].initialDemand = @ + 1] = [r EXCEPT !.streams[k] = yb]
      BY DEF Stream
    <2>3. [s[p] EXCEPT !.streams[k].allowance = @ + 1, !.streams[k].granted = @ + 1]
            = [r EXCEPT !.streams[k] = yc]
      BY <1>1 DEF Stream, SessionType, StreamType
    <2> HIDE DEF ya, yb, yc, j
    <2> QED  BY <2>1, <2>2, <2>3 DEF j
  <1> HIDE DEF a, b, c, d
  <1>4. (x.pregranted > 0 => Alike(x, ya)) /\ Alike(x, yb) /\ Alike(x, yc)
    BY <1>1, <1>2 DEF Alike, StreamType
  <1> HIDE DEF ya, yb, yc
  <1>5. ~(Local(p, k) /\ ~x.started) => j \in JobType(D) /\ Plain(j)
    <2>1. ~(Local(p, k) /\ ~x.started) => x.wire > 0
      BY <1>1 DEF Live, Stream, StreamSound
    <2>2. "demand" \in Kinds \ {"request", "item", "answer"} /\ 1 \in Nat /\ 1 > 0
      BY DEF Kinds
    <2> QED  BY <1>1, <2>1, <2>2, StreamJob
  <1> HIDE DEF j, x
  <1>6. /\ x.pregranted > 0 => Sound(D, p, [r EXCEPT !.streams[k] = ya])
        /\ Sound(D, p, [r EXCEPT !.streams[k] = yb])
        /\ Sound(D, p, [r EXCEPT !.streams[k] = yc])
    BY <1>1, <1>4, AlikeSound
  <1> QED  BY <1>3, <1>5, <1>6, QueueSound

LEMMA CancellingSound ==
  ASSUME NEW D, D \subseteq Name, NEW p \in Peers, NEW r, NEW k \in D, Sound(D, p, r),
         NEW what \in {"cancel", "error"}
  PROVE  Sound(D, p, Cancelling(r, k, what))
  <1> DEFINE x == r.streams[k]
             y == [x EXCEPT !.cancelled = TRUE]
             m == [r EXCEPT !.streams[k] = y]
             j == OnStream(r, what, k, 0)
  <1>1. r \in SessionType(D) /\ x \in StreamType /\ StreamSound(p, k, x)
    BY DEF Sound, StreamsSound, SessionType
  <1>2. Alike(x, y)
    BY <1>1 DEF Alike, StreamType
  <1>3. Cancelling(r, k, what) = IF x.started THEN Queue(m, j) ELSE Terminate(m, k)
    BY DEF Cancelling
  <1> HIDE DEF y
  <1>4. Sound(D, p, m)
    BY <1>2, AlikeSound
  <1> HIDE DEF m
  <1>5. x.started => j \in JobType(D) /\ Plain(j)
    <2>1. x.started => x.wire > 0
      BY <1>1 DEF StreamSound
    <2>2. what \in Kinds \ {"request", "item", "answer"} /\ 0 \in Nat /\ what # "demand"
      BY DEF Kinds
    <2> QED  BY <1>1, <2>1, <2>2, StreamJob
  <1> HIDE DEF j
  <1> QED  BY <1>3, <1>4, <1>5, QueueSound, TerminateSound

\* What complete() makes of the session.
Completing(p, k, quiet, h) ==
  LET r == [s[p] EXCEPT !.streams[k].completing = TRUE, !.streams[k].hasty = @ \/ h]
  IN IF quiet \/ Stream(p, k).outClosed
     THEN [r EXCEPT !.streams[k] = Retire([@ EXCEPT !.outClosed = TRUE])]
     ELSE Queue(r, OnStream(s[p], "complete", k, 0))

LEMMA CompleteSound ==
  ASSUME NEW D, D \subseteq Name, NEW p \in Peers, NEW k \in D, Sound(D, p, s[p]),
         Live(p, k), ~(Local(p, k) /\ ~Stream(p, k).started), NEW h \in BOOLEAN, NEW quiet
  PROVE  Sound(D, p, Completing(p, k, quiet, h))
  <1> DEFINE t == Completing(p, k, quiet, h)
  <1> DEFINE r == s[p]
             x == Stream(p, k)
             o == x.hasty \/ h
             y == [x EXCEPT !.completing = TRUE, !.hasty = o]
             z == [y EXCEPT !.outClosed = TRUE]
             m == [r EXCEPT !.streams[k] = y]
             j == OnStream(r, "complete", k, 0)
  <1>1. r \in SessionType(D) /\ x \in StreamType /\ StreamSound(p, k, x) /\ r.streams[k] = x
    BY DEF Sound, StreamsSound, SessionType, Stream
  <1>2. o \in BOOLEAN
    OBVIOUS
  <1>3. [s[p] EXCEPT !.streams[k].completing = TRUE, !.streams[k].hasty = @ \/ h] = m
    BY <1>1 DEF Stream, SessionType, StreamType
  <1>4. m.streams[k] = y
    BY <1>1 DEF SessionType
  <1>5. t = IF quiet \/ x.outClosed THEN [m EXCEPT !.streams[k] = Retire(z)]
            ELSE Queue(m, j)
    <2> DEFINE r0 == [s[p] EXCEPT !.streams[k].completing = TRUE, !.streams[k].hasty = @ \/ h]
    <2>1. t = IF quiet \/ x.outClosed
              THEN [r0 EXCEPT !.streams[k] = Retire([r0.streams[k] EXCEPT !.outClosed = TRUE])]
              ELSE Queue(r0, j)
      BY DEF Completing
    <2>2. r0 = m
      BY <1>3
    <2> HIDE DEF r0, m, y, j
    <2>3. t = IF quiet \/ x.outClosed
              THEN [m EXCEPT !.streams[k] = Retire([m.streams[k] EXCEPT !.outClosed = TRUE])]
              ELSE Queue(m, j)
      BY ONLY <2>1, <2>2
    <2> QED  BY ONLY <1>4, <2>3 DEF z
  <1> HIDE DEF o, t
  <1>6. Alike(x, y)
    BY <1>1, <1>2 DEF Alike, StreamType
  <1> HIDE DEF y
  <1>7. Sound(D, p, m)
    BY <1>1, <1>6, AlikeSound
  <1> HIDE DEF m
  <1>8. y \in StreamType /\ StreamSound(p, k, y)
    BY <1>4, <1>7 DEF Sound, StreamsSound, SessionType
  <1>9. z \in StreamType /\ StreamSound(p, k, z) /\ z.pattern = y.pattern /\ z.table = y.table
        /\ z.sending = y.sending /\ z.sends = y.sends
    BY <1>8 DEF StreamSound, StreamType
  <1> HIDE DEF z
  <1> DEFINE w == Retire(z)
  <1>10. Quieter(z, w)
    BY <1>9, RetireQuieter
  <1> HIDE DEF w
  <1>11. w \in StreamType /\ StreamSound(p, k, w) /\ w.pattern = y.pattern /\ (w.table => y.table)
         /\ (y.sending \in {"starting", "writing"} => w.sending = y.sending)
         /\ (y.sending = "starting" /\ y.sends # <<>> => w.sends # <<>>)
    BY <1>9, <1>10, QuieterSound DEF Quieter
  <1>12. Sound(D, p, [m EXCEPT !.streams[k] = w])
    BY <1>4, <1>7, <1>11, StreamSoundStep
  <1>13. j \in JobType(D) /\ Plain(j)
    <2>1. x.wire > 0
      BY <1>1 DEF Live, Stream, StreamSound
    <2>2. "complete" \in Kinds \ {"request", "item", "answer"} /\ 0 \in Nat
      BY DEF Kinds
    <2> QED  BY <1>1, <2>1, <2>2, StreamJob
  <1> HIDE DEF j
  <1>14. Sound(D, p, t)
    BY <1>5, <1>7, <1>12, <1>13, QueueSound DEF w
  <1> QED  BY <1>14 DEF t

LEMMA SendSound ==
  ASSUME NEW D, NEW p \in Peers, NEW k \in D, Sound(D, p, s[p]), Live(p, k),
         NEW size \in Number
  PROVE  LET x == Stream(p, k)
         IN Sound(D, p, [s[p] EXCEPT !.streams[k] =
              [x EXCEPT !.sends = Append(@, size), !.sent = @ + 1, !.hasty = @ \/ x.completing]])
  <1> DEFINE r == s[p]
             x == Stream(p, k)
             a == Append(x.sends, size)
             n == x.sent + 1
             o == x.hasty \/ x.completing
             y == [x EXCEPT !.sends = Append(@, size), !.sent = @ + 1, !.hasty = @ \/ x.completing]
  <1>1. r \in SessionType(D) /\ x \in StreamType /\ StreamSound(p, k, x) /\ r.streams[k] = x
        /\ x.pattern # "none"
    BY DEF Sound, StreamsSound, SessionType, Stream, Live
  <1>2. a \in Seq(Number) /\ n \in Nat /\ o \in BOOLEAN /\ a # <<>> /\ Len(a) <= n
    BY <1>1 DEF StreamType, StreamSound
  <1>3. y = [x EXCEPT !.sends = a, !.sent = n, !.hasty = o]
    BY <1>1 DEF StreamType
  <1> HIDE DEF a, n, o, y
  <1>4. y \in StreamType
    BY <1>1, <1>2, <1>3 DEF StreamType
  <1>5. /\ y.pattern = x.pattern /\ y.table = x.table /\ y.sending = x.sending
        /\ y.sends = a /\ y.sent = n /\ y.wire = x.wire /\ y.started = x.started
        /\ y.cancelled = x.cancelled /\ y.outClosed = x.outClosed /\ y.credit = x.credit
    BY <1>1, <1>3 DEF StreamType
  <1>6. StreamSound(p, k, y)
    BY <1>1, <1>2, <1>5 DEF StreamSound
  <1> HIDE DEF x
  <1>7. Sound(D, p, [r EXCEPT !.streams[k] = y])
    BY <1>1, <1>2, <1>4, <1>5, <1>6, StreamSoundStep
  <1> QED  BY <1>7 DEF y, x

\* A stream waits for its request to be written.
StartQueued(r, k) ==
  [r EXCEPT !.streams[k].sending = "starting", !.starts = Append(@, k)]

LEMMA StartQueuedSound ==
  ASSUME NEW D, NEW p \in Peers, NEW r, Sound(D, p, r), NEW k \in D, Local(p, k),
         r.streams[k].sending = "none", r.streams[k].sends # <<>>, ~r.streams[k].started
  PROVE  Sound(D, p, StartQueued(r, k))
  <1> DEFINE x == r.streams[k]
             y == [x EXCEPT !.sending = "starting"]
             a == Append(r.starts, k)
             u == [r EXCEPT !.streams[k] = y]
             t == [u EXCEPT !.starts = a]
  <1>1. r \in SessionType(D) /\ x \in StreamType /\ StreamSound(p, k, x)
    BY DEF Sound, StreamsSound, SessionType
  <1>2. t = StartQueued(r, k)
    BY <1>1 DEF SessionType, StartQueued
  <1>3. /\ y \in StreamType /\ y.sending = "starting" /\ y.pattern = x.pattern
        /\ y.sends = x.sends /\ y.table = x.table
    BY <1>1 DEF StreamType, Sending
  <1>4. StreamSound(p, k, y)
    BY <1>1 DEF StreamSound, StreamType
  <1> HIDE DEF y, t
  <1>5. Sound(D, p, u)
    BY <1>3, <1>4, StreamSoundStep
  <1>6. /\ u \in SessionType(D)
        /\ u.streams[k] = y /\ \A j \in D \ {k} : u.streams[j] = r.streams[j]
        /\ u.starts = r.starts /\ u.starting = r.starting
        /\ u.jobs = r.jobs /\ u.next = r.next
    <2> HIDE DEF x
    <2>1. r \in SessionType(D) /\ k \in D /\ y \in StreamType
      BY <1>1, <1>3
    <2> QED  BY ONLY <2>1, StreamFields DEF u
  <1> HIDE DEF u
  <1>7. u \in SessionType(D) /\ r.starts \in Seq(D)
    BY <1>1, <1>5 DEF Sound, SessionType
  <1>8. a \in Seq(D)
    BY <1>7
  <1>9. /\ DOMAIN a = 1..(Len(r.starts) + 1) /\ DOMAIN r.starts = 1..Len(r.starts)
        /\ Len(r.starts) \in Nat
        /\ a[Len(r.starts) + 1] = k
        /\ \A i \in DOMAIN r.starts : a[i] = r.starts[i] /\ r.starts[i] \in D
        /\ a # <<>>
    <2>1. r.starts \in Seq(D) /\ k \in D
      BY <1>7
    <2> QED  BY ONLY <2>1 DEF a
  <1> HIDE DEF a
  <1>10. /\ t \in SessionType(D) /\ t.starts = a /\ t.starting = u.starting
         /\ t.next = u.next /\ t.highest = u.highest /\ t.jobs = u.jobs
         /\ t.writing = u.writing /\ t.streams = u.streams /\ t.fragments = u.fragments
         /\ t.lane = u.lane /\ t.state = u.state
    BY <1>7, <1>8 DEF SessionType, t
  <1>11. StreamsSound(D, p, t) /\ FragmentsSound(D, p, t) /\ LaneSound(t)
    BY <1>5, <1>10 DEF Sound, StreamsSound, FragmentsSound, LaneSound, Over
  <1>12. JobsSound(t) /\ ItemsSound(D, p, t)
    BY <1>5, <1>10 DEF Sound, JobsSound, ItemsSound
  <1>13. StartsSound(D, p, t)
    <2>1. StartsSound(D, p, r) /\ StartsSound(D, p, u)
      BY <1>5 DEF Sound
    <2>2. \A i \in DOMAIN r.starts : r.starts[i] # k
      BY <2>1 DEF StartsSound
    <2>3. \A i \in DOMAIN a : i \in DOMAIN r.starts \/ (i = Len(r.starts) + 1 /\ a[i] = k)
      BY <1>9
    <2>4. \A i \in DOMAIN t.starts :
            /\ Local(p, t.starts[i])
            /\ t.streams[t.starts[i]].sending = "starting"
            /\ (i = 1 /\ t.starting) \/ t.streams[t.starts[i]].sends # <<>>
      <3> TAKE i \in DOMAIN t.starts
      <3>1. CASE i \in DOMAIN r.starts
        BY <1>6, <1>9, <1>10, <2>1, <3>1 DEF StartsSound
      <3>2. CASE a[i] = k
        BY <1>3, <1>6, <1>10, <3>2
      <3> QED  BY <1>10, <2>3, <3>1, <3>2
    <2>5. \A i, m \in DOMAIN t.starts : t.starts[i] = t.starts[m] => i = m
      <3> SUFFICES ASSUME NEW i \in DOMAIN a, NEW m \in DOMAIN a, a[i] = a[m]
                   PROVE  i = m
        BY <1>10
      <3>1. CASE i \in DOMAIN r.starts /\ m \in DOMAIN r.starts
        BY <1>9, <2>1, <3>1 DEF StartsSound
      <3>2. CASE ~(i \in DOMAIN r.starts /\ m \in DOMAIN r.starts)
        BY <1>9, <2>2, <2>3, <3>2
      <3> QED  BY <3>1, <3>2
    <2>6. r.starting => r.starts # <<>>
      BY <2>1 DEF StartsSound
    <2>7. r.starting => 1 \in DOMAIN r.starts
      BY <1>9, <2>6, <1>7
    <2>8. \A i \in DOMAIN u.jobs : u.jobs[i].what = "request" =>
            t.starting /\ u.jobs[i].k = a[1] /\ u.jobs[i].wire = <<p, t.next>>
      BY <1>6, <1>9, <1>10, <2>1, <2>7 DEF StartsSound
    <2> QED  BY <1>9, <1>10, <2>1, <2>4, <2>5, <2>8 DEF StartsSound
  <1>14. Sound(D, p, t)
    BY <1>10, <1>11, <1>12, <1>13 DEF Sound
  <1> QED  BY <1>2, <1>14

LEMMA BeginSendSound ==
  ASSUME NEW D, D \subseteq Name, NEW p \in Peers, NEW k \in D, Sound(D, p, s[p]),
         Stream(p, k).sends # <<>>, Stream(p, k).sending = "none", NEW t,
         t = IF s[p].state # "ready" \/ Stream(p, k).cancelled \/ Stream(p, k).outClosed
             THEN [s[p] EXCEPT !.streams[k].sends = Tail(@)]
             ELSE IF Local(p, k) /\ ~Stream(p, k).started
             THEN [s[p] EXCEPT !.streams[k].sending = "starting", !.starts = Append(@, k)]
             ELSE IF NeedsCredit(p, k, Stream(p, k)) /\ Stream(p, k).credit = 0
             THEN [s[p] EXCEPT !.streams[k].sending = "credit"]
             ELSE Emit(p, k)
  PROVE  Sound(D, p, t)
  <1> DEFINE r == s[p]
             x == Stream(p, k)
             rejected == r.state # "ready" \/ x.cancelled \/ x.outClosed
             starts == Local(p, k) /\ ~x.started
             waits == NeedsCredit(p, k, x) /\ x.credit = 0
             ya == [x EXCEPT !.sends = Tail(@)]
             yb == [x EXCEPT !.sending = "credit"]
  <1>1. r \in SessionType(D) /\ x \in StreamType /\ StreamSound(p, k, x) /\ r.streams[k] = x
    BY DEF Sound, StreamsSound, SessionType, Stream
  <1>2. /\ rejected => t = [r EXCEPT !.streams[k].sends = Tail(@)]
        /\ ~rejected /\ starts => t = [r EXCEPT !.streams[k].sending = "starting",
                                                !.starts = Append(@, k)]
        /\ ~rejected /\ ~starts /\ waits => t = [r EXCEPT !.streams[k].sending = "credit"]
        /\ ~rejected /\ ~starts /\ ~waits => t = Emit(p, k)
    OBVIOUS
  <1>3. CASE rejected
    <2>1. x.sends \in Seq(Number) /\ x.sends # <<>> /\ x.sent \in Nat /\ Len(x.sends) <= x.sent
      BY <1>1 DEF StreamSound, StreamType
    <2>2. Tail(x.sends) \in Seq(Number) /\ Len(Tail(x.sends)) <= x.sent
      BY <2>1
    <2>3. /\ ya \in StreamType /\ ya.sending = "none" /\ ya.pattern = x.pattern
          /\ ya.table = x.table /\ ya.sends = Tail(x.sends) /\ ya.sent = x.sent
          /\ ya.credit = x.credit /\ ya.started = x.started /\ ya.wire = x.wire
          /\ ya.cancelled = x.cancelled /\ ya.outClosed = x.outClosed
          /\ x.sending = "none"
      BY <1>1, <2>2 DEF StreamType
    <2>4. t = [r EXCEPT !.streams[k] = ya]
      BY <1>2, <1>3 DEF Stream
    <2> HIDE DEF ya
    <2>5. StreamSound(p, k, ya)
      <3>1. x.pattern # "none"
        BY <1>1 DEF StreamSound
      <3> HIDE DEF x
      <3> QED  BY <1>1, <2>2, <2>3, <3>1 DEF StreamSound
    <2> HIDE DEF x
    <2>6. Sound(D, p, [r EXCEPT !.streams[k] = ya])
      BY <1>1, <2>3, <2>5, StreamSoundStep DEF x
    <2> QED  BY <2>4, <2>6
  <1>4. CASE ~rejected /\ starts
    <2>1. t = StartQueued(r, k)
      BY <1>2, <1>4 DEF StartQueued
    <2>2. Local(p, k) /\ r.streams[k].sending = "none" /\ r.streams[k].sends # <<>>
          /\ ~r.streams[k].started
      BY <1>1, <1>4
    <2> HIDE DEF x
    <2> QED  BY <2>1, <2>2, StartQueuedSound
  <1>5. CASE ~rejected /\ ~starts /\ waits
    <2>1. /\ yb \in StreamType /\ yb.sending = "credit" /\ yb.pattern = x.pattern
          /\ yb.table = x.table /\ yb.sends = x.sends /\ yb.sent = x.sent
          /\ yb.credit = x.credit /\ yb.started = x.started /\ yb.wire = x.wire
          /\ yb.cancelled = x.cancelled /\ yb.outClosed = x.outClosed
      BY <1>1 DEF StreamType, Sending
    <2>2. t = [r EXCEPT !.streams[k] = yb]
      BY <1>2, <1>5 DEF Stream
    <2> HIDE DEF yb
    <2>3. StreamSound(p, k, yb)
      <3>1. x.pattern # "none" /\ ~(~Local(p, k) /\ x.pattern = "unary") /\ x.started
        BY <1>1, <1>5 DEF StreamSound, NeedsCredit
      <3>2. x.credit = 0
        BY <1>5
      <3>3. x.sends # <<>>
        OBVIOUS
      <3> HIDE DEF x
      <3> QED  BY <1>1, <2>1, <3>1, <3>2, <3>3 DEF StreamSound
    <2> HIDE DEF x
    <2>4. Sound(D, p, [r EXCEPT !.streams[k] = yb])
      BY <1>1, <2>1, <2>3, StreamSoundStep DEF x
    <2> QED  BY <2>2, <2>4
  <1>6. CASE ~rejected /\ ~starts /\ ~waits
    <2>1. x.pattern \in Patterns /\ ~x.cancelled /\ ~x.outClosed /\ x.credit \in Int
      BY <1>1, <1>6 DEF StreamType, StreamSound
    <2>2. x.started
      BY <1>1, <1>6, <2>1 DEF StreamSound
    <2>3. x.credit > 0
      <3>1. CASE NeedsCredit(p, k, x)
        BY <1>1, <1>6, <2>1, <3>1 DEF StreamSound
      <3>2. CASE ~NeedsCredit(p, k, x)
        BY <1>1, <2>1, <2>2, <3>2 DEF StreamSound, NeedsCredit, Patterns
      <3> QED  BY <3>1, <3>2
    <2> HIDE DEF x
    <2>4. Sound(D, p, Emit(p, k))
      BY <2>2, <2>3, EmitSound DEF x
    <2> QED  BY <1>2, <1>6, <2>4
  <1> QED  BY <1>3, <1>4, <1>5, <1>6

\* A request is given to the queue: it takes the next id.
Started(r, p, k, y, j) ==
  Queue([r EXCEPT !.starting = TRUE, !.streams[k] = y], j)

LEMMA StartedSound ==
  ASSUME NEW D, NEW p \in Peers, NEW r, Sound(D, p, r), r.starts # <<>>, ~r.starting,
         NEW k, k = Head(r.starts), NEW y \in StreamType, StreamSound(p, k, y),
         y.pattern = r.streams[k].pattern, y.sending = "starting",
         NEW j \in JobType(D), j.what = "request", j.part = 0, j.k = k, j.wire = <<p, r.next>>
  PROVE  Sound(D, p, Started(r, p, k, y, j))
  <1> DEFINE u == [r EXCEPT !.starting = TRUE, !.streams[k] = y]
             t == Queue(u, j)
  <1>1. r \in SessionType(D)
    BY DEF Sound
  <1>2. r.starts \in Seq(D) /\ r.streams \in [D -> StreamType] /\ r.jobs \in Seq(JobType(D))
    BY <1>1 DEF SessionType
  <1>3. k = r.starts[1] /\ 1 \in DOMAIN r.starts /\ k \in D
    BY <1>2
  <1>4. Local(p, k) /\ r.streams[k].sending = "starting"
    BY <1>3 DEF Sound, StartsSound
  <1>5. u \in SessionType(D)
    <2> DEFINE a == [r EXCEPT !.starting = TRUE]
    <2>1. a \in SessionType(D)
      BY <1>1 DEF SessionType
    <2>2. u = [a EXCEPT !.streams[k] = y]
      OBVIOUS
    <2> HIDE DEF a, u
    <2> QED  BY <1>3, <2>1, <2>2, StreamFields
  <1>6. /\ u.streams = [r.streams EXCEPT ![k] = y] /\ u.starting /\ u.starts = r.starts
        /\ u.next = r.next /\ u.highest = r.highest /\ u.jobs = r.jobs
        /\ u.writing = r.writing /\ u.fragments = r.fragments /\ u.lane = r.lane
        /\ u.state = r.state
    BY <1>1 DEF SessionType
  <1> HIDE DEF u
  <1>7. /\ t \in SessionType(D) /\ t.jobs = Append(r.jobs, j)
        /\ t.starts = r.starts /\ t.starting /\ t.next = r.next /\ t.highest = r.highest
        /\ t.writing = r.writing /\ t.streams = u.streams
        /\ t.fragments = r.fragments /\ t.lane = r.lane /\ t.state = r.state
    BY <1>5, <1>6, QueueFields
  <1>8. t.streams[k] = y /\ \A i \in D \ {k} : t.streams[i] = r.streams[i]
    BY <1>2, <1>3, <1>6, <1>7
  <1> HIDE DEF t
  <1>9. /\ DOMAIN t.jobs = 1..(Len(r.jobs) + 1) /\ DOMAIN r.jobs = 1..Len(r.jobs)
        /\ Len(r.jobs) \in Nat
        /\ t.jobs[Len(r.jobs) + 1] = j
        /\ \A i \in DOMAIN r.jobs : t.jobs[i] = r.jobs[i]
        /\ t.jobs # <<>>
    <2>1. r.jobs \in Seq(JobType(D)) /\ t.jobs = Append(r.jobs, j)
      BY <1>2, <1>7
    <2> QED  BY ONLY <2>1
  <1>10. \A i \in DOMAIN t.jobs : i \in DOMAIN r.jobs \/ (i = Len(r.jobs) + 1 /\ t.jobs[i] = j)
    BY <1>9
  <1>11. StreamsSound(D, p, t) /\ LaneSound(t)
    BY <1>4, <1>7, <1>8 DEF Sound, StreamsSound, LaneSound, Over
  <1>12. StartsSound(D, p, t)
    <2>1. StartsSound(D, p, r)
      BY DEF Sound
    <2>2. \A i \in DOMAIN r.starts : r.starts[i] \in D /\ (i # 1 => r.starts[i] # k)
      BY <1>2, <1>3, <2>1 DEF StartsSound
    <2>3. \A i \in DOMAIN t.starts :
            /\ Local(p, t.starts[i])
            /\ t.streams[t.starts[i]].sending = "starting"
            /\ (i = 1 /\ t.starting) \/ t.streams[t.starts[i]].sends # <<>>
      <3> TAKE i \in DOMAIN t.starts
      <3>1. CASE i = 1
        BY <1>3, <1>4, <1>7, <1>8, <3>1
      <3>2. CASE i # 1
        BY <1>7, <1>8, <2>1, <2>2, <3>2 DEF StartsSound
      <3> QED  BY <3>1, <3>2
    <2>4. \A i, m \in DOMAIN t.starts : t.starts[i] = t.starts[m] => i = m
      BY <1>7, <2>1 DEF StartsSound
    <2>5. \A i \in DOMAIN r.jobs : r.jobs[i].what # "request"
      BY <2>1 DEF StartsSound
    <2>6. \A i \in DOMAIN t.jobs : t.jobs[i].what = "request" =>
            /\ i = Len(r.jobs) + 1
            /\ t.starting /\ t.jobs[i].k = t.starts[1] /\ t.jobs[i].wire = <<p, t.next>>
      BY <1>3, <1>7, <1>9, <1>10, <2>5
    <2> QED  BY <1>7, <2>3, <2>4, <2>6 DEF StartsSound
  <1>13. JobsSound(t)
    <2>1. j.size \in Number
      BY DEF JobType
    <2>2. r.writing => 1 \in DOMAIN r.jobs
      BY <1>2 DEF Sound, JobsSound
    <2>3. JobsSound(r)
      BY DEF Sound
    <2> QED  BY <1>7, <1>9, <1>10, <2>1, <2>2, <2>3 DEF JobsSound, Number
  <1>14. ItemsSound(D, p, t)
    <2>1. ItemsSound(D, p, r)
      BY DEF Sound
    <2>2. ~Carries(j)
      BY DEF Carries
    <2>3. \A i \in DOMAIN t.jobs : Carries(t.jobs[i]) => i \in DOMAIN r.jobs /\ t.jobs[i] = r.jobs[i]
      BY <1>9, <1>10, <2>2
    <2>4. \A i \in DOMAIN r.jobs : Carries(r.jobs[i]) => r.jobs[i].k # k
      BY <1>4, <2>1 DEF ItemsSound
    <2> QED  BY <1>8, <2>1, <2>3, <2>4 DEF ItemsSound
  <1>15. FragmentsSound(D, p, t)
    BY <1>7, <1>8 DEF Sound, FragmentsSound
  <1>16. Sound(D, p, t)
    BY <1>7, <1>11, <1>12, <1>13, <1>14, <1>15 DEF Sound
  <1> QED  BY <1>16 DEF t, u, Started

RequestDemand(x) ==
  IF x.pattern \in {"server-stream", "duplex"} THEN 1 + x.initialDemand
  ELSE IF x.pattern = "unary" THEN 1 ELSE 0
Requested(r, x) ==
  [x EXCEPT !.wire = r.next, !.started = TRUE, !.table = TRUE,
            !.outClosed = @ \/ x.pattern # "duplex",
            !.inClosed = @ \/ x.pattern = "notify",
            !.allowance = RequestDemand(x), !.granted = RequestDemand(x), !.sends = Tail(@),
            !.revived = x.cancelled \/ r.reason # "none"]
RequestJob(r, p, k, x) == Job("request", k, <<p, r.next>>, RequestDemand(x), Head(x.sends), 1)

LEMMA StartRequestSound ==
  ASSUME NEW D, D \subseteq Name, NEW p \in Peers, NEW r, Sound(D, p, r),
         r.starts # <<>>, ~r.starting
  PROVE  LET k == Head(r.starts)
             x == r.streams[k]
         IN /\ Sound(D, p, Started(r, p, k, Requested(r, x), RequestJob(r, p, k, x)))
            /\ x \in StreamType /\ k \in D /\ x.pattern # "none" /\ Local(p, k)
            /\ Requested(r, x) \in StreamType /\ RequestJob(r, p, k, x) \in JobType(D)
            /\ Requested(r, x).pattern = x.pattern
  <1> DEFINE k == Head(r.starts)
             x == r.streams[k]
             y == Requested(r, x)
             j == RequestJob(r, p, k, x)
             demand == RequestDemand(x)
  <1>1. r \in SessionType(D)
    BY DEF Sound
  <1>2. r.starts \in Seq(D) /\ r.streams \in [D -> StreamType] /\ r.next \in Number
    BY <1>1 DEF SessionType
  <1>3. k = r.starts[1] /\ 1 \in DOMAIN r.starts /\ k \in D
    BY <1>2
  <1>4. Local(p, k) /\ x.sending = "starting" /\ x.sends # <<>>
    BY <1>3 DEF Sound, StartsSound
  <1>5. x \in StreamType /\ StreamSound(p, k, x)
    BY <1>2, <1>3 DEF Sound, StreamsSound
  <1>6. /\ x.sends \in Seq(Number) /\ x.initialDemand \in Nat /\ x.sent \in Nat
        /\ Len(x.sends) <= x.sent
    BY <1>5 DEF StreamType, StreamSound
  <1>7. Tail(x.sends) \in Seq(Number) /\ Head(x.sends) \in Number /\ Len(Tail(x.sends)) <= x.sent
    BY <1>4, <1>6
  <1>8. demand \in Nat
    <2>1. 1 + x.initialDemand \in Nat
      BY <1>6
    <2> QED  BY <2>1 DEF RequestDemand
  <1> HIDE DEF demand
  <1> DEFINE o == x.outClosed \/ x.pattern # "duplex"
             i == x.inClosed \/ x.pattern = "notify"
             v == x.cancelled \/ r.reason # "none"
             tail == Tail(x.sends)
             a == [x EXCEPT !.wire = r.next, !.started = TRUE, !.table = TRUE]
             b == [a EXCEPT !.outClosed = o, !.inClosed = i]
             c == [b EXCEPT !.allowance = demand, !.granted = demand]
             d == [c EXCEPT !.sends = tail, !.revived = v]
  <1>9. d = Requested(r, x)
    BY <1>5 DEF StreamType, Requested, demand
  <1>10. o \in BOOLEAN /\ i \in BOOLEAN /\ v \in BOOLEAN /\ (x.pattern # "duplex" => o)
    OBVIOUS
  <1> HIDE DEF o, i, v
  <1>11. /\ a \in StreamType /\ a.wire = r.next /\ a.started
         /\ a.pattern = x.pattern /\ a.credit = x.credit /\ a.sending = x.sending
         /\ a.sent = x.sent /\ a.sends = x.sends
    BY <1>2, <1>5 DEF StreamType, Number
  <1> HIDE DEF a
  <1>12. /\ b \in StreamType /\ b.wire = a.wire /\ b.started = a.started /\ b.outClosed = o
         /\ b.pattern = a.pattern /\ b.credit = a.credit /\ b.sending = a.sending
         /\ b.sent = a.sent
    BY <1>10, <1>11 DEF StreamType
  <1> HIDE DEF b
  <1>13. /\ c \in StreamType /\ c.wire = b.wire /\ c.started = b.started /\ c.outClosed = b.outClosed
         /\ c.pattern = b.pattern /\ c.credit = b.credit /\ c.sending = b.sending
         /\ c.sent = b.sent
    BY <1>8, <1>12 DEF StreamType
  <1> HIDE DEF c
  <1>14. tail \in Seq(Number) /\ Len(tail) <= x.sent
    BY <1>7
  <1> HIDE DEF tail
  <1>15. /\ d \in StreamType /\ d.wire = c.wire /\ d.started = c.started /\ d.outClosed = c.outClosed
         /\ d.pattern = c.pattern /\ d.credit = c.credit /\ d.sending = c.sending
         /\ d.sent = c.sent /\ d.sends = tail
    BY <1>10, <1>13, <1>14 DEF StreamType
  <1> HIDE DEF d
  <1>16. StreamSound(p, k, d)
    <2>1. /\ d.wire \in Number /\ d.started /\ d.outClosed = o /\ d.pattern = x.pattern
          /\ d.credit = x.credit /\ d.sending = "starting" /\ d.sent = x.sent
      BY <1>2, <1>4, <1>11, <1>12, <1>13, <1>15
    <2>2. x.pattern # "none"
      BY <1>4, <1>5 DEF StreamSound
    <2> QED  BY <1>4, <1>5, <1>10, <1>14, <1>15, <2>1, <2>2 DEF StreamSound, Number
  <1>17. /\ j \in JobType(D) /\ j.what = "request" /\ j.part = 0 /\ j.k = k
         /\ j.wire = <<p, r.next>>
    <2>1. <<p, r.next>> \in AnyName
      BY <1>2 DEF AnyName, Name
    <2> HIDE DEF x, k
    <2> QED  BY <1>3, <1>7, <1>8, <2>1 DEF RequestJob, demand, Job, JobType, Kinds, Number
  <1> HIDE DEF j
  <1>18. y \in StreamType /\ StreamSound(p, k, y) /\ y.pattern = x.pattern /\ y.sending = "starting"
         /\ x.pattern # "none"
    <2>1. x.pattern # "none"
      BY <1>4, <1>5 DEF StreamSound
    <2> QED  BY <1>4, <1>9, <1>11, <1>12, <1>13, <1>15, <1>16, <2>1
  <1> HIDE DEF x, y
  <1>19. Sound(D, p, Started(r, p, k, y, j))
    BY <1>17, <1>18, StartedSound DEF x
  <1> QED  BY <1>3, <1>4, <1>5, <1>17, <1>18, <1>19 DEF x, y, j

Opened(r, k, pattern) ==
  [r EXCEPT !.streams[k] =
     [@ EXCEPT !.pattern = pattern, !.pending = TRUE,
               !.pregranted = IF pattern = "notify" THEN 0 ELSE 1]]

LEMMA OpenedSound ==
  ASSUME NEW D, NEW p \in Peers, NEW r, Sound(D, p, r), NEW k \in D, Local(p, k),
         r.streams[k].pattern = "none", NEW pattern \in Patterns,
         \A j \in D : Local(p, j) => (r.streams[j].pattern # "none" <=> j[2] < k[2]),
         \A j \in D : j[2] \in Nat /\ (Local(p, j) /\ j[2] = k[2] => j = k)
  PROVE  Sound(D, p, Opened(r, k, pattern))
  <1> DEFINE x == r.streams[k]
             n == IF pattern = "notify" THEN 0 ELSE 1
             a == [x EXCEPT !.pattern = pattern, !.pending = TRUE]
             y == [a EXCEPT !.pregranted = n]
             t == [r EXCEPT !.streams[k] = y]
  <1>1. r \in SessionType(D) /\ x \in StreamType /\ StreamSound(p, k, x)
    BY DEF Sound, StreamsSound, SessionType
  <1>2. t = Opened(r, k, pattern)
    BY <1>1 DEF Opened, SessionType
  <1>3. n \in Nat
    OBVIOUS
  <1> HIDE DEF n
  <1>4. a \in StreamType /\ a.pattern = pattern /\ a.sending = x.sending /\ a.sends = x.sends
        /\ a.table = x.table /\ a.started = x.started /\ a.sent = x.sent /\ a.credit = x.credit
        /\ a.wire = x.wire
    BY <1>1 DEF StreamType
  <1> HIDE DEF a
  <1>5. y \in StreamType /\ y.pattern = pattern /\ y.sending = x.sending /\ y.sends = x.sends
        /\ y.table = x.table /\ y.started = x.started /\ y.sent = x.sent /\ y.credit = x.credit
        /\ y.wire = x.wire
    BY <1>3, <1>4 DEF StreamType
  <1> HIDE DEF y
  <1>6. x.sending = "none" /\ ~x.started /\ pattern # "none"
    BY <1>1 DEF StreamSound, Patterns
  <1>7. StreamSound(p, k, y)
    BY <1>1, <1>5, <1>6 DEF StreamSound
  <1> HIDE DEF x
  <1>8. /\ t \in SessionType(D)
        /\ t.streams[k] = y /\ \A j \in D \ {k} : t.streams[j] = r.streams[j]
        /\ t.starts = r.starts /\ t.starting = r.starting
        /\ t.next = r.next /\ t.highest = r.highest
        /\ t.writing = r.writing /\ t.jobs = r.jobs
        /\ t.fragments = r.fragments /\ t.lane = r.lane /\ t.state = r.state
    BY <1>1, <1>5, StreamFields
  <1> HIDE DEF t
  <1>9. StreamsSound(D, p, t)
    <2>1. StreamsSound(D, p, r)
      BY DEF Sound
    <2>2. \A i \in D : StreamSound(p, i, t.streams[i])
      BY <1>7, <1>8, <2>1 DEF StreamsSound
    <2>3. ~t.lane => \A i \in D : ~Local(p, i) => ~t.streams[i].table
      BY <1>8, <2>1 DEF StreamsSound
    <2>4. \A i \in D : ~Local(p, i) /\ t.streams[i].pattern # "none" => i[2] <= t.highest
      BY <1>8, <2>1 DEF StreamsSound
    <2>5. \A i, j \in D : (Local(p, i) /\ Local(p, j) /\ i[2] <= j[2]
                           /\ t.streams[j].pattern # "none") => t.streams[i].pattern # "none"
      <3> SUFFICES ASSUME NEW i \in D, NEW j \in D, Local(p, i), Local(p, j), i[2] <= j[2],
                          t.streams[j].pattern # "none"
                   PROVE  t.streams[i].pattern # "none"
        OBVIOUS
      <3>1. j[2] <= k[2]
        BY <1>8
      <3>2. i = k \/ i[2] < k[2]
        BY <3>1
      <3> QED  BY <1>5, <1>6, <1>8, <3>2
    <2> QED  BY <2>2, <2>3, <2>4, <2>5 DEF StreamsSound
  <1>10. StartsSound(D, p, t)
    <2>1. StartsSound(D, p, r)
      BY DEF Sound
    <2>2. \A i \in DOMAIN r.starts : r.starts[i] \in D /\ r.starts[i] # k
      BY <1>1, <1>6, <2>1 DEF SessionType, StartsSound, x
    <2> QED  BY <1>8, <2>1, <2>2 DEF StartsSound
  <1>11. JobsSound(t) /\ LaneSound(t)
    BY <1>8 DEF Sound, JobsSound, LaneSound, Over
  <1>12. ItemsSound(D, p, t)
    <2>1. ItemsSound(D, p, r)
      BY DEF Sound
    <2>2. \A i \in DOMAIN r.jobs : Carries(r.jobs[i]) => r.jobs[i].k # k
      BY <1>6, <2>1 DEF ItemsSound, x
    <2> QED  BY <1>8, <2>1, <2>2 DEF ItemsSound
  <1>13. FragmentsSound(D, p, t)
    <2>1. FragmentsSound(D, p, r)
      BY DEF Sound
    <2>2. k[1] = p
      BY DEF Local
    <2> QED  BY <1>8, <2>1, <2>2 DEF FragmentsSound
  <1>14. Sound(D, p, t)
    BY <1>8, <1>9, <1>10, <1>11, <1>12, <1>13 DEF Sound
  <1> QED  BY <1>2, <1>14

\* The number of streams peer p has opened is that of the last one.
LEMMA OpenSound ==
  ASSUME NEW c \in DOMAIN Configurations, NEW p \in Peers, NEW r, Sound(Names(c), p, r),
         NEW k, k \in Names(c),
         k = <<p, 1 + Cardinality({j \in Names(c) : Local(p, j) /\ r.streams[j].pattern # "none"})>>,
         NEW pattern \in Patterns
  PROVE  /\ Sound(Names(c), p, Opened(r, k, pattern))
         /\ r.streams[k].pattern = "none"
         /\ \A j \in Names(c) : Local(p, j) => (r.streams[j].pattern # "none" <=> j[2] < k[2])
  <1> DEFINE D == Names(c)
             L == {j \in D : Local(p, j) /\ r.streams[j].pattern # "none"}
             m == Cardinality(L)
             n == Len(Configurations[c].requests[p])
             U(i) == {p} \X (1..i)
  <1>1. n \in Nat
    BY NamesAreNames
  <1>2. \A j \in D : Local(p, j) <=> j \in U(n)
    BY DEF Names, Local, Peers
  <1>3. U(n) \subseteq D
    BY DEF Names
  <1>4. \A i \in Nat : IsFiniteSet(U(i)) /\ Cardinality(U(i)) = i
    <2> TAKE i \in Nat
    <2>1. IsFiniteSet({p}) /\ Cardinality({p}) = 1
      BY FS_Singleton
    <2>2. IsFiniteSet(1..i) /\ Cardinality(1..i) = i
      BY FS_Interval
    <2>3. IsFiniteSet(U(i)) /\ Cardinality(U(i)) = Cardinality({p}) * Cardinality(1..i)
      BY <2>1, <2>2, FS_Product
    <2> QED  BY <2>1, <2>2, <2>3
  <1>5. L \subseteq U(n)
    BY <1>2
  <1>6. IsFiniteSet(L) /\ m \in Nat
    BY <1>1, <1>4, <1>5, FS_Subset, FS_CardinalityType
  <1>7. \A i, j \in D : Local(p, i) /\ Local(p, j) /\ i[2] <= j[2]
                        /\ r.streams[j].pattern # "none" => r.streams[i].pattern # "none"
    BY DEF Sound, StreamsSound
  <1>8. \A i \in 1..n : <<p, i>> \in D /\ Local(p, <<p, i>>)
    BY <1>3 DEF Local
  <1>9. \A i \in 1..n : <<p, i>> \in L => i <= m
    <2> SUFFICES ASSUME NEW i \in 1..n, <<p, i>> \in L
                 PROVE  i <= m
      OBVIOUS
    <2>1. \A h \in 1..i : <<p, h>> \in L
      <3> TAKE h \in 1..i
      <3>1. h \in 1..n /\ h <= i
        BY <1>1
      <3> QED  BY <1>7, <1>8, <3>1
    <2>2. U(i) \subseteq L
      BY <2>1
    <2>3. Cardinality(U(i)) <= Cardinality(L)
      BY <1>6, <2>2, FS_Subset
    <2> HIDE DEF L, U
    <2> QED  BY <1>1, <1>4, <2>3
  <1>10. \A i \in 1..n : <<p, i>> \notin L => m < i
    <2> SUFFICES ASSUME NEW i \in 1..n, <<p, i>> \notin L
                 PROVE  m <= i - 1
      BY <1>1, <1>6
    <2>1. \A j \in L : j \in U(i - 1)
      <3> TAKE j \in L
      <3>1. j \in U(n) /\ j = <<p, j[2]>> /\ j[2] \in 1..n
        BY <1>5
      <3>2. ~(i <= j[2])
        BY <1>7, <1>8, <3>1
      <3>3. j[2] \in 1..(i - 1)
        BY <1>1, <3>1, <3>2
      <3> QED  BY <3>1, <3>3
    <2>2. i - 1 \in Nat
      BY <1>1
    <2>3. L \subseteq U(i - 1)
      BY <2>1
    <2>4. Cardinality(L) <= Cardinality(U(i - 1))
      BY <1>4, <2>2, <2>3, FS_Subset
    <2> HIDE DEF L, U
    <2> QED  BY <1>4, <2>2, <2>4
  <1>11. k = <<p, 1 + m>> /\ k \in U(n)
    BY <1>2 DEF Local
  <1>12. k[1] = p /\ k[2] = 1 + m /\ k[2] \in 1..n
    <2>1. k[1] = p /\ k[2] = 1 + m
      <3> HIDE DEF m, U
      <3> QED  BY <1>11
    <2> HIDE DEF m
    <2> QED  BY <1>11, <2>1
  <1>13. \A j \in D : Local(p, j) => (r.streams[j].pattern # "none" <=> j[2] < k[2])
    <2> TAKE j \in D
    <2> HAVE Local(p, j)
    <2>1. j = <<p, j[2]>> /\ j[2] \in 1..n
      BY <1>2
    <2>2. r.streams[j].pattern # "none" <=> j \in L
      OBVIOUS
    <2> HIDE DEF L
    <2>3. j \in L => j[2] <= m
      BY <1>9, <2>1
    <2>4. j \notin L => m < j[2]
      BY <1>10, <2>1
    <2> QED  BY <1>1, <1>6, <1>12, <2>1, <2>2, <2>3, <2>4
  <1>14. r.streams[k].pattern = "none"
    <2>1. ~(k[2] < k[2]) /\ Local(p, k)
      <3> HIDE DEF m
      <3> QED  BY <1>1, <1>12 DEF Local
    <2> QED  BY <1>13, <2>1
  <1>15. \A j \in D : j[2] \in Nat /\ (Local(p, j) /\ j[2] = k[2] => j = k)
    <2>1. \A j \in D : j[2] \in Nat
      BY NamesAreNames DEF Name, Number
    <2>2. \A j \in D : Local(p, j) => j = <<p, j[2]>>
      BY <1>2
    <2> QED  BY <1>12, <1>11, <2>1, <2>2
  <1>16. Local(p, k)
    BY <1>12 DEF Local
  <1> HIDE DEF m, L, n, U
  <1> QED  BY <1>13, <1>14, <1>15, <1>16, OpenedSound

-----------------------------------------------------------------------------
(* Both sessions                                                           *)

Frames(p) == {f \in FrameType : FrameSound(p, f)}

SessionsSound ==
  /\ config \in DOMAIN Configurations
  /\ broken \in BOOLEAN /\ silent \in BOOLEAN
  /\ events \in 0..Config.limit
  /\ s = [p \in Peers |-> s[p]]
  /\ chan \in [Peers -> Seq(FrameType)]
  /\ \A p \in Peers :
       /\ s[p] = Idle(config) \/ Sound(Names(config), p, s[p])
       /\ chan[p] \in Seq(Frames(p))
       /\ s[p].state # "idle" /\ ~s[p].lane => chan[p] = <<>> /\ broken

LEMMA IdleFields ==
  ASSUME NEW c
  PROVE  /\ Idle(c).state = "idle" /\ Idle(c).attach = "idle" /\ ~Idle(c).lane
         /\ Idle(c).jobs = <<>> /\ Idle(c).starts = <<>> /\ ~Idle(c).writing
         /\ ~Idle(c).starting /\ Idle(c).fragments = <<>> /\ Idle(c).reader = "reading"
         /\ Idle(c).streams = [k \in Names(c) |-> NewStream] /\ Idle(c).reason = "none"
         /\ Idle(c).inFlight = 0 /\ Idle(c).next = 1 /\ Idle(c).highest = 0
  BY DEF Idle

LEMMA IdleType ==
  ASSUME NEW c \in DOMAIN Configurations
  PROVE  Idle(c) \in SessionType(Names(c))
  <1> DEFINE D == Names(c)
             g == [k \in D |-> NewStream]
             none == <<>>
             one == 1
             zero == 0
             r == [state |-> "idle", lane |-> FALSE, attach |-> "idle", reader |-> "reading",
                   streams |-> g, starts |-> none, starting |-> FALSE, next |-> one,
                   highest |-> zero, jobs |-> none, writing |-> FALSE, fragments |-> none,
                   inFlight |-> zero, reason |-> "none"]
  <1>1. g \in [D -> StreamType]
    BY NewStreamType
  <1>2. none \in Seq(D) /\ none \in Seq(JobType(D)) /\ none \in Assemblies
    BY EmptyFragments
  <1>3. one \in Number /\ zero \in Nat /\ zero \in Int
    BY DEF Number
  <1>4. r = Idle(c)
    BY DEF Idle
  <1> HIDE DEF g, none, one, zero
  <1>5. r \in SessionType(D)
    BY <1>1, <1>2, <1>3 DEF SessionType, States, Reasons
  <1> QED  BY <1>4, <1>5

\* A session that begins is sound.
LEMMA BeginSound ==
  ASSUME NEW c \in DOMAIN Configurations, NEW p \in Peers,
         NEW t \in SessionType(Names(c)), t.state \in {"connecting", "ready"},
         t.jobs = <<>>, t.starts = <<>>, ~t.writing, ~t.starting, t.fragments = <<>>,
         t.streams = [k \in Names(c) |-> NewStream], t.lane
  PROVE  Sound(Names(c), p, t)
  <1> DEFINE D == Names(c)
  <1>1. /\ NewStream.sending = "none" /\ NewStream.sends = <<>> /\ NewStream.sent = 0
        /\ NewStream.credit = 0 /\ NewStream.pattern = "none" /\ ~NewStream.table
        /\ ~NewStream.started
    BY DEF NewStream
  <1>2. Len(NewStream.sends) <= NewStream.sent
    BY <1>1
  <1>3. \A k \in D : StreamSound(p, k, NewStream)
    BY <1>1, <1>2 DEF StreamSound
  <1>4. StreamsSound(D, p, t)
    BY <1>1, <1>3 DEF StreamsSound
  <1>5. StartsSound(D, p, t)
    BY DEF StartsSound
  <1>6. JobsSound(t)
    BY DEF JobsSound
  <1>7. ItemsSound(D, p, t)
    BY DEF ItemsSound
  <1>8. FragmentsSound(D, p, t)
    BY EmptyFragments DEF FragmentsSound
  <1>9. LaneSound(t)
    BY DEF LaneSound, Over
  <1> QED  BY <1>4, <1>5, <1>6, <1>7, <1>8, <1>9 DEF Sound

LEMMA InitSound ==
  Init => SessionsSound
  <1> SUFFICES ASSUME Init
               PROVE  SessionsSound
    OBVIOUS
  <1> DEFINE c == config
             D == Names(config)
  <1>1. c \in DOMAIN Configurations
    BY DEF Init
  <1>2. ASSUME NEW p \in Peers
        PROVE  s[p] = Idle(c) \/ Sound(D, p, s[p])
    <2> DEFINE r == Idle(c)
               t == [r EXCEPT !.state = "ready", !.lane = TRUE, !.attach = "resolved"]
    <2>1. s[p] = IF Config.attached THEN t ELSE r
      BY DEF Init
    <2>2. r \in SessionType(D)
      BY <1>1, IdleType
    <2>3. /\ r.jobs = <<>> /\ r.starts = <<>> /\ ~r.writing
          /\ ~r.starting /\ r.fragments = <<>> /\ r.streams = [k \in D |-> NewStream]
      BY IdleFields
    <2> HIDE DEF r
    <2>4. t \in SessionType(D)
      BY <2>2 DEF SessionType, States
    <2>5. /\ t.jobs = r.jobs /\ t.starts = r.starts /\ t.writing = r.writing
          /\ t.starting = r.starting /\ t.fragments = r.fragments /\ t.streams = r.streams
          /\ t.state = "ready" /\ t.lane
      BY <2>2 DEF SessionType
    <2> HIDE DEF t
    <2>6. Sound(D, p, t)
      BY <1>1, <2>3, <2>4, <2>5, BeginSound
    <2> QED  BY <2>1, <2>6 DEF r
  <1>3. \A p \in Peers : s[p].state # "idle" => s[p].lane
    <2> TAKE p \in Peers
    <2> DEFINE r == Idle(c)
               t == [r EXCEPT !.state = "ready", !.lane = TRUE, !.attach = "resolved"]
    <2>1. s[p] = IF Config.attached THEN t ELSE r
      BY DEF Init
    <2>2. r.state = "idle" /\ r \in SessionType(D)
      BY <1>1, IdleFields, IdleType
    <2> HIDE DEF r
    <2>3. t.lane
      BY <2>2 DEF SessionType
    <2> HIDE DEF t
    <2> QED  BY <2>1, <2>2, <2>3
  <1>4. /\ s = [p \in Peers |-> s[p]] /\ chan \in [Peers -> Seq(FrameType)]
        /\ \A p \in Peers : chan[p] \in Seq(Frames(p))
    BY DEF Init
  <1>5. Config.limit \in Nat
    BY <1>1, NamesAreNames DEF Config
  <1>6. broken \in BOOLEAN /\ silent \in BOOLEAN /\ events \in 0..Config.limit
    <2>1. broken = FALSE /\ silent = FALSE /\ events = 0
      BY DEF Init
    <2>2. \A n \in Nat : 0 \in 0..n
      OBVIOUS
    <2> QED  BY <1>5, <2>1, <2>2, Zenon
  <1> QED  BY <1>1, <1>2, <1>3, <1>4, <1>6 DEF SessionsSound

\* Peer p's session changes; the other peer's does not.
LEMMA BecomesSound ==
  ASSUME SessionsSound, NEW p \in Peers, NEW t, Sound(Names(config), p, t),
         NEW channels, Becomes(p, t, channels), channels \in [Peers -> Seq(FrameType)],
         \A q \in Peers : channels[q] \in Seq(Frames(q)),
         chan[p] = <<>> => channels[p] = <<>>,
         \A q \in Peers \ {p} : channels[q] = chan[q] \/ broken = FALSE,
         s[p].state = "idle" => t.lane,
         config' = config, silent' \in BOOLEAN, events' \in 0..Config.limit
  PROVE  SessionsSound'
  <1> DEFINE cut == s[p].lane /\ ~t.lane
  <1>1. s' = [s EXCEPT ![p] = t] /\ broken' = (broken \/ cut)
        /\ chan' = IF cut THEN [channels EXCEPT ![p] = <<>>] ELSE channels
    BY DEF Becomes
  <1>2. s = [q \in Peers |-> s[q]]
    BY DEF SessionsSound
  <1>3. s'[p] = t /\ (\A q \in Peers \ {p} : s'[q] = s[q]) /\ s' = [q \in Peers |-> s'[q]]
    BY <1>1, <1>2
  <1>4. chan'[p] = (IF cut THEN <<>> ELSE channels[p])
        /\ \A q \in Peers \ {p} : chan'[q] = channels[q]
    BY <1>1
  <1>5. chan' \in [Peers -> Seq(FrameType)]
    <2>1. <<>> \in Seq(FrameType)
      OBVIOUS
    <2> DEFINE none == <<>>
    <2> HIDE DEF none
    <2>2. [channels EXCEPT ![p] = none] \in [Peers -> Seq(FrameType)]
      BY <2>1 DEF none
    <2> QED  BY <1>1, <2>2 DEF none
  <1>6. \A q \in Peers : chan'[q] \in Seq(Frames(q))
    <2>1. <<>> \in Seq(Frames(p))
      OBVIOUS
    <2>2. chan'[p] \in Seq(Frames(p))
      BY <1>4, <2>1, Zenon
    <2> QED  BY <1>4, <2>2, Zenon
  <1>7. \A q \in Peers : s'[q].state # "idle" /\ ~s'[q].lane => chan'[q] = <<>> /\ broken'
    <2>1. t.state # "idle" /\ ~t.lane => chan'[p] = <<>> /\ broken'
      BY <1>1, <1>4 DEF SessionsSound
    <2>2. \A q \in Peers \ {p} : s[q].state # "idle" /\ ~s[q].lane => chan'[q] = <<>> /\ broken'
      <3> TAKE q \in Peers \ {p}
      <3> HAVE s[q].state # "idle" /\ ~s[q].lane
      <3>1. chan[q] = <<>> /\ broken
        BY DEF SessionsSound
      <3> QED  BY <1>1, <1>4, <3>1
    <2> QED  BY <1>3, <2>1, <2>2
  <1>8. \A q \in Peers : s'[q] = Idle(config) \/ Sound(Names(config), q, s'[q])
    BY <1>3 DEF SessionsSound
  <1>9. broken' \in BOOLEAN
    BY <1>1 DEF SessionsSound
  <1>10. config \in DOMAIN Configurations
    BY DEF SessionsSound
  <1>11. \A q \in Peers : s'[q] = Idle(config') \/ Sound(Names(config'), q, s'[q])
    BY <1>8
  <1>12. config' \in DOMAIN Configurations /\ events' \in 0..Config'.limit
    BY <1>10 DEF Config
  <1> HIDE DEF cut
  <1> QED  BY <1>3, <1>5, <1>6, <1>7, <1>9, <1>11, <1>12 DEF SessionsSound

LEMMA CalmSound ==
  ASSUME SessionsSound, Calm
  PROVE  config' = config /\ silent' \in BOOLEAN /\ events' \in 0..Config.limit
  BY DEF SessionsSound, Calm

LEMMA EventSound ==
  ASSUME SessionsSound, NEW kind, Event(kind), silent' \in BOOLEAN
  PROVE  config' = config /\ silent' \in BOOLEAN /\ events' \in 0..Config.limit
  <1>1. Config.limit \in Nat
    BY NamesAreNames DEF SessionsSound, Config
  <1>2. events \in 0..Config.limit /\ events < Config.limit /\ events' = events + 1
    BY DEF SessionsSound, Event
  <1>3. events' \in 0..Config.limit
    BY <1>1, <1>2
  <1> QED  BY <1>3 DEF Event

\* An action that leaves the channels alone.
LEMMA StaySound ==
  ASSUME SessionsSound, NEW p \in Peers, NEW t, Sound(Names(config), p, t),
         Becomes(p, t, chan), s[p].state = "idle" => t.lane,
         config' = config, silent' \in BOOLEAN, events' \in 0..Config.limit
  PROVE  SessionsSound'
  <1>1. chan \in [Peers -> Seq(FrameType)] /\ \A q \in Peers : chan[q] \in Seq(Frames(q))
    BY DEF SessionsSound
  <1> QED  BY <1>1, BecomesSound

LEMMA SessionsNames ==
  ASSUME SessionsSound
  PROVE  /\ config \in DOMAIN Configurations /\ Names(config) \subseteq Name
         /\ \A p \in Peers : s[p].state # "idle" => Sound(Names(config), p, s[p])
         /\ \A p \in Peers : s[p].state = "idle" =>
              /\ s[p].attach = "idle" /\ s[p].jobs = <<>> /\ s[p].starts = <<>>
              /\ ~s[p].writing /\ s[p].streams = [k \in Names(config) |-> NewStream]
         /\ \A p \in Peers : DOMAIN s[p].streams = Names(config)
  <1>1. config \in DOMAIN Configurations /\ Names(config) \subseteq Name
    BY NamesAreNames DEF SessionsSound
  <1>2. ASSUME NEW p \in Peers
        PROVE  /\ s[p].state # "idle" => Sound(Names(config), p, s[p])
               /\ s[p].state = "idle" =>
                    /\ s[p].attach = "idle" /\ s[p].jobs = <<>> /\ s[p].starts = <<>>
                    /\ ~s[p].writing /\ s[p].streams = [k \in Names(config) |-> NewStream]
               /\ DOMAIN s[p].streams = Names(config)
    <2>1. s[p] = Idle(config) \/ Sound(Names(config), p, s[p])
      BY DEF SessionsSound
    <2>2. CASE s[p] = Idle(config)
      BY <2>2, IdleFields
    <2>3. CASE Sound(Names(config), p, s[p])
      BY <2>3 DEF Sound, LaneSound, SessionType
    <2> QED  BY <2>1, <2>2, <2>3
  <1> QED  BY <1>1, <1>2

\* A stream that anything is known of belongs to a session that has begun.
LEMMA Begun ==
  ASSUME SessionsSound, NEW p \in Peers, NEW k \in DOMAIN s[p].streams,
         \/ Live(p, k) \/ Stream(p, k).sends # <<>> \/ Stream(p, k).sending # "none"
  PROVE  /\ s[p].state # "idle" /\ Sound(Names(config), p, s[p]) /\ k \in Names(config)
         /\ Names(config) \subseteq Name
  <1>1. /\ NewStream.pattern = "none" /\ NewStream.sends = <<>> /\ NewStream.sending = "none"
    BY DEF NewStream
  <1> QED  BY <1>1, SessionsNames DEF Live, Stream

LEMMA AttachStep ==
  ASSUME SessionsSound, NEW p \in Peers, Attach(p)
  PROVE  SessionsSound'
  <1> DEFINE D == Names(config)
             o == s[p]
             r == [o EXCEPT !.state = "connecting", !.lane = TRUE, !.attach = "waiting"]
             t == IF p = "initiator" THEN Queue(r, Control("setup")) ELSE r
  <1>1. s[p].state = "idle" /\ Becomes(p, t, chan) /\ Calm
    BY DEF Attach
  <1>2. o = Idle(config) /\ config \in DOMAIN Configurations
    BY <1>1 DEF SessionsSound, Sound, LaneSound
  <1>3. o \in SessionType(D)
    BY <1>2, IdleType
  <1>4. /\ o.jobs = <<>> /\ o.starts = <<>> /\ ~o.writing /\ ~o.starting /\ o.fragments = <<>>
        /\ o.streams = [k \in D |-> NewStream]
    BY <1>2, IdleFields
  <1> HIDE DEF o
  <1>5. r \in SessionType(D)
    BY <1>3 DEF SessionType, States
  <1>6. /\ r.jobs = o.jobs /\ r.starts = o.starts /\ r.writing = o.writing
        /\ r.starting = o.starting /\ r.fragments = o.fragments /\ r.streams = o.streams
        /\ r.state = "connecting" /\ r.lane
    BY <1>3 DEF SessionType
  <1> HIDE DEF r
  <1>7. Sound(D, p, r)
    BY <1>2, <1>4, <1>5, <1>6, BeginSound
  <1>8. Control("setup") \in JobType(D) /\ Plain(Control("setup"))
    BY ControlJob DEF Kinds
  <1>9. Queue(r, Control("setup")).lane = r.lane
    BY <1>5, <1>8, QueueFields
  <1>10. Sound(D, p, t) /\ t.lane
    BY <1>6, <1>7, <1>8, <1>9, QueueSound
  <1> HIDE DEF t
  <1> QED  BY <1>1, <1>10, CalmSound, StaySound

LEMMA HandshakeTimeoutStep ==
  ASSUME SessionsSound, NEW p \in Peers, HandshakeTimeout(p)
  PROVE  SessionsSound'
  <1> DEFINE D == Names(config)
             r == Detach(s[p], "timeout")
             t == [r EXCEPT !.attach = "rejected"]
  <1>1. s[p].attach = "waiting" /\ Becomes(p, t, chan) /\ Calm
    BY DEF HandshakeTimeout
  <1>2. s[p].state # "idle" /\ Sound(D, p, s[p])
    BY <1>1, SessionsNames
  <1>3. Sound(D, p, r)
    BY <1>2, DetachSound DEF Reasons
  <1> HIDE DEF r
  <1>4. r \in SessionType(D)
    BY <1>3 DEF Sound
  <1>5. /\ t \in SessionType(D)
        /\ t.jobs = r.jobs /\ t.starts = r.starts /\ t.starting = r.starting /\ t.next = r.next
        /\ t.highest = r.highest /\ t.writing = r.writing /\ t.streams = r.streams
        /\ t.fragments = r.fragments /\ t.lane = r.lane /\ t.state = r.state
    BY <1>4 DEF SessionType
  <1> HIDE DEF t
  <1>6. Sound(D, p, t)
    BY <1>3, <1>5, ControlSound DEF Sound, LaneSound, Over
  <1> QED  BY <1>1, <1>2, <1>6, CalmSound, StaySound

LEMMA OpenStep ==
  ASSUME SessionsSound, NEW p \in Peers, Open(p)
  PROVE  SessionsSound'
  <1> DEFINE D == Names(config)
             L == {j \in DOMAIN s[p].streams : Local(p, j) /\ Live(p, j)}
             M == {j \in D : Local(p, j) /\ s[p].streams[j].pattern # "none"}
             k == <<p, 1 + Cardinality(L)>>
             pattern == Config.requests[p][k[2]]
             t == Opened(s[p], k, pattern)
  <1>1. s[p].state = "ready" /\ k \in DOMAIN s[p].streams /\ Calm
    BY DEF Open
  <1>2. Becomes(p, t, chan)
    BY DEF Open, Opened
  <1>3. Sound(D, p, s[p]) /\ DOMAIN s[p].streams = D /\ config \in DOMAIN Configurations
    BY <1>1, SessionsNames
  <1>4. L = M
    BY <1>3 DEF Live
  <1>5. k \in D
    BY <1>1, <1>3
  <1>6. pattern \in Patterns
    <2>1. Configurations[config].requests[p] \in Seq(Patterns)
      BY <1>3, NamesAreNames
    <2>2. k[1] = p /\ k[2] \in 1..Len(Configurations[config].requests[p])
      <3>1. \A j \in Names(config) : j[1] = p => j[2] \in 1..Len(Configurations[config].requests[p])
        BY DEF Names
      <3>2. k[1] = p
        OBVIOUS
      <3> HIDE DEF k
      <3> QED  BY <1>5, <3>1, <3>2
    <2> HIDE DEF k
    <2> QED  BY <2>1, <2>2 DEF Config
  <1> HIDE DEF pattern, L, t
  <1>7. Sound(D, p, t)
    <2>1. k = <<p, 1 + Cardinality(M)>>
      BY <1>4
    <2> HIDE DEF k
    <2> QED  BY <1>3, <1>5, <1>6, <2>1, OpenSound DEF t
  <1> QED  BY <1>1, <1>2, <1>7, CalmSound, StaySound

LEMMA SendStep ==
  ASSUME SessionsSound, NEW p \in Peers, NEW k \in DOMAIN s[p].streams, Send(p, k)
  PROVE  SessionsSound'
  <1> DEFINE D == Names(config)
             x == Stream(p, k)
             t(size) == [s[p] EXCEPT !.streams[k] =
               [x EXCEPT !.sends = Append(@, size), !.sent = @ + 1, !.hasty = @ \/ x.completing]]
  <1>1. Live(p, k)
    BY DEF Send
  <1>2. PICK size \in Config.lengths : Becomes(p, t(size), chan)
    BY DEF Send
  <1>3. s[p].state # "idle" /\ Sound(D, p, s[p]) /\ k \in D
    BY <1>1, Begun
  <1>4. size \in Number
    BY NamesAreNames DEF SessionsSound, Config
  <1>5. Sound(D, p, t(size))
    BY <1>1, <1>3, <1>4, SendSound
  <1>6. config' = config /\ silent' \in BOOLEAN /\ events' \in 0..Config.limit
    <2>1. CASE x.completing
      <3>1. Event("hasty") /\ silent' = silent
        BY <2>1 DEF Send
      <3> QED  BY <3>1, EventSound DEF SessionsSound
    <2>2. CASE ~x.completing
      BY <2>2, CalmSound DEF Send
    <2> QED  BY <2>1, <2>2
  <1> HIDE DEF t
  <1> QED  BY <1>2, <1>3, <1>5, <1>6, StaySound

LEMMA BeginSendStep ==
  ASSUME SessionsSound, NEW p \in Peers, NEW k \in DOMAIN s[p].streams, BeginSend(p, k)
  PROVE  SessionsSound'
  <1> DEFINE D == Names(config)
             x == Stream(p, k)
             t == IF s[p].state # "ready" \/ x.cancelled \/ x.outClosed
                  THEN [s[p] EXCEPT !.streams[k].sends = Tail(@)]
                  ELSE IF Local(p, k) /\ ~x.started
                  THEN [s[p] EXCEPT !.streams[k].sending = "starting", !.starts = Append(@, k)]
                  ELSE IF NeedsCredit(p, k, x) /\ x.credit = 0
                  THEN [s[p] EXCEPT !.streams[k].sending = "credit"]
                  ELSE Emit(p, k)
  <1>1. x.sends # <<>> /\ x.sending = "none" /\ Becomes(p, t, chan) /\ Calm
    BY DEF BeginSend
  <1>2. s[p].state # "idle" /\ Sound(D, p, s[p]) /\ k \in D /\ D \subseteq Name
    BY <1>1, Begun
  <1>3. Sound(D, p, t)
    <2> DEFINE u == t
    <2>1. u = IF s[p].state # "ready" \/ Stream(p, k).cancelled \/ Stream(p, k).outClosed
              THEN [s[p] EXCEPT !.streams[k].sends = Tail(@)]
              ELSE IF Local(p, k) /\ ~Stream(p, k).started
              THEN [s[p] EXCEPT !.streams[k].sending = "starting", !.starts = Append(@, k)]
              ELSE IF NeedsCredit(p, k, Stream(p, k)) /\ Stream(p, k).credit = 0
              THEN [s[p] EXCEPT !.streams[k].sending = "credit"]
              ELSE Emit(p, k)
      OBVIOUS
    <2> HIDE DEF u
    <2>2. Sound(D, p, u)
      BY <1>1, <1>2, <2>1, BeginSendSound
    <2> QED  BY <2>2 DEF u
  <1> HIDE DEF t
  <1> QED  BY <1>1, <1>2, <1>3, CalmSound, StaySound

LEMMA SendWokenStep ==
  ASSUME SessionsSound, NEW p \in Peers, NEW k \in DOMAIN s[p].streams, SendWoken(p, k)
  PROVE  SessionsSound'
  <1> DEFINE D == Names(config)
             x == Stream(p, k)
  <1>1. x.sending = "woken" /\ Becomes(p, Emit(p, k), chan) /\ Calm
    BY DEF SendWoken
  <1>2. s[p].state # "idle" /\ Sound(D, p, s[p]) /\ k \in D /\ D \subseteq Name
    BY <1>1, Begun
  <1>3. StreamSound(p, k, x)
    BY <1>2 DEF Sound, StreamsSound, Stream
  <1>4. x.sends # <<>> /\ x.credit > 0 /\ x.started
    BY <1>1, <1>3 DEF StreamSound
  <1> QED  BY <1>1, <1>2, <1>3, <1>4, EmitSound, CalmSound, StaySound

LEMMA StartRequestStep ==
  ASSUME SessionsSound, NEW p \in Peers, StartRequest(p)
  PROVE  SessionsSound'
  <1> DEFINE D == Names(config)
             r == s[p]
             k == Head(r.starts)
             x == r.streams[k]
             t == Started(r, p, k, Requested(r, x), RequestJob(r, p, k, x))
  <1>1. r.starts # <<>> /\ ~r.starting /\ Calm
    BY DEF StartRequest
  <1>2. Becomes(p, t, chan)
    BY DEF StartRequest, Started, Requested, RequestJob, RequestDemand, Stream
  <1>3. r.state # "idle" /\ Sound(D, p, r) /\ D \subseteq Name
    BY <1>1, SessionsNames
  <1>4. Sound(D, p, t)
    BY <1>1, <1>3, StartRequestSound
  <1> HIDE DEF t
  <1> QED  BY <1>1, <1>2, <1>3, <1>4, CalmSound, StaySound

LEMMA RequestStep ==
  ASSUME SessionsSound, NEW p \in Peers, NEW k \in DOMAIN s[p].streams, Request(p, k)
  PROVE  SessionsSound'
  <1> DEFINE D == Names(config)
             x == Stream(p, k)
             rest == IF x.pregranted > 0 THEN 0 ELSE 1
             t == CASE rest = 0 -> [s[p] EXCEPT !.streams[k].pregranted = @ - 1]
            [] rest = 1 /\ Local(p, k) /\ ~x.started ->
                 [s[p] EXCEPT !.streams[k].initialDemand = @ + 1]
            [] OTHER -> Queue([s[p] EXCEPT !.streams[k].allowance = @ + 1,
                                           !.streams[k].granted = @ + 1],
                              OnStream(s[p], "demand", k, 1))
  <1>1. Live(p, k) /\ Becomes(p, t, chan) /\ Calm
    BY DEF Request
  <1>2. s[p].state # "idle" /\ Sound(D, p, s[p]) /\ k \in D /\ D \subseteq Name
    BY <1>1, Begun
  <1>3. Sound(D, p, t)
    BY <1>1, <1>2, RequestSound
  <1> HIDE DEF t
  <1> QED  BY <1>1, <1>2, <1>3, CalmSound, StaySound

LEMMA CompleteStep ==
  ASSUME SessionsSound, NEW p \in Peers, NEW k \in DOMAIN s[p].streams, Complete(p, k)
  PROVE  SessionsSound'
  <1> DEFINE D == Names(config)
             x == Stream(p, k)
             hasty == x.sends # <<>>
             silentEnd == IF Local(p, k) THEN x.pattern # "duplex"
                          ELSE x.pattern \in {"notify", "unary"}
             t == Completing(p, k, silentEnd, hasty)
  <1>1. /\ Live(p, k) /\ ~(Local(p, k) /\ ~x.started) /\ Becomes(p, t, chan)
        /\ Event(IF hasty THEN "hasty" ELSE "complete") /\ silent' = silent
    BY DEF Complete, Completing
  <1>2. s[p].state # "idle" /\ Sound(D, p, s[p]) /\ k \in D /\ D \subseteq Name
    BY <1>1, Begun
  <1>3. hasty \in BOOLEAN
    OBVIOUS
  <1>4. Sound(D, p, t)
    BY <1>1, <1>2, <1>3, CompleteSound
  <1> HIDE DEF t, silentEnd
  <1> QED  BY <1>1, <1>2, <1>4, EventSound, StaySound DEF SessionsSound

LEMMA CancelStep ==
  ASSUME SessionsSound, NEW p \in Peers, NEW k \in DOMAIN s[p].streams,
         Cancel(p, k) \/ Fail(p, k)
  PROVE  SessionsSound'
  <1> DEFINE D == Names(config)
  <1>1. PICK what \in {"cancel", "error"}, kind \in {"cancel", "fail"} :
          /\ Live(p, k) /\ Becomes(p, Cancelling(s[p], k, what), chan)
          /\ Event(kind) /\ silent' = silent
    BY DEF Cancel, Fail
  <1>2. s[p].state # "idle" /\ Sound(D, p, s[p]) /\ k \in D /\ D \subseteq Name
    BY <1>1, Begun
  <1>3. Sound(D, p, Cancelling(s[p], k, what))
    BY <1>2, CancellingSound
  <1> QED  BY <1>1, <1>2, <1>3, EventSound, StaySound DEF SessionsSound

LEMMA CloseStep ==
  ASSUME SessionsSound, NEW p \in Peers, Close(p)
  PROVE  SessionsSound'
  <1> DEFINE D == Names(config)
             t == IF s[p].state = "ready" THEN Queue(s[p], Control("close")) ELSE FinishClosed(s[p])
  <1>1. s[p].attach = "resolved" /\ Becomes(p, t, chan) /\ Event("close") /\ silent' = silent
    BY DEF Close
  <1>2. s[p].state # "idle" /\ Sound(D, p, s[p])
    BY <1>1, SessionsNames
  <1>3. Control("close") \in JobType(D) /\ Plain(Control("close"))
    BY ControlJob DEF Kinds
  <1>4. Sound(D, p, t)
    BY <1>2, <1>3, QueueSound, FinishClosedSound
  <1> HIDE DEF t
  <1> QED  BY <1>1, <1>2, <1>4, EventSound, StaySound DEF SessionsSound

LEMMA KeepAliveStep ==
  ASSUME SessionsSound, KeepAlive
  PROVE  SessionsSound'
  <1> DEFINE D == Names(config)
             p == "initiator"
             t == Queue(s[p], Control("keepalive"))
  <1>1. s[p].state = "ready" /\ Becomes(p, t, chan) /\ Event("keepalive") /\ silent' = silent
    BY DEF KeepAlive
  <1>2. p \in Peers
    BY DEF Peers
  <1> HIDE DEF p
  <1>3. s[p].state # "idle" /\ Sound(D, p, s[p])
    BY <1>1, <1>2, SessionsNames
  <1>4. Control("keepalive") \in JobType(D) /\ Plain(Control("keepalive"))
    BY ControlJob DEF Kinds
  <1>5. Sound(D, p, t)
    BY <1>2, <1>3, <1>4, QueueSound
  <1> HIDE DEF t
  <1> QED  BY <1>1, <1>2, <1>3, <1>5, EventSound, StaySound DEF SessionsSound

LEMMA ExpireStep ==
  ASSUME SessionsSound, NEW p \in Peers, Expire(p)
  PROVE  SessionsSound'
  <1>1. s[p].state = "ready" /\ Becomes(p, Detach(s[p], "silence"), chan) /\ Calm
    BY DEF Expire
  <1>2. s[p].state # "idle" /\ Sound(Names(config), p, s[p])
    BY <1>1, SessionsNames
  <1>3. Sound(Names(config), p, Detach(s[p], "silence"))
    BY <1>2, DetachSound DEF Reasons
  <1> QED  BY <1>1, <1>2, <1>3, CalmSound, StaySound

LEMMA BreakStep ==
  ASSUME SessionsSound, Break \/ FallSilent
  PROVE  SessionsSound'
  <1>1. UNCHANGED <<s, chan>> /\ broken' \in BOOLEAN /\ (broken => broken') /\ silent' \in BOOLEAN
        /\ \E kind : Event(kind)
    BY DEF Break, FallSilent, SessionsSound
  <1>2. config' = config /\ events' \in 0..Config.limit
    BY <1>1, EventSound
  <1>3. config' \in DOMAIN Configurations /\ events' \in 0..Config'.limit
    BY <1>2 DEF SessionsSound, Config
  <1> QED  BY <1>1, <1>2, <1>3 DEF SessionsSound

LEMMA ReadResumesSound ==
  ASSUME NEW D, NEW p \in Peers, NEW r, Sound(D, p, r), NEW j
  PROVE  Sound(D, p, ReadResumes(r, j))
  <1> DEFINE t == [r EXCEPT !.reader = "reading"]
  <1>1. r \in SessionType(D)
    BY DEF Sound
  <1>2. /\ t \in SessionType(D)
        /\ t.jobs = r.jobs /\ t.starts = r.starts /\ t.starting = r.starting /\ t.next = r.next
        /\ t.highest = r.highest /\ t.writing = r.writing /\ t.streams = r.streams
        /\ t.fragments = r.fragments /\ t.lane = r.lane /\ t.state = r.state
    BY <1>1 DEF SessionType
  <1> HIDE DEF t
  <1>3. Sound(D, p, t)
    BY <1>2, ControlSound DEF Sound, LaneSound, Over
  <1> QED  BY <1>3 DEF ReadResumes, t

\* The first job is being written.
Writing(r) == [r EXCEPT !.writing = TRUE, !.jobs[1].part = @ + 1]

LEMMA WritingSound ==
  ASSUME NEW D, NEW p \in Peers, NEW r, Sound(D, p, r), r.jobs # <<>>, ~r.writing
  PROVE  Sound(D, p, Writing(r))
  <1> DEFINE j == r.jobs[1]
             h == [j EXCEPT !.part = @ + 1]
             q == [r.jobs EXCEPT ![1] = h]
             t == [r EXCEPT !.writing = TRUE, !.jobs = q]
  <1>1. r \in SessionType(D)
    BY DEF Sound
  <1>2. r.jobs \in Seq(JobType(D)) /\ 1 \in DOMAIN r.jobs
    BY <1>1 DEF SessionType
  <1>3. j \in JobType(D) /\ JobsSound(r)
    BY <1>2 DEF Sound
  <1>4. j.part \in Nat /\ j.size \in Number /\ j.part <= j.size /\ j.part # j.size
    BY <1>2, <1>3 DEF JobsSound, JobType
  <1>5. /\ h \in JobType(D) /\ h.part > 0 /\ h.part <= h.size
        /\ h.what = j.what /\ h.k = j.k /\ h.wire = j.wire /\ h.n = j.n
    <2>1. j.part + 1 \in Nat /\ j.part + 1 > 0 /\ j.part + 1 <= j.size
      BY <1>4 DEF Number
    <2> QED  BY <1>3, <2>1 DEF JobType
  <1>6. t = Writing(r)
    BY <1>1 DEF Writing, SessionType
  <1> HIDE DEF h
  <1>7. /\ q \in Seq(JobType(D)) /\ DOMAIN q = DOMAIN r.jobs /\ q[1] = h /\ q # <<>>
        /\ \A i \in DOMAIN r.jobs \ {1} : q[i] = r.jobs[i]
    <2>1. 1 \in 1..Len(r.jobs) /\ h \in JobType(D) /\ r.jobs \in Seq(JobType(D))
      BY <1>2, <1>5
    <2>2. /\ q \in Seq(JobType(D)) /\ Len(q) = Len(r.jobs)
          /\ \A i \in 1..Len(r.jobs) : q[i] = IF i = 1 THEN h ELSE r.jobs[i]
      BY ONLY <2>1, ExceptSeq
    <2> QED  BY <2>1, <2>2
  <1> HIDE DEF q
  <1>8. /\ t \in SessionType(D) /\ t.jobs = q /\ t.writing
        /\ t.starts = r.starts /\ t.starting = r.starting /\ t.next = r.next
        /\ t.highest = r.highest /\ t.streams = r.streams
        /\ t.fragments = r.fragments /\ t.lane = r.lane /\ t.state = r.state
    BY <1>1, <1>7 DEF SessionType
  <1> HIDE DEF t
  <1>9. StreamsSound(D, p, t) /\ FragmentsSound(D, p, t) /\ LaneSound(t)
    BY <1>8 DEF Sound, StreamsSound, FragmentsSound, LaneSound, Over
  <1>10. \A i \in DOMAIN q : /\ q[i].what = r.jobs[i].what /\ q[i].k = r.jobs[i].k
                             /\ q[i].wire = r.jobs[i].wire /\ q[i].n = r.jobs[i].n
    BY <1>5, <1>7
  <1>11. StartsSound(D, p, t)
    BY <1>7, <1>8, <1>10 DEF Sound, StartsSound
  <1>12. ItemsSound(D, p, t)
    <2>1. \A i \in DOMAIN q : Carries(q[i]) <=> Carries(r.jobs[i])
      BY <1>10 DEF Carries
    <2> QED  BY <1>7, <1>8, <1>10, <2>1 DEF Sound, ItemsSound
  <1>13. JobsSound(t)
    <2>1. \A i \in DOMAIN q : i # 1 => q[i] = r.jobs[i]
      BY <1>7
    <2> QED  BY <1>3, <1>5, <1>7, <1>8, <1>10, <2>1 DEF JobsSound
  <1>14. Sound(D, p, t)
    BY <1>8, <1>9, <1>11, <1>12, <1>13 DEF Sound
  <1> QED  BY <1>6, <1>14

LEMMA FrameIsSound ==
  ASSUME NEW D, D \subseteq Name, NEW p \in Peers, NEW r, Sound(D, p, r), r.jobs # <<>>
  PROVE  Frame(r, Head(r.jobs)) \in Frames(Other(p))
  <1> DEFINE j == r.jobs[1]
             f == Frame(r, j)
             kind == CASE j.what = "answer" -> IF j.part + 1 < j.size THEN "item" ELSE "answer"
                       [] j.what = "request" /\ j.part > 0 -> "item"
                       [] OTHER -> j.what
             pattern == IF j.what = "request" THEN r.streams[j.k].pattern ELSE "none"
             n == j.part + 1
             follows == n < j.size
  <1>1. r \in SessionType(D)
    BY DEF Sound
  <1>2. r.jobs \in Seq(JobType(D)) /\ 1 \in DOMAIN r.jobs /\ Head(r.jobs) = j
    BY <1>1 DEF SessionType
  <1>3. j \in JobType(D)
    BY <1>2
  <1>4. j.what = "request" => /\ j.wire = <<p, r.next>> /\ r.next \in Number
                              /\ pattern \in Patterns
    <2> SUFFICES ASSUME j.what = "request"
                 PROVE  j.wire = <<p, r.next>> /\ r.next \in Number /\ pattern \in Patterns
      OBVIOUS
    <2>1. r.starting /\ j.k = r.starts[1] /\ j.wire = <<p, r.next>> /\ r.starts # <<>>
      BY <1>2 DEF Sound, StartsSound
    <2>2. r.starts \in Seq(D) /\ r.next \in Number /\ r.streams \in [D -> StreamType]
      BY <1>1 DEF SessionType
    <2>3. 1 \in DOMAIN r.starts /\ j.k \in D
      BY <2>1, <2>2
    <2>4. r.streams[j.k].sending = "starting" /\ r.streams[j.k] \in StreamType
      BY <2>1, <2>2, <2>3 DEF Sound, StartsSound
    <2>5. StreamSound(p, j.k, r.streams[j.k])
      BY <2>3 DEF Sound, StreamsSound
    <2>6. r.streams[j.k].pattern # "none"
      BY <2>4, <2>5 DEF StreamSound
    <2> QED  BY <2>1, <2>2, <2>4, <2>6 DEF StreamType
  <1>5. f = [kind |-> kind, stream |-> j.wire, n |-> j.n, item |-> j.item, part |-> n,
             follows |-> follows, pattern |-> pattern]
    BY DEF Frame
  <1>6. kind \in Kinds /\ (kind = "request" => j.what = "request") /\ (kind = "demand" => j.what = "demand")
    BY <1>3 DEF JobType, Kinds
  <1>7. n \in Number /\ follows \in BOOLEAN
    BY <1>3 DEF JobType, Number
  <1>8. pattern \in Patterns \cup {"none"}
    BY <1>4
  <1>9. j.wire \in AnyName /\ j.n \in Nat /\ j.item \in Nat
    BY <1>3 DEF JobType
  <1>10. j.what = "demand" => j.n > 0
    BY <1>2 DEF Sound, JobsSound
  <1> HIDE DEF kind, pattern, n, follows, f, j
  <1>11. f \in FrameType
    BY <1>5, <1>6, <1>7, <1>8, <1>9 DEF FrameType
  <1>12. f.kind = kind /\ f.stream = j.wire /\ f.n = j.n /\ f.pattern = pattern
    BY <1>5
  <1>13. kind = "request" => j.wire \in Name /\ j.wire[1] # Other(p)
    <2>1. p # Other(p)
      BY DEF Other, Peers
    <2>2. \A m \in Number : <<p, m>> \in Name /\ <<p, m>>[1] = p
      BY DEF Name
    <2> QED  BY <1>4, <1>6, <2>1, <2>2
  <1>14. FrameSound(Other(p), f)
    BY <1>4, <1>6, <1>10, <1>11, <1>12, <1>13 DEF FrameSound, Patterns
  <1> QED  BY <1>2, <1>11, <1>14 DEF Frames, f

\* The write of the first job ends and its writer goes on.
LEMMA WrittenSound ==
  ASSUME NEW D, D \subseteq Name, NEW p \in Peers, NEW r, Sound(D, p, r), r.jobs # <<>>,
         NEW d, d \in SessionType(D), d.jobs = Tail(r.jobs), ~d.writing,
         d.starts = r.starts, d.starting = r.starting, d.next = r.next,
         d.highest = r.highest, d.streams = r.streams,
         d.fragments = r.fragments, d.lane = r.lane, d.state = r.state,
         NEW j, j = Head(r.jobs), NEW ok \in BOOLEAN, ~ok => ~d.lane
  PROVE  Sound(D, p, ReadResumes(Resume(d, j, ok), j))
  <1>1. Sound(D, p, d) /\ Taken(D, p, d, j)
    BY PopSound
  <1>2. Sound(D, p, Resume(d, j, ok))
    BY <1>1, ResumeSound
  <1> QED  BY <1>2, ReadResumesSound

LEMMA BeginWriteStep ==
  ASSUME SessionsSound, NEW p \in Peers, BeginWrite(p)
  PROVE  SessionsSound'
  <1> DEFINE D == Names(config)
             r == s[p]
             j == Head(r.jobs)
             q == Other(p)
  <1>1. r.jobs # <<>> /\ ~r.writing /\ Calm
    BY DEF BeginWrite
  <1>2. r.state # "idle" /\ Sound(D, p, r) /\ D \subseteq Name
    BY <1>1, SessionsNames
  <1>3. r \in SessionType(D)
    BY <1>2 DEF Sound
  <1>4. CASE ~r.lane
    <2> DEFINE d == [r EXCEPT !.jobs = Tail(@)]
               t == ReadResumes(Resume(d, j, FALSE), j)
    <2>1. Becomes(p, t, chan)
      BY <1>4 DEF BeginWrite
    <2>2. Tail(r.jobs) \in Seq(JobType(D))
      BY <1>1, <1>3 DEF SessionType
    <2>3. /\ d \in SessionType(D) /\ d.jobs = Tail(r.jobs) /\ d.writing = r.writing
          /\ d.starts = r.starts /\ d.starting = r.starting /\ d.next = r.next
          /\ d.highest = r.highest /\ d.streams = r.streams
          /\ d.fragments = r.fragments /\ d.lane = r.lane /\ d.state = r.state
      BY <1>3, <2>2 DEF SessionType
    <2> HIDE DEF d
    <2>4. Sound(D, p, t)
      <3> HIDE DEF D, r
      <3> QED  BY <1>1, <1>2, <1>4, <2>3, WrittenSound
    <2> HIDE DEF t
    <2> QED  BY <1>1, <1>2, <2>1, <2>4, CalmSound, StaySound
  <1>5. CASE r.lane
    <2> DEFINE t == Writing(r)
               f == Frame(r, j)
               channels == IF broken THEN chan ELSE [chan EXCEPT ![q] = Append(@, f)]
    <2>1. Becomes(p, t, channels)
      BY <1>5 DEF BeginWrite, Writing
    <2>2. Sound(D, p, t)
      BY <1>1, <1>2, WritingSound
    <2>3. f \in Frames(q) /\ f \in FrameType
      BY <1>1, <1>2, FrameIsSound DEF Frames
    <2>4. q \in Peers /\ q # p
      BY DEF Peers, Other
    <2>5. chan \in [Peers -> Seq(FrameType)] /\ \A v \in Peers : chan[v] \in Seq(Frames(v))
      BY DEF SessionsSound
    <2> HIDE DEF f
    <2>6. Append(chan[q], f) \in Seq(FrameType) /\ Append(chan[q], f) \in Seq(Frames(q))
      <3>1. chan[q] \in Seq(FrameType) /\ chan[q] \in Seq(Frames(q))
        BY <2>4, <2>5
      <3> QED  BY ONLY <2>3, <3>1
    <2>7. /\ channels \in [Peers -> Seq(FrameType)]
          /\ \A v \in Peers : channels[v] \in Seq(Frames(v))
          /\ channels[p] = chan[p]
          /\ broken = FALSE \/ channels = chan
      BY <2>4, <2>5, <2>6 DEF SessionsSound
    <2> HIDE DEF channels, t
    <2>8. chan[p] = <<>> => channels[p] = <<>>
      BY <2>7
    <2>9. \A v \in Peers \ {p} : channels[v] = chan[v] \/ broken = FALSE
      BY <2>7
    <2>10. config' = config /\ silent' \in BOOLEAN /\ events' \in 0..Config.limit
      BY <1>1, CalmSound
    <2> QED  BY <1>2, <2>1, <2>2, <2>7, <2>8, <2>9, <2>10, BecomesSound
  <1> QED  BY <1>4, <1>5

\* A session that is detached while it writes.
LEMMA DetachWriting ==
  ASSUME NEW D, NEW p \in Peers, NEW r, Sound(D, p, r), r.jobs # <<>>, NEW why \in Reasons
  PROVE  LET d == [Detach([r EXCEPT !.writing = FALSE], why) EXCEPT !.jobs = Tail(@)]
             e == Detach(r, why)
         IN /\ d \in SessionType(D) /\ d.jobs = Tail(e.jobs) /\ ~d.writing
            /\ d.starts = e.starts /\ d.starting = e.starting /\ d.next = e.next
            /\ d.highest = e.highest /\ d.streams = e.streams
            /\ d.fragments = e.fragments /\ d.lane = e.lane /\ d.state = e.state
            /\ e.jobs = r.jobs /\ Sound(D, p, e) /\ ~e.lane
  <1> DEFINE a == [r EXCEPT !.writing = FALSE]
             b == Detach(a, why)
             d == [b EXCEPT !.jobs = Tail(@)]
             e == Detach(r, why)
  <1>1. r \in SessionType(D) /\ SendsWait(D, r)
    BY SoundWaits DEF Sound
  <1>2. Sound(D, p, e) /\ Calmer(D, r, e) /\ ~e.lane
    BY DetachSound
  <1>3. e \in SessionType(D) /\ e.jobs = r.jobs
    BY <1>2 DEF Calmer
  <1>4. /\ a \in SessionType(D) /\ ~a.writing /\ a.state = r.state /\ a.jobs = r.jobs
        /\ a.streams = r.streams /\ a.starts = r.starts /\ a.starting = r.starting
        /\ a.next = r.next /\ a.highest = r.highest /\ a.fragments = r.fragments
        /\ a.lane = r.lane /\ a.reason = r.reason
    BY <1>1 DEF SessionType
  <1>5. SendsWait(D, a)
    BY <1>1, <1>4 DEF SendsWait
  <1> HIDE DEF a
  <1>6. /\ b \in SessionType(D) /\ ~b.writing /\ b.jobs = r.jobs
        /\ b.starts = e.starts /\ b.starting = e.starting /\ b.next = e.next
        /\ b.highest = e.highest /\ b.streams = e.streams
        /\ b.fragments = e.fragments /\ b.lane = e.lane /\ b.state = e.state
    <2>1. CASE Over(r)
      <3>1. b = a /\ e = r
        BY <1>4, <2>1 DEF Detach, Over
      <3> QED  BY <1>4, <3>1
    <2>2. CASE ~Over(r)
      <3>1. b = End(a, "detached", why) /\ e = End(r, "detached", why)
        BY <1>4, <2>2 DEF Detach, Over
      <3>2. "detached" \in States
        BY DEF States
      <3>3. Calmer(D, a, b) /\ Calmer(D, r, e)
        BY <1>1, <1>4, <1>5, <3>1, <3>2, EndCalmer
      <3>4. /\ b \in SessionType(D) /\ ~b.writing /\ b.jobs = r.jobs
            /\ b.starts = e.starts /\ b.starting = e.starting /\ b.next = e.next
            /\ b.highest = e.highest
        BY <1>4, <3>3 DEF Calmer
      <3>5. b.fragments = e.fragments /\ b.lane = e.lane /\ b.state = e.state
        <4>1. b \in SessionType(D) /\ e \in SessionType(D)
          BY <3>3 DEF Calmer
        <4>2. /\ b.fragments = <<>> /\ ~b.lane /\ b.state = "detached"
              /\ e.fragments = <<>> /\ ~e.lane /\ e.state = "detached"
          BY <1>1, <1>4, <1>5, <3>1, <3>2, EndCalmer
        <4>3. b.lane \in BOOLEAN /\ e.lane \in BOOLEAN
          BY <4>1 DEF SessionType
        <4> QED  BY <4>2, <4>3
      <3>6. b.streams = e.streams
        BY <1>1, <1>4, <3>1 DEF End, SessionType
      <3> QED  BY <3>4, <3>5, <3>6
    <2> QED  BY <2>1, <2>2
  <1> HIDE DEF b, e
  <1>7. Tail(r.jobs) \in Seq(JobType(D))
    BY <1>1 DEF SessionType
  <1>8. /\ d \in SessionType(D) /\ d.jobs = Tail(r.jobs) /\ d.writing = b.writing
        /\ d.starts = b.starts /\ d.starting = b.starting /\ d.next = b.next
        /\ d.highest = b.highest /\ d.streams = b.streams
        /\ d.fragments = b.fragments /\ d.lane = b.lane /\ d.state = b.state
    BY <1>6, <1>7 DEF SessionType
  <1> HIDE DEF d
  <1>9. /\ d \in SessionType(D) /\ d.jobs = Tail(e.jobs) /\ ~d.writing
        /\ d.starts = e.starts /\ d.starting = e.starting /\ d.next = e.next
        /\ d.highest = e.highest /\ d.streams = e.streams
        /\ d.fragments = e.fragments /\ d.lane = e.lane /\ d.state = e.state
        /\ e.jobs = r.jobs /\ Sound(D, p, e) /\ ~e.lane
    BY <1>2, <1>3, <1>6, <1>8
  <1> QED  BY <1>9 DEF d, e, b, a

LEMMA EndWriteStep ==
  ASSUME SessionsSound, NEW p \in Peers, EndWrite(p)
  PROVE  SessionsSound'
  <1> DEFINE D == Names(config)
             r == s[p]
             j == Head(r.jobs)
             a == [r EXCEPT !.writing = FALSE]
             done(ok) == [(IF ok THEN a ELSE Detach(a, "lost")) EXCEPT !.jobs = Tail(@)]
             t(ok) == IF ok /\ j.part < j.size THEN a
                      ELSE ReadResumes(Resume(done(ok), j, ok), j)
  <1>1. r.writing /\ Calm
    BY DEF EndWrite
  <1>2. PICK ok \in BOOLEAN : Becomes(p, t(ok), chan)
    <2>1. \E ok \in IF broken THEN BOOLEAN ELSE {TRUE} : Becomes(p, t(ok), chan)
      BY DEF EndWrite
    <2> HIDE DEF t
    <2> QED  BY <2>1
  <1>3. r.state # "idle" /\ Sound(D, p, r) /\ D \subseteq Name
    BY <1>1, SessionsNames
  <1>4. r \in SessionType(D) /\ r.jobs # <<>>
    BY <1>1, <1>3 DEF Sound, JobsSound
  <1>5. r.jobs \in Seq(JobType(D)) /\ 1 \in DOMAIN r.jobs /\ j = r.jobs[1]
    BY <1>4 DEF SessionType
  <1>6. /\ a \in SessionType(D) /\ ~a.writing /\ a.state = r.state /\ a.jobs = r.jobs
        /\ a.streams = r.streams /\ a.starts = r.starts /\ a.starting = r.starting
        /\ a.next = r.next /\ a.highest = r.highest /\ a.fragments = r.fragments
        /\ a.lane = r.lane
    BY <1>4 DEF SessionType
  <1>7. CASE ok /\ j.part < j.size
    <2>1. t(ok) = a
      BY <1>7
    <2> HIDE DEF a
    <2>2. StreamsSound(D, p, a) /\ FragmentsSound(D, p, a) /\ LaneSound(a)
      BY <1>3, <1>6 DEF Sound, StreamsSound, FragmentsSound, LaneSound, Over
    <2>3. StartsSound(D, p, a) /\ ItemsSound(D, p, a)
      <3>1. StartsSound(D, p, r) /\ ItemsSound(D, p, r)
        BY <1>3 DEF Sound
      <3> HIDE DEF r, D
      <3>2. StartsSound(D, p, a)
        BY <3>1, <1>6 DEF StartsSound
      <3>3. ItemsSound(D, p, a)
        BY <3>1, <1>6 DEF ItemsSound
      <3> QED  BY <3>2, <3>3
    <2>4. JobsSound(a)
      <3>1. \A i \in DOMAIN r.jobs : r.jobs[i].size \in Number
        <4>1. \A i \in DOMAIN r.jobs : r.jobs[i] \in JobType(D)
          BY <1>5
        <4> QED  BY <4>1 DEF JobType
      <3>2. j.part # j.size
        BY <1>7, <3>1, <1>5 DEF Number
      <3>3. \A i \in DOMAIN r.jobs : r.jobs[i].part # r.jobs[i].size
        BY <1>3, <1>5, <3>1, <3>2 DEF Sound, JobsSound, Number
      <3> QED  BY <1>3, <1>6, <3>3 DEF Sound, JobsSound
    <2>5. Sound(D, p, a)
      BY <1>6, <2>2, <2>3, <2>4 DEF Sound
    <2> HIDE DEF t
    <2> QED  BY <1>1, <1>2, <1>3, <2>1, <2>5, CalmSound, StaySound
  <1>8. CASE ok /\ ~(j.part < j.size)
    <2> DEFINE d == [a EXCEPT !.jobs = Tail(@)]
               u == ReadResumes(Resume(d, j, ok), j)
    <2>1. t(ok) = u
      BY <1>8
    <2>2. Tail(r.jobs) \in Seq(JobType(D))
      BY <1>4, <1>5
    <2> HIDE DEF a
    <2>3. /\ d \in SessionType(D) /\ d.jobs = Tail(r.jobs) /\ ~d.writing
          /\ d.starts = r.starts /\ d.starting = r.starting /\ d.next = r.next
          /\ d.highest = r.highest /\ d.streams = r.streams
          /\ d.fragments = r.fragments /\ d.lane = r.lane /\ d.state = r.state
      BY <1>6, <2>2 DEF SessionType
    <2> HIDE DEF d
    <2>4. Sound(D, p, u)
      <3> HIDE DEF D, r
      <3> QED  BY <1>3, <1>4, <1>8, <2>3, WrittenSound
    <2> HIDE DEF u, t
    <2> QED  BY <1>1, <1>2, <1>3, <2>1, <2>4, CalmSound, StaySound
  <1>9. CASE ~ok
    <2> DEFINE e == Detach(r, "lost")
               d == [Detach(a, "lost") EXCEPT !.jobs = Tail(@)]
               u == ReadResumes(Resume(d, j, ok), j)
    <2>1. t(ok) = u
      BY <1>9
    <2>2. /\ d \in SessionType(D) /\ d.jobs = Tail(e.jobs) /\ ~d.writing
          /\ d.starts = e.starts /\ d.starting = e.starting /\ d.next = e.next
          /\ d.highest = e.highest /\ d.streams = e.streams
          /\ d.fragments = e.fragments /\ d.lane = e.lane /\ d.state = e.state
          /\ e.jobs = r.jobs /\ Sound(D, p, e) /\ ~e.lane
      BY <1>3, <1>4, DetachWriting DEF Reasons
    <2> HIDE DEF d, e
    <2>3. Sound(D, p, u)
      <3> HIDE DEF D, r
      <3> QED  BY <1>3, <1>4, <1>9, <2>2, WrittenSound
    <2> HIDE DEF u, t
    <2> QED  BY <1>1, <1>2, <1>3, <2>1, <2>3, CalmSound, StaySound
  <1> QED  BY <1>7, <1>8, <1>9

\* What is read next.
LEMMA ReadSound ==
  ASSUME SessionsSound, NEW p \in Peers, CanRead(p)
  PROVE  /\ Sound(Names(config), p, s[p]) /\ s[p].lane /\ s[p].state # "idle"
         /\ Head(chan[p]) \in Frames(p) /\ FrameSound(p, Head(chan[p]))
         /\ [chan EXCEPT ![p] = Tail(@)] \in [Peers -> Seq(FrameType)]
         /\ \A q \in Peers : [chan EXCEPT ![p] = Tail(@)][q] \in Seq(Frames(q))
         /\ \A q \in Peers \ {p} : [chan EXCEPT ![p] = Tail(@)][q] = chan[q]
         /\ Names(config) \subseteq Name /\ chan[p] # <<>>
  <1>1. chan[p] # <<>> /\ s[p].state # "idle"
    BY DEF CanRead
  <1>2. Sound(Names(config), p, s[p]) /\ Names(config) \subseteq Name
    BY <1>1, SessionsNames
  <1>3. s[p].lane
    BY <1>1 DEF SessionsSound
  <1>4. chan \in [Peers -> Seq(FrameType)] /\ \A q \in Peers : chan[q] \in Seq(Frames(q))
    BY DEF SessionsSound
  <1>5. /\ Head(chan[p]) \in Frames(p) /\ Tail(chan[p]) \in Seq(Frames(p))
        /\ Tail(chan[p]) \in Seq(FrameType)
    <2>1. chan[p] \in Seq(Frames(p)) /\ chan[p] \in Seq(FrameType)
      BY <1>4
    <2> QED  BY ONLY <1>1, <2>1
  <1>6. FrameSound(p, Head(chan[p]))
    BY <1>5 DEF Frames
  <1> QED  BY <1>1, <1>2, <1>3, <1>4, <1>5, <1>6

LEMMA ReadStep ==
  ASSUME SessionsSound, NEW p \in Peers, Read(p)
  PROVE  SessionsSound'
  <1> DEFINE t == Handle(p, s[p], Head(chan[p]))
             channels == [chan EXCEPT ![p] = Tail(@)]
  <1>1. CanRead(p) /\ Becomes(p, t, channels) /\ Calm
    BY DEF Read
  <1>2. /\ Sound(Names(config), p, s[p]) /\ s[p].lane /\ s[p].state # "idle"
        /\ FrameSound(p, Head(chan[p]))
        /\ channels \in [Peers -> Seq(FrameType)]
        /\ \A q \in Peers : channels[q] \in Seq(Frames(q))
        /\ \A q \in Peers \ {p} : channels[q] = chan[q]
        /\ Names(config) \subseteq Name /\ chan[p] # <<>>
    BY <1>1, ReadSound
  <1>3. Sound(Names(config), p, t)
    BY <1>2, HandleSound
  <1> HIDE DEF t, channels
  <1> QED  BY <1>1, <1>2, <1>3, CalmSound, BecomesSound

LEMMA ReadThrowsStep ==
  ASSUME SessionsSound, NEW p \in Peers, ReadThrows(p)
  PROVE  SessionsSound'
  <1> DEFINE D == Names(config)
             f == Head(chan[p])
             r == Handle(p, s[p], f)
             k == f.stream
             j == OnStream(r, "error", k, 0)
             u == ReadWaits(r, j)
             t == [u EXCEPT !.streams[k].cancelled = TRUE]
             channels == [chan EXCEPT ![p] = Tail(@)]
  <1>1. /\ CanRead(p) /\ k \in DOMAIN r.streams /\ r.streams[k].table
        /\ Becomes(p, t, channels) /\ Event("throw") /\ silent' = silent
    BY DEF ReadThrows
  <1>2. /\ Sound(D, p, s[p]) /\ s[p].lane /\ s[p].state # "idle"
        /\ FrameSound(p, f)
        /\ channels \in [Peers -> Seq(FrameType)]
        /\ \A q \in Peers : channels[q] \in Seq(Frames(q))
        /\ \A q \in Peers \ {p} : channels[q] = chan[q]
        /\ D \subseteq Name /\ chan[p] # <<>>
    BY <1>1, ReadSound
  <1> HIDE DEF channels
  <1>3. Sound(D, p, r)
    BY <1>2, HandleSound
  <1> HIDE DEF r, f
  <1>4. r \in SessionType(D)
    BY <1>3 DEF Sound
  <1>5. k \in D
    BY <1>1, <1>4 DEF SessionType
  <1>6. r.streams[k].wire > 0
    BY <1>1, <1>3, <1>5 DEF Sound, StreamsSound, StreamSound
  <1>7. j \in JobType(D) /\ Plain(j)
    <2>1. "error" \in Kinds \ {"request", "item", "answer"} /\ 0 \in Nat
      BY DEF Kinds
    <2> QED  BY <1>2, <1>4, <1>5, <1>6, <2>1, StreamJob
  <1> HIDE DEF j
  <1>8. Sound(D, p, u)
    BY <1>3, <1>7, ReadWaitsSound
  <1> HIDE DEF u
  <1>9. Sound(D, p, t)
    <2> DEFINE x == u.streams[k]
               y == [x EXCEPT !.cancelled = TRUE]
    <2>1. x \in StreamType
      BY <1>5, <1>8 DEF Sound, SessionType
    <2>2. Alike(x, y)
      BY <2>1 DEF Alike, StreamType
    <2>3. t = [u EXCEPT !.streams[k] = y]
      OBVIOUS
    <2> HIDE DEF y, t
    <2> QED  BY <1>5, <1>8, <2>2, <2>3, AlikeSound
  <1> HIDE DEF t
  <1>10. config' = config /\ silent' \in BOOLEAN /\ events' \in 0..Config.limit
    BY <1>1, EventSound DEF SessionsSound
  <1> QED  BY <1>1, <1>2, <1>9, <1>10, BecomesSound

LEMMA ReadEndStep ==
  ASSUME SessionsSound, NEW p \in Peers, ReadEnd(p)
  PROVE  SessionsSound'
  <1> DEFINE t == ReadLoopFails(s[p], "lost")
             channels == [chan EXCEPT ![p] = <<>>]
  <1>1. s[p].state # "idle" /\ Becomes(p, t, channels) /\ Calm
    BY DEF ReadEnd
  <1>2. Sound(Names(config), p, s[p])
    BY <1>1, SessionsNames
  <1>3. Sound(Names(config), p, t)
    BY <1>2, ReadLoopFailsSound DEF Reasons
  <1>4. /\ channels \in [Peers -> Seq(FrameType)]
        /\ \A q \in Peers : channels[q] \in Seq(Frames(q))
        /\ \A q \in Peers \ {p} : channels[q] = chan[q]
        /\ channels[p] = <<>>
    <2>1. chan \in [Peers -> Seq(FrameType)] /\ \A q \in Peers : chan[q] \in Seq(Frames(q))
      BY DEF SessionsSound
    <2> DEFINE none == <<>>
    <2>2. none \in Seq(FrameType) /\ none \in Seq(Frames(p))
      OBVIOUS
    <2> HIDE DEF none
    <2>3. channels = [chan EXCEPT ![p] = none]
      BY DEF none
    <2> HIDE DEF channels
    <2>4. channels[p] = none /\ \A q \in Peers \ {p} : channels[q] = chan[q]
      BY <2>1, <2>3
    <2>5. channels \in [Peers -> Seq(FrameType)]
      BY <2>1, <2>2, <2>3
    <2>6. \A q \in Peers : channels[q] \in Seq(Frames(q))
      BY <2>1, <2>2, <2>4, Zenon
    <2> QED  BY <2>4, <2>5, <2>6 DEF none
  <1> HIDE DEF t, channels
  <1> QED  BY <1>1, <1>2, <1>3, <1>4, CalmSound, BecomesSound

LEMMA NextSound ==
  ASSUME SessionsSound, [Next]_vars
  PROVE  SessionsSound'
  <1>1. ASSUME NEW p \in Peers, Passing(p)
        PROVE  SessionsSound'
    BY <1>1, HandshakeTimeoutStep, StartRequestStep, BeginWriteStep, EndWriteStep, ReadStep,
       ReadEndStep, ExpireStep, BeginSendStep, SendWokenStep DEF Passing
  <1>2. ASSUME NEW p \in Peers, Calling(p)
        PROVE  SessionsSound'
    BY <1>2, AttachStep, OpenStep, CloseStep, ReadThrowsStep, SendStep, RequestStep,
       CompleteStep, CancelStep DEF Calling
  <1>3. CASE UNCHANGED vars
    <2>1. config' = config /\ s' = s /\ chan' = chan /\ broken' = broken /\ silent' = silent
          /\ events' = events
      BY <1>3 DEF vars
    <2> QED  BY <2>1 DEF SessionsSound, Config
  <1> QED  BY <1>1, <1>2, <1>3, KeepAliveStep, BreakStep DEF Next

\* Both sessions and the frames between them are sound in every state: startTail has one
\* request at a time, for the next id; a writer has one frame at a time; a stream has one
\* item in the queue, and waits for credit only if it has none.
THEOREM AlwaysSound == Spec => []SessionsSound
  <1>1. Init => SessionsSound
    BY InitSound
  <1>2. SessionsSound /\ [Next]_vars => SessionsSound'
    BY NextSound
  <1> QED  BY <1>1, <1>2, PTL DEF Spec

LEMMA SoundTypes ==
  SessionsSound => TypeOK
  <1> SUFFICES ASSUME SessionsSound
               PROVE  TypeOK
    OBVIOUS
  <1>1. config \in DOMAIN Configurations /\ {broken, silent} \subseteq BOOLEAN
        /\ events \in 0..Config.limit
    BY DEF SessionsSound
  <1>2. ASSUME NEW p \in Peers
        PROVE  /\ s[p] \in SessionType(Names(config))
               /\ s[p].starting => s[p].starts # <<>>
               /\ s[p].writing => s[p].jobs # <<>>
               /\ \A k \in Names(config) : StreamSound(p, k, s[p].streams[k])
    <2>1. CASE s[p] = Idle(config)
      <3>1. /\ ~s[p].starting /\ ~s[p].writing
            /\ s[p].streams = [k \in Names(config) |-> NewStream]
        BY <2>1, IdleFields
      <3>2. \A k \in Names(config) : StreamSound(p, k, NewStream)
        <4>1. /\ NewStream.sending = "none" /\ NewStream.sends = <<>> /\ NewStream.sent = 0
              /\ NewStream.credit = 0 /\ NewStream.pattern = "none" /\ ~NewStream.table
              /\ ~NewStream.started
          BY DEF NewStream
        <4>2. Len(NewStream.sends) <= NewStream.sent
          BY <4>1
        <4> QED  BY <4>1, <4>2 DEF StreamSound
      <3> QED  BY <1>1, <2>1, <3>1, <3>2, IdleType
    <2>2. CASE Sound(Names(config), p, s[p])
      BY <2>2 DEF Sound, StartsSound, JobsSound, StreamsSound
    <2> QED  BY <2>1, <2>2 DEF SessionsSound
  <1>3. ASSUME NEW p \in Peers
        PROVE  /\ s[p].state \in {"idle", "connecting", "ready", "detached", "closed"}
               /\ s[p].attach \in {"idle", "waiting", "resolved", "rejected"}
               /\ s[p].reader \in {"reading", "writing", "done"}
               /\ ToSet(s[p].starts) \subseteq DOMAIN s[p].streams
    <2>1. /\ s[p].starts \in Seq(Names(config)) /\ DOMAIN s[p].streams = Names(config)
      BY <1>2 DEF SessionType
    <2>2. ToSet(s[p].starts) \subseteq DOMAIN s[p].streams
      BY <2>1 DEF ToSet
    <2> QED  BY <1>2, <2>2 DEF SessionType, States
  <1>4. ASSUME NEW p \in Peers, NEW k \in DOMAIN s[p].streams
        PROVE  /\ Stream(p, k).pattern \in Patterns \cup {"none"}
               /\ Stream(p, k).sending \in Sending
               /\ {Stream(p, k).pregranted, Stream(p, k).initialDemand, Stream(p, k).allowance,
                   Stream(p, k).credit, Stream(p, k).got} \subseteq Nat
               /\ Stream(p, k).table => Stream(p, k).wire > 0 /\ Stream(p, k).started
    <2> DEFINE x == s[p].streams[k]
    <2>1. k \in Names(config) /\ x \in StreamType
      BY <1>2 DEF SessionType
    <2>2. StreamSound(p, k, x)
      BY <1>2, <2>1
    <2> HIDE DEF x
    <2>3. x.credit \in Nat
      BY <2>1, <2>2 DEF StreamType, StreamSound
    <2>4. /\ x.pattern \in Patterns \cup {"none"} /\ x.sending \in Sending
          /\ {x.pregranted, x.initialDemand, x.allowance, x.credit, x.got} \subseteq Nat
          /\ x.table => x.wire > 0 /\ x.started
      BY <2>1, <2>2, <2>3 DEF StreamType, StreamSound
    <2> QED  BY <2>4 DEF Stream, x
  <1> QED  BY <1>1, <1>2, <1>3, <1>4 DEF TypeOK

\* Every stream, session and activity is in one of its states: in particular no credit
\* falls below zero and what is in the table has its wire id.
THEOREM TypesKept == Spec => []TypeOK
  BY AlwaysSound, SoundTypes, PTL
=============================================================================
