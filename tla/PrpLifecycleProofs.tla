-------------------------- MODULE PrpLifecycleProofs --------------------------
(***************************************************************************)
(* Why one round of negotiation is enough; type correctness of PrpLifecycle; *)
(* what becomes of the disposers; why an ended session is silent and why two *)
(* ready sessions agree, for every pair of runtimes.                         *)
(*                                                                         *)
(* All that TypeOK says of one peer is a fact about its record, and so is   *)
(* what makes it inductive: Orderly.  There is one lemma for each operator  *)
(* on records; a step of a peer then is orderly because the record it       *)
(* Becomes is.                                                             *)
(*                                                                         *)
(* The first offer settles what two ready sessions agree on: what HELLO     *)
(* carries is fixed when it is written, the acceptor's agreement is a       *)
(* function of the two offers, and WELCOME names it so exactly that the     *)
(* initiator can only come to the same.  Handshake says this of every       *)
(* state; a step keeps it because it either GoesOn without touching offers  *)
(* and agreements, or is one of MakeOffer and Negotiate.                    *)
(***************************************************************************)
EXTENDS PrpLifecycle, TLAPS, FiniteSetTheorems, SequenceTheorems, WellFoundedInduction

-----------------------------------------------------------------------------
(* Negotiation: one round is enough.  The initiator negotiates again, with *)
(* the exact versions WELCOME names, and comes to what the acceptor had,   *)
(* for all sets of capabilities and all version ranges.                    *)

\* Ranges as the constructor and the decoder accept them.
Offerable(ranges) ==
  /\ ranges = [id \in DOMAIN ranges |-> ranges[id]]
  /\ \A id \in DOMAIN ranges : ranges[id] \in Ranges /\ ranges[id].min <= ranges[id].max

\* The two ends of what two ranges share.
LEMMA Bounds ==
  ASSUME NEW a \in Nat, NEW b \in Nat, NEW c \in Nat, NEW d \in Nat
  PROVE  /\ Lesser(b, d) \in {b, d}
         /\ Greater(a, c) <= Lesser(b, d) =>
              /\ a <= Lesser(b, d) /\ Lesser(b, d) <= b
              /\ c <= Lesser(b, d) /\ Lesser(b, d) <= d
         /\ \A v \in Nat : a <= v /\ v <= b /\ c <= v /\ v <= d
              => Greater(a, c) <= Lesser(b, d) /\ v <= Lesser(b, d)
BY DEF Greater, Lesser

LEMMA RangesAreNumbers ==
  ASSUME NEW r \in Ranges
  PROVE  r.min \in Nat /\ r.max \in Nat
<1>1. \A n \in 0..MaxVersion : n \in Nat
  OBVIOUS
<1>2. r.min \in 0..MaxVersion /\ r.max \in 0..MaxVersion
  BY DEF Ranges
<1> QED BY <1>1, <1>2

\* The version agreed on lies in both ranges, and is the highest that does.
LEMMA HighestCommon ==
  ASSUME NEW own \in Ranges, NEW theirs \in Ranges
  PROVE  /\ Compatible(own, theirs) =>
              /\ Highest(own, theirs) \in Nat
              /\ own.min <= Highest(own, theirs) /\ Highest(own, theirs) <= own.max
              /\ theirs.min <= Highest(own, theirs) /\ Highest(own, theirs) <= theirs.max
         /\ \A v \in Nat :
              /\ own.min <= v /\ v <= own.max /\ theirs.min <= v /\ v <= theirs.max
              => Compatible(own, theirs) /\ v <= Highest(own, theirs)
<1>1. /\ own.min \in Nat /\ own.max \in Nat
      /\ theirs.min \in Nat /\ theirs.max \in Nat
  BY RangesAreNumbers
<1> QED BY <1>1, Bounds DEF Compatible, Highest, Lowest

\* A range that is one version of another range agrees with it on that version.
LEMMA ExactVersion ==
  ASSUME NEW own \in Ranges, NEW v \in Nat, own.min <= v, v <= own.max,
         NEW exact, exact.min = v, exact.max = v
  PROVE  Compatible(own, exact) /\ Highest(own, exact) = v
<1>1. own.min \in Nat /\ own.max \in Nat
  BY RangesAreNumbers
<1>2. Lesser(own.max, v) = v /\ Greater(own.min, v) = v
  BY <1>1 DEF Lesser, Greater
<1> QED BY <1>2 DEF Compatible, Highest, Lowest

\* What the initiator makes of the WELCOME is what the acceptor made of the HELLO.
LEMMA SameAgreement ==
  ASSUME NEW own, NEW theirs, Offerable(own), Offerable(theirs),
         NEW ownRequire, NEW theirRequire,
         NEW hello, hello = Offer(theirs, theirRequire),
         NEW agreed, agreed = Negotiated(own, hello),
         NEW welcome, welcome = Offer(Exactly(agreed), ownRequire)
  PROVE  /\ DOMAIN welcome = DOMAIN agreed
         /\ \A id \in DOMAIN agreed : Compatible(theirs[id], welcome[id])
         /\ Negotiated(theirs, welcome) = agreed
<1> DEFINE both == {i \in DOMAIN own \cap DOMAIN theirs : Compatible(own[i], hello[i])}
<1>1. /\ DOMAIN hello = DOMAIN theirs
      /\ \A id \in DOMAIN theirs : /\ hello[id].min = theirs[id].min
                                   /\ hello[id].max = theirs[id].max
                                   /\ hello[id].required = (id \in theirRequire)
  BY DEF Offer
<1>2. \A id \in DOMAIN own \cap DOMAIN theirs :
        /\ Compatible(own[id], hello[id]) = Compatible(own[id], theirs[id])
        /\ Highest(own[id], hello[id]) = Highest(own[id], theirs[id])
  BY <1>1 DEF Compatible, Highest, Lowest
<1>3. agreed = [id \in both |-> Highest(own[id], theirs[id])]
  BY <1>1, <1>2 DEF Negotiated
<1>4. \A id \in both : /\ agreed[id] \in Nat
                       /\ theirs[id].min <= agreed[id] /\ agreed[id] <= theirs[id].max
                       /\ theirs[id] \in Ranges
  BY <1>2, <1>3, HighestCommon DEF Offerable
<1>5. /\ DOMAIN welcome = both
      /\ \A id \in both : /\ welcome[id].min = agreed[id]
                          /\ welcome[id].max = agreed[id]
  BY <1>3 DEF Offer, Exactly, VersionRange
<1>6. \A id \in both : /\ Compatible(theirs[id], welcome[id])
                       /\ Highest(theirs[id], welcome[id]) = agreed[id]
  BY <1>4, <1>5, ExactVersion
<1>7. Negotiated(theirs, welcome) = agreed
  <2>1. {i \in DOMAIN theirs \cap DOMAIN welcome : Compatible(theirs[i], welcome[i])} = both
    BY <1>5, <1>6
  <2>2. Negotiated(theirs, welcome) = [id \in both |-> Highest(theirs[id], welcome[id])]
    BY <2>1 DEF Negotiated
  <2>3. [id \in both |-> Highest(theirs[id], welcome[id])] = [id \in both |-> agreed[id]]
    BY <1>6
  <2>4. agreed = [id \in both |-> agreed[id]]
    BY <1>3
  <2> QED BY <2>2, <2>3, <2>4
<1> QED BY <1>3, <1>5, <1>6, <1>7

\* An acceptor that finds no mismatch sends a WELCOME in which the initiator finds none,
\* and both hold the same capabilities in the same versions: handleWelcome never refuses
\* what handleHello agreed to, whatever the two runtimes support and require.
THEOREM WelcomeAgrees ==
  ASSUME NEW own, NEW theirs, Offerable(own), Offerable(theirs),
         NEW ownRequire, NEW theirRequire, theirRequire \subseteq DOMAIN theirs,
         ~Mismatch(own, Offer(theirs, theirRequire), ownRequire)
  PROVE  LET agreed == Negotiated(own, Offer(theirs, theirRequire))
             welcome == Offer(Exactly(agreed), ownRequire)
         IN /\ Negotiated(theirs, welcome) = agreed
            /\ ~Mismatch(theirs, welcome, theirRequire)
<1> DEFINE hello == Offer(theirs, theirRequire)
           agreed == Negotiated(own, hello)
           welcome == Offer(Exactly(agreed), ownRequire)
<1>1. /\ DOMAIN welcome = DOMAIN agreed
      /\ \A id \in DOMAIN agreed : Compatible(theirs[id], welcome[id])
      /\ Negotiated(theirs, welcome) = agreed
  BY SameAgreement
<1>2. /\ DOMAIN hello = DOMAIN theirs
      /\ \A id \in DOMAIN theirs : hello[id].required = (id \in theirRequire)
  BY DEF Offer
<1>3. theirRequire \subseteq DOMAIN agreed /\ DOMAIN agreed \subseteq DOMAIN theirs
  BY <1>2 DEF Mismatch, Negotiated
<1> HIDE DEF welcome, agreed
<1>4. ~Mismatch(theirs, welcome, theirRequire)
  BY <1>1, <1>3 DEF Mismatch
<1> QED BY <1>1, <1>4 DEF agreed, welcome

-----------------------------------------------------------------------------
(* Types                                                                   *)

\* Functions on some of D.
Partial(D, T) == UNION {[C -> T] : C \in SUBSET D}

Ids ==
  UNION {DOMAIN Configurations[c][p].runtime.capabilities :
           c \in DOMAIN Configurations, p \in Peers}
SoundRanges == {r \in Ranges : r.min <= r.max}
Terms == {t \in [min : Nat, max : Nat, required : BOOLEAN] : t.min <= t.max}
Frames == [kind : FrameKinds, compact : BOOLEAN, offer : Partial(Ids, Terms)]

Names(rt) == ToSet(rt.extensions)
Activities == {"idle", "connecting", "ready"} \cup Ended
Attachment == {"idle", "connecting", "laneOpening", "datagramOpening", "hello", "waiting",
               "settled"}
Readers == {"off", "reading", "extending", "welcoming", "refusing", "replying", "done"}
Promise == {"pending", "resolved", "rejected"}
Reasons == {None, "closed", "abort", "lost", "refused", "violation", "remote", "mismatch",
            "extension", "timeout", "liveness"}
Openness == {"none", "opening", "open", "closed"}

Session(rt) ==
  [state : Activities, attach : Attachment, outcome : Promise, ready : Promise,
   aborted : BOOLEAN, held : SUBSET Resources, physical : [Resources -> Openness],
   offered : Partial(Ids, SoundRanges), agreed : Partial(Ids, Nat), reader : Readers,
   extension : Nat, attached : SUBSET Names(rt),
   disposers : Seq(Names(rt)), disposing : Seq(Names(rt)), disposed : Seq(Names(rt)),
   releasing : SUBSET Resources, jobs : Seq(FrameKinds),
   writing : {None} \cup FrameKinds, timer : {"off", "armed", "probing"},
   quiet : BOOLEAN, reason : Reasons]

\* What a peer holds or will release has been open.
Opened(r) == {x \in Resources : r.physical[x] \in {"open", "closed"}}

Unoffered == {"idle", "connecting", "laneOpening", "datagramOpening"}
\* attach() has not offered anything before the lanes are open, and has not started
\* the read loop before the reliable lane is.
AttachInOrder(r) ==
  /\ r.attach = "idle" <=> r.state = "idle"
  /\ r.attach \in {"connecting", "laneOpening"} => r.state = "connecting"
  /\ r.attach \in {"idle", "connecting", "laneOpening"} => r.reader = "off"
  /\ r.attach \in {"idle", "connecting"} => r.held = {}
  /\ r.attach \in Unoffered => DOMAIN r.offered = {}
  /\ r.attach = "datagramOpening" =>
       r.reader # "off" /\ r.physical["datagramLane"] = "opening"

\* Nothing else happens before the read loop starts.
OffUntilOpen(r) ==
  r.reader = "off" =>
    /\ r.held \subseteq {"connection"}
    /\ r.releasing = {} /\ r.attached = {}
    /\ r.disposers = <<>> /\ r.disposing = <<>> /\ r.disposed = <<>>
    /\ r.jobs = <<>> /\ r.writing = None /\ r.timer = "off"
    /\ r.outcome # "resolved" /\ r.ready # "resolved"

\* The three lists hold each attached extension once.
Accounted(r) ==
  /\ IsInjective(r.disposers) /\ IsInjective(r.disposing) /\ IsInjective(r.disposed)
  /\ ToSet(r.disposers) \cap ToSet(r.disposing) = {}
  /\ ToSet(r.disposers) \cap ToSet(r.disposed) = {}
  /\ ToSet(r.disposing) \cap ToSet(r.disposed) = {}
  /\ ToSet(r.disposers) \cup ToSet(r.disposing) \cup ToSet(r.disposed) = r.attached

Sound(rt, r) ==
  /\ r \in Session(rt)
  /\ r.held \subseteq Opened(r) /\ r.releasing \subseteq Opened(r)
  /\ DOMAIN r.agreed \subseteq DOMAIN r.offered
  /\ OffUntilOpen(r)
  /\ Accounted(r)
  \* Extensions are attached in the order of their list, in one go.
  /\ r.reader = "extending" =>
       /\ r.extension \in DOMAIN rt.extensions
       /\ \A j \in DOMAIN rt.extensions :
            rt.extensions[j] \in r.attached => j < r.extension
  /\ r.reader = "reading" /\ r.state = "connecting" => r.attached = {}
  \* Nobody answers a PING before it is ready.
  /\ "PONG" \in ToSet(r.jobs) \cup {r.writing} => r.state \notin {"idle", "connecting"}
  \* An ended session has let go of its lane and of its disposers.
  /\ r.state \in Ended => "lane" \notin r.held /\ r.disposers = <<>>

Orderly(rt, r) == Sound(rt, r) /\ AttachInOrder(r)

TypeInv ==
  /\ config \in DOMAIN Configurations
  /\ s = [p \in Peers |-> s[p]] /\ \A p \in Peers : Orderly(Runtime_(p), s[p])
  /\ chan \in [Peers -> Seq(Frames)]
  /\ eof \in [Peers -> BOOLEAN] /\ silent \in BOOLEAN
  /\ events \in 0..Configurations[config].limit

-----------------------------------------------------------------------------
(* Sequences                                                               *)

LEMMA SetOfSeq ==
  ASSUME NEW S, NEW q \in Seq(S)
  PROVE  ToSet(q) = {q[i] : i \in 1..Len(q)} /\ ToSet(q) \subseteq S
  BY DEF ToSet

LEMMA SetOfConcat ==
  ASSUME NEW S, NEW a \in Seq(S), NEW b \in Seq(S)
  PROVE  ToSet(a \o b) = ToSet(a) \cup ToSet(b)
  <1> DEFINE c == a \o b
  <1>1. c \in Seq(S) /\ Len(c) = Len(a) + Len(b)
    BY ConcatProperties
  <1>2. \A i \in 1..Len(a) : i \in 1..Len(c) /\ c[i] = a[i]
    BY <1>1, ConcatProperties, LenProperties
  <1>3. \A i \in 1..Len(b) : i + Len(a) \in 1..Len(c) /\ c[i + Len(a)] = b[i]
    BY <1>1, ConcatProperties, LenProperties
  <1>4. \A i \in 1..Len(c) : \/ i \in 1..Len(a)
                             \/ i - Len(a) \in 1..Len(b)
    BY <1>1, LenProperties
  <1>5. \A i \in 1..Len(c) : c[i] \in ToSet(a) \cup ToSet(b)
    <2> TAKE i \in 1..Len(c)
    <2>1. CASE i \in 1..Len(a)
      BY <2>1, <1>2, SetOfSeq
    <2>2. CASE i - Len(a) \in 1..Len(b)
      <3>1. (i - Len(a)) + Len(a) = i
        BY LenProperties
      <3> QED  BY <2>2, <3>1, <1>3, SetOfSeq
    <2> QED  BY <2>1, <2>2, <1>4
  <1>6. ToSet(c) = {c[i] : i \in 1..Len(c)}
    BY <1>1, SetOfSeq
  <1>7. ToSet(a) \subseteq ToSet(c) /\ ToSet(b) \subseteq ToSet(c)
    BY <1>2, <1>3, <1>6, SetOfSeq, SMTT(30)
  <1> QED  BY <1>5, <1>6, <1>7

\* A concatenation repeats nothing when its parts do not and have nothing in common.
LEMMA InjectiveConcat ==
  ASSUME NEW S, NEW a \in Seq(S), NEW b \in Seq(S),
         IsInjective(a), IsInjective(b), ToSet(a) \cap ToSet(b) = {}
  PROVE  IsInjective(a \o b)
  <1> DEFINE c == a \o b
  <1>1. c \in Seq(S) /\ Len(c) = Len(a) + Len(b) /\ DOMAIN c = 1..Len(c)
    BY ConcatProperties, LenProperties
  <1>2. SUFFICES ASSUME NEW i \in 1..Len(c), NEW j \in 1..Len(c), c[i] = c[j]
                 PROVE  i = j
    BY <1>1 DEF IsInjective
  <1>3. /\ Len(a) \in Nat /\ Len(b) \in Nat
        /\ DOMAIN a = 1..Len(a) /\ DOMAIN b = 1..Len(b)
    BY LenProperties
  <1>4. \A k \in 1..Len(c) : \/ k \in 1..Len(a) /\ c[k] = a[k]
                             \/ k - Len(a) \in 1..Len(b) /\ c[k] = b[k - Len(a)]
    BY <1>1, <1>3, ConcatProperties
  <1>5. \A k \in 1..Len(a), m \in 1..Len(b) : a[k] # b[m]
    <2> TAKE k \in 1..Len(a), m \in 1..Len(b)
    <2>1. a[k] \in ToSet(a) /\ b[m] \in ToSet(b)
      BY <1>3 DEF ToSet
    <2> QED  BY <2>1
  <1>6. CASE i \in 1..Len(a) /\ j \in 1..Len(a) /\ c[i] = a[i] /\ c[j] = a[j]
    BY <1>2, <1>3, <1>6 DEF IsInjective
  <1>7. CASE /\ i - Len(a) \in 1..Len(b) /\ j - Len(a) \in 1..Len(b)
             /\ c[i] = b[i - Len(a)] /\ c[j] = b[j - Len(a)]
    <2>1. i - Len(a) = j - Len(a)
      BY <1>2, <1>3, <1>7 DEF IsInjective
    <2> QED  BY <2>1, <1>3
  <1> QED  BY <1>2, <1>4, <1>5, <1>6, <1>7

LEMMA ReverseFacts ==
  ASSUME NEW S, NEW q \in Seq(S)
  PROVE  /\ Reverse(q) \in Seq(S) /\ ToSet(Reverse(q)) = ToSet(q)
         /\ IsInjective(q) => IsInjective(Reverse(q))
  <1> DEFINE n == Len(q)
             r == Reverse(q)
  <1>1. n \in Nat /\ DOMAIN q = 1..n
    BY LenProperties
  <1>2. \A i \in 1..n : (n - i) + 1 \in 1..n /\ (n - ((n - i) + 1)) + 1 = i
    BY <1>1
  <1>3. r = [i \in 1..n |-> q[(n - i) + 1]]
    BY DEF Reverse
  <1>4. \A i \in 1..n : q[(n - i) + 1] \in S
    BY <1>2, ElementOfSeq
  <1>5. r \in [1..n -> S] /\ DOMAIN r = 1..n /\ \A i \in 1..n : r[i] = q[(n - i) + 1]
    BY <1>3, <1>4
  <1>6. r \in Seq(S)
    BY <1>1, <1>5, SeqDef
  <1>7. \A i \in 1..n : q[i] = r[(n - i) + 1]
    BY <1>2, <1>5
  <1>8. ToSet(r) = ToSet(q)
    BY <1>1, <1>2, <1>5, <1>7 DEF ToSet
  <1>9. ASSUME IsInjective(q), NEW i \in 1..n, NEW j \in 1..n, r[i] = r[j]
        PROVE  i = j
    <2>1. (n - i) + 1 = (n - j) + 1
      BY <1>1, <1>2, <1>5, <1>9 DEF IsInjective
    <2> QED  BY <2>1, <1>1
  <1> QED  BY <1>5, <1>6, <1>8, <1>9 DEF IsInjective

LEMMA SetOfAppend ==
  ASSUME NEW S, NEW q \in Seq(S), NEW e \in S
  PROVE  /\ Append(q, e) \in Seq(S) /\ ToSet(Append(q, e)) = ToSet(q) \cup {e}
         /\ IsInjective(q) /\ e \notin ToSet(q) => IsInjective(Append(q, e))
  <1>1. /\ Append(q, e) \in Seq(S) /\ Append(q, e) = q \o <<e>>
        /\ <<e>> \in Seq(S) /\ Len(<<e>>) = 1 /\ <<e>>[1] = e
    BY AppendProperties, AppendIsConcat
  <1> DEFINE one == <<e>>
  <1>2. DOMAIN one = {1} /\ one[1] = e
    OBVIOUS
  <1> HIDE DEF one
  <1>3. ToSet(one) = {e} /\ IsInjective(one)
    BY <1>2 DEF ToSet, IsInjective
  <1>4. /\ Append(q, e) = q \o one /\ one \in Seq(S)
        /\ e \notin ToSet(q) => ToSet(q) \cap ToSet(one) = {}
    BY <1>1, <1>3 DEF one
  <1> QED  BY <1>1, <1>3, <1>4, SetOfConcat, InjectiveConcat

LEMMA SetOfHeadTail ==
  ASSUME NEW S, NEW q \in Seq(S), q # <<>>
  PROVE  /\ Head(q) \in S /\ Tail(q) \in Seq(S)
         /\ ToSet(q) = ToSet(Tail(q)) \cup {Head(q)}
         /\ IsInjective(q) => IsInjective(Tail(q)) /\ Head(q) \notin ToSet(Tail(q))
  <1>1. /\ Head(q) \in S /\ Tail(q) \in Seq(S) /\ Len(Tail(q)) = Len(q) - 1
        /\ \A i \in 1..Len(Tail(q)) : Tail(q)[i] = q[i + 1]
    BY HeadTailProperties
  <1>2. Len(q) \in Nat \ {0} /\ DOMAIN q = 1..Len(q) /\ Head(q) = q[1]
    BY EmptySeq, LenProperties
  <1>3. DOMAIN Tail(q) = 1..(Len(q) - 1)
    BY <1>1, LenProperties
  <1>4. \A i \in 1..(Len(q) - 1) : i + 1 \in 1..Len(q) /\ i + 1 # 1 /\ Tail(q)[i] = q[i + 1]
    BY <1>1, <1>2
  <1>5. \A i \in 1..Len(q) : i = 1 \/ (i - 1 \in 1..(Len(q) - 1) /\ (i - 1) + 1 = i)
    BY <1>2
  <1>6. 1 \in 1..Len(q)
    BY <1>2
  <1>7. \A i \in 1..Len(q) : q[i] \in ToSet(Tail(q)) \cup {Head(q)}
    <2> TAKE i \in 1..Len(q)
    <2>1. CASE i = 1
      BY <2>1, <1>2
    <2>2. CASE i - 1 \in 1..(Len(q) - 1) /\ (i - 1) + 1 = i
      <3>1. Tail(q)[i - 1] = q[i]
        BY <2>2, <1>4
      <3> QED  BY <2>2, <3>1, <1>3 DEF ToSet
    <2> QED  BY <2>1, <2>2, <1>5
  <1>8. ToSet(Tail(q)) \cup {Head(q)} \subseteq ToSet(q)
    BY <1>2, <1>3, <1>4, <1>6 DEF ToSet
  <1>9. ToSet(q) = ToSet(Tail(q)) \cup {Head(q)}
    BY <1>2, <1>7, <1>8 DEF ToSet
  <1>10. ASSUME IsInjective(q) PROVE IsInjective(Tail(q))
    <2>1. SUFFICES ASSUME NEW i \in 1..(Len(q) - 1), NEW j \in 1..(Len(q) - 1),
                          Tail(q)[i] = Tail(q)[j]
                   PROVE  i = j
      BY <1>3 DEF IsInjective
    <2>2. i + 1 = j + 1
      BY <1>2, <1>4, <1>10, <2>1 DEF IsInjective
    <2> QED  BY <2>2
  <1>11. ASSUME IsInjective(q) PROVE Head(q) \notin ToSet(Tail(q))
    BY <1>2, <1>3, <1>4, <1>6, <1>11 DEF IsInjective, ToSet
  <1> QED  BY <1>1, <1>9, <1>10, <1>11

LEMMA EmptyFacts ==
  ASSUME NEW S
  PROVE  <<>> \in Seq(S) /\ ToSet(<<>>) = {} /\ IsInjective(<<>>) /\ DOMAIN <<>> = {}
  <1>1. <<>> \in Seq(S) /\ Len(<<>>) = 0 /\ DOMAIN <<>> = {}
    BY EmptySeq, LenProperties
  <1> QED  BY <1>1 DEF ToSet, IsInjective

-----------------------------------------------------------------------------
(* The ends of a session                                                   *)

LEMMA CloseType ==
  ASSUME NEW rt, NEW r \in Session(rt), NEW names \in SUBSET Resources
  PROVE  /\ Close(r, names) \in Session(rt)
         /\ Close(r, names).physical = [x \in Resources |-> IF x \in names THEN "closed" ELSE r.physical[x]]
  BY DEF Close, Session, Openness

LEMMA DisposeType ==
  ASSUME NEW rt, NEW r \in Session(rt)
  PROVE  /\ Dispose(r) \in Session(rt)
         /\ Dispose(r).disposers = <<>>
         /\ Dispose(r).disposing = r.disposing \o Reverse(r.disposers)
  BY ReverseFacts, EmptyFacts, ConcatProperties DEF Dispose, Session

\* What becomes of the fields of a session that is detached.
Detaches(r, d) ==
  /\ d.state = "detached" /\ d.held = {} /\ d.timer = "off"
  /\ d.ready \in {r.ready, "rejected"}
  /\ d.physical = [x \in Resources |-> IF x \in r.held THEN "closed" ELSE r.physical[x]]
  /\ d.disposers = <<>> /\ d.disposing = r.disposing \o Reverse(r.disposers)
  /\ d.disposed = r.disposed /\ d.attached = r.attached
  /\ d.attach = r.attach /\ d.outcome = r.outcome /\ d.aborted = r.aborted
  /\ d.offered = r.offered /\ d.agreed = r.agreed
  /\ d.reader = r.reader /\ d.extension = r.extension
  /\ d.releasing = r.releasing /\ d.jobs = r.jobs /\ d.writing = r.writing
  /\ d.quiet = r.quiet

LEMMA DetachFields ==
  ASSUME NEW rt, NEW r \in Session(rt), NEW why \in Reasons, r.state \notin Ended,
         NEW d, d = Detach(r, why)
  PROVE  /\ d \in Session(rt)
         /\ Detaches(r, d)
  <1> DEFINE c == Close(r, r.held)
             e == Dispose(c)
  <1>1. c \in Session(rt) /\ e \in Session(rt)
    BY CloseType, DisposeType DEF Session
  <1>2. d = [e EXCEPT !.state = "detached", !.held = {},
          !.ready = IF r.state = "connecting" THEN Rejected(r) ELSE @,
          !.timer = "off", !.reason = Because(r, why)]
    BY DEF Detach
  <1>3. Rejected(r) \in {r.ready, "rejected"} /\ Because(r, why) \in Reasons
    BY DEF Rejected, Because, Session
  <1>4. e = [c EXCEPT !.disposing = r.disposing \o Reverse(r.disposers), !.disposers = <<>>]
    BY <1>1 DEF Dispose, Close, Session
  <1>5. c = [r EXCEPT !.physical = [x \in Resources |-> IF x \in r.held THEN "closed" ELSE r.physical[x]]]
    BY DEF Close, Session
  <1>6. c.ready = r.ready /\ e.ready = r.ready /\ r.ready \in Promise
    BY <1>4, <1>5, <1>1, ZenonT(60) DEF Session
  <1>7. PICK ready \in {r.ready, "rejected"}, reason \in Reasons :
          d = [e EXCEPT !.state = "detached", !.held = {}, !.ready = ready,
                        !.timer = "off", !.reason = reason]
    BY <1>2, <1>3, <1>6, Zenon
  <1> HIDE DEF c, e
  <1>8. ready \in Promise
    BY <1>6 DEF Promise
  <1>9. d \in Session(rt)
    <2> DEFINE g == [e EXCEPT !.state = "detached", !.held = {}]
               h == [g EXCEPT !.ready = ready, !.timer = "off"]
    <2>1. g \in Session(rt)
      BY <1>1 DEF Session, Activities, Ended
    <2>2. d = [h EXCEPT !.reason = reason]
      BY <1>7
    <2> HIDE DEF g
    <2>3. h \in Session(rt)
      BY <1>8, <2>1 DEF Session
    <2> HIDE DEF h
    <2> QED  BY <2>2, <2>3 DEF Session
  <1>10. /\ d.state = "detached" /\ d.held = {} /\ d.timer = "off" /\ d.ready = ready
         /\ d.physical = e.physical /\ d.disposers = e.disposers /\ d.disposing = e.disposing
         /\ d.disposed = e.disposed /\ d.attached = e.attached
         /\ d.attach = e.attach /\ d.outcome = e.outcome /\ d.aborted = e.aborted
         /\ d.offered = e.offered /\ d.agreed = e.agreed
         /\ d.reader = e.reader /\ d.extension = e.extension
         /\ d.releasing = e.releasing /\ d.jobs = e.jobs /\ d.writing = e.writing
         /\ d.quiet = e.quiet
    BY <1>1, <1>7 DEF Session
  <1>11. /\ e.disposers = <<>> /\ e.disposing = r.disposing \o Reverse(r.disposers)
         /\ e.physical = [x \in Resources |-> IF x \in r.held THEN "closed" ELSE r.physical[x]]
         /\ e.disposed = r.disposed /\ e.attached = r.attached
         /\ e.attach = r.attach /\ e.outcome = r.outcome /\ e.aborted = r.aborted
         /\ e.offered = r.offered /\ e.agreed = r.agreed
         /\ e.reader = r.reader /\ e.extension = r.extension
         /\ e.releasing = r.releasing /\ e.jobs = r.jobs /\ e.writing = r.writing
         /\ e.quiet = r.quiet
    BY <1>1, <1>4, <1>5, ZenonT(60) DEF Session
  <1> QED  BY <1>7, <1>9, <1>10, <1>11, ZenonT(60) DEF Detaches

\* And of one that is closed, whether it was detached before or not.
Closes(r, d) ==
  /\ d.state = "closed" /\ d.held = {} /\ d.timer = "off"
  /\ d.releasing = r.releasing \cup r.held
  /\ d.disposers = <<>> /\ d.disposing = r.disposing \o Reverse(r.disposers)
  /\ d.disposed = r.disposed /\ d.attached = r.attached
  /\ d.attach = r.attach /\ d.outcome = r.outcome /\ d.aborted = r.aborted
  /\ d.ready = r.ready /\ d.physical = r.physical
  /\ d.offered = r.offered /\ d.agreed = r.agreed
  /\ d.reader = r.reader /\ d.extension = r.extension
  /\ d.jobs = r.jobs /\ d.writing = r.writing /\ d.quiet = r.quiet

LEMMA FinishClosedFields ==
  ASSUME NEW rt, NEW r \in Session(rt), r.state # "closed", NEW d, d = FinishClosed(r)
  PROVE  /\ d \in Session(rt)
         /\ Closes(r, d)
  <1> DEFINE e == Dispose(r)
  <1>1. e \in Session(rt)
    BY DisposeType
  <1>2. Because(r, "closed") \in Reasons
    BY DEF Because, Session, Reasons
  <1>3. PICK reason \in Reasons :
          d = [e EXCEPT !.state = "closed", !.held = {}, !.releasing = @ \cup r.held,
                        !.timer = "off", !.reason = reason]
    BY <1>2, Zenon DEF FinishClosed
  <1>4. /\ e.disposers = <<>> /\ e.disposing = r.disposing \o Reverse(r.disposers)
        /\ e.disposed = r.disposed /\ e.attached = r.attached
        /\ e.attach = r.attach /\ e.outcome = r.outcome /\ e.aborted = r.aborted
        /\ e.ready = r.ready /\ e.physical = r.physical
        /\ e.offered = r.offered /\ e.agreed = r.agreed
        /\ e.reader = r.reader /\ e.extension = r.extension
        /\ e.releasing = r.releasing /\ e.jobs = r.jobs /\ e.writing = r.writing
        /\ e.quiet = r.quiet
    BY <1>1 DEF Dispose, Session
  <1> HIDE DEF e
  <1>5. e.releasing \cup r.held \in SUBSET Resources
    BY <1>1 DEF Session
  <1>6. d \in Session(rt)
    <2>1. \A names \in SUBSET Resources :
            [e EXCEPT !.state = "closed", !.held = {}, !.releasing = names,
                      !.timer = "off", !.reason = reason] \in Session(rt)
      BY <1>1 DEF Session, Activities, Ended
    <2> QED  BY <1>3, <1>5, <2>1
  <1>7. /\ d.state = "closed" /\ d.held = {} /\ d.timer = "off"
        /\ d.releasing = e.releasing \cup r.held
        /\ d.disposers = e.disposers /\ d.disposing = e.disposing
        /\ d.disposed = e.disposed /\ d.attached = e.attached
        /\ d.attach = e.attach /\ d.outcome = e.outcome /\ d.aborted = e.aborted
        /\ d.ready = e.ready /\ d.physical = e.physical
        /\ d.offered = e.offered /\ d.agreed = e.agreed
        /\ d.reader = e.reader /\ d.extension = e.extension
        /\ d.jobs = e.jobs /\ d.writing = e.writing /\ d.quiet = e.quiet
    BY <1>1, <1>3 DEF Session
  <1> QED  BY <1>4, <1>6, <1>7, ZenonT(60) DEF Closes

LEMMA ListTypes ==
  ASSUME NEW rt, NEW r \in Session(rt)
  PROVE  /\ r.disposers \in Seq(Names(rt)) /\ r.disposing \in Seq(Names(rt))
         /\ r.disposed \in Seq(Names(rt)) /\ r.attached \subseteq Names(rt)
         /\ r.jobs \in Seq(FrameKinds)
  BY DEF Session

\* Disposers that change place are neither lost nor doubled.
LEMMA AccountedWhenDisposed ==
  ASSUME NEW rt, NEW r \in Session(rt), Accounted(r),
         NEW d, d.disposers = <<>>, d.disposing = r.disposing \o Reverse(r.disposers),
         d.disposed = r.disposed, d.attached = r.attached
  PROVE  Accounted(d)
  <1> DEFINE back == Reverse(r.disposers)
  <1>1. /\ back \in Seq(Names(rt)) /\ ToSet(back) = ToSet(r.disposers) /\ IsInjective(back)
    BY ListTypes, ReverseFacts DEF Accounted
  <1> HIDE DEF back
  <1>2. ToSet(r.disposing \o back) = ToSet(r.disposing) \cup ToSet(r.disposers)
    BY <1>1, ListTypes, SetOfConcat
  <1>3. IsInjective(r.disposing \o back)
    BY <1>1, ListTypes, InjectiveConcat DEF Accounted
  <1>4. ToSet(<<>>) = {} /\ IsInjective(<<>>)
    BY EmptyFacts
  <1> QED  BY <1>2, <1>3, <1>4 DEF Accounted, back

LEMMA DetachSound ==
  ASSUME NEW rt, NEW r, Sound(rt, r), NEW why \in Reasons
  PROVE  Sound(rt, Detach(r, why))
  <1>1. CASE r.state \in Ended
    BY <1>1 DEF Detach
  <1>2. CASE r.state \notin Ended
    <2> DEFINE d == Detach(r, why)
    <2>0. r \in Session(rt)
      BY DEF Sound
    <2>1. d \in Session(rt) /\ Detaches(r, d)
      BY <1>2, <2>0, DetachFields
    <2> HIDE DEF d
    <2>2. d.held \subseteq Opened(d) /\ d.releasing \subseteq Opened(d)
      BY <2>1 DEF Detaches, Sound, Opened, Session
    <2>3. OffUntilOpen(d)
      <3>1. ASSUME d.reader = "off" PROVE d.disposing = <<>>
        <4>1. r.disposers = <<>> /\ r.disposing = <<>>
          BY <2>1, <3>1 DEF Detaches, Sound, OffUntilOpen
        <4>2. Reverse(<<>>) = <<>> /\ <<>> \o <<>> = <<>>
          BY DEF Reverse
        <4> QED  BY <2>1, <4>1, <4>2 DEF Detaches
      <3> QED  BY <2>1, <3>1 DEF Detaches, Sound, OffUntilOpen
    <2>4. Accounted(d)
      BY <2>1, AccountedWhenDisposed DEF Detaches, Sound
    <2>5. /\ DOMAIN d.agreed \subseteq DOMAIN d.offered
          /\ d.state \in Ended
          /\ d.reader = "extending" =>
               /\ d.extension \in DOMAIN rt.extensions
               /\ \A j \in DOMAIN rt.extensions :
                    rt.extensions[j] \in d.attached => j < d.extension
      BY <2>1 DEF Detaches, Sound, Ended
    <2>6. /\ d.state \notin {"idle", "connecting"} /\ "lane" \notin d.held /\ d.disposers = <<>>
      BY <2>1 DEF Detaches
    <2>7. Sound(rt, d)
      BY <2>1, <2>2, <2>3, <2>4, <2>5, <2>6 DEF Sound
    <2> QED  BY <2>7 DEF d
  <1> QED  BY <1>1, <1>2

LEMMA FinishClosedSound ==
  ASSUME NEW rt, NEW r, Sound(rt, r), r.reader # "off"
  PROVE  Sound(rt, FinishClosed(r))
  <1>1. CASE r.state = "closed"
    BY <1>1 DEF FinishClosed
  <1>2. CASE r.state # "closed"
    <2> DEFINE d == FinishClosed(r)
    <2>0. r \in Session(rt)
      BY DEF Sound
    <2>1. d \in Session(rt) /\ Closes(r, d)
      BY <1>2, <2>0, FinishClosedFields
    <2> HIDE DEF d
    <2>2. d.held \subseteq Opened(d) /\ d.releasing \subseteq Opened(d)
      BY <2>1 DEF Closes, Sound, Opened
    <2>3. OffUntilOpen(d)
      BY <2>1 DEF Closes, OffUntilOpen
    <2>4. Accounted(d)
      BY <2>1, AccountedWhenDisposed DEF Closes, Sound
    <2>5. /\ DOMAIN d.agreed \subseteq DOMAIN d.offered
          /\ d.state \in Ended
          /\ d.reader = "extending" =>
               /\ d.extension \in DOMAIN rt.extensions
               /\ \A j \in DOMAIN rt.extensions :
                    rt.extensions[j] \in d.attached => j < d.extension
      BY <2>1 DEF Closes, Sound, Ended
    <2>6. /\ d.state \notin {"idle", "connecting"} /\ "lane" \notin d.held /\ d.disposers = <<>>
      BY <2>1 DEF Closes
    <2>7. Sound(rt, d)
      BY <2>1, <2>2, <2>3, <2>4, <2>5, <2>6 DEF Sound
    <2> QED  BY <2>7 DEF d
  <1> QED  BY <1>1, <1>2

LEMMA DetachOrderly ==
  ASSUME NEW rt, NEW r, Orderly(rt, r), r.reader # "off", NEW why \in Reasons
  PROVE  /\ Orderly(rt, Detach(r, why)) /\ Detach(r, why).reader = r.reader
         /\ Detach(r, why).state \in Ended
  <1> DEFINE d == Detach(r, why)
  <1>1. r \in Session(rt) /\ AttachInOrder(r) /\ Sound(rt, d) /\ r.held \subseteq Opened(r)
    BY DetachSound DEF Orderly, Sound
  <1>2. CASE r.state \in Ended
    BY <1>2 DEF Detach
  <1>3. CASE r.state \notin Ended
    <2>1. Detaches(r, d)
      BY <1>1, <1>3, DetachFields
    <2> HIDE DEF d
    <2>2. AttachInOrder(d)
      BY <1>1, <2>1 DEF AttachInOrder, Detaches, Opened, Resources
    <2>3. Orderly(rt, d) /\ d.reader = r.reader /\ d.state \in Ended
      BY <1>1, <2>1, <2>2 DEF Orderly, Detaches, Ended
    <2> QED  BY <2>3 DEF d
  <1> QED  BY <1>2, <1>3

LEMMA FinishClosedOrderly ==
  ASSUME NEW rt, NEW r, Orderly(rt, r), r.reader # "off"
  PROVE  Orderly(rt, FinishClosed(r))
  <1> DEFINE d == FinishClosed(r)
  <1>1. r \in Session(rt) /\ AttachInOrder(r) /\ Sound(rt, d)
    BY FinishClosedSound DEF Orderly, Sound
  <1>2. CASE r.state = "closed"
    BY <1>2 DEF FinishClosed
  <1>3. CASE r.state # "closed"
    <2>1. Closes(r, d)
      BY <1>1, <1>3, FinishClosedFields
    <2> HIDE DEF d
    <2>2. AttachInOrder(d)
      BY <1>1, <2>1 DEF AttachInOrder, Closes
    <2>3. Orderly(rt, d)
      BY <1>1, <2>2 DEF Orderly
    <2> QED  BY <2>3 DEF d
  <1> QED  BY <1>2, <1>3

\* The fields of the record that the next lemma lets a step change, once the read
\* loop has started.
SameLanes(r, d) == d.held = r.held /\ d.physical = r.physical /\ d.releasing = r.releasing
SameLists(r, d) ==
  /\ d.attached = r.attached /\ d.disposers = r.disposers
  /\ d.disposing = r.disposing /\ d.disposed = r.disposed
InTurn(rt, d) ==
  d.reader = "extending" =>
    /\ d.extension \in DOMAIN rt.extensions
    /\ \A j \in DOMAIN rt.extensions : rt.extensions[j] \in d.attached => j < d.extension

LEMMA StaysSound ==
  ASSUME NEW rt, NEW r, Sound(rt, r), NEW d, d \in Session(rt),
         r.reader # "off", d.reader # "off",
         SameLanes(r, d), SameLists(r, d), DOMAIN d.agreed \subseteq DOMAIN d.offered,
         d.state \in {r.state, "ready"},
         InTurn(rt, d),
         d.reader = "reading" /\ d.state = "connecting" => d.attached = {},
         "PONG" \in ToSet(d.jobs) \cup {d.writing} => d.state \notin {"idle", "connecting"}
  PROVE  Sound(rt, d)
  <1>1. d.held \subseteq Opened(d) /\ d.releasing \subseteq Opened(d)
    BY DEF Sound, Opened, SameLanes
  <1>2. Accounted(d)
    BY DEF Sound, Accounted, SameLists
  <1>3. d.state \in Ended => "lane" \notin d.held /\ d.disposers = <<>>
    BY DEF Sound, SameLanes, SameLists, Ended
  <1>4. OffUntilOpen(d)
    BY DEF OffUntilOpen
  <1> QED  BY <1>1, <1>2, <1>3, <1>4 DEF Sound, InTurn

LEMMA StaysOrderly ==
  ASSUME NEW rt, NEW r, Orderly(rt, r), NEW d, d \in Session(rt),
         r.reader # "off", d.reader # "off",
         SameLanes(r, d), SameLists(r, d),
         d.offered = r.offered, DOMAIN d.agreed \subseteq DOMAIN d.offered,
         d.attach = r.attach \/ d.attach \in {"hello", "waiting", "settled"},
         d.state \in {r.state, "ready"},
         InTurn(rt, d),
         d.reader = "reading" /\ d.state = "connecting" => d.attached = {},
         "PONG" \in ToSet(d.jobs) \cup {d.writing} => d.state \notin {"idle", "connecting"}
  PROVE  Orderly(rt, d)
  <1>1. Sound(rt, r) /\ AttachInOrder(r)
    BY DEF Orderly
  <1>2. Sound(rt, d)
    BY <1>1, StaysSound
  <1>3. AttachInOrder(d)
    BY <1>1 DEF AttachInOrder, SameLanes, Unoffered
  <1> QED  BY <1>2, <1>3 DEF Orderly

\* What Orderly says of a peer whose read loop has started.
LEMMA OrderlyFacts ==
  ASSUME NEW rt, NEW r, Orderly(rt, r)
  PROVE  /\ r \in Session(rt) /\ Sound(rt, r) /\ AttachInOrder(r)
         /\ DOMAIN r.agreed \subseteq DOMAIN r.offered
         /\ InTurn(rt, r)
         /\ r.reader = "reading" /\ r.state = "connecting" => r.attached = {}
         /\ "PONG" \in ToSet(r.jobs) \cup {r.writing} => r.state \notin {"idle", "connecting"}
         /\ r.reader = "off" => /\ r.jobs = <<>> /\ r.writing = None /\ r.timer = "off"
                                /\ r.outcome # "resolved" /\ r.ready # "resolved"
                                /\ r.disposing = <<>> /\ r.releasing = {}
  BY DEF Orderly, Sound, InTurn, OffUntilOpen

LEMMA AttachFailsOrderly ==
  ASSUME NEW rt, NEW r, Sound(rt, r), r.state # "idle", NEW why \in Reasons
  PROVE  Orderly(rt, AttachFails(r, why))
  <1> DEFINE c == Detach(r, why)
             d == AttachFails(r, why)
  <1>1. Sound(rt, c) /\ c \in Session(rt) /\ r \in Session(rt)
    BY DetachSound DEF Sound
  <1>2. c.state # "idle"
    <2>1. CASE r.state \in Ended
      BY <2>1 DEF Detach
    <2>2. CASE r.state \notin Ended
      BY <2>2, <1>1, DetachFields DEF Detaches
    <2> QED  BY <2>1, <2>2
  <1>3. d = [c EXCEPT !.attach = "settled", !.outcome = "rejected"]
    BY DEF AttachFails
  <1> HIDE DEF c, d
  <1>4. /\ d \in Session(rt) /\ SameLanes(c, d) /\ SameLists(c, d)
        /\ d.attach = "settled" /\ d.outcome = "rejected" /\ d.state = c.state
        /\ d.ready = c.ready /\ d.offered = c.offered /\ d.agreed = c.agreed
        /\ d.reader = c.reader /\ d.extension = c.extension
        /\ d.jobs = c.jobs /\ d.writing = c.writing /\ d.timer = c.timer
    BY <1>1, <1>3 DEF Session, SameLanes, SameLists, Attachment, Promise
  <1>5. Opened(d) = Opened(c) /\ Accounted(c) /\ OffUntilOpen(c)
    BY <1>1, <1>4 DEF Sound, SameLanes, Opened
  <1>6. Accounted(d) /\ OffUntilOpen(d)
    BY <1>4, <1>5 DEF SameLanes, SameLists, OffUntilOpen, Accounted
  <1>7. Sound(rt, d)
    BY <1>1, <1>4, <1>5, <1>6 DEF Sound, SameLanes, SameLists
  <1>8. AttachInOrder(d)
    BY <1>2, <1>4 DEF AttachInOrder, Unoffered
  <1>9. Orderly(rt, d)
    BY <1>7, <1>8 DEF Orderly
  <1> QED  BY <1>9 DEF d

LEMMA ReadLoopFailsOrderly ==
  ASSUME NEW rt, NEW r, Orderly(rt, r), r.reader # "off", NEW why \in Reasons
  PROVE  Orderly(rt, ReadLoopFails(r, why))
  <1> DEFINE c == Detach(r, why)
             d == ReadLoopFails(r, why)
  <1>1. Orderly(rt, c) /\ c.reader # "off" /\ c.state \in Ended
    BY DetachOrderly
  <1>2. d = [c EXCEPT !.reader = "done"]
    BY DEF ReadLoopFails
  <1> HIDE DEF c, d
  <1>3. c \in Session(rt) /\ DOMAIN c.agreed \subseteq DOMAIN c.offered
    BY <1>1, OrderlyFacts
  <1>4. /\ d \in Session(rt) /\ SameLanes(c, d) /\ SameLists(c, d)
        /\ d.attach = c.attach /\ d.state = c.state
        /\ d.offered = c.offered /\ d.agreed = c.agreed /\ d.reader = "done"
    BY <1>2, <1>3 DEF Session, SameLanes, SameLists, Readers
  <1>5. d.state \notin {"idle", "connecting"}
    BY <1>1, <1>4 DEF Ended
  <1>6. Orderly(rt, d)
    BY <1>1, <1>3, <1>4, <1>5, StaysOrderly DEF InTurn
  <1> QED  BY <1>6 DEF d

-----------------------------------------------------------------------------
(* The handshake                                                           *)

\* A write joins the queue, whatever the read loop is at after that.
LEMMA QueueFields ==
  ASSUME NEW rt, NEW r \in Session(rt), NEW kind \in FrameKinds
  PROVE  /\ Queue(r, kind) = [r EXCEPT !.jobs = Append(r.jobs, kind)]
         /\ Queue(r, kind) \in Session(rt)
         /\ Append(r.jobs, kind) \in Seq(FrameKinds)
         /\ ToSet(Append(r.jobs, kind)) = ToSet(r.jobs) \cup {kind}
  <1>1. r.jobs \in Seq(FrameKinds)
    BY DEF Session
  <1>2. /\ Append(r.jobs, kind) \in Seq(FrameKinds)
        /\ ToSet(Append(r.jobs, kind)) = ToSet(r.jobs) \cup {kind}
    BY <1>1, SetOfAppend
  <1>3. Queue(r, kind) = [r EXCEPT !.jobs = Append(r.jobs, kind)]
    BY DEF Queue, Session
  <1>4. Queue(r, kind) \in Session(rt)
    BY <1>2, <1>3 DEF Session
  <1> QED  BY <1>2, <1>3, <1>4

LEMMA QueueOrderly ==
  ASSUME NEW rt, NEW r, Orderly(rt, r), r.reader # "off", NEW kind \in FrameKinds,
         kind = "PONG" => r.state \notin {"idle", "connecting"},
         NEW reader \in Readers \ {"off", "reading", "extending"}
  PROVE  /\ Orderly(rt, Queue(r, kind))
         /\ Orderly(rt, [Queue(r, kind) EXCEPT !.reader = reader])
  <1> DEFINE c == Queue(r, kind)
             d == [c EXCEPT !.reader = reader]
  <1>1. r \in Session(rt) /\ DOMAIN r.agreed \subseteq DOMAIN r.offered /\ InTurn(rt, r)
    BY OrderlyFacts
  <1>2. /\ c = [r EXCEPT !.jobs = Append(r.jobs, kind)] /\ c \in Session(rt)
        /\ ToSet(Append(r.jobs, kind)) = ToSet(r.jobs) \cup {kind}
    BY <1>1, QueueFields
  <1> HIDE DEF c
  <1>3. /\ SameLanes(r, c) /\ SameLists(r, c) /\ c.offered = r.offered /\ c.agreed = r.agreed
        /\ c.attach = r.attach /\ c.state = r.state /\ c.reader = r.reader
        /\ c.extension = r.extension /\ c.writing = r.writing
        /\ ToSet(c.jobs) = ToSet(r.jobs) \cup {kind}
    BY <1>1, <1>2 DEF Session, SameLanes, SameLists
  <1>4. InTurn(rt, c)
    BY <1>1, <1>3 DEF InTurn, SameLists
  <1>5. "PONG" \in ToSet(c.jobs) \cup {c.writing} => c.state \notin {"idle", "connecting"}
    BY <1>3, OrderlyFacts
  <1>6. c.reader = "reading" /\ c.state = "connecting" => c.attached = {}
    BY <1>3, OrderlyFacts DEF SameLists
  <1>7. Orderly(rt, c)
    BY <1>1, <1>2, <1>3, <1>4, <1>5, <1>6, StaysOrderly
  <1>8. /\ d \in Session(rt) /\ SameLanes(c, d) /\ SameLists(c, d)
        /\ d.offered = c.offered /\ d.agreed = c.agreed /\ d.attach = c.attach
        /\ d.state = c.state /\ d.reader = reader
        /\ d.jobs = c.jobs /\ d.writing = c.writing
    BY <1>2 DEF Session, SameLanes, SameLists
  <1> HIDE DEF d
  <1>9. Orderly(rt, d)
    BY <1>1, <1>3, <1>5, <1>7, <1>8, StaysOrderly DEF InTurn
  <1> QED  BY <1>7, <1>9 DEF c, d

LEMMA RefuseOrderly ==
  ASSUME NEW rt, NEW r, Orderly(rt, r), r.reader # "off", NEW why \in Reasons
  PROVE  Orderly(rt, Refuse(r, why))
  <1> DEFINE c == Queue(r, "ERROR")
             d == Refuse(r, why)
  <1>1. r \in Session(rt) /\ "ERROR" \in FrameKinds
    BY OrderlyFacts DEF FrameKinds
  <1>2. c \in Session(rt) /\ c = [r EXCEPT !.jobs = Append(r.jobs, "ERROR")]
    BY <1>1, QueueFields
  <1>9. Orderly(rt, c)
    <2>1. "refusing" \in Readers \ {"off", "reading", "extending"}
      BY DEF Readers
    <2> QED  BY <1>1, <2>1, QueueOrderly
  <1>3. Rejected(r) \in Promise /\ Because(r, why) \in Reasons
    BY <1>1 DEF Rejected, Because, Session, Promise
  <1>4. d = [c EXCEPT !.ready = Rejected(r), !.reader = "refusing", !.reason = Because(r, why)]
    BY DEF Refuse
  <1>5. c.reader = r.reader
    BY <1>1, <1>2 DEF Session
  <1> HIDE DEF c, d
  <1>6. /\ d \in Session(rt) /\ SameLanes(c, d) /\ SameLists(c, d)
        /\ d.offered = c.offered /\ d.agreed = c.agreed /\ d.attach = c.attach
        /\ d.state = c.state /\ d.reader = "refusing"
        /\ d.jobs = c.jobs /\ d.writing = c.writing
    BY <1>2, <1>3, <1>4, ZenonT(60) DEF Session, SameLanes, SameLists, Readers
  <1>7. Orderly(rt, d)
    BY <1>2, <1>9, <1>5, <1>6, StaysOrderly, OrderlyFacts DEF InTurn
  <1> QED  BY <1>7 DEF d

LEMMA BecomeReadyOrderly ==
  ASSUME NEW rt, NEW r, Orderly(rt, r), r.reader # "off"
  PROVE  Orderly(rt, BecomeReady(r))
  <1> DEFINE d == BecomeReady(r)
  <1>1. r \in Session(rt)
    BY OrderlyFacts
  <1>2. /\ d \in Session(rt) /\ SameLanes(r, d) /\ SameLists(r, d)
        /\ d.offered = r.offered /\ d.agreed = r.agreed /\ d.attach = r.attach
        /\ d.state = "ready" /\ d.reader = "reading"
        /\ d.jobs = r.jobs /\ d.writing = r.writing
    BY <1>1, ZenonT(60) DEF BecomeReady, Session, SameLanes, SameLists, Readers,
       Activities, Promise
  <1> HIDE DEF d
  <1>3. Orderly(rt, d)
    BY <1>2, StaysOrderly, OrderlyFacts DEF InTurn
  <1> QED  BY <1>3 DEF d

\* A nonempty set of places has a first one.
LEMMA FirstPlace ==
  ASSUME NEW S, S \subseteq Nat, S # {}
  PROVE  LET first == CHOOSE j \in S : \A i \in S : j <= i
         IN first \in S /\ \A i \in S : first <= i
  <1> DEFINE less == OpToRel(<, Nat)
  <1>1. IsWellFoundedOn(less, Nat)
    BY NatLessThanWellFounded
  <1>2. \A i, j \in Nat : i < j => <<i, j>> \in less
    BY DEF OpToRel
  <1> HIDE DEF less
  <1>3. PICK m \in S : \A i \in S : ~(<<i, m>> \in less)
    BY <1>1, WFMin
  <1>4. \A i \in S : m <= i
    <2> TAKE i \in S
    <2>1. i \in Nat /\ m \in Nat
      OBVIOUS
    <2>2. ~(i < m)
      BY <2>1, <1>2, <1>3
    <2> QED  BY <2>1, <2>2
  <1> QED  BY <1>3, <1>4

LEMMA RuntimeFacts ==
  ASSUME config \in DOMAIN Configurations, NEW p \in Peers
  PROVE  /\ Constructible(Runtime_(p))
         /\ Runtime_(p).extensions \in Seq(Names(Runtime_(p)))
         /\ IsInjective(Runtime_(p).extensions)
         /\ DOMAIN Runtime_(p).capabilities \subseteq Ids
         /\ Names(Runtime_(p)) \subseteq Ids
  <1> DEFINE rt == Runtime_(p)
             others == DOMAIN rt.capabilities \ {Base, Datagram, Compact}
  <1>1. Constructible(rt)
    BY ConfigurationsAssumption DEF Runtime_
  <1>2. DOMAIN rt.capabilities \subseteq Ids
    BY DEF Ids, Runtime_
  <1>3. rt.extensions \in Seq(others) /\ IsInjective(rt.extensions)
    BY <1>1 DEF Constructible
  <1>4. /\ DOMAIN rt.extensions = 1..Len(rt.extensions) /\ Len(rt.extensions) \in Nat
        /\ rt.extensions \in [1..Len(rt.extensions) -> others]
    BY <1>3, LenProperties
  <1> HIDE DEF rt
  <1>5. rt.extensions \in [1..Len(rt.extensions) -> Names(rt)]
    BY <1>4 DEF Names, ToSet
  <1>6. rt.extensions \in Seq(Names(rt))
    BY <1>4, <1>5, SeqDef
  <1>7. Names(rt) \subseteq others
    BY <1>4 DEF Names, ToSet
  <1> QED  BY <1>1, <1>2, <1>3, <1>6, <1>7 DEF rt

\* attachExtensions goes on, whatever the reader was at.
LEMMA NextExtensionOrderly ==
  ASSUME config \in DOMAIN Configurations, NEW p \in Peers,
         NEW r \in Session(Runtime_(p)), Orderly(Runtime_(p), [r EXCEPT !.reader = "welcoming"]),
         NEW k \in Nat,
         \A j \in DOMAIN Runtime_(p).extensions :
           Runtime_(p).extensions[j] \in r.attached => j <= k
  PROVE  Orderly(Runtime_(p), NextExtension(p, r, k))
  <1> DEFINE rt == Runtime_(p)
             order == rt.extensions
             later == {j \in (k + 1)..Len(order) : order[j] \in DOMAIN r.agreed}
             first == CHOOSE j \in later : \A i \in later : j <= i
             c == [r EXCEPT !.reader = "welcoming"]
             d == NextExtension(p, r, k)
  <1>1. Len(order) \in Nat /\ DOMAIN order = 1..Len(order)
    BY RuntimeFacts, LenProperties
  <1>2. /\ c \in Session(rt) /\ c.reader = "welcoming" /\ c.jobs = r.jobs /\ c.attached = r.attached
        /\ DOMAIN c.agreed \subseteq DOMAIN c.offered
        /\ "PONG" \in ToSet(c.jobs) \cup {c.writing} => c.state \notin {"idle", "connecting"}
    BY OrderlyFacts, ZenonT(60) DEF Session, Readers
  <1>3. CASE later # {}
    <2>1. later \subseteq Nat
      BY <1>1
    <2> HIDE DEF later
    <2>2. first \in later
      BY <1>3, <2>1, FirstPlace
    <2> HIDE DEF first
    <2>3. first \in DOMAIN order /\ first \in Nat /\ first > k
      BY <2>2, <1>1 DEF later
    <2>4. d = [r EXCEPT !.reader = "extending", !.extension = first]
      BY <1>3 DEF NextExtension, later, first
    <2> HIDE DEF d, c, order
    <2>5. d = [c EXCEPT !.reader = "extending", !.extension = first]
      BY <2>4 DEF c, Session
    <2>6. /\ d \in Session(rt) /\ SameLanes(c, d) /\ SameLists(c, d)
          /\ d.offered = c.offered /\ d.agreed = c.agreed /\ d.attach = c.attach
          /\ d.state = c.state /\ d.reader = "extending" /\ d.extension = first
          /\ d.jobs = c.jobs /\ d.writing = c.writing
      BY <1>2, <2>3, <2>5 DEF Session, SameLanes, SameLists, Readers
    <2>7. InTurn(rt, d)
      <3>1. \A j \in DOMAIN order : order[j] \in d.attached => j < first
        BY <1>1, <1>2, <2>3, <2>6 DEF SameLists, order
      <3> QED  BY <2>3, <2>6, <3>1 DEF InTurn, order
    <2>8. Orderly(rt, d)
      BY <1>2, <2>6, <2>7, StaysOrderly DEF c
    <2> QED  BY <2>8 DEF d
  <1>4. CASE later = {} /\ p = "acceptor"
    <2>1. d = [Queue(r, "WELCOME") EXCEPT !.reader = "welcoming"]
      BY <1>4 DEF NextExtension
    <2>2. "WELCOME" \in FrameKinds
      BY DEF FrameKinds
    <2>3. d = Queue(c, "WELCOME")
      BY <2>1, <2>2 DEF Queue, Session
    <2>4. "welcoming" \in Readers \ {"off", "reading", "extending"}
      BY DEF Readers
    <2>5. c.reader # "off" /\ Orderly(rt, c)
      BY <1>2
    <2> HIDE DEF d, c, rt
    <2>6. Orderly(rt, d)
      BY <2>2, <2>3, <2>4, <2>5, QueueOrderly
    <2> QED  BY <2>6 DEF d, rt
  <1>5. CASE later = {} /\ p = "initiator"
    <2>1. d = BecomeReady(r)
      BY <1>5 DEF NextExtension
    <2>2. BecomeReady(r) = BecomeReady(c)
      BY DEF BecomeReady, Session
    <2> QED  BY <1>2, <2>1, <2>2, BecomeReadyOrderly
  <1> QED  BY <1>3, <1>4, <1>5 DEF Peers

-----------------------------------------------------------------------------
(* Offers                                                                  *)

LEMMA PartialFacts ==
  ASSUME NEW D, NEW T, NEW f \in Partial(D, T)
  PROVE  /\ DOMAIN f \subseteq D /\ f = [x \in DOMAIN f |-> f[x]]
         /\ \A x \in DOMAIN f : f[x] \in T
  <1>1. PICK C \in SUBSET D : f \in [C -> T]
    BY DEF Partial
  <1> QED  BY <1>1

LEMMA PartialIntro ==
  ASSUME NEW D, NEW T, NEW C \in SUBSET D, NEW f \in [C -> T]
  PROVE  f \in Partial(D, T)
  BY DEF Partial

LEMMA NothingOffered ==
  ASSUME NEW D, NEW T
  PROVE  <<>> \in Partial(D, T)
  <1>1. <<>> \in [{} -> T]
    <2>1. <<>> \in Seq(T) /\ Len(<<>>) = 0 /\ 1..0 = {}
      BY EmptySeq
    <2>2. <<>> \in [1..0 -> T]
      BY <2>1, LenProperties
    <2> QED  BY <2>1, <2>2
  <1>2. {} \in SUBSET D
    OBVIOUS
  <1> QED  BY <1>1, <1>2, PartialIntro

LEMMA SoundRangesFacts ==
  ASSUME NEW r \in SoundRanges
  PROVE  /\ r \in Ranges /\ r.min \in Nat /\ r.max \in Nat /\ r.min <= r.max
         /\ [min |-> r.min, max |-> r.max] = r
  BY RangesAreNumbers DEF SoundRanges, Ranges

\* What is left of a runtime's capabilities without a lane.
LEMMA OfferedType ==
  ASSUME config \in DOMAIN Configurations, NEW p \in Peers, NEW lane
  PROVE  /\ Offered(Runtime_(p), lane) \in Partial(Ids, SoundRanges)
         /\ Base \in DOMAIN Offered(Runtime_(p), lane)
  <1> DEFINE rt == Runtime_(p)
             C == PhysicallyAvailable(rt, lane)
  <1>1. Constructible(rt) /\ DOMAIN rt.capabilities \subseteq Ids
    BY RuntimeFacts
  <1> HIDE DEF rt
  <1>2. C \subseteq DOMAIN rt.capabilities
    BY DEF PhysicallyAvailable
  <1>3. \A id \in C : rt.capabilities[id] \in SoundRanges
    BY <1>1, <1>2 DEF Constructible, SoundRanges
  <1>4. Base \in C
    <2>1. {Base} \in SUBSET DOMAIN rt.capabilities
      BY <1>1 DEF Constructible
    <2>2. Datagram \notin {Base}
      BY DEF Datagram, Base
    <2>3. {Base} \cap ToSet(rt.extensions) = {}
      <3>1. rt.extensions \in Seq(DOMAIN rt.capabilities \ {Base, Datagram, Compact})
        BY <1>1 DEF Constructible
      <3> QED  BY <3>1, SetOfSeq
    <2> QED  BY <2>1, <2>2, <2>3 DEF PhysicallyAvailable
  <1> HIDE DEF C
  <1>5. [id \in C |-> rt.capabilities[id]] \in [C -> SoundRanges]
    BY <1>3
  <1>6. Offered(rt, lane) = [id \in C |-> rt.capabilities[id]]
    BY DEF Offered, C
  <1>7. C \in SUBSET Ids
    BY <1>1, <1>2
  <1>8. Offered(rt, lane) \in Partial(Ids, SoundRanges)
    BY <1>5, <1>6, <1>7, PartialIntro
  <1> QED  BY <1>4, <1>6, <1>8 DEF rt

LEMMA OfferType ==
  ASSUME NEW ranges \in Partial(Ids, SoundRanges), NEW require
  PROVE  Offer(ranges, require) \in Partial(Ids, Terms)
  <1>1. DOMAIN ranges \in SUBSET Ids /\ \A id \in DOMAIN ranges : ranges[id] \in SoundRanges
    BY PartialFacts
  <1>2. \A id \in DOMAIN ranges :
          [min |-> ranges[id].min, max |-> ranges[id].max, required |-> id \in require] \in Terms
    BY <1>1, SoundRangesFacts DEF Terms
  <1>3. Offer(ranges, require) \in [DOMAIN ranges -> Terms]
    BY <1>2 DEF Offer
  <1> QED  BY <1>1, <1>3, PartialIntro

LEMMA ExactlyType ==
  ASSUME NEW agreed \in Partial(Ids, Nat), NEW require
  PROVE  Offer(Exactly(agreed), require) \in Partial(Ids, Terms)
  <1>1. DOMAIN agreed \in SUBSET Ids /\ \A id \in DOMAIN agreed : agreed[id] \in Nat
    BY PartialFacts
  <1>2. /\ DOMAIN Exactly(agreed) = DOMAIN agreed
        /\ \A id \in DOMAIN agreed : /\ Exactly(agreed)[id].min = agreed[id]
                                     /\ Exactly(agreed)[id].max = agreed[id]
    BY DEF Exactly, VersionRange
  <1>3. \A id \in DOMAIN agreed :
          [min |-> Exactly(agreed)[id].min, max |-> Exactly(agreed)[id].max,
           required |-> id \in require] \in Terms
    BY <1>1, <1>2 DEF Terms
  <1>4. Offer(Exactly(agreed), require) \in [DOMAIN agreed -> Terms]
    BY <1>2, <1>3 DEF Offer
  <1> QED  BY <1>1, <1>4, PartialIntro

LEMMA NegotiatedType ==
  ASSUME NEW own \in Partial(Ids, SoundRanges), NEW theirs \in Partial(Ids, Terms)
  PROVE  /\ Negotiated(own, theirs) \in Partial(Ids, Nat)
         /\ DOMAIN Negotiated(own, theirs) \subseteq DOMAIN own
  <1> DEFINE C == {i \in DOMAIN own \cap DOMAIN theirs : Compatible(own[i], theirs[i])}
  <1>1. /\ DOMAIN own \subseteq Ids /\ \A id \in DOMAIN own : own[id] \in SoundRanges
        /\ \A id \in DOMAIN theirs : theirs[id] \in Terms
    BY PartialFacts
  <1>2. \A id \in C : Highest(own[id], theirs[id]) \in Nat
    <2> TAKE id \in C
    <2>1. own[id].max \in Nat /\ theirs[id].max \in Nat
      BY <1>1, SoundRangesFacts DEF Terms
    <2> QED  BY <2>1 DEF Highest, Lesser
  <1>3. Negotiated(own, theirs) = [id \in C |-> Highest(own[id], theirs[id])]
    BY DEF Negotiated
  <1>4. C \in SUBSET Ids /\ C \subseteq DOMAIN own
    BY <1>1
  <1> HIDE DEF C
  <1>5. Negotiated(own, theirs) \in [C -> Nat]
    BY <1>2, <1>3
  <1> QED  BY <1>4, <1>5, PartialIntro

-----------------------------------------------------------------------------
(* Negotiation                                                             *)

LEMMA DropOrderly ==
  ASSUME NEW rt, NEW r, Orderly(rt, r), r.reader # "off"
  PROVE  LET d == DropUnusedDatagramLane(r)
         IN /\ Orderly(rt, d) /\ d.reader = r.reader
            /\ d.attached = r.attached /\ d.agreed = r.agreed
            /\ d.offered = r.offered /\ d.state = r.state
            /\ d.jobs = r.jobs /\ d.writing = r.writing
  <1> DEFINE d == DropUnusedDatagramLane(r)
  <1>1. /\ r \in Session(rt) /\ Sound(rt, r) /\ AttachInOrder(r) /\ InTurn(rt, r)
        /\ DOMAIN r.agreed \subseteq DOMAIN r.offered
    BY OrderlyFacts
  <1>2. CASE Datagram \in DOMAIN r.agreed
    BY <1>2 DEF DropUnusedDatagramLane
  <1>3. CASE Datagram \notin DOMAIN r.agreed
    <2> DEFINE gone == r.held \cap {"datagramLane"}
               c == Close(r, gone)
    <2>1. r.held \subseteq Opened(r) /\ r.releasing \subseteq Opened(r) /\ r.held \subseteq Resources
      BY <1>1 DEF Sound, Session
    <2>2. /\ c \in Session(rt)
          /\ c.physical = [x \in Resources |-> IF x \in gone THEN "closed" ELSE r.physical[x]]
      BY <1>1, <2>1, CloseType
    <2>3. c = [r EXCEPT !.physical = c.physical]
      BY <1>1, <2>2 DEF Close, Session
    <2>4. d = [c EXCEPT !.held = @ \ {"datagramLane"}]
      BY <1>3 DEF DropUnusedDatagramLane
    <2> HIDE DEF c, d, gone
    <2>5. /\ d \in Session(rt) /\ d.held = r.held \ {"datagramLane"} /\ SameLists(r, d)
          /\ d.physical = [x \in Resources |-> IF x \in gone THEN "closed" ELSE r.physical[x]]
          /\ d.releasing = r.releasing /\ d.offered = r.offered /\ d.agreed = r.agreed
          /\ d.attach = r.attach /\ d.state = r.state /\ d.reader = r.reader
          /\ d.extension = r.extension /\ d.jobs = r.jobs /\ d.writing = r.writing
      BY <1>1, <2>1, <2>2, <2>3, <2>4 DEF Session, SameLists
    <2>6. Opened(r) \subseteq Opened(d) /\ gone \subseteq Opened(r)
      BY <2>1, <2>5 DEF Opened, gone
    <2>7. Accounted(d) /\ OffUntilOpen(d)
      BY <1>1, <2>5 DEF Sound, SameLists, Accounted, OffUntilOpen
    <2>8. AttachInOrder(d)
      BY <1>1, <2>5, <2>6 DEF AttachInOrder, Opened, Resources
    <2>9. Sound(rt, d)
      BY <1>1, <2>1, <2>5, <2>6, <2>7 DEF Sound, SameLists
    <2>10. Orderly(rt, d)
      BY <2>8, <2>9 DEF Orderly
    <2> QED  BY <2>5, <2>10 DEF d, SameLists
  <1> QED  BY <1>2, <1>3

LEMMA NegotiateOrderly ==
  ASSUME config \in DOMAIN Configurations, NEW p \in Peers,
         NEW r, Orderly(Runtime_(p), r), r.reader # "off", r.attached = {},
         NEW offer \in Partial(Ids, Terms)
  PROVE  Orderly(Runtime_(p), Negotiate(p, r, offer))
  <1> DEFINE rt == Runtime_(p)
             agreed == Negotiated(r.offered, offer)
             m == [r EXCEPT !.agreed = agreed]
             d == DropUnusedDatagramLane(m)
             e == NextExtension(p, d, 0)
  <1>1. Orderly(rt, Refuse(r, "mismatch"))
    BY RefuseOrderly DEF Reasons
  <1>2. r \in Session(rt) /\ r.offered \in Partial(Ids, SoundRanges)
    BY OrderlyFacts DEF Session
  <1>3. agreed \in Partial(Ids, Nat) /\ DOMAIN agreed \subseteq DOMAIN r.offered
    BY <1>2, NegotiatedType
  <1> HIDE DEF agreed, rt
  <1> DEFINE w == [m EXCEPT !.reader = "welcoming"]
  <1>4. /\ m \in Session(rt) /\ SameLanes(r, w) /\ SameLists(r, w)
        /\ w \in Session(rt)
        /\ w.offered = r.offered /\ w.agreed = agreed /\ w.attach = r.attach
        /\ w.state = r.state /\ w.reader = "welcoming"
        /\ w.jobs = r.jobs /\ w.writing = r.writing
    BY <1>2, <1>3 DEF Session, SameLanes, SameLists, Readers
  <1>5. Orderly(rt, w)
    <2> HIDE DEF w
    <2> QED  BY <1>3, <1>4, StaysOrderly, OrderlyFacts DEF InTurn, rt
  <1>6. /\ Orderly(rt, DropUnusedDatagramLane(w)) /\ DropUnusedDatagramLane(w).attached = {}
        /\ DropUnusedDatagramLane(w).reader = "welcoming"
    <2> HIDE DEF w
    <2> QED  BY <1>4, <1>5, DropOrderly DEF SameLists
  <1>7. /\ d \in Session(rt) /\ d.attached = {}
        /\ [d EXCEPT !.reader = "welcoming"] = DropUnusedDatagramLane(w)
    <2>1. /\ m.attached = {} /\ w.held = m.held /\ w.agreed = m.agreed
          /\ w.physical = m.physical
      BY <1>2, <1>4 DEF Session
    <2>2. m \in Session(rt) /\ w \in Session(rt) /\ w = [m EXCEPT !.reader = "welcoming"]
      BY <1>4
    <2> HIDE DEF m, w
    <2>3. CASE Datagram \in DOMAIN m.agreed
      <3>1. d = m /\ DropUnusedDatagramLane(w) = w
        BY <2>1, <2>3 DEF DropUnusedDatagramLane
      <3> QED  BY <2>1, <2>2, <3>1
    <2>4. CASE Datagram \notin DOMAIN m.agreed
      <3> DEFINE gone == m.held \cap {"datagramLane"}
                 held == m.held \ {"datagramLane"}
                 physical == [x \in Resources |-> IF x \in gone THEN "closed" ELSE m.physical[x]]
      <3>1. physical \in [Resources -> Openness] /\ held \in SUBSET Resources
        BY <2>2 DEF Session, Openness
      <3>2. /\ d = [m EXCEPT !.physical = physical, !.held = held]
            /\ DropUnusedDatagramLane(w) = [w EXCEPT !.physical = physical, !.held = held]
        BY <2>1, <2>2, <2>4 DEF DropUnusedDatagramLane, Close, Session
      <3> HIDE DEF d, held, physical
      <3> QED  BY <2>1, <2>2, <3>1, <3>2 DEF Session
    <2> QED  BY <2>3, <2>4
  <1> HIDE DEF d, m, w
  <1>8. Orderly(rt, [d EXCEPT !.reader = "welcoming"])
    BY <1>6, <1>7
  <1>9. 0 \in Nat
    OBVIOUS
  <1>10. Orderly(rt, e)
    BY <1>7, <1>8, <1>9, NextExtensionOrderly DEF rt
  <1> QED  BY <1>1, <1>10 DEF Negotiate, rt, e, d, m, agreed

-----------------------------------------------------------------------------
(* attach()                                                                *)

\* MakeOffer offers once: nothing was offered, so nothing is agreed yet.
LEMMA MakeOfferOrderly ==
  ASSUME config \in DOMAIN Configurations, NEW p \in Peers,
         NEW r, Sound(Runtime_(p), r), r.state # "idle", r.reader # "off",
         DOMAIN r.offered = {}
  PROVE  Orderly(Runtime_(p), MakeOffer(p, r))
  <1> DEFINE rt == Runtime_(p)
             offered == Offered(rt, "datagramLane" \in r.held)
             made == [r EXCEPT !.offered = offered]
             hello == [Queue(made, "HELLO") EXCEPT !.attach = "hello"]
             waiting == [made EXCEPT !.attach = "waiting"]
  <1>1. r \in Session(rt) /\ r.jobs \in Seq(FrameKinds)
    BY DEF Sound, Session
  <1>2. offered \in Partial(Ids, SoundRanges)
    BY OfferedType
  <1>3. /\ \A why \in Reasons : Orderly(rt, AttachFails(r, why))
        /\ "mismatch" \in Reasons /\ "abort" \in Reasons
    BY AttachFailsOrderly DEF Reasons
  <1> HIDE DEF rt, offered
  <1>4. /\ made \in Session(rt) /\ SameLanes(r, made) /\ SameLists(r, made)
        /\ made.agreed = r.agreed /\ made.state = r.state /\ made.reader = r.reader
        /\ made.extension = r.extension /\ made.jobs = r.jobs /\ made.writing = r.writing
    BY <1>1, <1>2 DEF Session, SameLanes, SameLists
  <1>5. DOMAIN r.agreed = {}
    BY DEF Sound
  <1>6. Sound(rt, made)
    <2> HIDE DEF made
    <2> QED  BY <1>4, <1>5, StaysSound DEF Sound, InTurn, SameLists, rt
  <1>7. Orderly(rt, AttachFails(made, "abort"))
    <2> HIDE DEF made
    <2> QED  BY <1>3, <1>4, <1>6, AttachFailsOrderly
  <1>8. Orderly(rt, hello)
    <2> DEFINE c == Queue(made, "HELLO")
    <2>1. "HELLO" \in FrameKinds
      BY DEF FrameKinds
    <2>2. /\ c \in Session(rt) /\ c = [made EXCEPT !.jobs = Append(made.jobs, "HELLO")]
          /\ ToSet(Append(made.jobs, "HELLO")) = ToSet(made.jobs) \cup {"HELLO"}
      <3>1. made \in Session(rt)
        BY <1>4
      <3> HIDE DEF made
      <3> QED  BY <2>1, <3>1, QueueFields
    <2> HIDE DEF made, c
    <2>3. hello = [c EXCEPT !.attach = "hello"]
      BY DEF c
    <2> HIDE DEF hello
    <2>4. /\ hello \in Session(rt) /\ SameLanes(made, hello) /\ SameLists(made, hello)
          /\ hello.agreed = made.agreed /\ hello.state = made.state
          /\ hello.reader = made.reader /\ hello.extension = made.extension
          /\ hello.writing = made.writing /\ hello.attach = "hello"
          /\ ToSet(hello.jobs) = ToSet(made.jobs) \cup {"HELLO"}
      BY <1>4, <2>2, <2>3, ZenonT(60) DEF Session, SameLanes, SameLists, Attachment
    <2>5. InTurn(rt, hello)
      BY <1>6, <2>4 DEF Sound, InTurn, SameLists
    <2>6. hello.reader = "reading" /\ hello.state = "connecting" => hello.attached = {}
      BY <1>6, <2>4 DEF Sound, SameLists
    <2>7. "PONG" \in ToSet(hello.jobs) \cup {hello.writing}
            => hello.state \notin {"idle", "connecting"}
      BY <1>6, <2>4 DEF Sound
    <2>8. Sound(rt, hello)
      BY <1>4, <1>5, <1>6, <2>4, <2>5, <2>6, <2>7, StaysSound
    <2>9. AttachInOrder(hello)
      BY <1>4, <2>4 DEF AttachInOrder, Unoffered
    <2> QED  BY <2>8, <2>9 DEF Orderly
  <1>9. Orderly(rt, waiting)
    <2> HIDE DEF made
    <2>4. /\ waiting \in Session(rt) /\ SameLanes(made, waiting) /\ SameLists(made, waiting)
          /\ waiting.agreed = made.agreed /\ waiting.state = made.state
          /\ waiting.reader = made.reader /\ waiting.extension = made.extension
          /\ waiting.writing = made.writing /\ waiting.attach = "waiting"
          /\ waiting.jobs = made.jobs
      BY <1>4 DEF Session, SameLanes, SameLists, Attachment
    <2> HIDE DEF waiting
    <2>5. InTurn(rt, waiting)
      BY <1>6, <2>4 DEF Sound, InTurn, SameLists
    <2>8. Sound(rt, waiting)
      BY <1>4, <1>5, <1>6, <2>4, <2>5, StaysSound DEF Sound, SameLists
    <2>9. AttachInOrder(waiting)
      BY <1>4, <2>4 DEF AttachInOrder, Unoffered
    <2> QED  BY <2>8, <2>9 DEF Orderly
  <1> HIDE DEF hello, waiting, made
  <1>10. MakeOffer(p, r) \in {AttachFails(r, "mismatch"), hello, AttachFails(made, "abort"), waiting}
    BY DEF MakeOffer, hello, waiting, made, offered, rt
  <1>11. \A d \in {AttachFails(r, "mismatch"), hello, AttachFails(made, "abort"), waiting} :
           Orderly(rt, d)
    BY <1>3, <1>7, <1>8, <1>9
  <1> QED  BY <1>10, <1>11 DEF rt

-----------------------------------------------------------------------------
(* The write queue and the read loop                                       *)

\* Whatever awaited a write goes on in order.
LEMMA ResumeOrderly ==
  ASSUME NEW rt, NEW r, Orderly(rt, r), r.reader # "off", NEW kind \in FrameKinds,
         kind = "PONG" => r.state \notin {"idle", "connecting"}, NEW ok \in BOOLEAN
  PROVE  Orderly(rt, Resume(r, kind, ok))
  <1>1. /\ r \in Session(rt) /\ Sound(rt, r) /\ AttachInOrder(r) /\ InTurn(rt, r)
        /\ DOMAIN r.agreed \subseteq DOMAIN r.offered
        /\ r.reader = "reading" /\ r.state = "connecting" => r.attached = {}
        /\ "PONG" \in ToSet(r.jobs) \cup {r.writing} => r.state \notin {"idle", "connecting"}
    BY OrderlyFacts
  <1>2. \A why \in Reasons : Orderly(rt, AttachFails(r, why)) /\ Orderly(rt, ReadLoopFails(r, why))
    <2>1. r.state # "idle"
      BY <1>1 DEF AttachInOrder
    <2> QED  BY <1>1, <2>1, AttachFailsOrderly, ReadLoopFailsOrderly
  <1>3. {"abort", "lost", "refused"} \subseteq Reasons
    BY DEF Reasons
  <1>4. CASE kind = "HELLO"
    <2> DEFINE d == [r EXCEPT !.attach = "waiting"]
    <2>1. /\ d \in Session(rt) /\ SameLanes(r, d) /\ SameLists(r, d)
          /\ d.offered = r.offered /\ d.agreed = r.agreed /\ d.attach = "waiting"
          /\ d.state = r.state /\ d.reader = r.reader /\ d.extension = r.extension
          /\ d.jobs = r.jobs /\ d.writing = r.writing
      BY <1>1 DEF Session, SameLanes, SameLists, Attachment
    <2> HIDE DEF d
    <2>2. Orderly(rt, d)
      BY <1>1, <2>1, StaysOrderly DEF InTurn, SameLists
    <2>3. Resume(r, kind, ok) \in {d, AttachFails(r, "abort"), AttachFails(r, "lost")}
      BY <1>4 DEF Resume, d
    <2> QED  BY <1>2, <1>3, <2>2, <2>3
  <1>5. CASE kind = "WELCOME"
    BY <1>3, <1>5, BecomeReadyOrderly, RefuseOrderly DEF Resume
  <1>6. CASE kind = "ERROR"
    BY <1>2, <1>3, <1>6 DEF Resume
  <1>7. CASE kind = "PONG"
    <2> DEFINE d == [r EXCEPT !.reader = "reading"]
    <2>1. /\ d \in Session(rt) /\ SameLanes(r, d) /\ SameLists(r, d)
          /\ d.offered = r.offered /\ d.agreed = r.agreed /\ d.attach = r.attach
          /\ d.state = r.state /\ d.reader = "reading"
          /\ d.jobs = r.jobs /\ d.writing = r.writing
      BY <1>1 DEF Session, SameLanes, SameLists, Readers
    <2> HIDE DEF d
    <2>2. Orderly(rt, d)
      BY <1>1, <1>7, <2>1, StaysOrderly DEF InTurn
    <2>3. Resume(r, kind, ok) \in {d, ReadLoopFails(r, "lost")}
      BY <1>7 DEF Resume, d
    <2> QED  BY <1>2, <1>3, <2>2, <2>3
  <1>8. CASE kind = "PING"
    <2> DEFINE d == [r EXCEPT !.timer = IF r.state = "ready" THEN "armed" ELSE "off"]
    <2>1. /\ d \in Session(rt) /\ SameLanes(r, d) /\ SameLists(r, d)
          /\ d.offered = r.offered /\ d.agreed = r.agreed /\ d.attach = r.attach
          /\ d.state = r.state /\ d.reader = r.reader /\ d.extension = r.extension
          /\ d.jobs = r.jobs /\ d.writing = r.writing
      BY <1>1 DEF Session, SameLanes, SameLists
    <2>2. Resume(r, kind, ok) = d
      BY <1>8 DEF Resume
    <2> HIDE DEF d
    <2>3. Orderly(rt, d)
      BY <1>1, <2>1, StaysOrderly DEF InTurn, SameLists
    <2> QED  BY <2>2, <2>3
  <1>9. CASE kind = "CLOSE"
    BY <1>9, FinishClosedOrderly DEF Resume
  <1> QED  BY <1>4, <1>5, <1>6, <1>7, <1>8, <1>9 DEF FrameKinds

LEMMA HandleOrderly ==
  ASSUME config \in DOMAIN Configurations, NEW p \in Peers,
         NEW r, Orderly(Runtime_(p), r), r.reader = "reading", NEW f \in Frames
  PROVE  Orderly(Runtime_(p), Handle(p, r, f))
  <1> DEFINE rt == Runtime_(p)
  <1>1. \A why \in Reasons : Orderly(rt, ReadLoopFails(r, why))
    BY ReadLoopFailsOrderly
  <1>2. "violation" \in Reasons /\ "remote" \in Reasons
    BY DEF Reasons
  <1>3. f.kind \in FrameKinds /\ f.offer \in Partial(Ids, Terms)
    BY DEF Frames
  <1> DEFINE early == f.kind \in {"PING", "PONG", "CLOSE"} /\ r.state # "ready"
  <1>4. CASE f.compact # Compacted(r) \/ early
    BY <1>1, <1>2, <1>4 DEF Handle
  <1>5. CASE f.compact = Compacted(r) /\ f.kind \in {"HELLO", "WELCOME"}
    <2>1. CASE r.state = "connecting"
      <3>1. r.attached = {}
        BY <2>1, OrderlyFacts
      <3>2. Orderly(rt, Negotiate(p, r, f.offer))
        BY <1>3, <3>1, NegotiateOrderly
      <3>3. Handle(p, r, f) \in {Negotiate(p, r, f.offer), ReadLoopFails(r, "violation")}
        BY <1>5 DEF Handle
      <3> QED  BY <1>1, <1>2, <3>2, <3>3
    <2>2. CASE r.state # "connecting"
      BY <1>1, <1>2, <1>5, <2>2 DEF Handle
    <2> QED  BY <2>1, <2>2
  <1>6. CASE f.compact = Compacted(r) /\ f.kind = "ERROR"
    BY <1>1, <1>2, <1>6 DEF Handle
  <1>7. CASE f.compact = Compacted(r) /\ r.state = "ready" /\ f.kind = "PING"
    <2>1. "replying" \in Readers \ {"off", "reading", "extending"} /\ "PONG" \in FrameKinds
      BY DEF Readers, FrameKinds
    <2>2. Orderly(rt, [Queue(r, "PONG") EXCEPT !.reader = "replying"])
      BY <1>7, <2>1, QueueOrderly
    <2> QED  BY <1>7, <2>2 DEF Handle
  <1>8. CASE f.compact = Compacted(r) /\ r.state = "ready" /\ f.kind = "PONG"
    BY <1>8 DEF Handle
  <1>9. CASE f.compact = Compacted(r) /\ r.state = "ready" /\ f.kind = "CLOSE"
    BY <1>9, FinishClosedOrderly DEF Handle
  <1> QED  BY <1>3, <1>4, <1>5, <1>6, <1>7, <1>8, <1>9 DEF FrameKinds

-----------------------------------------------------------------------------
(* Steps                                                                   *)

\* What a step leaves alone when it touches only a flag, a promise or a timer.
SameCourse(r, d) ==
  /\ SameLanes(r, d) /\ SameLists(r, d)
  /\ d.state = r.state /\ d.attach = r.attach
  /\ d.offered = r.offered /\ d.agreed = r.agreed
  /\ d.reader = r.reader /\ d.extension = r.extension
  /\ d.jobs = r.jobs /\ d.writing = r.writing

LEMMA SameCourseOrderly ==
  ASSUME NEW rt, NEW r, Orderly(rt, r), NEW d, d \in Session(rt), SameCourse(r, d),
         r.reader = "off" => /\ d.timer = r.timer /\ d.outcome = r.outcome /\ d.ready = r.ready
  PROVE  Orderly(rt, d)
  <1>1. d.held \subseteq Opened(d) /\ d.releasing \subseteq Opened(d)
    BY DEF Orderly, Sound, SameCourse, SameLanes, Opened
  <1>2. Accounted(d)
    BY DEF Orderly, Sound, SameCourse, SameLists, Accounted
  <1>3. OffUntilOpen(d)
    BY DEF Orderly, Sound, SameCourse, SameLists, SameLanes, OffUntilOpen
  <1>4. AttachInOrder(d)
    BY DEF Orderly, SameCourse, SameLanes, AttachInOrder
  <1>5. Sound(rt, d)
    BY <1>1, <1>2, <1>3 DEF Orderly, Sound, SameCourse, SameLists, SameLanes
  <1> QED  BY <1>4, <1>5 DEF Orderly

\* Lanes open and close; what is held or to be released stays open or closed.
LEMMA PhysicalSound ==
  ASSUME NEW rt, NEW r, Sound(rt, r), NEW physical \in [Resources -> Openness],
         \A x \in r.held \cup r.releasing : physical[x] \in {"open", "closed"}
  PROVE  LET d == [r EXCEPT !.physical = physical]
         IN /\ Sound(rt, d) /\ d.physical = physical /\ d.state = r.state
            /\ d.reader = r.reader /\ d.offered = r.offered /\ d.held = r.held
            /\ d.attach = r.attach /\ d.releasing = r.releasing
  <1> DEFINE d == [r EXCEPT !.physical = physical]
  <1>1. /\ d \in Session(rt) /\ d.physical = physical /\ d.held = r.held /\ SameLists(r, d)
        /\ d.releasing = r.releasing /\ d.state = r.state /\ d.attach = r.attach
        /\ d.offered = r.offered /\ d.agreed = r.agreed
        /\ d.reader = r.reader /\ d.extension = r.extension
        /\ d.jobs = r.jobs /\ d.writing = r.writing
        /\ d.timer = r.timer /\ d.outcome = r.outcome /\ d.ready = r.ready
    BY DEF Sound, Session, SameLists
  <1>2. r.held \subseteq Resources /\ r.releasing \subseteq Resources
    BY DEF Sound, Session
  <1> HIDE DEF d
  <1>3. d.held \subseteq Opened(d) /\ d.releasing \subseteq Opened(d)
    BY <1>1, <1>2 DEF Opened
  <1>4. Accounted(d) /\ OffUntilOpen(d)
    BY <1>1 DEF Sound, SameLists, Accounted, OffUntilOpen
  <1>5. Sound(rt, d)
    BY <1>1, <1>3, <1>4 DEF Sound, SameLists
  <1> QED  BY <1>1, <1>5 DEF d

LEMMA PhysicalOrderly ==
  ASSUME NEW rt, NEW r, Orderly(rt, r), NEW physical \in [Resources -> Openness],
         \A x \in r.held \cup r.releasing : physical[x] \in {"open", "closed"},
         r.attach = "datagramOpening" => physical["datagramLane"] = "opening"
  PROVE  Orderly(rt, [r EXCEPT !.physical = physical])
  <1> DEFINE d == [r EXCEPT !.physical = physical]
  <1>1. /\ Sound(rt, d) /\ d.physical = physical /\ d.state = r.state
        /\ d.reader = r.reader /\ d.offered = r.offered /\ d.held = r.held
        /\ d.attach = r.attach
    BY PhysicalSound DEF Orderly
  <1> HIDE DEF d
  <1>2. AttachInOrder(d)
    BY <1>1 DEF Orderly, AttachInOrder
  <1>3. Orderly(rt, d)
    BY <1>1, <1>2 DEF Orderly
  <1> QED  BY <1>3 DEF d

\* A step of one peer keeps the invariant if the record it makes is orderly.
LEMMA BecomesInv ==
  ASSUME TypeInv, NEW p \in Peers, NEW r, Orderly(Runtime_(p), r),
         NEW channels \in [Peers -> Seq(Frames)], Becomes(p, r, channels),
         config' = config, silent' \in BOOLEAN, events' \in 0..Configurations[config].limit
  PROVE  TypeInv'
  <1>1. /\ config \in DOMAIN Configurations
        /\ s = [q \in Peers |-> s[q]] /\ \A q \in Peers : Orderly(Runtime_(q), s[q])
        /\ eof \in [Peers -> BOOLEAN]
    BY DEF TypeInv
  <1>2. s' = [s EXCEPT ![p] = r]
    BY DEF Becomes
  <1>3. \A q \in Peers : Runtime_(q)' = Runtime_(q)
    BY DEF Runtime_
  <1>4. s' = [q \in Peers |-> s'[q]] /\ \A q \in Peers : s'[q] = IF q = p THEN r ELSE s[q]
    BY <1>1, <1>2
  <1>5. \A q \in Peers : Orderly(Runtime_(q), s[q])'
    BY <1>1, <1>3, <1>4
  <1>6. chan' \in [Peers -> Seq(Frames)]
    <2>1. <<>> \in Seq(Frames)
      BY EmptySeq
    <2> QED  BY <2>1 DEF Becomes
  <1>7. eof' \in [Peers -> BOOLEAN]
    BY <1>1 DEF Becomes
  <1> QED  BY <1>1, <1>4, <1>5, <1>6, <1>7 DEF TypeInv

LEMMA EventFacts ==
  ASSUME TypeInv, NEW kind, Event(kind)
  PROVE  config' = config /\ events' \in 0..Configurations[config].limit
  <1>1. Configurations[config].limit \in Nat /\ events \in 0..Configurations[config].limit
    BY ConfigurationsAssumption DEF TypeInv
  <1> QED  BY <1>1 DEF Event

\* The two ways in which a step of a peer ends: nothing else happens, or an event does.
LEMMA CalmStep ==
  ASSUME TypeInv, NEW p \in Peers, NEW r, Orderly(Runtime_(p), r),
         NEW channels \in [Peers -> Seq(Frames)], Becomes(p, r, channels),
         \/ Calm
         \/ UNCHANGED silent /\ \E kind \in EventKinds : Event(kind)
         \/ UNCHANGED <<silent, config, events>>
  PROVE  TypeInv'
  <1>1. silent' = silent /\ silent \in BOOLEAN
    BY DEF TypeInv, Calm
  <1>2. config' = config /\ events' \in 0..Configurations[config].limit
    BY EventFacts DEF TypeInv, Calm
  <1> QED  BY <1>1, <1>2, BecomesInv

\* What the lemmas below start from.
LEMMA PeerIsOrderly ==
  ASSUME TypeInv, NEW p \in Peers
  PROVE  /\ config \in DOMAIN Configurations /\ chan \in [Peers -> Seq(Frames)]
         /\ Orderly(Runtime_(p), s[p]) /\ Sound(Runtime_(p), s[p])
         /\ s[p] \in Session(Runtime_(p)) /\ AttachInOrder(s[p])
  BY DEF TypeInv, Orderly, Sound

\* Before the read loop starts, attach() opens one thing after the other.
LEMMA OffOrderly ==
  ASSUME NEW rt, NEW r, Orderly(rt, r), r.reader = "off",
         NEW d, d \in Session(rt), SameLists(r, d),
         d.reader = "off" /\ d.jobs = r.jobs /\ d.writing = r.writing /\ d.timer = r.timer,
         d.outcome = r.outcome /\ d.ready = r.ready /\ d.releasing = r.releasing,
         d.offered = r.offered /\ d.agreed = r.agreed,
         d.held \subseteq {"connection"} /\ d.held \subseteq Opened(d),
         d.state = "connecting", AttachInOrder(d)
  PROVE  Orderly(rt, d)
  <1>1. OffUntilOpen(d) /\ Accounted(d)
    BY DEF Orderly, Sound, SameLists, OffUntilOpen, Accounted
  <1>2. d.releasing = {} /\ d.jobs = <<>> /\ d.writing = None
    BY OrderlyFacts
  <1>3. "PONG" \notin ToSet(d.jobs) \cup {d.writing}
    BY <1>2, EmptyFacts DEF None
  <1>4. Sound(rt, d)
    BY <1>1, <1>2, <1>3 DEF Orderly, Sound, Ended
  <1> QED  BY <1>4 DEF Orderly

LEMMA AttachStep ==
  ASSUME TypeInv, NEW p \in Peers, Attach(p) \/ Connected(p)
  PROVE  TypeInv'
  <1> DEFINE rt == Runtime_(p)
             r == s[p]
  <1>1. /\ Orderly(rt, r) /\ r \in Session(rt) /\ AttachInOrder(r)
        /\ chan \in [Peers -> Seq(Frames)]
    BY PeerIsOrderly
  <1>2. CASE Attach(p)
    <2> DEFINE d == [r EXCEPT !.state = "connecting", !.attach = "connecting",
                              !.physical["connection"] = "opening"]
    <2>1. r.state = "idle" /\ Becomes(p, d, chan) /\ Calm
      BY <1>2 DEF Attach
    <2> HIDE DEF r, rt
    <2>2. r.attach = "idle" /\ r.reader = "off" /\ r.held = {}
      BY <1>1, <2>1 DEF AttachInOrder
    <2>3. /\ d \in Session(rt) /\ SameLists(r, d) /\ d.state = "connecting"
          /\ d.attach = "connecting" /\ d.held = {} /\ d.reader = "off"
          /\ d.jobs = r.jobs /\ d.writing = r.writing /\ d.timer = r.timer
          /\ d.outcome = r.outcome /\ d.ready = r.ready /\ d.releasing = r.releasing
          /\ d.offered = r.offered /\ d.agreed = r.agreed
      BY <1>1, <2>2 DEF Session, SameLists, Activities, Attachment, Openness
    <2> HIDE DEF d
    <2>4. AttachInOrder(d)
      BY <1>1, <2>2, <2>3 DEF AttachInOrder, Unoffered
    <2>5. Orderly(rt, d)
      BY <1>1, <2>2, <2>3, <2>4, OffOrderly
    <2> QED  BY <1>1, <2>1, <2>5, CalmStep DEF rt
  <1>3. CASE Connected(p)
    <2> DEFINE d == [r EXCEPT !.attach = "laneOpening", !.held = {"connection"},
                              !.physical = [@ EXCEPT !["connection"] = "open",
                                                     !["lane"] = "opening"]]
    <2>1. r.attach = "connecting" /\ Becomes(p, d, chan) /\ Calm
      BY <1>3 DEF Connected
    <2> HIDE DEF r, rt
    <2>2. r.state = "connecting" /\ r.reader = "off"
      BY <1>1, <2>1 DEF AttachInOrder
    <2>3. /\ d \in Session(rt) /\ SameLists(r, d) /\ d.state = "connecting"
          /\ d.attach = "laneOpening" /\ d.held = {"connection"} /\ d.reader = "off"
          /\ d.physical["connection"] = "open"
          /\ d.jobs = r.jobs /\ d.writing = r.writing /\ d.timer = r.timer
          /\ d.outcome = r.outcome /\ d.ready = r.ready /\ d.releasing = r.releasing
          /\ d.offered = r.offered /\ d.agreed = r.agreed
      BY <1>1, <2>2 DEF Session, SameLists, Resources, Attachment, Openness
    <2> HIDE DEF d
    <2>4. AttachInOrder(d)
      BY <1>1, <2>1, <2>2, <2>3 DEF AttachInOrder, Unoffered
    <2>5. d.held \subseteq Opened(d)
      BY <2>3 DEF Opened, Resources
    <2>6. Orderly(rt, d)
      BY <1>1, <2>2, <2>3, <2>4, <2>5, OffOrderly
    <2> QED  BY <1>1, <2>1, <2>6, CalmStep DEF rt
  <1> QED  BY <1>2, <1>3

LEMMA LaneOpenedStep ==
  ASSUME TypeInv, NEW p \in Peers, LaneOpened(p)
  PROVE  TypeInv'
  <1> DEFINE rt == Runtime_(p)
             r == s[p]
             d == [r EXCEPT !.held = @ \cup {"lane"}, !.physical["lane"] = "open",
                            !.reader = "reading"]
             e == [d EXCEPT !.attach = "datagramOpening", !.physical["datagramLane"] = "opening"]
  <1>1. /\ Orderly(rt, r) /\ Sound(rt, r) /\ r \in Session(rt) /\ AttachInOrder(r)
        /\ chan \in [Peers -> Seq(Frames)] /\ config \in DOMAIN Configurations
    BY PeerIsOrderly
  <1>2. /\ r.attach = "laneOpening" /\ Calm
        /\ \/ Becomes(p, e, chan)
           \/ Becomes(p, MakeOffer(p, d), chan)
    BY DEF LaneOpened
  <1> HIDE DEF rt, r
  <1>3. r.state = "connecting" /\ r.reader = "off" /\ DOMAIN r.offered = {}
    BY <1>1, <1>2 DEF AttachInOrder, Unoffered
  <1>4. /\ r.held \subseteq {"connection"} /\ r.releasing = {} /\ r.attached = {}
        /\ r.jobs = <<>> /\ r.writing = None /\ r.held \subseteq Opened(r)
    BY <1>1, <1>3 DEF Sound, OffUntilOpen
  <1>5. /\ d \in Session(rt) /\ SameLists(r, d) /\ d.state = "connecting"
        /\ d.held = r.held \cup {"lane"} /\ d.reader = "reading"
        /\ d.physical["lane"] = "open" /\ d.physical["connection"] = r.physical["connection"]
        /\ d.jobs = r.jobs /\ d.writing = r.writing /\ d.releasing = r.releasing
        /\ d.offered = r.offered /\ d.agreed = r.agreed
    BY <1>1, <1>3 DEF Session, SameLists, Resources, Readers, Openness
  <1>6. /\ e \in Session(rt) /\ SameLists(r, e) /\ e.state = "connecting"
        /\ e.held = r.held \cup {"lane"} /\ e.reader = "reading" /\ e.attach = "datagramOpening"
        /\ e.physical["lane"] = "open" /\ e.physical["connection"] = r.physical["connection"]
        /\ e.physical["datagramLane"] = "opening"
        /\ e.jobs = r.jobs /\ e.writing = r.writing /\ e.releasing = r.releasing
        /\ e.offered = r.offered /\ e.agreed = r.agreed
    BY <1>1, <1>3 DEF Session, SameLists, Resources, Readers, Openness, Attachment
  <1>7. "PONG" \notin ToSet(r.jobs) \cup {r.writing}
    BY <1>4, EmptyFacts DEF None
  <1> HIDE DEF d, e
  <1>8. Sound(rt, d)
    <2>1. d.held \subseteq Opened(d)
      BY <1>4, <1>5 DEF Opened, Resources
    <2>2. Accounted(d) /\ OffUntilOpen(d)
      BY <1>1, <1>5 DEF Sound, SameLists, Accounted, OffUntilOpen
    <2> QED  BY <1>1, <1>4, <1>5, <1>7, <2>1, <2>2 DEF Sound, SameLists, Ended
  <1>9. Sound(rt, e)
    <2>1. e.held \subseteq Opened(e)
      BY <1>4, <1>6 DEF Opened, Resources
    <2>2. Accounted(e) /\ OffUntilOpen(e)
      BY <1>1, <1>6 DEF Sound, SameLists, Accounted, OffUntilOpen
    <2> QED  BY <1>1, <1>4, <1>6, <1>7, <2>1, <2>2 DEF Sound, SameLists, Ended
  <1>10. Orderly(rt, MakeOffer(p, d))
    BY <1>1, <1>3, <1>5, <1>8, MakeOfferOrderly DEF rt
  <1>11. Orderly(rt, e)
    <2>1. AttachInOrder(e)
      BY <1>3, <1>6 DEF AttachInOrder
    <2> QED  BY <1>9, <2>1 DEF Orderly
  <1> QED  BY <1>1, <1>2, <1>10, <1>11, CalmStep DEF rt

LEMMA DatagramLaneOpenedStep ==
  ASSUME TypeInv, NEW p \in Peers, DatagramLaneOpened(p)
  PROVE  TypeInv'
  <1> DEFINE rt == Runtime_(p)
             r == s[p]
             d == [r EXCEPT !.held = @ \cup {"datagramLane"}, !.physical["datagramLane"] = "open"]
  <1>1. /\ Orderly(rt, r) /\ Sound(rt, r) /\ r \in Session(rt) /\ AttachInOrder(r)
        /\ chan \in [Peers -> Seq(Frames)] /\ config \in DOMAIN Configurations
    BY PeerIsOrderly
  <1>2. r.attach = "datagramOpening" /\ Calm /\ Becomes(p, MakeOffer(p, d), chan)
    BY DEF DatagramLaneOpened
  <1> HIDE DEF rt, r
  <1>3. r.state # "idle" /\ r.reader # "off" /\ DOMAIN r.offered = {}
    BY <1>1, <1>2 DEF AttachInOrder, Unoffered
  <1>4. /\ d \in Session(rt) /\ SameLists(r, d) /\ d.state = r.state
        /\ d.held = r.held \cup {"datagramLane"} /\ d.reader = r.reader
        /\ d.extension = r.extension
        /\ d.physical = [x \in Resources |-> IF x = "datagramLane" THEN "open" ELSE r.physical[x]]
        /\ d.jobs = r.jobs /\ d.writing = r.writing /\ d.releasing = r.releasing
        /\ d.offered = r.offered /\ d.agreed = r.agreed
    BY <1>1, <1>3 DEF Session, SameLists, Resources, Openness
  <1> HIDE DEF d
  <1>5. d.held \subseteq Opened(d) /\ d.releasing \subseteq Opened(d)
    BY <1>1, <1>4 DEF Sound, Opened, Resources
  <1>6. Accounted(d) /\ OffUntilOpen(d)
    BY <1>1, <1>3, <1>4 DEF Sound, SameLists, Accounted, OffUntilOpen
  <1>7. Sound(rt, d)
    BY <1>1, <1>4, <1>5, <1>6 DEF Sound, SameLists
  <1>8. Orderly(rt, MakeOffer(p, d))
    BY <1>1, <1>3, <1>4, <1>7, MakeOfferOrderly DEF rt
  <1> QED  BY <1>1, <1>2, <1>8, CalmStep DEF rt

LEMMA OpeningFailsStep ==
  ASSUME TypeInv, NEW p \in Peers, OpeningFails(p)
  PROVE  TypeInv'
  <1> DEFINE rt == Runtime_(p)
             r == s[p]
             unopened == [x \in Resources |-> IF r.physical[x] = "opening" THEN "none"
                                              ELSE r.physical[x]]
             without == [r.physical EXCEPT !["datagramLane"] = "none"]
             c == [r EXCEPT !.physical = unopened]
             d == [r EXCEPT !.physical = without]
  <1>1. /\ Orderly(rt, r) /\ Sound(rt, r) /\ r \in Session(rt) /\ AttachInOrder(r)
        /\ chan \in [Peers -> Seq(Frames)] /\ config \in DOMAIN Configurations
    BY PeerIsOrderly
  <1>2. /\ UNCHANGED silent /\ \E kind \in EventKinds : Event(kind)
        /\ \/ /\ r.attach \in {"connecting", "laneOpening"}
              /\ Becomes(p, AttachFails(c, "lost"), chan)
           \/ /\ r.attach = "datagramOpening"
              /\ Becomes(p, MakeOffer(p, d), chan)
    <2>1. UNCHANGED silent /\ Event("refusal") /\ "refusal" \in EventKinds
      BY DEF OpeningFails, EventKinds
    <2>2. [r EXCEPT !.physical = [x \in Resources |-> IF @[x] = "opening" THEN "none" ELSE @[x]]] = c
      BY <1>1 DEF Session
    <2>3. [r EXCEPT !.physical["datagramLane"] = "none"] = d
      BY <1>1 DEF Session
    <2>4. \/ /\ r.attach \in {"connecting", "laneOpening"}
             /\ Becomes(p, AttachFails([r EXCEPT !.physical =
                   [x \in Resources |-> IF @[x] = "opening" THEN "none" ELSE @[x]]], "lost"), chan)
          \/ /\ r.attach = "datagramOpening"
             /\ Becomes(p, MakeOffer(p, [r EXCEPT !.physical["datagramLane"] = "none"]), chan)
      BY DEF OpeningFails
    <2> HIDE DEF c, d, r
    <2> QED  BY <2>1, <2>2, <2>3, <2>4
  <1> HIDE DEF rt, r
  <1>3. /\ r.held \subseteq Opened(r) /\ r.releasing \subseteq Opened(r)
        /\ r.physical \in [Resources -> Openness]
    BY <1>1 DEF Sound, Session
  <1>4. CASE r.attach \in {"connecting", "laneOpening"} /\ Becomes(p, AttachFails(c, "lost"), chan)
    <2>1. /\ unopened \in [Resources -> Openness]
          /\ \A x \in r.held \cup r.releasing : unopened[x] \in {"open", "closed"}
      BY <1>3 DEF Opened, Openness
    <2> HIDE DEF unopened
    <2>2. Sound(rt, c) /\ c.state = r.state
      BY <1>1, <2>1, PhysicalSound
    <2>3. r.state # "idle" /\ "lost" \in Reasons
      BY <1>1, <1>4 DEF AttachInOrder, Reasons
    <2> HIDE DEF c
    <2>4. Orderly(rt, AttachFails(c, "lost"))
      BY <2>2, <2>3, AttachFailsOrderly
    <2> QED  BY <1>1, <1>2, <1>4, <2>4, CalmStep DEF rt
  <1>5. CASE r.attach = "datagramOpening" /\ Becomes(p, MakeOffer(p, d), chan)
    <2>1. /\ r.physical["datagramLane"] = "opening" /\ r.state # "idle" /\ r.reader # "off"
          /\ DOMAIN r.offered = {}
      BY <1>1, <1>5 DEF AttachInOrder, Unoffered
    <2>2. /\ without \in [Resources -> Openness]
          /\ \A x \in r.held \cup r.releasing : without[x] \in {"open", "closed"}
      BY <1>3, <2>1 DEF Opened, Openness
    <2> HIDE DEF without
    <2>3. /\ Sound(rt, d) /\ d.state = r.state /\ d.reader = r.reader
          /\ d.offered = r.offered
      BY <1>1, <2>2, PhysicalSound
    <2> HIDE DEF d
    <2>4. Orderly(rt, MakeOffer(p, d))
      BY <1>1, <2>1, <2>3, MakeOfferOrderly DEF rt
    <2> QED  BY <1>1, <1>2, <1>5, <2>4, CalmStep DEF rt
  <1> QED  BY <1>2, <1>4, <1>5

LEMMA AbortStep ==
  ASSUME TypeInv, NEW p \in Peers, Abort(p)
  PROVE  TypeInv'
  <1> DEFINE rt == Runtime_(p)
             r == s[p]
             d == [r EXCEPT !.aborted = TRUE]
  <1>1. /\ Orderly(rt, r) /\ r \in Session(rt) /\ AttachInOrder(r)
        /\ chan \in [Peers -> Seq(Frames)] /\ config \in DOMAIN Configurations
    BY PeerIsOrderly
  <1>2. /\ r.attach \notin {"idle", "settled"}
        /\ Becomes(p, CASE d.attach \in {"connecting", "laneOpening", "waiting"} ->
                             AttachFails(d, "abort")
                        [] d.attach = "datagramOpening" -> MakeOffer(p, d)
                        [] OTHER -> d, chan)
        /\ UNCHANGED silent /\ \E kind \in EventKinds : Event(kind)
    BY DEF Abort, EventKinds
  <1> HIDE DEF rt, r
  <1>3. d \in Session(rt) /\ SameCourse(r, d)
        /\ d.timer = r.timer /\ d.outcome = r.outcome /\ d.ready = r.ready
    BY <1>1 DEF Session, SameCourse, SameLanes, SameLists
  <1> HIDE DEF d
  <1>4. Orderly(rt, d)
    BY <1>1, <1>3, SameCourseOrderly
  <1>5. Sound(rt, d) /\ AttachInOrder(d) /\ d.state # "idle"
    BY <1>1, <1>2, <1>3, <1>4 DEF Orderly, AttachInOrder, SameCourse
  <1>6. CASE d.attach \in {"connecting", "laneOpening", "waiting"}
    <2>1. Becomes(p, AttachFails(d, "abort"), chan)
      BY <1>2, <1>6
    <2>2. Orderly(rt, AttachFails(d, "abort"))
      BY <1>5, AttachFailsOrderly DEF Reasons
    <2> QED  BY <1>1, <1>2, <2>1, <2>2, CalmStep DEF rt
  <1>7. CASE d.attach = "datagramOpening"
    <2>1. Becomes(p, MakeOffer(p, d), chan)
      BY <1>2, <1>7
    <2>2. d.reader # "off" /\ DOMAIN d.offered = {}
      BY <1>5, <1>7 DEF AttachInOrder, Unoffered
    <2>3. Orderly(rt, MakeOffer(p, d))
      BY <1>1, <1>5, <2>2, MakeOfferOrderly DEF rt
    <2> QED  BY <1>1, <1>2, <2>1, <2>3, CalmStep DEF rt
  <1>8. CASE d.attach \notin {"connecting", "laneOpening", "waiting", "datagramOpening"}
    <2>1. Becomes(p, d, chan)
      BY <1>2, <1>8
    <2> QED  BY <1>1, <1>2, <1>4, <2>1, CalmStep DEF rt
  <1> QED  BY <1>6, <1>7, <1>8

LEMMA LateOpeningStep ==
  ASSUME TypeInv, NEW p \in Peers, LateOpening(p)
  PROVE  TypeInv'
  <1> DEFINE rt == Runtime_(p)
             r == s[p]
  <1>1. /\ Orderly(rt, r) /\ Sound(rt, r) /\ r \in Session(rt)
        /\ chan \in [Peers -> Seq(Frames)]
    BY PeerIsOrderly
  <1>2. PICK x \in Resources :
          /\ r.physical[x] = "opening" /\ r.attach \in {"hello", "waiting", "settled"} /\ Calm
          /\ Becomes(p, IF r.aborted THEN Close(r, {x}) ELSE [r EXCEPT !.physical[x] = "open"], chan)
    BY DEF LateOpening
  <1> HIDE DEF rt, r
  <1>3. /\ r.held \subseteq Opened(r) /\ r.releasing \subseteq Opened(r)
        /\ r.physical \in [Resources -> Openness]
    BY <1>1 DEF Sound, Session
  <1>4. ASSUME NEW end \in {"open", "closed"}
        PROVE  LET physical == [y \in Resources |-> IF y \in {x} THEN end ELSE r.physical[y]]
               IN Orderly(rt, [r EXCEPT !.physical = physical])
    <2> DEFINE physical == [y \in Resources |-> IF y \in {x} THEN end ELSE r.physical[y]]
    <2>1. /\ physical \in [Resources -> Openness]
          /\ \A y \in r.held \cup r.releasing : physical[y] \in {"open", "closed"}
      BY <1>3 DEF Opened, Openness
    <2> HIDE DEF physical
    <2>2. Orderly(rt, [r EXCEPT !.physical = physical])
      BY <1>1, <1>2, <2>1, PhysicalOrderly
    <2> QED  BY <2>2 DEF physical
  <1>5. CASE r.aborted
    <2>1. Close(r, {x}) = [r EXCEPT !.physical =
             [y \in Resources |-> IF y \in {x} THEN "closed" ELSE r.physical[y]]]
      BY <1>1 DEF Close, Session
    <2> QED  BY <1>1, <1>2, <1>4, <1>5, <2>1, CalmStep DEF rt
  <1>6. CASE ~r.aborted
    <2>1. [r EXCEPT !.physical[x] = "open"] = [r EXCEPT !.physical =
             [y \in Resources |-> IF y \in {x} THEN "open" ELSE r.physical[y]]]
      <3>1. [r.physical EXCEPT ![x] = "open"] =
              [y \in Resources |-> IF y \in {x} THEN "open" ELSE r.physical[y]]
        BY <1>3
      <3>2. [r EXCEPT !.physical[x] = "open"] = [r EXCEPT !.physical = [r.physical EXCEPT ![x] = "open"]]
        BY <1>1 DEF Session
      <3> QED  BY <3>1, <3>2
    <2> QED  BY <1>1, <1>2, <1>4, <1>6, <2>1, CalmStep DEF rt
  <1> QED  BY <1>5, <1>6

LEMMA SettleStep ==
  ASSUME TypeInv, NEW p \in Peers, Settle(p) \/ HandshakeTimeout(p)
  PROVE  TypeInv'
  <1> DEFINE rt == Runtime_(p)
             r == s[p]
             d == [r EXCEPT !.attach = "settled", !.outcome = "resolved"]
  <1>1. /\ Orderly(rt, r) /\ Sound(rt, r) /\ r \in Session(rt) /\ AttachInOrder(r)
        /\ chan \in [Peers -> Seq(Frames)]
    BY PeerIsOrderly
  <1>2. /\ r.attach = "waiting"
        /\ \/ r.ready = "resolved" /\ Becomes(p, d, chan)
           \/ \E why \in Reasons : Becomes(p, AttachFails(r, why), chan)
        /\ \/ Calm
           \/ UNCHANGED silent /\ \E kind \in EventKinds : Event(kind)
           \/ UNCHANGED <<silent, config, events>>
    BY DEF Settle, HandshakeTimeout, Reasons, EventKinds
  <1> HIDE DEF rt, r
  <1>3. ASSUME NEW why \in Reasons, Becomes(p, AttachFails(r, why), chan)
        PROVE  TypeInv'
    <2>1. r.state # "idle"
      BY <1>1, <1>2 DEF AttachInOrder
    <2>2. Orderly(rt, AttachFails(r, why))
      BY <1>1, <2>1, AttachFailsOrderly
    <2> QED  BY <1>1, <1>2, <1>3, <2>2, CalmStep DEF rt
  <1>4. CASE r.ready = "resolved" /\ Becomes(p, d, chan)
    <2>1. r.reader # "off" /\ InTurn(rt, r) /\ DOMAIN r.agreed \subseteq DOMAIN r.offered
      BY <1>1, <1>4, OrderlyFacts
    <2>2. /\ d \in Session(rt) /\ SameLanes(r, d) /\ SameLists(r, d)
          /\ d.offered = r.offered /\ d.agreed = r.agreed /\ d.attach = "settled"
          /\ d.state = r.state /\ d.reader = r.reader /\ d.extension = r.extension
          /\ d.jobs = r.jobs /\ d.writing = r.writing
      BY <1>1 DEF Session, SameLanes, SameLists, Attachment, Promise
    <2> HIDE DEF d
    <2>3. Orderly(rt, d)
      BY <1>1, <2>1, <2>2, StaysOrderly, OrderlyFacts DEF InTurn, SameLists
    <2> QED  BY <1>1, <1>2, <1>4, <2>3, CalmStep DEF rt
  <1> QED  BY <1>2, <1>3, <1>4

-----------------------------------------------------------------------------
(* Steps of the write queue and the read loop                              *)

\* What a peer writes is a frame.
LEMMA FrameType ==
  ASSUME TypeInv, NEW p \in Peers, NEW kind \in FrameKinds
  PROVE  Frame(p, kind) \in Frames
  <1> DEFINE r == s[p]
             require == Runtime_(p).require
             f == Frame(p, kind)
  <1>1. r.offered \in Partial(Ids, SoundRanges) /\ r.agreed \in Partial(Ids, Nat)
    BY PeerIsOrderly DEF Session
  <1>2. /\ Offer(r.offered, require) \in Partial(Ids, Terms)
        /\ Offer(Exactly(r.agreed), require) \in Partial(Ids, Terms)
        /\ <<>> \in Partial(Ids, Terms)
    BY <1>1, OfferType, ExactlyType, NothingOffered
  <1>3. f.offer \in {Offer(r.offered, require), Offer(Exactly(r.agreed), require), <<>>}
    BY DEF Frame
  <1>4. f.kind = kind /\ f.compact \in BOOLEAN
        /\ f = [kind |-> f.kind, compact |-> f.compact, offer |-> f.offer]
    BY DEF Frame
  <1> HIDE DEF f, r, require
  <1>5. f \in Frames
    BY <1>2, <1>3, <1>4 DEF Frames
  <1> QED  BY <1>5 DEF f

\* The queue loses its head, or the lane takes or finishes a write.
LEMMA QueueMovesOrderly ==
  ASSUME NEW rt, NEW r, Orderly(rt, r), NEW jobs \in Seq(FrameKinds),
         NEW writing \in {None} \cup FrameKinds, r.reader # "off",
         ToSet(jobs) \cup {writing} \subseteq ToSet(r.jobs) \cup {r.writing, None},
         NEW d, d = [r EXCEPT !.jobs = jobs, !.writing = writing]
  PROVE  Orderly(rt, d)
  <1>1. /\ r \in Session(rt) /\ InTurn(rt, r) /\ DOMAIN r.agreed \subseteq DOMAIN r.offered
        /\ r.reader = "reading" /\ r.state = "connecting" => r.attached = {}
        /\ "PONG" \in ToSet(r.jobs) \cup {r.writing} => r.state \notin {"idle", "connecting"}
    BY OrderlyFacts
  <1>2. /\ d \in Session(rt) /\ SameLanes(r, d) /\ SameLists(r, d)
        /\ d.offered = r.offered /\ d.agreed = r.agreed /\ d.attach = r.attach
        /\ d.state = r.state /\ d.reader = r.reader /\ d.extension = r.extension
        /\ d.jobs = jobs /\ d.writing = writing
    BY <1>1 DEF Session, SameLanes, SameLists
  <1>3. "PONG" \in ToSet(d.jobs) \cup {d.writing} => d.state \notin {"idle", "connecting"}
    BY <1>1, <1>2 DEF None
  <1>4. Orderly(rt, d)
    BY <1>1, <1>2, <1>3, StaysOrderly DEF InTurn, SameLists
  <1> QED  BY <1>2, <1>4

LEMMA BeginWriteStep ==
  ASSUME TypeInv, NEW p \in Peers, BeginWrite(p)
  PROVE  TypeInv'
  <1> DEFINE rt == Runtime_(p)
             r == s[p]
             kind == Head(r.jobs)
             d == [r EXCEPT !.jobs = Tail(r.jobs)]
             e == [r EXCEPT !.jobs = Tail(r.jobs), !.writing = kind]
             q == Other(p)
             frame == Frame(p, kind)
             sent == [chan EXCEPT ![q] = Append(chan[q], frame)]
  <1>1. /\ Orderly(rt, r) /\ r \in Session(rt) /\ chan \in [Peers -> Seq(Frames)]
    BY PeerIsOrderly
  <1>2. /\ r.jobs # <<>> /\ r.writing = None /\ Calm
        /\ \/ Becomes(p, Resume(d, kind, FALSE), chan)
           \/ Becomes(p, e, chan)
           \/ Becomes(p, e, sent)
    <2>1. [d EXCEPT !.writing = kind] = e
      BY <1>1 DEF Session
    <2>2. sent = [chan EXCEPT ![q] = Append(@, frame)]
      BY <1>1
    <2>3. /\ r.jobs # <<>> /\ r.writing = None /\ Calm
          /\ \/ Becomes(p, Resume(d, kind, FALSE), chan)
             \/ Becomes(p, [d EXCEPT !.writing = kind], chan)
             \/ Becomes(p, [d EXCEPT !.writing = kind], [chan EXCEPT ![q] = Append(@, frame)])
      BY DEF BeginWrite
    <2> HIDE DEF sent, e, frame, q, d, kind, r
    <2> QED  BY <2>1, <2>2, <2>3
  <1>3. kind \in FrameKinds /\ Tail(r.jobs) \in Seq(FrameKinds)
        /\ ToSet(r.jobs) = ToSet(Tail(r.jobs)) \cup {kind}
    BY <1>1, <1>2, SetOfHeadTail DEF Session
  <1>4. frame \in Frames
    BY <1>3, FrameType
  <1>5. q \in Peers
    BY DEF Other, Peers
  <1> HIDE DEF frame, q
  <1>6. sent \in [Peers -> Seq(Frames)]
    <2>1. Append(chan[q], frame) \in Seq(Frames)
      BY <1>1, <1>4, <1>5, AppendProperties
    <2> QED  BY <1>1, <2>1
  <1> HIDE DEF rt, r, kind, sent
  <1>7. r.reader # "off"
    BY <1>1, <1>2, OrderlyFacts
  <1>8. Orderly(rt, e)
    BY <1>1, <1>3, <1>7, QueueMovesOrderly
  <1>9. Orderly(rt, d) /\ d.reader = r.reader /\ d.state = r.state
    <2> DEFINE m == [r EXCEPT !.jobs = Tail(r.jobs), !.writing = r.writing]
    <2>1. d = m
      BY <1>1 DEF Session
    <2>2. r.writing \in {None} \cup FrameKinds
      BY <1>1 DEF Session
    <2>3. Orderly(rt, m)
      BY <1>1, <1>3, <1>7, <2>2, QueueMovesOrderly
    <2>4. m.reader = r.reader /\ m.state = r.state
      BY <1>1 DEF Session
    <2> HIDE DEF d, m
    <2> QED  BY <2>1, <2>3, <2>4
  <1> HIDE DEF d, e
  <1>10. kind = "PONG" => d.state \notin {"idle", "connecting"}
    BY <1>1, <1>3, <1>9, OrderlyFacts
  <1>11. Orderly(rt, Resume(d, kind, FALSE))
    BY <1>3, <1>7, <1>9, <1>10, ResumeOrderly
  <1> QED  BY <1>1, <1>2, <1>6, <1>8, <1>11, CalmStep DEF rt

LEMMA EndWriteStep ==
  ASSUME TypeInv, NEW p \in Peers, EndWrite(p)
  PROVE  TypeInv'
  <1> DEFINE rt == Runtime_(p)
             r == s[p]
             kind == r.writing
             d == [r EXCEPT !.writing = None]
             e == Detach(d, "lost")
  <1>1. Orderly(rt, r) /\ r \in Session(rt) /\ chan \in [Peers -> Seq(Frames)]
    BY PeerIsOrderly
  <1>2. /\ kind # None /\ Calm
        /\ Becomes(p, Resume(d, kind, TRUE), chan) \/ Becomes(p, Resume(e, kind, FALSE), chan)
    BY DEF EndWrite
  <1> HIDE DEF rt, r
  <1>3. kind \in FrameKinds /\ r.jobs \in Seq(FrameKinds) /\ r.reader # "off"
    BY <1>1, <1>2, OrderlyFacts DEF Session
  <1>4. Orderly(rt, d) /\ d.reader = r.reader /\ d.state = r.state
    <2> DEFINE m == [r EXCEPT !.jobs = r.jobs, !.writing = None]
    <2>1. d = m
      BY <1>1 DEF Session
    <2>2. Orderly(rt, m)
      BY <1>1, <1>3, QueueMovesOrderly
    <2>3. m.reader = r.reader /\ m.state = r.state
      BY <1>1 DEF Session
    <2> HIDE DEF d, m
    <2> QED  BY <2>1, <2>2, <2>3
  <1>5. kind = "PONG" => d.state \notin {"idle", "connecting"}
    BY <1>1, <1>4, OrderlyFacts
  <1> HIDE DEF d
  <1>6. Orderly(rt, e) /\ e.reader # "off" /\ e.state \in Ended
    BY <1>3, <1>4, DetachOrderly DEF Reasons
  <1>7. e.state \notin {"idle", "connecting"}
    BY <1>6 DEF Ended
  <1> HIDE DEF e, kind
  <1>8. Orderly(rt, Resume(d, kind, TRUE)) /\ Orderly(rt, Resume(e, kind, FALSE))
    BY <1>3, <1>4, <1>5, <1>6, <1>7, ResumeOrderly
  <1> QED  BY <1>1, <1>2, <1>8, CalmStep DEF rt

LEMMA ReadStep ==
  ASSUME TypeInv, NEW p \in Peers, Read(p) \/ ReadEnd(p)
  PROVE  TypeInv'
  <1> DEFINE rt == Runtime_(p)
             r == s[p]
             d == [r EXCEPT !.quiet = FALSE]
             rest == [chan EXCEPT ![p] = Tail(chan[p])]
             f == Head(chan[p])
  <1>1. /\ Orderly(rt, r) /\ r \in Session(rt) /\ chan \in [Peers -> Seq(Frames)]
        /\ config \in DOMAIN Configurations
    BY PeerIsOrderly
  <1>2. CASE Read(p)
    <2>1. /\ r.reader = "reading" /\ chan[p] # <<>> /\ Calm
          /\ Becomes(p, Handle(p, d, f), rest)
      <3>1. rest = [chan EXCEPT ![p] = Tail(@)]
        BY <1>1
      <3>2. /\ r.reader = "reading" /\ chan[p] # <<>> /\ Calm
            /\ Becomes(p, Handle(p, d, f), [chan EXCEPT ![p] = Tail(@)])
        BY <1>2 DEF Read
      <3> HIDE DEF rest, d, f, r
      <3> QED  BY <3>1, <3>2
    <2>2. chan[p] \in Seq(Frames)
      BY <1>1
    <2>3. f \in Frames /\ Tail(chan[p]) \in Seq(Frames)
      BY <2>1, <2>2, SetOfHeadTail
    <2>4. rest \in [Peers -> Seq(Frames)]
      BY <1>1, <2>3
    <2> HIDE DEF rt, r, f, rest
    <2>5. d \in Session(rt) /\ SameCourse(r, d)
          /\ d.timer = r.timer /\ d.outcome = r.outcome /\ d.ready = r.ready
      BY <1>1 DEF Session, SameCourse, SameLanes, SameLists
    <2> HIDE DEF d
    <2>6. Orderly(rt, d) /\ d.reader = "reading"
      BY <1>1, <2>1, <2>5, SameCourseOrderly DEF SameCourse
    <2>7. Orderly(rt, Handle(p, d, f))
      BY <1>1, <2>3, <2>6, HandleOrderly DEF rt
    <2> QED  BY <2>1, <2>4, <2>7, CalmStep DEF rt
  <1>3. CASE ReadEnd(p)
    <2>1. r.reader = "reading" /\ Becomes(p, ReadLoopFails(r, "lost"), chan) /\ Calm
      BY <1>3 DEF ReadEnd
    <2> HIDE DEF rt, r
    <2>2. Orderly(rt, ReadLoopFails(r, "lost"))
      BY <1>1, <2>1, ReadLoopFailsOrderly DEF Reasons
    <2> QED  BY <1>1, <2>1, <2>2, CalmStep DEF rt
  <1> QED  BY <1>2, <1>3

LEMMA ExtensionAttachedStep ==
  ASSUME TypeInv, NEW p \in Peers, ExtensionAttached(p)
  PROVE  TypeInv'
  <1> DEFINE rt == Runtime_(p)
             r == s[p]
             x == Current(p)
             k == r.extension
             ran == [r EXCEPT !.attached = r.attached \cup {x}, !.disposed = Append(r.disposed, x)]
             kept == [r EXCEPT !.attached = r.attached \cup {x}, !.disposers = Append(r.disposers, x)]
  <1>1. /\ Orderly(rt, r) /\ Sound(rt, r) /\ r \in Session(rt) /\ AttachInOrder(r)
        /\ chan \in [Peers -> Seq(Frames)] /\ config \in DOMAIN Configurations
    BY PeerIsOrderly
  <1>2. /\ r.reader = "extending" /\ Calm
        /\ \/ r.state \in Ended /\ Becomes(p, NextExtension(p, ran, k), chan)
           \/ r.state \notin Ended /\ Becomes(p, NextExtension(p, kept, k), chan)
    <2> DEFINE c == [r EXCEPT !.attached = @ \cup {x}]
    <2>1. /\ r.reader = "extending" /\ Calm
          /\ \/ r.state \in Ended
                /\ Becomes(p, NextExtension(p, [c EXCEPT !.disposed = Append(@, x)], k), chan)
             \/ r.state \notin Ended
                /\ Becomes(p, NextExtension(p, [c EXCEPT !.disposers = Append(@, x)], k), chan)
      <3>1. c.state = r.state
        BY <1>1 DEF Session
      <3>2. /\ r.reader = "extending" /\ Calm
            /\ Becomes(p, NextExtension(p,
                 IF c.state \in Ended THEN [c EXCEPT !.disposed = Append(@, x)]
                 ELSE [c EXCEPT !.disposers = Append(@, x)], k), chan)
        BY DEF ExtensionAttached
      <3> HIDE DEF c, r, x, k
      <3> QED  BY <3>1, <3>2
    <2>2. [c EXCEPT !.disposed = Append(@, x)] = ran /\ [c EXCEPT !.disposers = Append(@, x)] = kept
      BY <1>1 DEF Session
    <2> HIDE DEF c, ran, kept, r, x, k
    <2> QED  BY <2>1, <2>2
  <1>3. /\ Runtime_(p).extensions \in Seq(Names(rt)) /\ IsInjective(Runtime_(p).extensions)
    BY <1>1, RuntimeFacts
  <1>4. /\ k \in DOMAIN rt.extensions /\ x = rt.extensions[k] /\ k \in Nat
        /\ \A j \in DOMAIN rt.extensions : rt.extensions[j] \in r.attached => j < k
    BY <1>1, <1>2 DEF Sound, Current, Session
  <1> HIDE DEF rt, r, x
  <1>5. DOMAIN rt.extensions = 1..Len(rt.extensions) /\ x \in Names(rt)
    BY <1>3, <1>4, LenProperties DEF rt, Names, ToSet
  <1>6. x \notin r.attached
    <2>1. rt.extensions[k] \in r.attached => k < k
      BY <1>4
    <2> QED  BY <1>4, <2>1
  <1>7. \A j \in DOMAIN rt.extensions : rt.extensions[j] \in r.attached \cup {x} => j <= k
    <2> TAKE j \in DOMAIN rt.extensions
    <2>1. CASE rt.extensions[j] \in r.attached
      <3>1. j < k
        BY <1>4, <2>1
      <3> QED  BY <1>4, <1>5, <3>1
    <2>2. CASE rt.extensions[j] = x
      <3>1. j = k
        BY <1>3, <1>4, <2>2 DEF IsInjective, rt
      <3> QED  BY <1>4, <3>1
    <2> QED  BY <2>1, <2>2
  <1>8. /\ r.disposers \in Seq(Names(rt)) /\ r.disposed \in Seq(Names(rt))
        /\ r.disposing \in Seq(Names(rt)) /\ r.attached \subseteq Names(rt) /\ Accounted(r)
    BY <1>1, ListTypes DEF Sound
  <1>9. /\ Append(r.disposers, x) \in Seq(Names(rt)) /\ Append(r.disposed, x) \in Seq(Names(rt))
        /\ ToSet(Append(r.disposers, x)) = ToSet(r.disposers) \cup {x}
        /\ ToSet(Append(r.disposed, x)) = ToSet(r.disposed) \cup {x}
        /\ IsInjective(Append(r.disposers, x)) /\ IsInjective(Append(r.disposed, x))
    BY <1>5, <1>6, <1>8, SetOfAppend DEF Accounted
  <1>10. ASSUME NEW d, d \in Session(rt), d.attached = r.attached \cup {x},
                d.reader = "extending", d.extension = k,
                \/ /\ r.state \in Ended /\ d.disposed = Append(r.disposed, x)
                   /\ d.disposers = r.disposers
                \/ /\ r.state \notin Ended /\ d.disposers = Append(r.disposers, x)
                   /\ d.disposed = r.disposed,
                d.disposing = r.disposing, SameLanes(r, d), d.state = r.state,
                d.attach = r.attach, d.offered = r.offered, d.agreed = r.agreed,
                d.jobs = r.jobs, d.writing = r.writing
         PROVE  Orderly(rt, NextExtension(p, d, k))
    <2> DEFINE w == [d EXCEPT !.reader = "welcoming"]
    <2>1. /\ w \in Session(rt) /\ SameLists(d, w) /\ SameLanes(d, w) /\ w.state = d.state
          /\ w.attach = d.attach /\ w.offered = d.offered /\ w.agreed = d.agreed
          /\ w.jobs = d.jobs /\ w.writing = d.writing /\ w.reader = "welcoming"
      BY <1>10 DEF Session, SameLists, SameLanes, Readers
    <2> HIDE DEF w
    <2>2. Accounted(w)
      <3>1. w.disposing = r.disposing /\ w.attached = r.attached \cup {x}
        BY <1>10, <2>1 DEF SameLists
      <3>2. CASE w.disposed = Append(r.disposed, x) /\ w.disposers = r.disposers
        BY <1>6, <1>8, <1>9, <3>1, <3>2 DEF Accounted
      <3>3. CASE w.disposers = Append(r.disposers, x) /\ w.disposed = r.disposed
        BY <1>6, <1>8, <1>9, <3>1, <3>3 DEF Accounted
      <3> QED  BY <1>10, <2>1, <3>2, <3>3 DEF SameLists
    <2>3. OffUntilOpen(w)
      BY <2>1 DEF OffUntilOpen
    <2>4. Sound(rt, w)
      BY <1>1, <1>10, <2>1, <2>2, <2>3 DEF Sound, SameLanes, SameLists, Opened
    <2>5. AttachInOrder(w)
      BY <1>1, <1>2, <1>10, <2>1 DEF AttachInOrder, SameLanes
    <2>6. Orderly(rt, w)
      BY <2>4, <2>5 DEF Orderly
    <2> QED  BY <1>1, <1>4, <1>7, <1>10, <2>6, NextExtensionOrderly DEF w, rt
  <1>11. Orderly(rt, NextExtension(p, ran, k)) \/ r.state \notin Ended
    <2>1. /\ ran \in Session(rt) /\ ran.attached = r.attached \cup {x}
          /\ ran.reader = r.reader /\ ran.extension = r.extension
          /\ ran.disposed = Append(r.disposed, x) /\ ran.disposers = r.disposers
          /\ ran.disposing = r.disposing /\ SameLanes(r, ran) /\ ran.state = r.state
          /\ ran.attach = r.attach /\ ran.offered = r.offered /\ ran.agreed = r.agreed
          /\ ran.jobs = r.jobs /\ ran.writing = r.writing
      BY <1>1, <1>5, <1>9 DEF Session, SameLanes
    <2> HIDE DEF ran
    <2> QED  BY <1>2, <1>10, <2>1
  <1>12. Orderly(rt, NextExtension(p, kept, k)) \/ r.state \in Ended
    <2>1. /\ kept \in Session(rt) /\ kept.attached = r.attached \cup {x}
          /\ kept.reader = r.reader /\ kept.extension = r.extension
          /\ kept.disposers = Append(r.disposers, x) /\ kept.disposed = r.disposed
          /\ kept.disposing = r.disposing /\ SameLanes(r, kept) /\ kept.state = r.state
          /\ kept.attach = r.attach /\ kept.offered = r.offered /\ kept.agreed = r.agreed
          /\ kept.jobs = r.jobs /\ kept.writing = r.writing
      BY <1>1, <1>5, <1>9 DEF Session, SameLanes
    <2> HIDE DEF kept
    <2> QED  BY <1>2, <1>10, <2>1
  <1> QED  BY <1>1, <1>2, <1>11, <1>12, CalmStep DEF rt

LEMMA TimerStep ==
  ASSUME TypeInv, NEW p \in Peers,
         ExtensionFails(p) \/ Probe(p) \/ Expire(p) \/ CloseSession(p)
  PROVE  TypeInv'
  <1> DEFINE rt == Runtime_(p)
             r == s[p]
             ping == Queue(r, "PING")
             d == [ping EXCEPT !.timer = "probing", !.quiet = TRUE]
  <1>1. Orderly(rt, r) /\ r \in Session(rt) /\ chan \in [Peers -> Seq(Frames)]
    BY PeerIsOrderly
  <1>2. /\ \/ r.reader = "extending" /\ Becomes(p, Refuse(r, "extension"), chan)
           \/ r.timer = "armed" /\ Becomes(p, d, chan)
           \/ r.timer = "armed" /\ Becomes(p, Detach(r, "liveness"), chan)
           \/ /\ r.outcome = "resolved" \/ r.reader = "extending"
              /\ Becomes(p, Queue(r, "CLOSE"), chan) \/ Becomes(p, FinishClosed(r), chan)
        /\ \/ Calm
           \/ UNCHANGED silent /\ \E kind \in EventKinds : Event(kind)
           \/ UNCHANGED <<silent, config, events>>
    BY DEF ExtensionFails, Probe, Expire, CloseSession, EventKinds
  <1> HIDE DEF rt, r
  <1>3. r.reader # "off"
    BY <1>1, <1>2, OrderlyFacts
  <1>4. Orderly(rt, Refuse(r, "extension"))
    BY <1>1, <1>3, RefuseOrderly DEF Reasons
  <1>5. Orderly(rt, Detach(r, "liveness"))
    BY <1>1, <1>3, DetachOrderly DEF Reasons
  <1>6. Orderly(rt, FinishClosed(r))
    BY <1>1, <1>3, FinishClosedOrderly
  <1>7. "replying" \in Readers \ {"off", "reading", "extending"}
    BY DEF Readers
  <1>8. Orderly(rt, ping) /\ Orderly(rt, Queue(r, "CLOSE")) /\ ping \in Session(rt)
    <2>1. "PING" \in FrameKinds /\ "CLOSE" \in FrameKinds
      BY DEF FrameKinds
    <2> QED  BY <1>1, <1>3, <1>7, <2>1, QueueOrderly, QueueFields
  <1>9. ping.reader # "off"
    <2>1. ping.reader = r.reader
      BY <1>1 DEF Queue, Session
    <2> QED  BY <1>3, <2>1
  <1> HIDE DEF ping
  <1>10. Orderly(rt, d)
    <2>1. d \in Session(rt) /\ SameCourse(ping, d)
      BY <1>8 DEF Session, SameCourse, SameLanes, SameLists
    <2> HIDE DEF d
    <2> QED  BY <1>8, <1>9, <2>1, SameCourseOrderly
  <1> HIDE DEF d
  <1> QED  BY <1>1, <1>2, <1>4, <1>5, <1>6, <1>8, <1>10, CalmStep DEF rt

LEMMA RunDisposerStep ==
  ASSUME TypeInv, NEW p \in Peers, RunDisposer(p)
  PROVE  TypeInv'
  <1> DEFINE rt == Runtime_(p)
             r == s[p]
             x == Head(r.disposing)
             d == [r EXCEPT !.disposing = Tail(r.disposing), !.disposed = Append(r.disposed, x)]
  <1>1. /\ Orderly(rt, r) /\ Sound(rt, r) /\ r \in Session(rt) /\ AttachInOrder(r)
        /\ chan \in [Peers -> Seq(Frames)]
    BY PeerIsOrderly
  <1>2. r.disposing # <<>> /\ Calm /\ Becomes(p, d, chan)
    <2>1. [r EXCEPT !.disposing = Tail(@), !.disposed = Append(@, x)] = d
      BY <1>1 DEF Session
    <2>2. /\ r.disposing # <<>> /\ Calm
          /\ Becomes(p, [r EXCEPT !.disposing = Tail(@), !.disposed = Append(@, x)], chan)
      BY DEF RunDisposer
    <2> HIDE DEF d, x, r
    <2> QED  BY <2>1, <2>2
  <1>3. /\ r.disposing \in Seq(Names(rt)) /\ r.disposed \in Seq(Names(rt)) /\ Accounted(r)
    BY <1>1, ListTypes DEF Sound
  <1>4. /\ x \in Names(rt) /\ Tail(r.disposing) \in Seq(Names(rt))
        /\ ToSet(r.disposing) = ToSet(Tail(r.disposing)) \cup {x}
        /\ IsInjective(Tail(r.disposing)) /\ x \notin ToSet(Tail(r.disposing))
    BY <1>2, <1>3, SetOfHeadTail DEF Accounted
  <1>5. x \notin ToSet(r.disposed) /\ x \notin ToSet(r.disposers)
    BY <1>3, <1>4 DEF Accounted
  <1> HIDE DEF rt, r, x
  <1>6. /\ Append(r.disposed, x) \in Seq(Names(rt)) /\ IsInjective(Append(r.disposed, x))
        /\ ToSet(Append(r.disposed, x)) = ToSet(r.disposed) \cup {x}
    BY <1>3, <1>4, <1>5, SetOfAppend DEF Accounted
  <1>7. /\ d \in Session(rt) /\ SameLanes(r, d)
        /\ d.disposing = Tail(r.disposing) /\ d.disposed = Append(r.disposed, x)
        /\ d.disposers = r.disposers /\ d.attached = r.attached
        /\ d.state = r.state /\ d.attach = r.attach /\ d.offered = r.offered
        /\ d.agreed = r.agreed /\ d.reader = r.reader /\ d.extension = r.extension
        /\ d.jobs = r.jobs /\ d.writing = r.writing
    BY <1>1, <1>4, <1>6 DEF Session, SameLanes
  <1> HIDE DEF d
  <1>8. Accounted(d)
    BY <1>3, <1>4, <1>5, <1>6, <1>7 DEF Accounted
  <1>9. OffUntilOpen(d)
    BY <1>1, <1>2, <1>7 DEF Sound, OffUntilOpen
  <1>10. Sound(rt, d)
    BY <1>1, <1>7, <1>8, <1>9 DEF Sound, SameLanes, Opened
  <1>11. AttachInOrder(d)
    BY <1>1, <1>7 DEF AttachInOrder, SameLanes
  <1>12. Orderly(rt, d)
    BY <1>10, <1>11 DEF Orderly
  <1> QED  BY <1>1, <1>2, <1>12, CalmStep DEF rt

LEMMA ReleaseStep ==
  ASSUME TypeInv, NEW p \in Peers, Release(p)
  PROVE  TypeInv'
  <1> DEFINE rt == Runtime_(p)
             r == s[p]
             physical == [x \in Resources |-> IF x \in r.releasing THEN "closed" ELSE r.physical[x]]
             c == [r EXCEPT !.physical = physical]
             d == [c EXCEPT !.releasing = {}]
  <1>1. /\ Orderly(rt, r) /\ Sound(rt, r) /\ r \in Session(rt) /\ AttachInOrder(r)
        /\ chan \in [Peers -> Seq(Frames)]
    BY PeerIsOrderly
  <1>2. r.releasing # {} /\ Calm /\ Becomes(p, d, chan)
    <2>1. Close(r, r.releasing) = c
      BY <1>1 DEF Close, Session
    <2>2. /\ r.releasing # {} /\ Calm
          /\ Becomes(p, [Close(r, r.releasing) EXCEPT !.releasing = {}], chan)
      BY DEF Release
    <2> QED  BY <2>1, <2>2
  <1> HIDE DEF rt, r
  <1>3. /\ r.held \subseteq Opened(r) /\ r.releasing \subseteq Opened(r)
        /\ r.physical \in [Resources -> Openness]
    BY <1>1 DEF Sound, Session
  <1>4. /\ physical \in [Resources -> Openness]
        /\ \A x \in r.held \cup r.releasing : physical[x] \in {"open", "closed"}
        /\ r.physical["datagramLane"] = "opening" => physical["datagramLane"] = "opening"
    BY <1>3 DEF Opened, Openness, Resources
  <1> HIDE DEF physical
  <1>5. Orderly(rt, c)
    BY <1>1, <1>4, PhysicalOrderly DEF AttachInOrder
  <1> HIDE DEF c
  <1>6. Sound(rt, c) /\ AttachInOrder(c) /\ c \in Session(rt)
    BY <1>5 DEF Orderly, Sound
  <1>7. /\ d \in Session(rt) /\ SameLists(c, d) /\ d.held = c.held /\ d.physical = c.physical
        /\ d.releasing = {} /\ d.state = c.state /\ d.attach = c.attach
        /\ d.offered = c.offered /\ d.agreed = c.agreed
        /\ d.reader = c.reader /\ d.extension = c.extension
        /\ d.jobs = c.jobs /\ d.writing = c.writing /\ d.timer = c.timer
        /\ d.outcome = c.outcome /\ d.ready = c.ready
    BY <1>6 DEF Session, SameLists
  <1> HIDE DEF d
  <1>8. Accounted(d) /\ OffUntilOpen(d)
    BY <1>6, <1>7 DEF Sound, SameLists, Accounted, OffUntilOpen
  <1>9. Sound(rt, d)
    BY <1>6, <1>7, <1>8 DEF Sound, SameLists, Opened
  <1>10. AttachInOrder(d)
    BY <1>6, <1>7 DEF AttachInOrder
  <1>11. Orderly(rt, d)
    BY <1>9, <1>10 DEF Orderly
  <1> QED  BY <1>1, <1>2, <1>11, CalmStep DEF rt

LEMMA CarrierStep ==
  ASSUME TypeInv, Break \/ FallSilent
  PROVE  TypeInv'
  <1>1. UNCHANGED s /\ \E kind \in EventKinds : Event(kind)
    BY DEF Break, FallSilent, EventKinds
  <1>2. config' = config /\ events' \in 0..Configurations[config].limit
    BY <1>1, EventFacts
  <1>3. eof' \in [Peers -> BOOLEAN] /\ silent' \in BOOLEAN
    BY DEF TypeInv, Break, FallSilent
  <1>4. chan' \in [Peers -> Seq(Frames)]
    <2>1. <<>> \in Seq(Frames) /\ chan \in [Peers -> Seq(Frames)]
      BY EmptySeq DEF TypeInv
    <2> QED  BY <2>1 DEF Break, FallSilent
  <1>5. \A p \in Peers : Runtime_(p)' = Runtime_(p)
    BY <1>2 DEF Runtime_
  <1> QED  BY <1>1, <1>2, <1>3, <1>4, <1>5 DEF TypeInv

LEMMA InitInv == Init => TypeInv
  <1> SUFFICES ASSUME Init PROVE TypeInv
    OBVIOUS
  <1>1. config \in DOMAIN Configurations /\ s = [p \in Peers |-> Idle]
    BY DEF Init
  <1>2. ASSUME NEW p \in Peers PROVE Orderly(Runtime_(p), Idle)
    <2> DEFINE rt == Runtime_(p)
    <2>1. /\ \A S : <<>> \in Seq(S)
          /\ ToSet(<<>>) = {} /\ IsInjective(<<>>) /\ DOMAIN <<>> = {}
      BY EmptyFacts
    <2>2. \A D, T : <<>> \in Partial(D, T)
      BY NothingOffered
    <2>3. Idle \in Session(rt)
      BY <2>1, <2>2 DEF Idle, Session, Activities, Attachment, Promise, Readers, Reasons,
                        Openness
    <2>4. /\ Idle.state = "idle" /\ Idle.attach = "idle" /\ Idle.reader = "off"
          /\ Idle.held = {} /\ Idle.releasing = {} /\ Idle.attached = {}
          /\ Idle.disposers = <<>> /\ Idle.disposing = <<>> /\ Idle.disposed = <<>>
          /\ Idle.jobs = <<>> /\ Idle.writing = None /\ Idle.timer = "off"
          /\ Idle.outcome = "pending" /\ Idle.ready = "pending"
          /\ Idle.offered = <<>> /\ Idle.agreed = <<>>
      BY DEF Idle
    <2> HIDE DEF rt
    <2>5. Accounted(Idle) /\ OffUntilOpen(Idle)
      BY <2>1, <2>4 DEF Accounted, OffUntilOpen
    <2>6. Sound(rt, Idle)
      BY <2>1, <2>3, <2>4, <2>5 DEF Sound, Ended, None
    <2>7. AttachInOrder(Idle)
      BY <2>1, <2>4 DEF AttachInOrder
    <2> QED  BY <2>6, <2>7 DEF Orderly, rt
  <1>3. s = [p \in Peers |-> s[p]] /\ \A p \in Peers : s[p] = Idle
    BY <1>1
  <1>4. chan \in [Peers -> Seq(Frames)]
    <2>1. <<>> \in Seq(Frames)
      BY EmptySeq
    <2> QED  BY <2>1 DEF Init
  <1>5. Configurations[config].limit \in Nat
    BY <1>1, ConfigurationsAssumption
  <1>6. eof \in [Peers -> BOOLEAN] /\ silent \in BOOLEAN /\ events = 0
    BY DEF Init
  <1>7. events \in 0..Configurations[config].limit
    BY <1>5, <1>6
  <1>8. \A p \in Peers : Orderly(Runtime_(p), s[p])
    BY <1>2, <1>3
  <1> QED  BY <1>1, <1>3, <1>4, <1>6, <1>7, <1>8 DEF TypeInv

LEMMA StepInv == TypeInv /\ [Next]_vars => TypeInv'
  <1> SUFFICES ASSUME TypeInv, [Next]_vars PROVE TypeInv'
    OBVIOUS
  <1>1. ASSUME NEW p \in Peers, Passing(p) PROVE TypeInv'
    BY <1>1, AttachStep, LaneOpenedStep, DatagramLaneOpenedStep, LateOpeningStep, SettleStep,
       BeginWriteStep, EndWriteStep, ReadStep, ExtensionAttachedStep, TimerStep,
       RunDisposerStep, ReleaseStep DEF Passing
  <1>2. ASSUME NEW p \in Peers,
               Attach(p) \/ OpeningFails(p) \/ Abort(p) \/ ExtensionFails(p) \/ CloseSession(p)
        PROVE  TypeInv'
    BY <1>2, AttachStep, OpeningFailsStep, AbortStep, TimerStep
  <1>3. CASE UNCHANGED vars
    BY <1>3 DEF TypeInv, vars, Runtime_
  <1> QED  BY <1>1, <1>2, <1>3, CarrierStep DEF Next, Happening

LEMMA Invariant == Spec => []TypeInv
  <1> QED  BY InitInv, StepInv, PTL DEF Spec

-----------------------------------------------------------------------------
(* What follows                                                            *)

LEMMA FrameIsFrame ==
  ASSUME NEW q \in Seq(Frames), NEW f \in ToSet(q)
  PROVE  IsFrame(f)
  <1>1. f \in Frames
    BY SetOfSeq
  <1>2. f.kind \in FrameKinds /\ f.compact \in BOOLEAN /\ f.offer \in Partial(Ids, Terms)
    BY <1>1 DEF Frames
  <1>3. ASSUME NEW id \in DOMAIN f.offer
        PROVE  f.offer[id].min \in 0..f.offer[id].max /\ f.offer[id].required \in BOOLEAN
    <2>1. f.offer[id] \in Terms
      BY <1>2, PartialFacts
    <2> QED  BY <2>1 DEF Terms
  <1> QED  BY <1>2, <1>3 DEF IsFrame

LEMMA PeerTypeOK ==
  ASSUME NEW rt, NEW r, Sound(rt, r)
  PROVE  /\ r.state \in {"idle", "connecting", "ready"} \cup Ended
         /\ r.attach \in {"idle", "connecting", "laneOpening", "datagramOpening",
                          "hello", "waiting", "settled"}
         /\ r.outcome \in {"pending", "resolved", "rejected"}
         /\ r.ready \in {"pending", "resolved", "rejected"}
         /\ r.held \subseteq {x \in Resources : r.physical[x] \in {"open", "closed"}}
         /\ r.physical \in [Resources -> {"none", "opening", "open", "closed"}]
         /\ DOMAIN r.agreed \subseteq DOMAIN r.offered
         /\ r.reader \in {"off", "reading", "extending", "welcoming", "refusing",
                          "replying", "done"}
         /\ r.reader = "extending" => r.extension \in DOMAIN rt.extensions
         /\ r.attached \subseteq ToSet(rt.extensions)
         /\ ToSet(r.disposers \o r.disposing \o r.disposed) \subseteq ToSet(rt.extensions)
         /\ r.releasing \subseteq Resources
         /\ r.writing \in {None} \cup FrameKinds
         /\ r.timer \in {"off", "armed", "probing"}
  <1>1. r \in Session(rt)
    BY DEF Sound
  <1>2. ToSet(r.disposers \o r.disposing \o r.disposed) \subseteq ToSet(rt.extensions)
    <2>1. /\ r.disposers \in Seq(Names(rt)) /\ r.disposing \in Seq(Names(rt))
          /\ r.disposed \in Seq(Names(rt))
      BY <1>1, ListTypes
    <2>2. r.disposers \o r.disposing \o r.disposed \in Seq(Names(rt))
      BY <2>1, ConcatProperties
    <2> QED  BY <2>2, SetOfSeq DEF Names
  <1>3. /\ r.held \subseteq {x \in Resources : r.physical[x] \in {"open", "closed"}}
        /\ DOMAIN r.agreed \subseteq DOMAIN r.offered
        /\ r.reader = "extending" => r.extension \in DOMAIN rt.extensions
    BY DEF Sound, Opened
  <1> QED  BY <1>1, <1>2, <1>3 DEF Session, Activities, Attachment, Promise, Readers, Openness,
                                  Names

\* Every activity of both peers is always at one of its awaits, with an offer, an
\* agreement, lists of extensions and frames in flight of the right kind.
THEOREM LifecycleTyped == Spec => []TypeOK
  <1>1. TypeInv => TypeOK
    <2> SUFFICES ASSUME TypeInv PROVE TypeOK
      OBVIOUS
    <2>1. \A p \in Peers : Sound(Runtime_(p), s[p])
      BY PeerIsOrderly
    <2>2. \A p \in Peers : \A f \in ToSet(chan[p]) : IsFrame(f)
      <3> TAKE p \in Peers
      <3>1. chan[p] \in Seq(Frames)
        BY DEF TypeInv
      <3> QED  BY <3>1, FrameIsFrame
    <2>3. /\ config \in DOMAIN Configurations
          /\ {eof[p] : p \in Peers} \cup {silent} \subseteq BOOLEAN
          /\ events \in 0..Configurations[config].limit
      BY DEF TypeInv
    <2> QED  BY <2>1, <2>2, <2>3, PeerTypeOK, SMTT(30) DEF TypeOK
  <1> QED  BY <1>1, Invariant, PTL

\* Whatever the order in which extensions attach, fail, and sessions end, each attached
\* extension has its disposer in one place, and an ended session has none left over.
THEOREM NoDisposerLost == Spec => []DisposersAccounted
  <1>1. TypeInv => DisposersAccounted
    <2> SUFFICES ASSUME TypeInv, NEW p \in Peers
                 PROVE  LET all == s[p].disposers \o s[p].disposing \o s[p].disposed
                        IN /\ IsInjective(all)
                           /\ ToSet(all) = s[p].attached
                           /\ s[p].state \in Ended => s[p].disposers = <<>>
      BY DEF DisposersAccounted
    <2> DEFINE r == s[p]
               names == Names(Runtime_(p))
    <2>1. Sound(Runtime_(p), r) /\ r \in Session(Runtime_(p)) /\ Accounted(r)
      BY PeerIsOrderly DEF Sound
    <2>2. r.disposers \in Seq(names) /\ r.disposing \in Seq(names) /\ r.disposed \in Seq(names)
      BY <2>1, ListTypes
    <2> HIDE DEF r, names
    <2>3. /\ r.disposers \o r.disposing \in Seq(names)
          /\ IsInjective(r.disposers \o r.disposing)
          /\ ToSet(r.disposers \o r.disposing) = ToSet(r.disposers) \cup ToSet(r.disposing)
      BY <2>1, <2>2, ConcatProperties, InjectiveConcat, SetOfConcat DEF Accounted
    <2> DEFINE both == r.disposers \o r.disposing
    <2> HIDE DEF both
    <2>4. /\ both \in Seq(names) /\ IsInjective(both)
          /\ ToSet(both) = ToSet(r.disposers) \cup ToSet(r.disposing)
          /\ ToSet(both) \cap ToSet(r.disposed) = {}
      BY <2>1, <2>3 DEF both, Accounted
    <2>5. /\ IsInjective(both \o r.disposed)
          /\ ToSet(both \o r.disposed) = ToSet(both) \cup ToSet(r.disposed)
      BY <2>1, <2>2, <2>4, InjectiveConcat, SetOfConcat DEF Accounted
    <2>6. ToSet(both \o r.disposed) = r.attached
      BY <2>1, <2>4, <2>5 DEF Accounted
    <2>7. r.state \in Ended => r.disposers = <<>>
      BY <2>1 DEF Sound
    <2> QED  BY <2>5, <2>6, <2>7 DEF both, r
  <1> QED  BY <1>1, Invariant, PTL

\* Cutting a carrier off only takes frames away.
LEMMA BecomesLen ==
  ASSUME chan \in [Peers -> Seq(Frames)], NEW p \in Peers, NEW r,
         NEW channels \in [Peers -> Seq(Frames)], Becomes(p, r, channels), NEW q \in Peers
  PROVE  Len(chan'[q]) <= Len(channels[q])
  <1>1. chan'[q] = channels[q] \/ chan'[q] = <<>>
    BY DEF Becomes
  <1>2. channels[q] \in Seq(Frames) /\ Len(channels[q]) \in Nat /\ Len(<<>>) = 0
    BY LenProperties, EmptySeq
  <1> QED  BY <1>1, <1>2

LEMMA Shorter ==
  ASSUME NEW S, NEW a \in Seq(S), NEW b, b \in {a, <<>>} \/ (a # <<>> /\ b = Tail(a))
  PROVE  Len(b) <= Len(a)
  <1>1. Len(a) \in Nat /\ Len(<<>>) = 0
    BY LenProperties, EmptySeq
  <1>2. CASE b = a
    BY <1>1, <1>2
  <1>3. CASE b = <<>>
    <2>1. Len(b) = 0
      BY <1>1, <1>3
    <2> QED  BY <1>1, <2>1
  <1>4. CASE a # <<>> /\ b = Tail(a)
    <2>1. Len(b) = Len(a) - 1
      BY <1>4, HeadTailProperties
    <2> QED  BY <1>1, <2>1
  <1> QED  BY <1>2, <1>3, <1>4

\* No step of a session that has ended adds to what is on its way to the other peer:
\* its queue goes on, but every write in it finds that there is no lane.
THEOREM EndedIsSilent == Spec => SilentOnceEnded
  <1>1. TypeInv /\ [Next]_vars => [\A p \in Peers : s[p].state \in Ended =>
                                     Len(chan'[Other(p)]) <= Len(chan[Other(p)])]_vars
    <2> SUFFICES ASSUME TypeInv, Next, NEW p \in Peers, s[p].state \in Ended
                 PROVE  Len(chan'[Other(p)]) <= Len(chan[Other(p)])
      OBVIOUS
    <2> DEFINE q == Other(p)
    <2>1. q \in Peers /\ q # p /\ \A o \in Peers : o \in {p, q}
      BY DEF Other, Peers
    <2>2. chan \in [Peers -> Seq(Frames)] /\ chan[q] \in Seq(Frames) /\ Len(chan[q]) \in Nat
      BY <2>1, LenProperties DEF TypeInv
    <2>3. "lane" \notin s[p].held
      BY PeerIsOrderly DEF Sound
    <2> HIDE DEF q
    <2>4. ASSUME NEW o \in Peers, NEW r, Becomes(o, r, chan)
          PROVE  Len(chan'[q]) <= Len(chan[q])
      BY <2>1, <2>2, <2>4, BecomesLen
    <2>5. ASSUME NEW o \in Peers, BeginWrite(o)
          PROVE  Len(chan'[q]) <= Len(chan[q])
      <3>1. CASE \E r : Becomes(o, r, chan)
        BY <2>4, <3>1
      <3>2. CASE /\ "lane" \in s[o].held
                 /\ \E r, frame : Becomes(o, r, [chan EXCEPT ![Other(o)] = Append(@, frame)])
        <4>1. o = q
          BY <2>1, <2>3, <3>2
        <4>2. Other(o) = p
          BY <2>1, <4>1 DEF Other, Peers, q
        <4>3. PICK r, frame : Becomes(o, r, [chan EXCEPT ![p] = Append(@, frame)])
          BY <3>2, <4>2
        <4>4. chan'[q] \in {chan[q], <<>>}
          BY <2>1, <2>2, <4>1, <4>3 DEF Becomes
        <4> QED  BY <2>2, <4>4, Shorter
      <3>3. \/ \E r : Becomes(o, r, chan)
            \/ /\ "lane" \in s[o].held
               /\ \E r, frame : Becomes(o, r, [chan EXCEPT ![Other(o)] = Append(@, frame)])
        <4> DEFINE kind == Head(s[o].jobs)
                   d == [s[o] EXCEPT !.jobs = Tail(@)]
        <4>1. \/ Becomes(o, Resume(d, kind, FALSE), chan)
              \/ Becomes(o, [d EXCEPT !.writing = kind], chan)
              \/ /\ "lane" \in d.held
                 /\ Becomes(o, [d EXCEPT !.writing = kind],
                            [chan EXCEPT ![Other(o)] = Append(@, Frame(o, kind))])
          BY <2>5 DEF BeginWrite
        <4>2. d.held = s[o].held
          BY PeerIsOrderly DEF Session
        <4> HIDE DEF d, kind
        <4> QED  BY <4>1, <4>2
      <3> QED  BY <3>1, <3>2, <3>3
    <2>6. ASSUME NEW o \in Peers, Read(o)
          PROVE  Len(chan'[q]) <= Len(chan[q])
      <3>1. chan[o] # <<>> /\ chan[o] \in Seq(Frames)
        BY <2>2, <2>6 DEF Read
      <3>2. chan'[q] \in {chan[q], <<>>} \/ (q = o /\ chan'[q] = Tail(chan[q]))
        BY <2>1, <2>2, <2>6 DEF Read, Becomes
      <3> QED  BY <2>2, <3>1, <3>2, Shorter
    <2>7. ASSUME NEW o \in Peers, Passing(o)
          PROVE  Len(chan'[q]) <= Len(chan[q])
      <3>1. CASE BeginWrite(o) \/ Read(o)
        BY <2>5, <2>6, <3>1
      <3>2. CASE ~(BeginWrite(o) \/ Read(o))
        <4>1. \E r : Becomes(o, r, chan)
          BY <2>7, <3>2 DEF Passing, Connected, LaneOpened, DatagramLaneOpened, LateOpening,
             Settle, HandshakeTimeout, EndWrite, ReadEnd, ExtensionAttached, Probe, Expire,
             RunDisposer, Release
        <4> QED  BY <2>4, <4>1
      <3> QED  BY <3>1, <3>2
    <2>8. ASSUME NEW o \in Peers,
                 Attach(o) \/ OpeningFails(o) \/ Abort(o) \/ ExtensionFails(o) \/ CloseSession(o)
          PROVE  Len(chan'[q]) <= Len(chan[q])
      <3>1. \E r : Becomes(o, r, chan)
        BY <2>8 DEF Attach, OpeningFails, Abort, ExtensionFails, CloseSession
      <3> QED  BY <2>4, <3>1
    <2>9. ASSUME Break \/ FallSilent
          PROVE  Len(chan'[q]) <= Len(chan[q])
      <3>1. chan'[q] \in {chan[q], <<>>}
        BY <2>1, <2>9 DEF Break, FallSilent
      <3> QED  BY <2>2, <3>1, Shorter
    <2>10. Len(chan'[q]) <= Len(chan[q])
      <3>1. \/ \E o \in Peers : Passing(o)
            \/ \E o \in Peers : \/ Attach(o) \/ OpeningFails(o) \/ Abort(o)
                                \/ ExtensionFails(o) \/ CloseSession(o)
            \/ Break \/ FallSilent
        BY DEF Next, Happening
      <3> QED  BY <2>7, <2>8, <2>9, <3>1
    <2> QED  BY <2>10 DEF q
  <1> QED  BY <1>1, Invariant, PTL DEF Spec, SilentOnceEnded

-----------------------------------------------------------------------------
(* Two ready sessions agree                                                *)

Made(r) == Base \in DOMAIN r.offered
Writes(r) == ToSet(r.jobs) \cup {r.writing}

\* The session has an agreement, and so has passed its negotiation.
Underway(r) ==
  \/ DOMAIN r.agreed # {} \/ r.reader = "extending" \/ r.state = "ready"
  \/ "WELCOME" \in Writes(r)

HelloOf(i) == Offer(i.offered, Runtime_("initiator").require)
WelcomeOf(a) == Offer(Exactly(a.agreed), Runtime_("acceptor").require)

\* The acceptor has made of the initiator's offer what there is to make of it.
Settled(i, a) ==
  /\ Made(i) /\ Made(a)
  /\ ~Mismatch(a.offered, HelloOf(i), Runtime_("acceptor").require)
  /\ a.agreed = Negotiated(a.offered, HelloOf(i))

\* The initiator has come to the same.
Confirmed(i, a) ==
  /\ Settled(i, a)
  /\ i.agreed = a.agreed
  /\ Runtime_("initiator").require \subseteq DOMAIN i.agreed

Agreeing(i, a) ==
  /\ Underway(a) => Settled(i, a)
  /\ Underway(i) => Confirmed(i, a)
  /\ "HELLO" \in Writes(i) => Made(i)

\* The frames that are on their way.
Announced(i, a, channels) ==
  /\ \A f \in ToSet(channels["acceptor"]) :
       f.kind = "HELLO" => Made(i) /\ f.offer = HelloOf(i)
  /\ \A f \in ToSet(channels["initiator"]) :
       f.kind = "WELCOME" => Settled(i, a) /\ f.offer = WelcomeOf(a)

Handshake ==
  /\ TypeInv
  /\ Agreeing(s["initiator"], s["acceptor"])
  /\ Announced(s["initiator"], s["acceptor"], chan)

-----------------------------------------------------------------------------
(* What leaves the handshake alone                                         *)

\* An offer is made once, an agreement stays, and nobody gets underway.
GoesOn(r, d) ==
  /\ d.offered = r.offered \/ ~Made(r)
  /\ d.agreed = r.agreed
  /\ Underway(d) => Underway(r)
  /\ "HELLO" \in Writes(d) => "HELLO" \in Writes(r) \/ Made(d)

LEMMA GoesOnTwice ==
  ASSUME NEW a, NEW b, NEW c, GoesOn(a, b), GoesOn(b, c)
  PROVE  GoesOn(a, c)
  <1>1. /\ Made(b) => Made(c)
        /\ Made(a) => Made(b)
        /\ c.offered = a.offered \/ ~Made(a)
    BY DEF GoesOn, Made
  <1>2. /\ c.agreed = a.agreed
        /\ Underway(c) => Underway(a)
    BY DEF GoesOn
  <1>3. "HELLO" \in Writes(c) => "HELLO" \in Writes(a) \/ Made(c)
    BY <1>1 DEF GoesOn
  <1> QED  BY <1>1, <1>2, <1>3, Zenon DEF GoesOn

\* What changes neither the offer, the agreement, the queue nor what is ready.
LEMMA SameGoesOn ==
  ASSUME NEW r, NEW d, d.offered = r.offered, d.agreed = r.agreed,
         d.jobs = r.jobs, d.writing = r.writing,
         d.reader = "extending" => Underway(r), d.state = "ready" => Underway(r)
  PROVE  GoesOn(r, d)
  <1>1. Writes(d) = Writes(r)
    BY DEF Writes
  <1> QED  BY <1>1 DEF GoesOn, Underway

LEMMA DetachGoesOn ==
  ASSUME NEW rt, NEW r \in Session(rt), NEW why \in Reasons
  PROVE  Detach(r, why) \in Session(rt) /\ GoesOn(r, Detach(r, why))
  <1> DEFINE d == Detach(r, why)
  <1>1. CASE r.state \in Ended
    <2>1. d = r
      BY <1>1 DEF Detach
    <2> QED  BY <2>1 DEF GoesOn
  <1>2. CASE r.state \notin Ended
    <2>1. d \in Session(rt) /\ Detaches(r, d)
      BY <1>2, DetachFields
    <2> HIDE DEF d
    <2>2. GoesOn(r, d)
      BY <2>1, SameGoesOn DEF Detaches, Underway
    <2> QED  BY <2>1, <2>2 DEF d
  <1> QED  BY <1>1, <1>2

LEMMA FinishClosedGoesOn ==
  ASSUME NEW rt, NEW r \in Session(rt)
  PROVE  FinishClosed(r) \in Session(rt) /\ GoesOn(r, FinishClosed(r))
  <1> DEFINE d == FinishClosed(r)
  <1>1. CASE r.state = "closed"
    <2>1. d = r
      BY <1>1 DEF FinishClosed
    <2> QED  BY <2>1 DEF GoesOn
  <1>2. CASE r.state # "closed"
    <2>1. d \in Session(rt) /\ Closes(r, d)
      BY <1>2, FinishClosedFields
    <2> HIDE DEF d
    <2>2. GoesOn(r, d)
      BY <2>1, SameGoesOn DEF Closes, Underway
    <2> QED  BY <2>1, <2>2 DEF d
  <1> QED  BY <1>1, <1>2

LEMMA FailsGoesOn ==
  ASSUME NEW rt, NEW r \in Session(rt), NEW why \in Reasons
  PROVE  GoesOn(r, AttachFails(r, why)) /\ GoesOn(r, ReadLoopFails(r, why))
  <1> DEFINE c == Detach(r, why)
             d == AttachFails(r, why)
             e == ReadLoopFails(r, why)
  <1>1. c \in Session(rt) /\ GoesOn(r, c)
    BY DetachGoesOn
  <1>2. d = [c EXCEPT !.attach = "settled", !.outcome = "rejected"]
    BY DEF AttachFails
  <1>3. e = [c EXCEPT !.reader = "done"]
    BY DEF ReadLoopFails
  <1> HIDE DEF c, d, e
  <1>4. /\ d.offered = c.offered /\ d.agreed = c.agreed /\ d.jobs = c.jobs
        /\ d.writing = c.writing /\ d.reader = c.reader /\ d.state = c.state
    BY <1>1, <1>2 DEF Session
  <1>5. /\ e.offered = c.offered /\ e.agreed = c.agreed /\ e.jobs = c.jobs
        /\ e.writing = c.writing /\ e.reader = "done" /\ e.state = c.state
    BY <1>1, <1>3 DEF Session
  <1>6. GoesOn(c, d) /\ GoesOn(c, e)
    BY <1>4, <1>5, SameGoesOn DEF Underway
  <1>7. GoesOn(r, d) /\ GoesOn(r, e)
    BY <1>1, <1>6, GoesOnTwice
  <1> QED  BY <1>7 DEF d, e

LEMMA QueueWrites ==
  ASSUME NEW rt, NEW r \in Session(rt), NEW kind \in FrameKinds, NEW d, d = Queue(r, kind)
  PROVE  /\ d \in Session(rt) /\ Writes(d) = Writes(r) \cup {kind}
         /\ d.offered = r.offered /\ d.agreed = r.agreed
         /\ d.reader = r.reader /\ d.state = r.state
  <1>1. d = [r EXCEPT !.jobs = Append(r.jobs, kind)] /\ d \in Session(rt)
        /\ ToSet(Append(r.jobs, kind)) = ToSet(r.jobs) \cup {kind}
    BY QueueFields
  <1>2. /\ d.jobs = Append(r.jobs, kind) /\ d.writing = r.writing
        /\ d.offered = r.offered /\ d.agreed = r.agreed
        /\ d.reader = r.reader /\ d.state = r.state
    BY <1>1 DEF Session
  <1> QED  BY <1>1, <1>2 DEF Writes

LEMMA QueueGoesOn ==
  ASSUME NEW rt, NEW r \in Session(rt), NEW kind \in {"ERROR", "CLOSE", "PING", "PONG"}
  PROVE  GoesOn(r, Queue(r, kind)) /\ Queue(r, kind) \in Session(rt)
  <1> DEFINE d == Queue(r, kind)
  <1>1. kind \in FrameKinds
    BY DEF FrameKinds
  <1>2. /\ d \in Session(rt) /\ Writes(d) = Writes(r) \cup {kind}
        /\ d.offered = r.offered /\ d.agreed = r.agreed
        /\ d.reader = r.reader /\ d.state = r.state
    BY <1>1, QueueWrites
  <1> HIDE DEF d
  <1>3. GoesOn(r, d)
    BY <1>2 DEF GoesOn, Underway
  <1> QED  BY <1>2, <1>3 DEF d

LEMMA RefuseGoesOn ==
  ASSUME NEW rt, NEW r \in Session(rt), NEW why
  PROVE  GoesOn(r, Refuse(r, why))
  <1> DEFINE c == Queue(r, "ERROR")
             d == [c EXCEPT !.ready = Rejected(r), !.reader = "refusing",
                            !.reason = Because(r, why)]
  <1>1. GoesOn(r, c) /\ c \in Session(rt)
    BY QueueGoesOn
  <1>2. Refuse(r, why) = d
    BY DEF Refuse
  <1> HIDE DEF c
  <1>3. /\ d.offered = c.offered /\ d.agreed = c.agreed /\ d.jobs = c.jobs
        /\ d.writing = c.writing /\ d.reader = "refusing" /\ d.state = c.state
    BY <1>1 DEF Session
  <1> HIDE DEF d
  <1>4. GoesOn(c, d)
    BY <1>3, SameGoesOn DEF Underway
  <1> QED  BY <1>1, <1>2, <1>4, GoesOnTwice

LEMMA BecomeReadyGoesOn ==
  ASSUME NEW rt, NEW r \in Session(rt), Underway(r)
  PROVE  GoesOn(r, BecomeReady(r))
  <1> DEFINE d == BecomeReady(r)
  <1>1. /\ d.offered = r.offered /\ d.agreed = r.agreed /\ d.jobs = r.jobs
        /\ d.writing = r.writing
    BY DEF BecomeReady, Session
  <1> HIDE DEF d
  <1>2. GoesOn(r, d)
    BY <1>1, SameGoesOn
  <1> QED  BY <1>2 DEF d

\* attachExtensions goes on only with an agreement.
LEMMA NextExtensionGoesOn ==
  ASSUME NEW p \in Peers, NEW rt, NEW r \in Session(rt), Underway(r), NEW k
  PROVE  GoesOn(r, NextExtension(p, r, k))
  <1> DEFINE x == CHOOSE j \in {m \in (k + 1)..Len(Runtime_(p).extensions) :
                                  Runtime_(p).extensions[m] \in DOMAIN r.agreed} :
                    \A i \in {m \in (k + 1)..Len(Runtime_(p).extensions) :
                                  Runtime_(p).extensions[m] \in DOMAIN r.agreed} : j <= i
             c == [r EXCEPT !.reader = "extending", !.extension = x]
             w == Queue(r, "WELCOME")
             d == [w EXCEPT !.reader = "welcoming"]
  <1>1. NextExtension(p, r, k) \in {c, d, BecomeReady(r)}
    BY DEF NextExtension, Peers
  <1> HIDE DEF x
  <1>2. GoesOn(r, c)
    <2>1. /\ c.offered = r.offered /\ c.agreed = r.agreed /\ c.jobs = r.jobs
          /\ c.writing = r.writing
      BY DEF Session
    <2> HIDE DEF c
    <2> QED  BY <2>1, SameGoesOn
  <1>3. GoesOn(r, d)
    <2>1. /\ w \in Session(rt) /\ Writes(w) = Writes(r) \cup {"WELCOME"}
          /\ w.offered = r.offered /\ w.agreed = r.agreed
      BY QueueWrites DEF FrameKinds
    <2> HIDE DEF w
    <2>2. /\ d.offered = w.offered /\ d.agreed = w.agreed /\ d.jobs = w.jobs
          /\ d.writing = w.writing
      BY <2>1 DEF Session
    <2> HIDE DEF d
    <2>3. Writes(d) = Writes(w)
      BY <2>2 DEF Writes
    <2> QED  BY <2>1, <2>2, <2>3 DEF GoesOn
  <1>4. GoesOn(r, BecomeReady(r))
    BY BecomeReadyGoesOn
  <1> HIDE DEF c, d
  <1> QED  BY <1>1, <1>2, <1>3, <1>4

\* Whoever awaited a write of WELCOME was underway.
LEMMA ResumeGoesOn ==
  ASSUME NEW rt, NEW r \in Session(rt), NEW kind \in FrameKinds, NEW ok \in BOOLEAN,
         kind = "WELCOME" => Underway(r)
  PROVE  GoesOn(r, Resume(r, kind, ok))
  <1>1. \A why \in {"abort", "lost", "refused"} :
          GoesOn(r, AttachFails(r, why)) /\ GoesOn(r, ReadLoopFails(r, why))
    BY FailsGoesOn DEF Reasons
  <1>2. CASE kind = "HELLO"
    <2> DEFINE d == [r EXCEPT !.attach = "waiting"]
    <2>1. Resume(r, kind, ok) \in {d, AttachFails(r, "abort"), AttachFails(r, "lost")}
      BY <1>2 DEF Resume
    <2>2. /\ d.offered = r.offered /\ d.agreed = r.agreed /\ d.jobs = r.jobs
          /\ d.writing = r.writing /\ d.reader = r.reader /\ d.state = r.state
      BY DEF Session
    <2> HIDE DEF d
    <2>3. GoesOn(r, d)
      BY <2>2, SameGoesOn DEF Underway
    <2> QED  BY <1>1, <2>1, <2>3
  <1>3. CASE kind = "WELCOME"
    BY <1>3, BecomeReadyGoesOn, RefuseGoesOn DEF Resume
  <1>4. CASE kind = "ERROR"
    BY <1>1, <1>4 DEF Resume
  <1>5. CASE kind = "PONG"
    <2> DEFINE d == [r EXCEPT !.reader = "reading"]
    <2>1. Resume(r, kind, ok) \in {d, ReadLoopFails(r, "lost")}
      BY <1>5 DEF Resume
    <2>2. /\ d.offered = r.offered /\ d.agreed = r.agreed /\ d.jobs = r.jobs
          /\ d.writing = r.writing /\ d.reader = "reading" /\ d.state = r.state
      BY DEF Session
    <2> HIDE DEF d
    <2>3. GoesOn(r, d)
      BY <2>2, SameGoesOn DEF Underway
    <2> QED  BY <1>1, <2>1, <2>3
  <1>6. CASE kind = "PING"
    <2> DEFINE d == [r EXCEPT !.timer = IF r.state = "ready" THEN "armed" ELSE "off"]
    <2>1. Resume(r, kind, ok) = d
      BY <1>6 DEF Resume
    <2>2. /\ d.offered = r.offered /\ d.agreed = r.agreed /\ d.jobs = r.jobs
          /\ d.writing = r.writing /\ d.reader = r.reader /\ d.state = r.state
      BY DEF Session
    <2> HIDE DEF d
    <2>3. GoesOn(r, d)
      BY <2>2, SameGoesOn DEF Underway
    <2> QED  BY <2>1, <2>3
  <1>7. CASE kind = "CLOSE"
    BY <1>7, FinishClosedGoesOn DEF Resume
  <1> QED  BY <1>2, <1>3, <1>4, <1>5, <1>6, <1>7 DEF FrameKinds

-----------------------------------------------------------------------------
(* Two peers                                                               *)

\* The handshake goes on when both peers do.
LEMMA AgreeingOn ==
  ASSUME NEW i, NEW a, NEW channels, Agreeing(i, a), Announced(i, a, channels),
         NEW j, GoesOn(i, j), NEW b, GoesOn(a, b)
  PROVE  Agreeing(j, b) /\ Announced(j, b, channels)
  <1>1. CASE Made(i) /\ Made(a)
    <2>1. j.offered = i.offered /\ j.agreed = i.agreed
          /\ b.offered = a.offered /\ b.agreed = a.agreed
      BY <1>1 DEF GoesOn
    <2>2. Made(j) /\ Made(b) /\ HelloOf(j) = HelloOf(i) /\ WelcomeOf(b) = WelcomeOf(a)
      BY <1>1, <2>1 DEF Made, HelloOf, WelcomeOf
    <2>3. Settled(i, a) => Settled(j, b)
      BY <2>1, <2>2 DEF Settled
    <2>4. Confirmed(i, a) => Confirmed(j, b)
      BY <2>1, <2>3 DEF Confirmed
    <2>5. Agreeing(j, b)
      BY <2>2, <2>3, <2>4 DEF Agreeing, GoesOn
    <2>6. Announced(j, b, channels)
      BY <2>2, <2>3 DEF Announced
    <2> QED  BY <2>5, <2>6
  <1>2. CASE ~(Made(i) /\ Made(a))
    <2>1. ~Settled(i, a) /\ ~Confirmed(i, a)
      BY <1>2 DEF Settled, Confirmed
    <2>2. ~Underway(j) /\ ~Underway(b)
      BY <2>1 DEF Agreeing, GoesOn
    <2>3. "HELLO" \in Writes(j) => Made(j)
      <3>1. "HELLO" \in Writes(i) => Made(j)
        BY DEF Agreeing, GoesOn, Made
      <3> QED  BY <3>1 DEF GoesOn
    <2>4. Agreeing(j, b)
      BY <2>2, <2>3 DEF Agreeing
    <2>5. Made(i) => Made(j) /\ HelloOf(j) = HelloOf(i)
      BY DEF GoesOn, Made, HelloOf
    <2>6. Announced(j, b, channels)
      BY <2>1, <2>5 DEF Announced
    <2> QED  BY <2>4, <2>6
  <1> QED  BY <1>1, <1>2

LEMMA StayGoesOn == ASSUME NEW r PROVE GoesOn(r, r)
  BY DEF GoesOn

\* What a peer offers is what a runtime may offer.
LEMMA SessionOffers ==
  ASSUME NEW rt, NEW r \in Session(rt)
  PROVE  Offerable(r.offered)
  <1>1. r.offered \in Partial(Ids, SoundRanges)
    BY DEF Session
  <1>2. ASSUME NEW id \in DOMAIN r.offered
        PROVE  r.offered[id] \in Ranges /\ r.offered[id].min <= r.offered[id].max
    BY <1>1, <1>2, PartialFacts, SoundRangesFacts
  <1>3. r.offered = [id \in DOMAIN r.offered |-> r.offered[id]]
    BY <1>1, PartialFacts
  <1> QED  BY <1>2, <1>3 DEF Offerable

\* The acceptor negotiates with the initiator's offer.
LEMMA AcceptorAgrees ==
  ASSUME NEW i, NEW a, NEW channels, Agreeing(i, a), Announced(i, a, channels), Made(i),
         Base \in Runtime_("initiator").require,
         ~Mismatch(a.offered, HelloOf(i), Runtime_("acceptor").require),
         NEW c, c.offered = a.offered, c.agreed = Negotiated(a.offered, HelloOf(i))
  PROVE  Agreeing(i, c) /\ Announced(i, c, channels)
  <1>1. Made(c)
    <2>1. Base \in DOMAIN HelloOf(i) /\ HelloOf(i)[Base].required
      BY DEF Made, HelloOf, Offer
    <2> QED  BY <2>1 DEF Mismatch, Made
  <1>2. Settled(i, c)
    BY <1>1 DEF Settled
  <1>3. Settled(i, a) => c.agreed = a.agreed
    BY DEF Settled
  <1>4. Confirmed(i, a) => Confirmed(i, c)
    BY <1>2, <1>3 DEF Confirmed
  <1>5. Agreeing(i, c)
    BY <1>2, <1>4 DEF Agreeing
  <1>6. Announced(i, c, channels)
    BY <1>2, <1>3 DEF Announced, WelcomeOf
  <1> QED  BY <1>5, <1>6

\* The initiator negotiates with what the acceptor answered.
LEMMA InitiatorAgrees ==
  ASSUME NEW i, NEW a, NEW channels, Agreeing(i, a), Announced(i, a, channels),
         Settled(i, a), Offerable(i.offered), Offerable(a.offered),
         NEW c, c.offered = i.offered, c.agreed = Negotiated(i.offered, WelcomeOf(a)),
         Runtime_("initiator").require \subseteq DOMAIN c.agreed, Writes(c) = Writes(i)
  PROVE  Agreeing(c, a) /\ Announced(c, a, channels)
  <1>1. HelloOf(c) = HelloOf(i) /\ Made(c)
    BY DEF HelloOf, Made, Settled
  <1>2. Settled(c, a)
    BY <1>1 DEF Settled
  <1>3. c.agreed = a.agreed
    <2> DEFINE hello == HelloOf(i)
               welcome == WelcomeOf(a)
               agreed == a.agreed
    <2>1. /\ hello = Offer(i.offered, Runtime_("initiator").require)
          /\ agreed = Negotiated(a.offered, hello)
          /\ welcome = Offer(Exactly(agreed), Runtime_("acceptor").require)
      BY DEF HelloOf, WelcomeOf, Settled
    <2> HIDE DEF hello, welcome, agreed
    <2>2. Negotiated(i.offered, welcome) = agreed
      BY <2>1, SameAgreement
    <2> QED  BY <2>2 DEF welcome, agreed
  <1>4. Confirmed(c, a)
    BY <1>2, <1>3 DEF Confirmed
  <1>5. Agreeing(c, a)
    BY <1>1, <1>2, <1>4 DEF Agreeing
  <1>6. Announced(c, a, channels)
    BY <1>1, <1>2 DEF Announced
  <1> QED  BY <1>5, <1>6

\* handleHello and handleWelcome refuse or agree; then attachExtensions begins.
LEMMA NegotiateOutcome ==
  ASSUME config \in DOMAIN Configurations, NEW p \in Peers,
         NEW r \in Session(Runtime_(p)), NEW offer \in Partial(Ids, Terms),
         ~Mismatch(r.offered, offer, Runtime_(p).require) => Base \in DOMAIN r.offered
  PROVE  \/ GoesOn(r, Negotiate(p, r, offer))
         \/ /\ ~Mismatch(r.offered, offer, Runtime_(p).require)
            /\ \E c : /\ c.offered = r.offered /\ c.agreed = Negotiated(r.offered, offer)
                      /\ p = "initiator" => Runtime_(p).require \subseteq DOMAIN c.agreed
                      /\ Writes(c) = Writes(r)
                      /\ GoesOn(c, Negotiate(p, r, offer))
  <1> DEFINE rt == Runtime_(p)
             agreed == Negotiated(r.offered, offer)
             e == [r EXCEPT !.agreed = agreed]
             c == DropUnusedDatagramLane(e)
             names == e.held \cap {"datagramLane"}
             m == Close(e, names)
             n == [m EXCEPT !.held = @ \ {"datagramLane"}]
  <1>1. Negotiate(p, r, offer) \in {Refuse(r, "mismatch"), NextExtension(p, c, 0)}
    BY DEF Negotiate
  <1>2. GoesOn(r, Refuse(r, "mismatch"))
    BY RefuseGoesOn
  <1>3. ASSUME Negotiate(p, r, offer) # Refuse(r, "mismatch")
        PROVE  /\ ~Mismatch(r.offered, offer, rt.require)
               /\ p = "initiator" => rt.require \subseteq DOMAIN agreed
    BY <1>3 DEF Negotiate
  <1>4. agreed \in Partial(Ids, Nat)
    <2>1. r.offered \in Partial(Ids, SoundRanges)
      BY DEF Session
    <2> QED  BY <2>1, NegotiatedType
  <1> HIDE DEF agreed
  <1>5. e \in Session(rt) /\ e.agreed = agreed /\ e.offered = r.offered
        /\ e.jobs = r.jobs /\ e.writing = r.writing /\ e.held \subseteq Resources
    BY <1>4 DEF Session
  <1> HIDE DEF rt, e
  <1>6. /\ m \in Session(rt) /\ m.agreed = e.agreed /\ m.offered = e.offered
        /\ m.jobs = e.jobs /\ m.writing = e.writing
    <2>1. m \in Session(rt)
      BY <1>5, CloseType
    <2>2. /\ m.agreed = e.agreed /\ m.offered = e.offered
          /\ m.jobs = e.jobs /\ m.writing = e.writing
      BY <1>5 DEF Close, Session
    <2> QED  BY <2>1, <2>2
  <1> HIDE DEF m
  <1>7. /\ n \in Session(rt) /\ n.agreed = m.agreed /\ n.offered = m.offered
        /\ n.jobs = m.jobs /\ n.writing = m.writing
    BY <1>6 DEF Session
  <1>8. c \in {e, n}
    BY DEF DropUnusedDatagramLane, m
  <1> HIDE DEF n, c
  <1>9. /\ c \in Session(rt) /\ c.agreed = agreed /\ c.offered = r.offered
        /\ c.jobs = r.jobs /\ c.writing = r.writing
    BY <1>5, <1>6, <1>7, <1>8
  <1>10. Writes(c) = Writes(r)
    BY <1>9 DEF Writes
  <1>11. ASSUME ~Mismatch(r.offered, offer, rt.require)
         PROVE  Underway(c)
    <2>1. Base \in rt.require
      BY RuntimeFacts DEF Constructible, rt
    <2>2. Base \in DOMAIN r.offered
      BY <1>11 DEF rt
    <2>3. Base \in DOMAIN offer /\ Compatible(r.offered[Base], offer[Base])
      BY <1>11, <2>1, <2>2 DEF Mismatch
    <2>4. Base \in DOMAIN agreed
      BY <2>2, <2>3 DEF agreed, Negotiated
    <2> QED  BY <1>9, <2>4 DEF Underway
  <1>12. ASSUME Negotiate(p, r, offer) # Refuse(r, "mismatch")
         PROVE  GoesOn(c, Negotiate(p, r, offer))
    <2>1. Negotiate(p, r, offer) = NextExtension(p, c, 0)
      BY <1>1, <1>12
    <2>2. Underway(c)
      BY <1>3, <1>11, <1>12
    <2> QED  BY <1>9, <2>1, <2>2, NextExtensionGoesOn
  <1>13. CASE Negotiate(p, r, offer) = Refuse(r, "mismatch")
    BY <1>2, <1>13
  <1>14. CASE Negotiate(p, r, offer) # Refuse(r, "mismatch")
    BY <1>3, <1>9, <1>10, <1>12, <1>14 DEF rt, agreed
  <1> QED  BY <1>13, <1>14

-----------------------------------------------------------------------------
(* Steps                                                                   *)

Initiator(p, r) == IF p = "initiator" THEN r ELSE s["initiator"]
Acceptor(p, r) == IF p = "acceptor" THEN r ELSE s["acceptor"]

\* A step of p keeps the handshake if it does so before the lane may be cut.
LEMMA HandshakeBecomes ==
  ASSUME Handshake, TypeInv', config' = config, NEW p \in Peers, NEW r,
         NEW channels \in [Peers -> Seq(Frames)], Becomes(p, r, channels),
         Agreeing(Initiator(p, r), Acceptor(p, r)),
         Announced(Initiator(p, r), Acceptor(p, r), channels)
  PROVE  Handshake'
  <1>1. s = [q \in Peers |-> s[q]] /\ s' = [s EXCEPT ![p] = r]
    BY DEF Handshake, TypeInv, Becomes
  <1>2. s'["initiator"] = Initiator(p, r) /\ s'["acceptor"] = Acceptor(p, r)
    BY <1>1 DEF Peers, Initiator, Acceptor
  <1>3. \A q : Runtime_(q)' = Runtime_(q)
    BY DEF Runtime_
  <1>4. \A q \in Peers : ToSet(chan'[q]) \subseteq ToSet(channels[q])
    <2> TAKE q \in Peers
    <2>1. chan'[q] \in {channels[q], <<>>}
      BY DEF Becomes
    <2> QED  BY <2>1, EmptyFacts
  <1>5. Announced(s'["initiator"], s'["acceptor"], chan')
    BY <1>2, <1>4 DEF Announced, Peers
  <1>6. Agreeing(s'["initiator"], s'["acceptor"])
    BY <1>2
  <1>7. Agreeing(s["initiator"], s["acceptor"])'
    BY <1>3, <1>6 DEF Agreeing, Confirmed, Settled, HelloOf
  <1>8. Announced(s["initiator"], s["acceptor"], chan)'
    BY <1>3, <1>5 DEF Announced, Settled, HelloOf, WelcomeOf
  <1> QED  BY <1>7, <1>8 DEF Handshake

LEMMA GoesOnStep ==
  ASSUME Handshake, TypeInv', config' = config, NEW p \in Peers, NEW r,
         NEW channels \in [Peers -> Seq(Frames)], Becomes(p, r, channels),
         Announced(s["initiator"], s["acceptor"], channels), GoesOn(s[p], r)
  PROVE  Handshake'
  <1>1. GoesOn(s["initiator"], Initiator(p, r)) /\ GoesOn(s["acceptor"], Acceptor(p, r))
    BY StayGoesOn DEF Initiator, Acceptor
  <1>2. Agreeing(s["initiator"], s["acceptor"])
    BY DEF Handshake
  <1> DEFINE i == s["initiator"]
             a == s["acceptor"]
             j == Initiator(p, r)
             b == Acceptor(p, r)
  <1>3. GoesOn(i, j) /\ GoesOn(a, b) /\ Agreeing(i, a) /\ Announced(i, a, channels)
    BY <1>1, <1>2
  <1> HIDE DEF i, a, j, b
  <1>4. Agreeing(j, b) /\ Announced(j, b, channels)
    BY <1>3, AgreeingOn
  <1> QED  BY <1>4, HandshakeBecomes DEF j, b

\* What all step lemmas start from.
LEMMA HandshakeFacts ==
  ASSUME Handshake, NEW p \in Peers
  PROVE  /\ TypeInv /\ config \in DOMAIN Configurations
         /\ Orderly(Runtime_(p), s[p]) /\ s[p] \in Session(Runtime_(p)) /\ AttachInOrder(s[p])
         /\ chan \in [Peers -> Seq(Frames)]
         /\ Announced(s["initiator"], s["acceptor"], chan)
  BY PeerIsOrderly DEF Handshake

\* The offer of a peer that has made none before.
LEMMA MakeOfferGoesOn ==
  ASSUME config \in DOMAIN Configurations, NEW p \in Peers,
         NEW r \in Session(Runtime_(p)), DOMAIN r.offered = {}
  PROVE  GoesOn(r, MakeOffer(p, r))
  <1> DEFINE rt == Runtime_(p)
             offered == Offered(Runtime_(p), "datagramLane" \in r.held)
             made == [r EXCEPT !.offered = offered]
             w == Queue(made, "HELLO")
             hello == [w EXCEPT !.attach = "hello"]
             waiting == [made EXCEPT !.attach = "waiting"]
  <1>1. MakeOffer(p, r) \in
          {AttachFails(r, "mismatch"), hello, AttachFails(made, "abort"), waiting}
    BY DEF MakeOffer
  <1>2. offered \in Partial(Ids, SoundRanges) /\ Base \in DOMAIN offered
    BY OfferedType
  <1> HIDE DEF offered
  <1>3. /\ made \in Session(rt) /\ made.offered = offered /\ made.agreed = r.agreed
        /\ made.jobs = r.jobs /\ made.writing = r.writing
        /\ made.reader = r.reader /\ made.state = r.state
    BY <1>2 DEF Session
  <1> HIDE DEF rt, made
  <1>4. ~Made(r) /\ Made(made) /\ Writes(made) = Writes(r)
    BY <1>2, <1>3 DEF Made, Writes
  <1>5. GoesOn(r, made)
    BY <1>3, <1>4 DEF GoesOn, Underway
  <1>6. GoesOn(r, AttachFails(r, "mismatch"))
    BY FailsGoesOn DEF Reasons
  <1>7. GoesOn(r, AttachFails(made, "abort"))
    <2>1. GoesOn(made, AttachFails(made, "abort"))
      BY <1>3, FailsGoesOn DEF Reasons
    <2> QED  BY <1>5, <2>1, GoesOnTwice
  <1>8. GoesOn(r, waiting)
    <2>1. /\ waiting.offered = made.offered /\ waiting.agreed = made.agreed
          /\ waiting.jobs = made.jobs /\ waiting.writing = made.writing
          /\ waiting.reader = made.reader /\ waiting.state = made.state
      BY <1>3 DEF Session
    <2> HIDE DEF waiting
    <2>2. GoesOn(made, waiting)
      BY <2>1, SameGoesOn DEF Underway
    <2> QED  BY <1>5, <2>2, GoesOnTwice
  <1>9. GoesOn(r, hello)
    <2>1. /\ w \in Session(rt) /\ Writes(w) = Writes(made) \cup {"HELLO"}
          /\ w.offered = made.offered /\ w.agreed = made.agreed
          /\ w.reader = made.reader /\ w.state = made.state
      BY <1>3, QueueWrites DEF FrameKinds
    <2> HIDE DEF w
    <2>2. /\ hello.offered = w.offered /\ hello.agreed = w.agreed
          /\ hello.jobs = w.jobs /\ hello.writing = w.writing
          /\ hello.reader = w.reader /\ hello.state = w.state
      BY <2>1 DEF Session
    <2> HIDE DEF hello
    <2>3. Writes(hello) = Writes(w) /\ Made(hello)
      BY <1>4, <2>1, <2>2 DEF Writes, Made
    <2>4. GoesOn(made, hello)
      BY <2>1, <2>2, <2>3 DEF GoesOn, Underway
    <2> QED  BY <1>5, <2>4, GoesOnTwice
  <1> HIDE DEF hello, waiting
  <1> QED  BY <1>1, <1>6, <1>7, <1>8, <1>9

\* Opening, whatever becomes of it.
LEMMA OpeningHandshake ==
  ASSUME Handshake, TypeInv', NEW p \in Peers,
         \/ Attach(p) \/ Connected(p) \/ LaneOpened(p) \/ DatagramLaneOpened(p)
         \/ OpeningFails(p) \/ Abort(p) \/ LateOpening(p)
  PROVE  Handshake'
  <1> DEFINE rt == Runtime_(p)
             r == s[p]
  <1>1. /\ r \in Session(rt) /\ AttachInOrder(r) /\ chan \in [Peers -> Seq(Frames)]
        /\ config \in DOMAIN Configurations
        /\ Announced(s["initiator"], s["acceptor"], chan)
    BY HandshakeFacts
  <1>2. config' = config
    BY DEF Attach, Connected, LaneOpened, DatagramLaneOpened, OpeningFails, Abort, LateOpening,
           Calm, Event
  <1>3. ASSUME NEW d, Becomes(p, d, chan), GoesOn(r, d)
        PROVE  Handshake'
    BY <1>1, <1>2, <1>3, GoesOnStep
  \* Opening a lane changes none of what matters.
  <1>4. ASSUME NEW d, d \in Session(rt), d.offered = r.offered, d.agreed = r.agreed,
               d.jobs = r.jobs, d.writing = r.writing,
               d.reader \in {r.reader, "reading"}, d.state \in {r.state, "connecting"}
        PROVE  /\ GoesOn(r, d)
               /\ GoesOn(r, AttachFails(d, "abort")) /\ GoesOn(r, AttachFails(d, "lost"))
               /\ DOMAIN r.offered = {} => GoesOn(r, MakeOffer(p, d))
    <2>1. GoesOn(r, d)
      BY <1>4, SameGoesOn DEF Underway
    <2>2. GoesOn(d, AttachFails(d, "abort")) /\ GoesOn(d, AttachFails(d, "lost"))
      BY <1>4, FailsGoesOn DEF Reasons
    <2>3. DOMAIN r.offered = {} => GoesOn(d, MakeOffer(p, d))
      BY <1>1, <1>4, MakeOfferGoesOn
    <2> QED  BY <2>1, <2>2, <2>3, GoesOnTwice
  <1>5. r.attach \in Unoffered => DOMAIN r.offered = {}
    BY <1>1 DEF AttachInOrder
  <1>6. CASE Attach(p)
    <2> DEFINE d == [r EXCEPT !.state = "connecting", !.attach = "connecting",
                              !.physical["connection"] = "opening"]
    <2>1. Becomes(p, d, chan)
      BY <1>6 DEF Attach
    <2> HIDE DEF r, rt
    <2>2. /\ d \in Session(rt) /\ d.offered = r.offered /\ d.agreed = r.agreed
          /\ d.jobs = r.jobs /\ d.writing = r.writing /\ d.reader = r.reader
          /\ d.state = "connecting"
      BY <1>1 DEF Session, Activities, Attachment, Openness
    <2> HIDE DEF d
    <2> QED  BY <1>3, <1>4, <2>1, <2>2
  <1>7. CASE Connected(p)
    <2> DEFINE d == [r EXCEPT !.attach = "laneOpening", !.held = {"connection"},
                              !.physical = [@ EXCEPT !["connection"] = "open",
                                                     !["lane"] = "opening"]]
    <2>1. Becomes(p, d, chan)
      BY <1>7 DEF Connected
    <2> HIDE DEF r, rt
    <2>2. /\ d \in Session(rt) /\ d.offered = r.offered /\ d.agreed = r.agreed
          /\ d.jobs = r.jobs /\ d.writing = r.writing /\ d.reader = r.reader
          /\ d.state = r.state
      BY <1>1 DEF Session, Attachment, Openness, Resources
    <2> HIDE DEF d
    <2> QED  BY <1>3, <1>4, <2>1, <2>2
  <1>8. CASE LaneOpened(p)
    <2> DEFINE d == [r EXCEPT !.held = @ \cup {"lane"}, !.physical["lane"] = "open",
                              !.reader = "reading"]
               e == [d EXCEPT !.attach = "datagramOpening", !.physical["datagramLane"] = "opening"]
    <2>1. /\ r.attach = "laneOpening"
          /\ Becomes(p, e, chan) \/ Becomes(p, MakeOffer(p, d), chan)
      BY <1>8 DEF LaneOpened
    <2> HIDE DEF r, rt
    <2>2. /\ d \in Session(rt) /\ d.offered = r.offered /\ d.agreed = r.agreed
          /\ d.jobs = r.jobs /\ d.writing = r.writing /\ d.reader = "reading"
          /\ d.state = r.state
      BY <1>1 DEF Session, Readers, Openness, Resources
    <2>3. /\ e \in Session(rt) /\ e.offered = r.offered /\ e.agreed = r.agreed
          /\ e.jobs = r.jobs /\ e.writing = r.writing /\ e.reader = "reading"
          /\ e.state = r.state
      BY <1>1 DEF Session, Readers, Openness, Resources, Attachment
    <2> HIDE DEF d, e
    <2>4. GoesOn(r, e) /\ GoesOn(r, MakeOffer(p, d))
      BY <1>4, <1>5, <2>1, <2>2, <2>3 DEF Unoffered
    <2> QED  BY <1>3, <2>1, <2>4
  <1>9. CASE DatagramLaneOpened(p)
    <2> DEFINE d == [r EXCEPT !.held = @ \cup {"datagramLane"}, !.physical["datagramLane"] = "open"]
    <2>1. r.attach = "datagramOpening" /\ Becomes(p, MakeOffer(p, d), chan)
      BY <1>9 DEF DatagramLaneOpened
    <2> HIDE DEF r, rt
    <2>2. /\ d \in Session(rt) /\ d.offered = r.offered /\ d.agreed = r.agreed
          /\ d.jobs = r.jobs /\ d.writing = r.writing /\ d.reader = r.reader
          /\ d.state = r.state
      BY <1>1 DEF Session, Openness, Resources
    <2> HIDE DEF d
    <2>3. GoesOn(r, MakeOffer(p, d))
      BY <1>4, <1>5, <2>1, <2>2 DEF Unoffered
    <2> QED  BY <1>3, <2>1, <2>3
  <1>10. CASE OpeningFails(p)
    <2> DEFINE c == [r EXCEPT !.physical =
                       [x \in Resources |-> IF @[x] = "opening" THEN "none" ELSE @[x]]]
               d == [r EXCEPT !.physical["datagramLane"] = "none"]
    <2>1. \/ Becomes(p, AttachFails(c, "lost"), chan)
          \/ r.attach = "datagramOpening" /\ Becomes(p, MakeOffer(p, d), chan)
      BY <1>10 DEF OpeningFails
    <2> HIDE DEF r, rt
    <2>2. /\ c \in Session(rt) /\ c.offered = r.offered /\ c.agreed = r.agreed
          /\ c.jobs = r.jobs /\ c.writing = r.writing /\ c.reader = r.reader
          /\ c.state = r.state
      BY <1>1 DEF Session, Openness, Resources
    <2>3. /\ d \in Session(rt) /\ d.offered = r.offered /\ d.agreed = r.agreed
          /\ d.jobs = r.jobs /\ d.writing = r.writing /\ d.reader = r.reader
          /\ d.state = r.state
      BY <1>1 DEF Session, Openness, Resources
    <2> HIDE DEF c, d
    <2>4. GoesOn(r, AttachFails(c, "lost"))
      BY <1>4, <2>2
    <2>5. r.attach = "datagramOpening" => GoesOn(r, MakeOffer(p, d))
      BY <1>4, <1>5, <2>3 DEF Unoffered
    <2> QED  BY <1>3, <2>1, <2>4, <2>5
  <1>11. CASE Abort(p)
    <2> DEFINE d == [r EXCEPT !.aborted = TRUE]
    <2>1. Becomes(p, CASE d.attach \in {"connecting", "laneOpening", "waiting"} ->
                            AttachFails(d, "abort")
                       [] d.attach = "datagramOpening" -> MakeOffer(p, d)
                       [] OTHER -> d, chan)
      BY <1>11 DEF Abort
    <2> HIDE DEF r, rt
    <2>2. /\ d \in Session(rt) /\ d.offered = r.offered /\ d.agreed = r.agreed
          /\ d.jobs = r.jobs /\ d.writing = r.writing /\ d.reader = r.reader
          /\ d.state = r.state /\ d.attach = r.attach
      BY <1>1 DEF Session
    <2> HIDE DEF d
    <2>3. GoesOn(r, d) /\ GoesOn(r, AttachFails(d, "abort"))
      BY <1>4, <2>2
    <2>4. d.attach = "datagramOpening" => GoesOn(r, MakeOffer(p, d))
      BY <1>4, <1>5, <2>2 DEF Unoffered
    <2>5. \/ Becomes(p, AttachFails(d, "abort"), chan)
          \/ d.attach = "datagramOpening" /\ Becomes(p, MakeOffer(p, d), chan)
          \/ Becomes(p, d, chan)
      BY <2>1
    <2> QED  BY <1>3, <2>3, <2>4, <2>5
  <1>12. CASE LateOpening(p)
    <2>1. PICK x \in Resources :
            Becomes(p, IF r.aborted THEN Close(r, {x}) ELSE [r EXCEPT !.physical[x] = "open"], chan)
      BY <1>12 DEF LateOpening
    <2> DEFINE c == Close(r, {x})
               d == [r EXCEPT !.physical[x] = "open"]
    <2>2. Becomes(p, c, chan) \/ Becomes(p, d, chan)
      BY <2>1
    <2> HIDE DEF r, rt
    <2>3. /\ c \in Session(rt) /\ c.offered = r.offered /\ c.agreed = r.agreed
          /\ c.jobs = r.jobs /\ c.writing = r.writing /\ c.reader = r.reader
          /\ c.state = r.state
      BY <1>1 DEF Close, Session, Openness
    <2>4. /\ d \in Session(rt) /\ d.offered = r.offered /\ d.agreed = r.agreed
          /\ d.jobs = r.jobs /\ d.writing = r.writing /\ d.reader = r.reader
          /\ d.state = r.state
      BY <1>1 DEF Session, Openness
    <2> HIDE DEF c, d
    <2>5. GoesOn(r, c) /\ GoesOn(r, d)
      BY <1>4, <2>3, <2>4
    <2> QED  BY <1>3, <2>2, <2>5
  <1> QED  BY <1>6, <1>7, <1>8, <1>9, <1>10, <1>11, <1>12

\* Promises, timers, disposers, ends, and extensions that come after an agreement.
LEMMA PassingHandshake ==
  ASSUME Handshake, TypeInv', NEW p \in Peers,
         \/ Settle(p) \/ HandshakeTimeout(p) \/ ReadEnd(p) \/ ExtensionFails(p) \/ Probe(p)
         \/ Expire(p) \/ CloseSession(p) \/ RunDisposer(p) \/ Release(p)
  PROVE  Handshake'
  <1> DEFINE rt == Runtime_(p)
             r == s[p]
             ping == Queue(r, "PING")
             settled == [r EXCEPT !.attach = "settled", !.outcome = "resolved"]
             probing == [ping EXCEPT !.timer = "probing", !.quiet = TRUE]
             ran == [r EXCEPT !.disposing = Tail(@), !.disposed = Append(@, Head(r.disposing))]
             closed == Close(r, r.releasing)
             released == [closed EXCEPT !.releasing = {}]
  <1>1. /\ r \in Session(rt) /\ chan \in [Peers -> Seq(Frames)]
        /\ Announced(s["initiator"], s["acceptor"], chan)
    BY HandshakeFacts
  <1>2. config' = config
    BY DEF Settle, HandshakeTimeout, ReadEnd, ExtensionFails, Probe, Expire, CloseSession,
           RunDisposer, Release, Calm, Event
  <1>3. ASSUME NEW d, Becomes(p, d, chan), GoesOn(r, d)
        PROVE  Handshake'
    BY <1>1, <1>2, <1>3, GoesOnStep
  <1>4. \/ \E why \in Reasons : \/ Becomes(p, AttachFails(r, why), chan)
                               \/ Becomes(p, ReadLoopFails(r, why), chan)
                               \/ Becomes(p, Detach(r, why), chan)
        \/ Becomes(p, Refuse(r, "extension"), chan)
        \/ Becomes(p, Queue(r, "CLOSE"), chan)
        \/ Becomes(p, FinishClosed(r), chan)
        \/ Becomes(p, settled, chan) \/ Becomes(p, probing, chan)
        \/ Becomes(p, ran, chan) \/ Becomes(p, released, chan)
    BY DEF Settle, HandshakeTimeout, ReadEnd, ExtensionFails, Probe, Expire, CloseSession,
           RunDisposer, Release, Reasons
  <1> HIDE DEF r, rt
  <1>5. \A why \in Reasons : /\ GoesOn(r, AttachFails(r, why))
                            /\ GoesOn(r, ReadLoopFails(r, why)) /\ GoesOn(r, Detach(r, why))
    BY <1>1, FailsGoesOn, DetachGoesOn
  <1>6. GoesOn(r, Refuse(r, "extension")) /\ GoesOn(r, Queue(r, "CLOSE"))
    BY <1>1, RefuseGoesOn, QueueGoesOn
  <1>7. GoesOn(r, FinishClosed(r))
    BY <1>1, FinishClosedGoesOn
  <1>8. ASSUME NEW d, d.offered = r.offered, d.agreed = r.agreed, d.jobs = r.jobs,
               d.writing = r.writing, d.reader = r.reader, d.state = r.state
        PROVE  GoesOn(r, d)
    BY <1>8, SameGoesOn DEF Underway
  <1>9. GoesOn(r, settled)
    <2>1. /\ settled.offered = r.offered /\ settled.agreed = r.agreed
          /\ settled.jobs = r.jobs /\ settled.writing = r.writing
          /\ settled.reader = r.reader /\ settled.state = r.state
      BY <1>1 DEF Session
    <2> HIDE DEF settled
    <2> QED  BY <1>8, <2>1
  <1>10. GoesOn(r, ran)
    <2>1. /\ ran.offered = r.offered /\ ran.agreed = r.agreed
          /\ ran.jobs = r.jobs /\ ran.writing = r.writing
          /\ ran.reader = r.reader /\ ran.state = r.state
      BY <1>1 DEF Session
    <2> HIDE DEF ran
    <2> QED  BY <1>8, <2>1
  <1>11. GoesOn(r, released)
    <2>1. closed \in Session(rt)
      <3>1. r.releasing \subseteq Resources
        BY <1>1 DEF Session
      <3> QED  BY <1>1, <3>1, CloseType
    <2>2. /\ closed.offered = r.offered /\ closed.agreed = r.agreed
          /\ closed.jobs = r.jobs /\ closed.writing = r.writing
          /\ closed.reader = r.reader /\ closed.state = r.state
      BY <1>1 DEF Close, Session
    <2> HIDE DEF closed
    <2>3. /\ released.offered = closed.offered /\ released.agreed = closed.agreed
          /\ released.jobs = closed.jobs /\ released.writing = closed.writing
          /\ released.reader = closed.reader /\ released.state = closed.state
      BY <2>1 DEF Session
    <2> HIDE DEF released
    <2> QED  BY <1>8, <2>2, <2>3
  <1>12. GoesOn(r, probing)
    <2>1. GoesOn(r, ping) /\ ping \in Session(rt)
      BY <1>1, QueueGoesOn
    <2> HIDE DEF ping
    <2>2. /\ probing.offered = ping.offered /\ probing.agreed = ping.agreed
          /\ probing.jobs = ping.jobs /\ probing.writing = ping.writing
          /\ probing.reader = ping.reader /\ probing.state = ping.state
      BY <2>1 DEF Session
    <2> HIDE DEF probing
    <2>3. GoesOn(ping, probing)
      BY <2>2, SameGoesOn DEF Underway
    <2> QED  BY <2>1, <2>3, GoesOnTwice
  <1> HIDE DEF settled, probing, ran, released
  <1> QED  BY <1>3, <1>4, <1>5, <1>6, <1>7, <1>9, <1>10, <1>11, <1>12

\* The queue loses its head: what is written was to be written.
LEMMA QueueMovesOn ==
  ASSUME NEW rt, NEW r \in Session(rt), NEW jobs \in Seq(FrameKinds),
         NEW writing \in {None} \cup FrameKinds, Writes(r) \subseteq FrameKinds \cup {None},
         ToSet(jobs) \cup {writing} \subseteq Writes(r) \cup {None},
         NEW d, d = [r EXCEPT !.jobs = jobs, !.writing = writing]
  PROVE  d \in Session(rt) /\ GoesOn(r, d)
  <1>1. /\ d \in Session(rt) /\ d.jobs = jobs /\ d.writing = writing
        /\ d.offered = r.offered /\ d.agreed = r.agreed
        /\ d.reader = r.reader /\ d.state = r.state
    BY DEF Session
  <1>2. Writes(d) \subseteq Writes(r) \cup {None}
    BY <1>1 DEF Writes
  <1>3. "HELLO" # None /\ "WELCOME" # None
    BY DEF None
  <1> QED  BY <1>1, <1>2, <1>3 DEF GoesOn, Underway

LEMMA WritesType ==
  ASSUME NEW rt, NEW r \in Session(rt)
  PROVE  Writes(r) \subseteq FrameKinds \cup {None}
  <1>1. r.jobs \in Seq(FrameKinds) /\ r.writing \in {None} \cup FrameKinds
    BY DEF Session
  <1> QED  BY <1>1, SetOfSeq DEF Writes

\* What is handed to the carrier announces the handshake as it is.
LEMMA SentIsAnnounced ==
  ASSUME Handshake, NEW p \in Peers, NEW kind \in Writes(s[p]), kind \in FrameKinds
  PROVE  LET sent == [chan EXCEPT ![Other(p)] = Append(chan[Other(p)], Frame(p, kind))]
         IN /\ sent \in [Peers -> Seq(Frames)]
            /\ Announced(s["initiator"], s["acceptor"], sent)
  <1> DEFINE q == Other(p)
             f == Frame(p, kind)
             more == Append(chan[q], f)
             sent == [chan EXCEPT ![q] = more]
             i == s["initiator"]
             a == s["acceptor"]
  <1>1. /\ TypeInv /\ chan \in [Peers -> Seq(Frames)]
        /\ Announced(i, a, chan) /\ Agreeing(i, a)
    BY HandshakeFacts DEF Handshake
  <1>2. f \in Frames
    BY <1>1, FrameType
  <1>3. p = "initiator" /\ kind = "HELLO" => Made(i) /\ f.offer = HelloOf(i)
    BY <1>1 DEF Frame, HelloOf, Agreeing
  <1>4. p = "acceptor" /\ kind = "WELCOME" => Settled(i, a) /\ f.offer = WelcomeOf(a)
    BY <1>1 DEF Frame, WelcomeOf, Agreeing, Underway
  <1>5. f.kind = kind
    BY DEF Frame
  <1>6. q \in Peers /\ (p = "initiator" => q = "acceptor") /\ (p = "acceptor" => q = "initiator")
    BY DEF Other, Peers
  <1> HIDE DEF f, q
  <1>7. more \in Seq(Frames) /\ ToSet(more) = ToSet(chan[q]) \cup {f}
    BY <1>1, <1>2, <1>6, SetOfAppend
  <1> HIDE DEF more
  <1>8. /\ sent \in [Peers -> Seq(Frames)]
        /\ \A o \in Peers : sent[o] = IF o = q THEN more ELSE chan[o]
    BY <1>1, <1>7
  <1> HIDE DEF sent, i, a
  <1>9. Announced(i, a, sent)
    <2>1. CASE p = "initiator"
      BY <1>1, <1>3, <1>5, <1>6, <1>7, <1>8, <2>1 DEF Announced, Peers
    <2>2. CASE p = "acceptor"
      BY <1>1, <1>4, <1>5, <1>6, <1>7, <1>8, <2>2 DEF Announced, Peers
    <2> QED  BY <2>1, <2>2 DEF Peers
  <1> QED  BY <1>8, <1>9 DEF sent, more, f, q, i, a

LEMMA WritingHandshake ==
  ASSUME Handshake, TypeInv', NEW p \in Peers, BeginWrite(p) \/ EndWrite(p)
  PROVE  Handshake'
  <1> DEFINE rt == Runtime_(p)
             r == s[p]
  <1>1. /\ r \in Session(rt) /\ chan \in [Peers -> Seq(Frames)]
        /\ Announced(s["initiator"], s["acceptor"], chan)
    BY HandshakeFacts
  <1>2. config' = config
    BY DEF BeginWrite, EndWrite, Calm
  <1>3. Writes(r) \subseteq FrameKinds \cup {None} /\ r.jobs \in Seq(FrameKinds)
        /\ r.writing \in {None} \cup FrameKinds
    BY <1>1, WritesType DEF Session
  <1>4. "WELCOME" \in Writes(r) => Underway(r)
    BY DEF Underway
  <1>5. CASE BeginWrite(p)
    <2> DEFINE kind == Head(r.jobs)
               d == [r EXCEPT !.jobs = Tail(r.jobs)]
               m == [r EXCEPT !.jobs = Tail(r.jobs), !.writing = r.writing]
               e == [r EXCEPT !.jobs = Tail(r.jobs), !.writing = kind]
               sent == [chan EXCEPT ![Other(p)] = Append(chan[Other(p)], Frame(p, kind))]
    <2>1. /\ r.jobs # <<>>
          /\ \/ Becomes(p, Resume(d, kind, FALSE), chan)
             \/ Becomes(p, e, chan)
             \/ Becomes(p, e, sent)
      <3>1. [d EXCEPT !.writing = kind] = e
        BY <1>1 DEF Session
      <3>2. sent = [chan EXCEPT ![Other(p)] = Append(@, Frame(p, kind))]
        BY <1>1
      <3>3. /\ r.jobs # <<>>
            /\ \/ Becomes(p, Resume(d, kind, FALSE), chan)
               \/ Becomes(p, [d EXCEPT !.writing = kind], chan)
               \/ Becomes(p, [d EXCEPT !.writing = kind],
                             [chan EXCEPT ![Other(p)] = Append(@, Frame(p, kind))])
        BY <1>5 DEF BeginWrite
      <3> HIDE DEF sent, e, d, kind, r
      <3> QED  BY <3>1, <3>2, <3>3
    <2>2. /\ kind \in FrameKinds /\ Tail(r.jobs) \in Seq(FrameKinds)
          /\ ToSet(r.jobs) = ToSet(Tail(r.jobs)) \cup {kind}
      BY <1>3, <2>1, SetOfHeadTail
    <2>3. kind \in Writes(r)
      BY <2>2 DEF Writes
    <2>4. sent \in [Peers -> Seq(Frames)] /\ Announced(s["initiator"], s["acceptor"], sent)
      BY <2>2, <2>3, SentIsAnnounced
    <2> HIDE DEF kind, sent
    <2>5. GoesOn(r, e)
      <3>1. ToSet(Tail(r.jobs)) \cup {kind} \subseteq Writes(r) \cup {None}
        BY <2>2 DEF Writes
      <3> HIDE DEF r, rt
      <3> QED  BY <1>1, <1>3, <2>2, <3>1, QueueMovesOn
    <2>6. d \in Session(rt) /\ GoesOn(r, d)
      <3>1. ToSet(Tail(r.jobs)) \cup {r.writing} \subseteq Writes(r) \cup {None}
        BY <2>2 DEF Writes
      <3>2. d = m
        BY <1>1 DEF Session
      <3>3. m \in Session(rt) /\ GoesOn(r, m)
        <4> HIDE DEF r, rt
        <4> QED  BY <1>1, <1>3, <2>2, <3>1, QueueMovesOn
      <3> HIDE DEF d, m
      <3> QED  BY <3>2, <3>3
    <2>7. GoesOn(r, Resume(d, kind, FALSE))
      <3>1. CASE kind = "WELCOME"
        <4>1. Resume(d, kind, FALSE) = Refuse(d, "lost")
          BY <3>1 DEF Resume
        <4> HIDE DEF d, r, rt
        <4>2. GoesOn(d, Refuse(d, "lost"))
          BY <2>6, RefuseGoesOn
        <4> QED  BY <2>6, <4>1, <4>2, GoesOnTwice
      <3>2. CASE kind # "WELCOME"
        <4> HIDE DEF d, r, rt
        <4>1. GoesOn(d, Resume(d, kind, FALSE))
          BY <2>2, <2>6, <3>2, ResumeGoesOn
        <4> QED  BY <2>6, <4>1, GoesOnTwice
      <3> QED  BY <3>1, <3>2
    <2> HIDE DEF d, e
    <2> QED  BY <1>1, <1>2, <2>1, <2>4, <2>5, <2>7, GoesOnStep
  <1>6. CASE EndWrite(p)
    <2> DEFINE kind == r.writing
               d == [r EXCEPT !.writing = None]
               m == [r EXCEPT !.jobs = r.jobs, !.writing = None]
               e == Detach(d, "lost")
    <2>1. /\ kind # None
          /\ \/ Becomes(p, Resume(d, kind, TRUE), chan)
             \/ Becomes(p, Resume(e, kind, FALSE), chan)
      BY <1>6 DEF EndWrite
    <2>2. d \in Session(rt) /\ GoesOn(r, d) /\ d.agreed = r.agreed
      <3>1. ToSet(r.jobs) \cup {None} \subseteq Writes(r) \cup {None}
        BY DEF Writes
      <3>2. d = m
        BY <1>1 DEF Session
      <3>3. m \in Session(rt) /\ GoesOn(r, m) /\ m.agreed = r.agreed
        <4> HIDE DEF r, rt
        <4>1. m \in Session(rt) /\ GoesOn(r, m)
          BY <1>1, <1>3, <3>1, QueueMovesOn
        <4> QED  BY <4>1 DEF GoesOn
      <3> HIDE DEF d, m
      <3> QED  BY <3>2, <3>3
    <2>3. kind \in FrameKinds /\ kind \in Writes(r)
      BY <1>3, <2>1 DEF Writes
    <2> HIDE DEF d
    <2>4. e \in Session(rt) /\ GoesOn(d, e)
      BY <2>2, DetachGoesOn DEF Reasons
    <2> HIDE DEF e
    <2>5. GoesOn(r, Resume(d, kind, TRUE)) /\ GoesOn(r, Resume(e, kind, FALSE))
      <3>1. CASE kind # "WELCOME"
        <4> HIDE DEF r, rt, kind
        <4>1. GoesOn(d, Resume(d, kind, TRUE)) /\ GoesOn(e, Resume(e, kind, FALSE))
          BY <2>2, <2>3, <2>4, <3>1, ResumeGoesOn
        <4> QED  BY <2>2, <2>4, <4>1, GoesOnTwice
      <3>2. CASE kind = "WELCOME"
        <4>1. Underway(r)
          BY <1>4, <2>3, <3>2
        <4> HIDE DEF r, rt
        <4>2. GoesOn(r, BecomeReady(d))
          <5> DEFINE b == BecomeReady(d)
          <5>1. /\ b.offered = d.offered /\ b.agreed = d.agreed /\ b.jobs = d.jobs
                /\ b.writing = d.writing
            BY <2>2 DEF BecomeReady, Session
          <5> HIDE DEF b
          <5>2. Writes(b) = Writes(d)
            BY <5>1 DEF Writes
          <5>3. GoesOn(r, b)
            BY <2>2, <4>1, <5>1, <5>2 DEF GoesOn, Made
          <5> QED  BY <5>3 DEF b
        <4>3. GoesOn(e, Refuse(e, "lost"))
          BY <2>4, RefuseGoesOn
        <4>4. Resume(d, kind, TRUE) = BecomeReady(d) /\ Resume(e, kind, FALSE) = Refuse(e, "lost")
          BY <3>2 DEF Resume
        <4> QED  BY <2>2, <2>4, <4>2, <4>3, <4>4, GoesOnTwice
      <3> QED  BY <3>1, <3>2
    <2> QED  BY <1>1, <1>2, <2>1, <2>5, GoesOnStep
  <1> QED  BY <1>5, <1>6

\* A frame that is neither HELLO nor WELCOME, or comes to the wrong peer.
LEMMA HandleGoesOn ==
  ASSUME NEW p \in Peers, NEW rt, NEW r \in Session(rt), NEW f \in Frames
  PROVE  \/ GoesOn(r, Handle(p, r, f))
         \/ /\ Handle(p, r, f) = Negotiate(p, r, f.offer)
            /\ \/ p = "acceptor" /\ f.kind = "HELLO"
               \/ p = "initiator" /\ f.kind = "WELCOME"
  <1> DEFINE w == Queue(r, "PONG")
             replying == [w EXCEPT !.reader = "replying"]
             d == Handle(p, r, f)
  <1>1. f.kind \in FrameKinds
    BY DEF Frames
  <1>2. \/ d \in {ReadLoopFails(r, "violation"), ReadLoopFails(r, "remote"), r, replying,
                  FinishClosed(r)}
        \/ /\ d = Negotiate(p, r, f.offer)
           /\ \/ p = "acceptor" /\ f.kind = "HELLO"
              \/ p = "initiator" /\ f.kind = "WELCOME"
    BY <1>1 DEF Handle, FrameKinds
  <1>3. GoesOn(r, ReadLoopFails(r, "violation")) /\ GoesOn(r, ReadLoopFails(r, "remote"))
    BY FailsGoesOn DEF Reasons
  <1>4. GoesOn(r, FinishClosed(r)) /\ GoesOn(r, r)
    BY FinishClosedGoesOn, StayGoesOn
  <1>5. GoesOn(r, replying)
    <2>1. GoesOn(r, w) /\ w \in Session(rt)
      BY QueueGoesOn
    <2> HIDE DEF w
    <2>2. /\ replying.offered = w.offered /\ replying.agreed = w.agreed
          /\ replying.jobs = w.jobs /\ replying.writing = w.writing
          /\ replying.reader = "replying" /\ replying.state = w.state
      BY <2>1 DEF Session
    <2> HIDE DEF replying
    <2>3. GoesOn(w, replying)
      BY <2>2, SameGoesOn DEF Underway
    <2> QED  BY <2>1, <2>3, GoesOnTwice
  <1> HIDE DEF d, replying
  <1>6. GoesOn(r, d) \/ /\ d = Negotiate(p, r, f.offer)
                        /\ \/ p = "acceptor" /\ f.kind = "HELLO"
                           \/ p = "initiator" /\ f.kind = "WELCOME"
    BY <1>2, <1>3, <1>4, <1>5
  <1> QED  BY <1>6 DEF d

LEMMA ReadHandshake ==
  ASSUME Handshake, TypeInv', NEW p \in Peers, Read(p)
  PROVE  Handshake'
  <1> DEFINE rt == Runtime_(p)
             o == s[p]
             r == [o EXCEPT !.quiet = FALSE]
             f == Head(chan[p])
             rest == [chan EXCEPT ![p] = Tail(chan[p])]
             d == Handle(p, r, f)
             i == s["initiator"]
             a == s["acceptor"]
  <1>1. /\ o \in Session(rt) /\ chan \in [Peers -> Seq(Frames)] /\ Announced(i, a, chan)
        /\ config \in DOMAIN Configurations /\ Agreeing(i, a)
    BY HandshakeFacts DEF Handshake
  <1>2. config' = config /\ chan[p] # <<>> /\ Becomes(p, d, rest)
    <2>1. rest = [chan EXCEPT ![p] = Tail(@)]
      BY <1>1
    <2>2. /\ config' = config /\ chan[p] # <<>>
          /\ Becomes(p, d, [chan EXCEPT ![p] = Tail(@)])
      BY DEF Read, Calm
    <2> HIDE DEF rest, d
    <2> QED  BY <2>1, <2>2
  <1>3. /\ f \in Frames /\ Tail(chan[p]) \in Seq(Frames)
        /\ ToSet(chan[p]) = ToSet(Tail(chan[p])) \cup {f}
    BY <1>1, <1>2, SetOfHeadTail
  <1>4. rest \in [Peers -> Seq(Frames)]
        /\ \A q \in Peers : ToSet(rest[q]) \subseteq ToSet(chan[q])
    <2>1. /\ rest \in [Peers -> Seq(Frames)]
          /\ \A q \in Peers : rest[q] = IF q = p THEN Tail(chan[p]) ELSE chan[q]
      BY <1>1, <1>3
    <2> QED  BY <1>3, <2>1
  <1>5. r \in Session(rt) /\ r.offered = o.offered /\ r.agreed = o.agreed /\ Writes(r) = Writes(o)
    <2>1. /\ r \in Session(rt) /\ r.offered = o.offered /\ r.agreed = o.agreed
          /\ r.jobs = o.jobs /\ r.writing = o.writing
      BY <1>1 DEF Session
    <2> QED  BY <2>1 DEF Writes
  <1>6. GoesOn(o, r)
    <2>1. r.reader = o.reader /\ r.state = o.state
      BY <1>1 DEF Session
    <2> QED  BY <1>5, <2>1 DEF GoesOn, Underway
  <1> HIDE DEF f, rest
  <1>7. Announced(i, a, rest)
    BY <1>1, <1>4 DEF Announced, Peers
  <1>8. Base \in Runtime_("initiator").require
    BY <1>1, RuntimeFacts DEF Constructible, Peers
  <1>9. Offerable(i.offered) /\ Offerable(a.offered)
    <2>1. /\ i \in Session(Runtime_("initiator")) /\ a \in Session(Runtime_("acceptor"))
      BY HandshakeFacts DEF Peers
    <2> QED  BY <2>1, SessionOffers
  <1>10. f.offer \in Partial(Ids, Terms)
    BY <1>3 DEF Frames
  <1> HIDE DEF rt, r
  <1>11. CASE GoesOn(r, d)
    <2>1. GoesOn(o, d)
      BY <1>6, <1>11, GoesOnTwice
    <2> HIDE DEF d
    <2> QED  BY <1>2, <1>4, <1>7, <2>1, GoesOnStep
  <1>12. CASE d = Negotiate(p, r, f.offer) /\ ~GoesOn(r, d)
              /\ p = "acceptor" /\ f.kind = "HELLO"
    <2>1. Made(i) /\ f.offer = HelloOf(i) /\ o = a
      BY <1>1, <1>3, <1>12 DEF Announced
    <2>2. ~Mismatch(r.offered, f.offer, Runtime_(p).require) => Base \in DOMAIN r.offered
      <3>1. Base \in DOMAIN HelloOf(i) /\ HelloOf(i)[Base].required
        BY <1>8, <2>1 DEF Made, HelloOf, Offer
      <3> QED  BY <2>1, <3>1 DEF Mismatch
    <2> DEFINE n == Negotiate(p, r, f.offer)
    <2>3. /\ ~Mismatch(r.offered, f.offer, Runtime_(p).require)
          /\ \E c : /\ c.offered = r.offered /\ c.agreed = Negotiated(r.offered, f.offer)
                    /\ GoesOn(c, n)
      BY <1>1, <1>5, <1>10, <1>12, <2>2, NegotiateOutcome DEF rt
    <2>4. PICK c : /\ c.offered = r.offered /\ c.agreed = Negotiated(r.offered, f.offer)
                   /\ GoesOn(c, n)
      BY <2>3
    <2> HIDE DEF n
    <2>5. d = n
      BY <1>12 DEF n
    <2> HIDE DEF d, i, a, o
    <2>6. /\ c.offered = a.offered /\ c.agreed = Negotiated(a.offered, HelloOf(i))
          /\ ~Mismatch(a.offered, HelloOf(i), Runtime_("acceptor").require)
      BY <1>5, <1>12, <2>1, <2>3, <2>4
    <2>7. Agreeing(i, c) /\ Announced(i, c, rest)
      BY <1>1, <1>7, <1>8, <2>1, <2>6, AcceptorAgrees
    <2>8. Agreeing(i, d) /\ Announced(i, d, rest)
      BY <2>4, <2>5, <2>7, StayGoesOn, AgreeingOn
    <2>9. Initiator(p, d) = i /\ Acceptor(p, d) = d
      BY <1>12 DEF Initiator, Acceptor, i
    <2> QED  BY <1>2, <1>4, <2>8, <2>9, HandshakeBecomes
  <1>13. CASE d = Negotiate(p, r, f.offer) /\ ~GoesOn(r, d)
              /\ p = "initiator" /\ f.kind = "WELCOME"
    <2>1. Settled(i, a) /\ f.offer = WelcomeOf(a) /\ o = i
      BY <1>1, <1>3, <1>13 DEF Announced
    <2>2. Base \in DOMAIN r.offered
      BY <1>5, <2>1 DEF Settled, Made
    <2> DEFINE n == Negotiate(p, r, f.offer)
    <2>3. \E c : /\ c.offered = r.offered /\ c.agreed = Negotiated(r.offered, f.offer)
                 /\ Runtime_(p).require \subseteq DOMAIN c.agreed
                 /\ Writes(c) = Writes(r) /\ GoesOn(c, n)
      BY <1>1, <1>5, <1>10, <1>13, <2>2, NegotiateOutcome DEF rt
    <2>4. PICK c : /\ c.offered = r.offered /\ c.agreed = Negotiated(r.offered, f.offer)
                   /\ Runtime_(p).require \subseteq DOMAIN c.agreed
                   /\ Writes(c) = Writes(r) /\ GoesOn(c, n)
      BY <2>3
    <2> HIDE DEF n
    <2>5. d = n
      BY <1>13 DEF n
    <2> HIDE DEF d, i, a, o
    <2>6. /\ c.offered = i.offered /\ c.agreed = Negotiated(i.offered, WelcomeOf(a))
          /\ Runtime_("initiator").require \subseteq DOMAIN c.agreed /\ Writes(c) = Writes(i)
      BY <1>5, <1>13, <2>1, <2>4
    <2>7. Agreeing(c, a) /\ Announced(c, a, rest)
      BY <1>1, <1>7, <1>9, <2>1, <2>6, InitiatorAgrees
    <2>8. Agreeing(d, a) /\ Announced(d, a, rest)
      BY <2>4, <2>5, <2>7, StayGoesOn, AgreeingOn
    <2>9. Initiator(p, d) = d /\ Acceptor(p, d) = a
      BY <1>13 DEF Initiator, Acceptor, a
    <2> QED  BY <1>2, <1>4, <2>8, <2>9, HandshakeBecomes
  <1>14. \/ GoesOn(r, d)
         \/ /\ d = Negotiate(p, r, f.offer)
            /\ \/ p = "acceptor" /\ f.kind = "HELLO"
               \/ p = "initiator" /\ f.kind = "WELCOME"
    BY <1>3, <1>5, HandleGoesOn
  <1> HIDE DEF d
  <1> QED  BY <1>11, <1>12, <1>13, <1>14

LEMMA ExtensionHandshake ==
  ASSUME Handshake, TypeInv', NEW p \in Peers, ExtensionAttached(p)
  PROVE  Handshake'
  <1> DEFINE rt == Runtime_(p)
             r == s[p]
             x == Current(p)
             k == r.extension
             c == [r EXCEPT !.attached = @ \cup {x}]
             ran == [c EXCEPT !.disposed = Append(@, x)]
             kept == [c EXCEPT !.disposers = Append(@, x)]
  <1>1. /\ r \in Session(rt) /\ Sound(rt, r) /\ chan \in [Peers -> Seq(Frames)]
        /\ Announced(s["initiator"], s["acceptor"], chan) /\ config \in DOMAIN Configurations
    BY HandshakeFacts DEF Orderly
  <1>2. /\ config' = config /\ r.reader = "extending"
        /\ \/ Becomes(p, NextExtension(p, ran, k), chan)
           \/ Becomes(p, NextExtension(p, kept, k), chan)
    BY DEF ExtensionAttached, Calm
  <1>3. x \in Names(rt)
    <2>1. k \in DOMAIN rt.extensions /\ x = rt.extensions[k]
      BY <1>1, <1>2 DEF Sound, Current
    <2> QED  BY <2>1 DEF Names, ToSet
  <1> HIDE DEF rt, r, x, k
  <1>4. /\ c \in Session(rt) /\ c.offered = r.offered /\ c.agreed = r.agreed
        /\ c.jobs = r.jobs /\ c.writing = r.writing
        /\ c.reader = r.reader /\ c.state = r.state
    BY <1>1, <1>3 DEF Session
  <1> HIDE DEF c
  <1>5. /\ Append(c.disposed, x) \in Seq(Names(rt)) /\ Append(c.disposers, x) \in Seq(Names(rt))
    BY <1>3, <1>4, ListTypes, AppendProperties
  <1>6. ASSUME NEW d \in {ran, kept}
        PROVE  d \in Session(rt) /\ GoesOn(r, d) /\ Underway(d)
    <2>1. /\ d \in Session(rt) /\ d.offered = c.offered /\ d.agreed = c.agreed
          /\ d.jobs = c.jobs /\ d.writing = c.writing
          /\ d.reader = c.reader /\ d.state = c.state
      BY <1>4, <1>5, ZenonT(60) DEF Session
    <2> HIDE DEF ran, kept
    <2>2. GoesOn(r, d)
      BY <1>4, <2>1, SameGoesOn DEF Underway
    <2> QED  BY <1>2, <1>4, <2>1, <2>2 DEF Underway
  <1> HIDE DEF ran, kept
  <1>7. ASSUME NEW d \in {ran, kept}
        PROVE  GoesOn(r, NextExtension(p, d, k))
    <2>1. GoesOn(d, NextExtension(p, d, k))
      BY <1>6, NextExtensionGoesOn
    <2> QED  BY <1>6, <2>1, GoesOnTwice
  <1> QED  BY <1>1, <1>2, <1>7, GoesOnStep DEF r

LEMMA CarrierHandshake ==
  ASSUME Handshake, TypeInv', Break \/ FallSilent
  PROVE  Handshake'
  <1>1. UNCHANGED s /\ config' = config
    BY DEF Break, FallSilent, Event
  <1>2. \A q \in Peers : ToSet(chan'[q]) \subseteq ToSet(chan[q])
    <2> TAKE q \in Peers
    <2>1. chan'[q] \in {chan[q], <<>>}
      BY DEF Break, FallSilent
    <2> QED  BY <2>1, EmptyFacts
  <1>3. \A q : Runtime_(q)' = Runtime_(q)
    BY <1>1 DEF Runtime_
  <1>4. Agreeing(s["initiator"], s["acceptor"])'
    BY <1>1, <1>3 DEF Handshake, Agreeing, Confirmed, Settled, HelloOf
  <1>5. Announced(s["initiator"], s["acceptor"], chan)'
    <2>1. Announced(s["initiator"], s["acceptor"], chan')
      BY <1>2 DEF Handshake, Announced, Peers
    <2> QED  BY <1>1, <1>3, <2>1 DEF Announced, Settled, HelloOf, WelcomeOf
  <1> QED  BY <1>4, <1>5 DEF Handshake

LEMMA InitHandshake == Init => Handshake
  <1> SUFFICES ASSUME Init PROVE Handshake
    OBVIOUS
  <1>1. TypeInv
    BY InitInv
  <1>2. \A p \in Peers : s[p] = Idle /\ chan[p] = <<>>
    BY DEF Init
  <1>3. Writes(Idle) = {None} /\ DOMAIN Idle.agreed = {} /\ Idle.reader = "off"
        /\ Idle.state = "idle"
    BY EmptyFacts DEF Idle, Writes
  <1>4. ~Underway(Idle) /\ "HELLO" \notin Writes(Idle)
    BY <1>3 DEF Underway, None
  <1>5. Agreeing(s["initiator"], s["acceptor"])
    BY <1>2, <1>4 DEF Agreeing, Peers
  <1>6. Announced(s["initiator"], s["acceptor"], chan)
    BY <1>2, EmptyFacts DEF Announced, Peers
  <1> QED  BY <1>1, <1>5, <1>6 DEF Handshake

LEMMA StepHandshake == Handshake /\ [Next]_vars => Handshake'
  <1> SUFFICES ASSUME Handshake, [Next]_vars PROVE Handshake'
    OBVIOUS
  <1>1. TypeInv'
    BY StepInv DEF Handshake
  <1>2. ASSUME NEW p \in Peers, Passing(p) PROVE Handshake'
    BY <1>1, <1>2, OpeningHandshake, PassingHandshake, WritingHandshake, ReadHandshake,
       ExtensionHandshake DEF Passing
  <1>3. ASSUME NEW p \in Peers,
               Attach(p) \/ OpeningFails(p) \/ Abort(p) \/ ExtensionFails(p) \/ CloseSession(p)
        PROVE  Handshake'
    BY <1>1, <1>3, OpeningHandshake, PassingHandshake
  <1>4. CASE UNCHANGED vars
    <2>1. s' = s /\ chan' = chan /\ config' = config
      BY <1>4 DEF vars
    <2>2. \A q : Runtime_(q)' = Runtime_(q)
      BY <2>1 DEF Runtime_
    <2>3. Agreeing(s["initiator"], s["acceptor"])'
      BY <2>1, <2>2 DEF Handshake, Agreeing, Confirmed, Settled, HelloOf
    <2>4. Announced(s["initiator"], s["acceptor"], chan)'
      BY <2>1, <2>2 DEF Handshake, Announced, Settled, HelloOf, WelcomeOf
    <2> QED  BY <1>1, <2>3, <2>4 DEF Handshake
  <1> QED  BY <1>1, <1>2, <1>3, <1>4, CarrierHandshake DEF Next, Happening

\* Two sessions that are ready on one lane hold the same capabilities in the same
\* versions, whatever the runtimes support and require, and these cover what the
\* initiator requires and what the acceptor requires and could offer.
THEOREM ReadyAgree == Spec => []ReadyPeersAgree
  <1>1. Handshake => ReadyPeersAgree
    <2> DEFINE i == s["initiator"]
               a == s["acceptor"]
    <2>1. SUFFICES ASSUME Handshake, i.state = "ready", a.state = "ready"
                   PROVE  /\ i.agreed = a.agreed
                          /\ Runtime_("initiator").require \subseteq DOMAIN i.agreed
                          /\ Runtime_("acceptor").require \cap DOMAIN a.offered
                               \subseteq DOMAIN a.agreed
      BY DEF ReadyPeersAgree, Peers
    <2>2. Confirmed(i, a)
      BY <2>1 DEF Handshake, Agreeing, Underway
    <2> HIDE DEF i, a
    <2>3. ASSUME NEW id \in Runtime_("acceptor").require \cap DOMAIN a.offered
          PROVE  id \in DOMAIN a.agreed
      BY <2>2 DEF Confirmed, Settled, Mismatch, Negotiated
    <2> QED  BY <2>2, <2>3 DEF Confirmed
  <1>2. Spec => []Handshake
    BY InitHandshake, StepHandshake, PTL DEF Spec
  <1> QED  BY <1>1, <1>2, PTL

=============================================================================
