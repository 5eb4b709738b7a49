------------------------ MODULE PrpSessionCreditProofs ------------------------
(***************************************************************************)
(* What a reader counts on, its peer may send: no credit of a stream is     *)
(* invented between the two, and none is lost while no DEMAND saturates,    *)
(* for every value of the constants.                                       *)
(*                                                                         *)
(* CreditNotOverstated compares the two ends of a stream that is in both    *)
(* tables, with sums over what is queued and on the lane between them.      *)
(* CreditInv says it of every id that both ends may still use (Joined): a   *)
(* DEMAND may overtake the answer to its OPEN, so the balance must stand    *)
(* before the stream is in the opener's table.  Two facts carry it there    *)
(* and through saturation: a peer expects no more than it asked for, and    *)
(* nothing for an id it has not used (Covered); and what may still reach a  *)
(* peer was asked for by it, also when one end has dropped the stream       *)
(* (Ledger).                                                               *)
(*                                                                         *)
(* For one stream a step is one of four moves (Asks, Granted, Sends, Gets)  *)
(* or Passive: what it discards belongs to a stream that is joined no more. *)
(* Sums are cardinalities, as in the model, counted place by place (Sum).   *)
(***************************************************************************)
EXTENDS PrpSessionLaneProofs

-----------------------------------------------------------------------------
(* Sums over a sequence of numbers                                         *)

\* The sum of the numbers of h behind its first n places.
Sum(h, n) == Total([k \in DOMAIN h |-> [amount |-> h[k]]], "amount", {k \in DOMAIN h : k > n})

\* Behind any place the sum is a number, over finitely many places.
LEMMA SumFacts ==
  ASSUME NEW h \in Seq(Nat), NEW n
  PROVE  /\ IsFiniteSet({k \in DOMAIN h : k > n}) /\ {k \in DOMAIN h : k > n} \subseteq DOMAIN h
         /\ \A k \in DOMAIN h : /\ [m \in DOMAIN h |-> [amount |-> h[m]]][k]["amount"] = h[k]
                                /\ h[k] \in Nat
         /\ Sum(h, n) \in Nat
  <1> DEFINE A == {k \in DOMAIN h : k > n}
             g == [m \in DOMAIN h |-> [amount |-> h[m]]]
  <1>1. Len(h) \in Nat /\ DOMAIN h = 1..Len(h) /\ A \in SUBSET (1..Len(h))
    OBVIOUS
  <1>2. IsFiniteSet(A)
    <2>1. IsFiniteSet(1..Len(h))
      BY <1>1, FS_Interval
    <2> QED  BY <1>1, <2>1, FS_Subset
  <1>3. \A k \in DOMAIN h : g[k]["amount"] = h[k] /\ h[k] \in Nat
    OBVIOUS
  <1>4. \A k \in A : g[k]["amount"] \in Nat
    BY <1>3
  <1>5. Sum(h, n) = Total(g, "amount", A)
    BY DEF Sum
  <1> HIDE DEF A, g
  <1>6. Sum(h, n) \in Nat
    BY <1>2, <1>4, <1>5, TotalFinite
  <1> QED  BY <1>1, <1>2, <1>3, <1>6 DEF A, g

LEMMA SumAppend ==
  ASSUME NEW h \in Seq(Nat), NEW x \in Nat, NEW n \in Nat, n <= Len(h)
  PROVE  Sum(Append(h, x), n) = Sum(h, n) + x
  <1> DEFINE r == Append(h, x)
             A == {k \in DOMAIN h : k > n}
             B == {k \in DOMAIN r : k > n}
             g == [m \in DOMAIN h |-> [amount |-> h[m]]]
             e == [m \in DOMAIN r |-> [amount |-> r[m]]]
             z == Len(h) + 1
  <1>1. /\ Len(h) \in Nat /\ r \in Seq(Nat) /\ DOMAIN r = 1..z /\ DOMAIN h = 1..Len(h)
        /\ r[z] = x /\ \A k \in 1..Len(h) : r[k] = h[k]
    OBVIOUS
  <1> HIDE DEF r
  <1>2. IsFiniteSet(A) /\ A \subseteq 1..Len(h) /\ \A k \in DOMAIN h : g[k]["amount"] = h[k]
    BY <1>1, SumFacts
  <1>3. \A k \in DOMAIN r : e[k]["amount"] = r[k] /\ r[k] \in Nat
    BY <1>1, SumFacts
  <1>4. B = A \cup {z} /\ z \notin A
    BY <1>1
  <1>5. Sum(h, n) = Total(g, "amount", A) /\ Sum(r, n) = Total(e, "amount", B)
    BY DEF Sum
  <1>6. /\ \A k \in A : e[k]["amount"] = g[k]["amount"] /\ e[k]["amount"] \in Nat
        /\ e[z]["amount"] = x /\ e[z]["amount"] \in Nat
    BY <1>1, <1>2, <1>3
  <1>7. IsFiniteSet(A) /\ z \notin A /\ \A k \in A : e[k]["amount"] \in Nat
    BY <1>2, <1>4, <1>6
  <1> HIDE DEF A, B, g, e, z
  <1>8. Total(e, "amount", A \cup {z}) = Total(e, "amount", A) + e[z]["amount"]
    BY <1>6, <1>7, TotalAdd
  <1>9. Total(e, "amount", A) = Total(g, "amount", A)
    BY <1>6, TotalSame
  <1> QED  BY <1>4, <1>5, <1>6, <1>8, <1>9 DEF r

LEMMA SumFirst ==
  ASSUME NEW h \in Seq(Nat), h # <<>>
  PROVE  Sum(h, 0) = Sum(h, 1) + Head(h)
  <1> DEFINE A == {k \in DOMAIN h : k > 1}
             B == {k \in DOMAIN h : k > 0}
             g == [m \in DOMAIN h |-> [amount |-> h[m]]]
  <1>1. 1 \in DOMAIN h /\ h[1] = Head(h) /\ DOMAIN h \in SUBSET (Nat \ {0})
    BY TailElements
  <1>2. IsFiniteSet(A) /\ A \subseteq DOMAIN h /\ \A k \in DOMAIN h : g[k]["amount"] = h[k] /\ h[k] \in Nat
    BY SumFacts
  <1>3. B = A \cup {1} /\ 1 \notin A
    BY <1>1
  <1>4. Sum(h, 0) = Total(g, "amount", B) /\ Sum(h, 1) = Total(g, "amount", A)
    BY DEF Sum
  <1>5. /\ g[1]["amount"] = Head(h) /\ g[1]["amount"] \in Nat
        /\ \A k \in A : g[k]["amount"] \in Nat
    BY <1>1, <1>2
  <1> HIDE DEF A, B, g
  <1>6. Total(g, "amount", A \cup {1}) = Total(g, "amount", A) + g[1]["amount"]
    BY <1>2, <1>3, <1>5, TotalAdd
  <1> QED  BY <1>3, <1>4, <1>5, <1>6

Pairs(s, field, ids) == UNION {{i} \X (1..s[i][field]) : i \in ids}

LEMMA PairsFinite ==
  ASSUME NEW s, NEW field, NEW ids, IsFiniteSet(ids), \A i \in ids : s[i][field] \in Nat
  PROVE  IsFiniteSet(Pairs(s, field, ids))
  <1> DEFINE f == [i \in ids |-> {i} \X (1..s[i][field])]
             S == {{i} \X (1..s[i][field]) : i \in ids}
  <1>1. f \in Surjection(ids, S)
    BY DEF Surjection
  <1>2. IsFiniteSet(S)
    BY <1>1, FS_Surjection
  <1>3. \A T \in S : IsFiniteSet(T)
    <2>1. \A i \in ids : IsFiniteSet({i} \X (1..s[i][field]))
      BY HeldSize
    <2> QED  BY <2>1
  <1>4. IsFiniteSet(UNION S)
    BY <1>2, <1>3, FS_UNION
  <1> QED  BY <1>4 DEF Pairs

\* The pairs that are counted are the same, one place further on.
LEMMA SumTail ==
  ASSUME NEW h \in Seq(Nat), h # <<>>
  PROVE  Sum(Tail(h), 0) = Sum(h, 1)
  <1> DEFINE r == Tail(h)
             PQ == {k \in DOMAIN h : k > 1}
             PR == {k \in DOMAIN r : k > 0}
             g == [m \in DOMAIN h |-> [amount |-> h[m]]]
             e == [m \in DOMAIN r |-> [amount |-> r[m]]]
             A == UNION {{k} \X (1..g[k]["amount"]) : k \in PQ}
             B == UNION {{k} \X (1..e[k]["amount"]) : k \in PR}
             f == [x \in A |-> <<x[1] - 1, x[2]>>]
  <1>1. /\ r \in Seq(Nat)
        /\ \A k \in DOMAIN r : k \in Nat \ {0} /\ k + 1 \in DOMAIN h /\ r[k] = h[k + 1]
        /\ \A k \in DOMAIN h \ {1} : k - 1 \in DOMAIN r /\ r[k - 1] = h[k]
    BY TailElements
  <1>2. \A k \in DOMAIN h : g[k]["amount"] = h[k] /\ h[k] \in Nat /\ k \in Nat \ {0}
    <2>1. DOMAIN h = 1..Len(h) /\ Len(h) \in Nat
      OBVIOUS
    <2> QED  BY <2>1, SumFacts
  <1> HIDE DEF r
  <1>3. \A k \in DOMAIN r : e[k]["amount"] = r[k] /\ r[k] \in Nat
    BY <1>1, SumFacts
  <1> HIDE DEF g, e
  <1>4. /\ PQ \in SUBSET Int /\ PR \in SUBSET Int
        /\ \A k \in PQ : k - 1 \in PR /\ e[k - 1]["amount"] = g[k]["amount"]
        /\ \A k \in PR : k + 1 \in PQ /\ e[k]["amount"] = g[k + 1]["amount"]
    <2>1. PQ \in SUBSET Int /\ \A k \in PQ : k \in DOMAIN h \ {1} /\ k \in Nat /\ k > 1
      BY <1>2
    <2>2. PR \in SUBSET Int /\ \A k \in PR : k \in DOMAIN r /\ k \in Nat \ {0}
      BY <1>1
    <2>3. \A k \in PQ : k - 1 \in PR
      BY <1>1, <2>1
    <2>4. \A k \in PR : k + 1 \in PQ
      BY <1>1, <2>2
    <2>5. \A k \in PQ : e[k - 1]["amount"] = g[k]["amount"]
      BY <1>1, <1>2, <1>3, <2>1
    <2>6. \A k \in PR : e[k]["amount"] = g[k + 1]["amount"]
      BY <1>1, <1>2, <1>3, <2>2
    <2> QED  BY <2>1, <2>2, <2>3, <2>4, <2>5, <2>6
  <1>5. IsFiniteSet(A)
    <2>1. IsFiniteSet(PQ)
      BY SumFacts
    <2>2. PQ \subseteq DOMAIN h
      OBVIOUS
    <2>3. \A k \in PQ : g[k]["amount"] \in Nat
      BY <1>2, <2>2
    <2>4. IsFiniteSet(Pairs(g, "amount", PQ))
      <3> HIDE DEF PQ
      <3> QED  BY <2>1, <2>3, PairsFinite
    <2> QED  BY <2>4 DEF Pairs
  <1>6. Sum(h, 1) = Cardinality(A) /\ Sum(r, 0) = Cardinality(B)
    BY DEF Sum, Total, g, e
  <1> HIDE DEF PQ, PR
  <1>7. f \in Bijection(A, B)
    <2>1. ASSUME NEW x \in A
          PROVE  /\ x[1] \in PQ /\ x[2] \in 1..g[x[1]]["amount"] /\ x = <<x[1], x[2]>>
                 /\ <<x[1] - 1, x[2]>> \in B
      <3>1. PICK k \in PQ : x \in {k} \X (1..g[k]["amount"])
        OBVIOUS
      <3>2. x[1] = k /\ x[2] \in 1..g[k]["amount"] /\ x = <<x[1], x[2]>>
        BY <3>1
      <3>3. <<x[1] - 1, x[2]>> \in {k - 1} \X (1..e[k - 1]["amount"])
        BY <1>4, <3>2
      <3>4. k - 1 \in PR
        BY <1>4
      <3> QED  BY <3>2, <3>3, <3>4
    <2>2. ASSUME NEW y \in B
          PROVE  /\ y[1] \in PR /\ y = <<y[1], y[2]>> /\ <<y[1] + 1, y[2]>> \in A
      <3>1. PICK k \in PR : y \in {k} \X (1..e[k]["amount"])
        OBVIOUS
      <3>2. y[1] = k /\ y[2] \in 1..e[k]["amount"] /\ y = <<y[1], y[2]>>
        BY <3>1
      <3>3. <<y[1] + 1, y[2]>> \in {k + 1} \X (1..g[k + 1]["amount"])
        BY <1>4, <3>2
      <3>4. k + 1 \in PQ
        BY <1>4
      <3> QED  BY <3>2, <3>3, <3>4
    <2> HIDE DEF A, B
    <2>3. f \in [A -> B]
      BY <2>1
    <2>4. \A x, y \in A : f[x] = f[y] => x = y
      <3> SUFFICES ASSUME NEW x \in A, NEW y \in A, f[x] = f[y] PROVE x = y
        OBVIOUS
      <3>1. <<x[1] - 1, x[2]>> = <<y[1] - 1, y[2]>>
        OBVIOUS
      <3>2. x[1] \in Int /\ y[1] \in Int /\ x = <<x[1], x[2]>> /\ y = <<y[1], y[2]>>
        BY <1>4, <2>1
      <3>3. x[1] - 1 = y[1] - 1 /\ x[2] = y[2]
        BY <3>1
      <3>4. x[1] = y[1]
        BY <3>2, <3>3
      <3> QED  BY <3>2, <3>3, <3>4
    <2>5. \A y \in B : \E x \in A : f[x] = y
      <3> SUFFICES ASSUME NEW y \in B PROVE \E x \in A : f[x] = y
        OBVIOUS
      <3> DEFINE x == <<y[1] + 1, y[2]>>
      <3>1. x \in A /\ y[1] \in Int /\ y = <<y[1], y[2]>>
        BY <1>4, <2>2
      <3>2. f[x] = <<x[1] - 1, x[2]>>
        BY <3>1
      <3>3. x[1] - 1 = y[1] /\ x[2] = y[2]
        BY <3>1
      <3> QED  BY <3>1, <3>2, <3>3
    <2> HIDE DEF f
    <2> QED  BY <2>3, <2>4, <2>5 DEF Bijection, Injection, IsInjective, Surjection
  <1>8. Cardinality(A) = Cardinality(B)
    <2> HIDE DEF A, B, f
    <2>1. ExistsBijection(A, B)
      BY <1>7 DEF ExistsBijection
    <2> QED  BY <1>5, <2>1, FS_Bijection
  <1> HIDE DEF A, B
  <1> QED  BY <1>6, <1>8 DEF r

-----------------------------------------------------------------------------
(* What a queue or a lane carries                                          *)

\* A job or a frame is worth the items or the credit it brings.
Units(x) == IF x.kind = "DATA" THEN 1 ELSE x.amount
Counts(x, kind, i) == IF x.kind = kind /\ x.id = i THEN Units(x) ELSE 0
Worth(q, kind, i) == [k \in 1..Len(q) |-> Counts(q[k], kind, i)]
\* What q carries of a kind for stream i behind its first n places.
Amount(q, n, kind, i) == Sum(Worth(q, kind, i), n)

LEMMA UnitsNat ==
  /\ \A j \in Job : Units(j) \in Nat
  /\ \A f \in Frame : Units(f) \in Nat
  <1>1. \A j \in Job : j.amount \in Nat
    BY DEF Job, JobOf
  <1>2. \A f \in Frame : f.amount \in Nat
    BY DEF Frame, FrameOf
  <1> QED  BY <1>1, <1>2 DEF Units

LEMMA WorthNat ==
  ASSUME NEW S, NEW q \in Seq(S), \A x \in S : Units(x) \in Nat, NEW kind, NEW i
  PROVE  /\ Worth(q, kind, i) \in Seq(Nat) /\ Len(Worth(q, kind, i)) = Len(q)
         /\ \A n : Amount(q, n, kind, i) \in Nat
         /\ \A x \in S : Counts(x, kind, i) \in Nat
  <1>1. \A x \in S : Counts(x, kind, i) \in Nat
    BY DEF Counts
  <1>2. Len(q) \in Nat /\ \A k \in 1..Len(q) : q[k] \in S
    OBVIOUS
  <1>3. Worth(q, kind, i) \in Seq(Nat) /\ Len(Worth(q, kind, i)) = Len(q)
    BY <1>1, <1>2 DEF Worth
  <1>4. ASSUME NEW n PROVE Amount(q, n, kind, i) \in Nat
    BY <1>3, SumFacts DEF Amount
  <1> QED  BY <1>1, <1>3, <1>4

LEMMA SequenceShape ==
  ASSUME NEW S, NEW u \in Seq(S), NEW n, Len(u) = n
  PROVE  u = [k \in 1..n |-> u[k]] /\ DOMAIN u = 1..n
  <1>1. u \in [1..Len(u) -> S]
    OBVIOUS
  <1> QED  BY <1>1

LEMMA AmountAppend ==
  ASSUME NEW S, NEW q \in Seq(S), NEW x \in S, \A y \in S : Units(y) \in Nat,
         NEW n \in Nat, n <= Len(q), NEW kind, NEW i
  PROVE  Amount(Append(q, x), n, kind, i) = Amount(q, n, kind, i) + Counts(x, kind, i)
  <1> DEFINE r == Append(q, x)
             h == Worth(q, kind, i)
             c == Counts(x, kind, i)
  <1>1. h \in Seq(Nat) /\ Len(h) = Len(q) /\ c \in Nat
    BY WorthNat
  <1>2. /\ Len(q) \in Nat /\ Len(r) = Len(q) + 1 /\ r[Len(q) + 1] = x
        /\ \A k \in 1..Len(q) : r[k] = q[k]
    OBVIOUS
  <1> HIDE DEF r
  <1>3. Worth(r, kind, i) = Append(h, c)
    <2>1. /\ Append(h, c) = [k \in 1..Len(h) + 1 |-> Append(h, c)[k]]
          /\ \A k \in 1..Len(h) : Append(h, c)[k] = h[k]
          /\ Append(h, c)[Len(h) + 1] = c
      <3>1. h \in Seq(Nat) /\ c \in Nat
        BY <1>1
      <3> DEFINE u == Append(h, c)
      <3> HIDE DEF h, c
      <3>2. /\ u \in Seq(Nat) /\ Len(u) = Len(h) + 1
            /\ \A k \in 1..Len(h) : u[k] = h[k]
            /\ u[Len(h) + 1] = c
        BY <3>1
      <3> HIDE DEF u
      <3>3. u = [k \in 1..Len(h) + 1 |-> u[k]]
        BY <3>2, SequenceShape
      <3> QED  BY <3>2, <3>3 DEF u
    <2>2. \A k \in 1..Len(q) : h[k] = Counts(q[k], kind, i)
      BY DEF Worth
    <2>3. \A k \in 1..Len(q) + 1 : k \in 1..Len(q) \/ k = Len(q) + 1
      BY <1>2
    <2>4. \A k \in 1..Len(q) + 1 : Append(h, c)[k] = Counts(r[k], kind, i)
      <3> HIDE DEF h
      <3> QED  BY <1>1, <1>2, <2>1, <2>2, <2>3
    <2> HIDE DEF h, c
    <2>5. Append(h, c) = [k \in 1..Len(q) + 1 |-> Counts(r[k], kind, i)]
      BY <1>1, <2>1, <2>4
    <2> QED  BY <1>2, <2>5 DEF Worth
  <1> HIDE DEF h, c
  <1>4. Sum(Append(h, c), n) = Sum(h, n) + c
    BY <1>1, SumAppend
  <1> QED  BY <1>3, <1>4 DEF Amount, h, c, r

LEMMA AmountTail ==
  ASSUME NEW S, NEW q \in Seq(S), q # <<>>, \A y \in S : Units(y) \in Nat, NEW kind, NEW i
  PROVE  /\ Amount(Tail(q), 0, kind, i) = Amount(q, 1, kind, i)
         /\ Amount(q, 0, kind, i) = Amount(q, 1, kind, i) + Counts(Head(q), kind, i)
  <1> DEFINE r == Tail(q)
             h == Worth(q, kind, i)
  <1>1. h \in Seq(Nat) /\ Len(h) = Len(q)
    BY WorthNat
  <1>2. /\ Len(q) \in Nat \ {0} /\ Len(r) = Len(q) - 1 /\ r \in Seq(S)
        /\ \A k \in DOMAIN r : k \in Nat \ {0} /\ r[k] = q[k + 1]
        /\ q[1] = Head(q)
    BY TailElements
  <1>3. h # <<>>
    BY <1>1, <1>2
  <1> HIDE DEF r
  <1>4. Worth(r, kind, i) = Tail(h)
    <2>1. \A k \in 1..Len(q) : h[k] = Counts(q[k], kind, i)
      BY DEF Worth
    <2>2. /\ Len(Tail(h)) = Len(h) - 1 /\ Tail(h) \in Seq(Nat)
          /\ \A k \in DOMAIN Tail(h) : Tail(h)[k] = h[k + 1]
      <3> HIDE DEF h
      <3> QED  BY <1>1, <1>3, TailElements
    <2>3. /\ Tail(h) = [k \in 1..Len(q) - 1 |-> Tail(h)[k]] /\ DOMAIN Tail(h) = 1..Len(q) - 1
      <3> DEFINE u == Tail(h)
      <3>1. u \in Seq(Nat) /\ Len(u) = Len(q) - 1
        BY <1>1, <2>2
      <3> HIDE DEF u, h
      <3>3. u = [k \in 1..Len(q) - 1 |-> u[k]] /\ DOMAIN u = 1..Len(q) - 1
        BY <3>1, SequenceShape
      <3> QED  BY <3>3 DEF u
    <2>4. \A k \in 1..Len(q) - 1 : k + 1 \in 1..Len(q) /\ k \in DOMAIN r
      <3>1. DOMAIN r = 1..Len(q) - 1
        BY <1>2
      <3> QED  BY <1>2, <3>1
    <2>5. \A k \in 1..Len(q) - 1 : Tail(h)[k] = Counts(q[k + 1], kind, i) /\ r[k] = q[k + 1]
      <3> HIDE DEF h
      <3> QED  BY <1>2, <2>1, <2>2, <2>3, <2>4
    <2> HIDE DEF h
    <2>6. Tail(h) = [k \in 1..Len(q) - 1 |-> Counts(r[k], kind, i)]
      BY <2>3, <2>5
    <2> QED  BY <1>2, <2>6 DEF Worth
  <1>5. Head(h) = Counts(Head(q), kind, i)
    <2>1. h[1] = Counts(q[1], kind, i) /\ h[1] = Head(h)
      BY <1>1, <1>2, <1>3 DEF Worth
    <2> QED  BY <1>2, <2>1
  <1> HIDE DEF h
  <1>6. Sum(Tail(h), 0) = Sum(h, 1) /\ Sum(h, 0) = Sum(h, 1) + Head(h)
    BY <1>1, <1>3, SumTail, SumFirst
  <1> QED  BY <1>4, <1>5, <1>6 DEF Amount, h, r

LEMMA AmountEmpty ==
  ASSUME NEW kind, NEW i
  PROVE  \A n : Amount(<<>>, n, kind, i) = 0
  <1> SUFFICES ASSUME NEW n PROVE Amount(<<>>, n, kind, i) = 0
    OBVIOUS
  <1>1. {k \in DOMAIN Worth(<<>>, kind, i) : k > n} = {}
    BY DEF Worth
  <1> QED  BY <1>1, TotalNone DEF Amount, Sum

-----------------------------------------------------------------------------
(* What is underway from a peer                                            *)

Credited == {"DEMAND", "DATA"}
\* The first job of p counts until its first frame is with the lane.
Skip(p) == IF written[p] = 0 /\ ~flying[p] THEN 0 ELSE 1
Underway(p, kind, i) == Amount(jobs[p], Skip(p), kind, i) + Amount(wire[p], 0, kind, i)

LEMMA LaneFacts ==
  ASSUME TypeInv, NEW p \in Peer
  PROVE  /\ jobs[p] \in Seq(Job) /\ wire[p] \in Seq(Frame)
         /\ Skip(p) \in {0, 1} /\ Skip(p) <= Len(jobs[p]) /\ (Skip(p) = 1 => jobs[p] # <<>>)
         /\ \A kind, i : /\ Amount(jobs[p], Skip(p), kind, i) \in Nat
                         /\ Amount(wire[p], 0, kind, i) \in Nat
                         /\ Underway(p, kind, i) \in Nat
  <1>1. /\ jobs[p] \in Seq(Job) /\ wire[p] \in Seq(Frame)
        /\ written[p] \in Nat /\ flying[p] \in BOOLEAN
    BY DEF TypeInv, TypeOK, WriterType, ReaderType
  <1>2. Skip(p) \in {0, 1} /\ (Skip(p) = 1 => jobs[p] # <<>>)
    BY <1>1 DEF Skip, TypeInv, WritesFirst
  <1>3. Skip(p) \in Nat /\ Skip(p) <= Len(jobs[p])
    <2>1. Len(jobs[p]) \in Nat /\ (jobs[p] # <<>> => Len(jobs[p]) > 0)
      BY <1>1
    <2> QED  BY <1>2, <2>1
  <1>4. ASSUME NEW kind, NEW i
        PROVE  /\ Amount(jobs[p], Skip(p), kind, i) \in Nat
               /\ Amount(wire[p], 0, kind, i) \in Nat
    BY <1>1, <1>3, UnitsNat, WorthNat
  <1> QED  BY <1>1, <1>2, <1>3, <1>4 DEF Underway

UnderwayNat == \A p \in Peer : \A kind, i : Underway(p, kind, i) \in Nat

LEMMA UnderwayIsNat == TypeInv => UnderwayNat
  BY LaneFacts DEF UnderwayNat
\* The same of the state a step leads to.
LEMMA LaterNat == TypeInv' => UnderwayNat'
  BY UnderwayIsNat, PTL

LEMMA UnderwayStill ==
  ASSUME NEW p, jobs'[p] = jobs[p], wire'[p] = wire[p],
         \/ written'[p] = written[p] /\ flying'[p] = flying[p]
         \/ Skip(p)' = Skip(p)
  PROVE  \A kind, i : Underway(p, kind, i)' = Underway(p, kind, i)
  <1>1. Skip(p)' = Skip(p)
    BY DEF Skip
  <1> QED  BY <1>1 DEF Underway

LEMMA UnderwayQueued ==
  ASSUME TypeInv, NEW p \in Peer, NEW job \in Job, Queue(p, job),
         UNCHANGED <<written, flying>>, wire'[p] = wire[p]
  PROVE  \A kind, i : Underway(p, kind, i)' = Underway(p, kind, i) + Counts(job, kind, i)
  <1> SUFFICES ASSUME NEW kind, NEW i
               PROVE  Underway(p, kind, i)' = Underway(p, kind, i) + Counts(job, kind, i)
    OBVIOUS
  <1>1. jobs'[p] = Append(jobs[p], job) /\ Skip(p)' = Skip(p)
    BY QueuedJob DEF Skip
  <1>2. /\ jobs[p] \in Seq(Job) /\ Skip(p) \in Nat /\ Skip(p) <= Len(jobs[p])
        /\ Amount(jobs[p], Skip(p), kind, i) \in Nat /\ Amount(wire[p], 0, kind, i) \in Nat
    BY LaneFacts
  <1>3. Amount(Append(jobs[p], job), Skip(p), kind, i)
          = Amount(jobs[p], Skip(p), kind, i) + Counts(job, kind, i)
    BY <1>2, UnitsNat, AmountAppend
  <1>4. Counts(job, kind, i) \in Nat
    BY UnitsNat DEF Counts
  <1>5. Underway(p, kind, i)' = Amount(jobs'[p], Skip(p)', kind, i) + Amount(wire'[p], 0, kind, i)
    BY DEF Underway
  <1> QED  BY <1>1, <1>2, <1>3, <1>4, <1>5 DEF Underway

\* The first job leaves: it was with the lane, or it counts for nothing here.
LEMMA UnderwayShorter ==
  ASSUME TypeInv, NEW p \in Peer, jobs[p] # <<>>, jobs' = [jobs EXCEPT ![p] = Tail(@)],
         written'[p] = 0, ~flying'[p], wire'[p] = wire[p], NEW kind, NEW i,
         Skip(p) = 1 \/ Counts(Head(jobs[p]), kind, i) = 0
  PROVE  Underway(p, kind, i)' = Underway(p, kind, i)
  <1>1. jobs'[p] = Tail(jobs[p]) /\ Skip(p)' = 0
    BY DEF Skip, TypeInv, TypeOK, WriterType
  <1>2. /\ jobs[p] \in Seq(Job) /\ Skip(p) \in {0, 1} /\ 1 \in Nat
        /\ \A y \in Job : Units(y) \in Nat
    BY LaneFacts, UnitsNat
  <1>3. Amount(Tail(jobs[p]), 0, kind, i) = Amount(jobs[p], 1, kind, i)
    BY <1>2, AmountTail
  <1>4. Amount(jobs[p], 0, kind, i)
          = Amount(jobs[p], 1, kind, i) + Counts(Head(jobs[p]), kind, i)
    BY <1>2, AmountTail
  <1>5. Amount(jobs[p], 1, kind, i) \in Nat
    BY <1>2, WorthNat
  <1>6. Amount(jobs[p], Skip(p), kind, i) = Amount(jobs[p], 1, kind, i)
    <2>1. CASE Skip(p) = 1
      BY <2>1
    <2>2. CASE Skip(p) = 0
      BY <1>4, <1>5, <2>2
    <2> QED  BY <1>2, <2>1, <2>2
  <1>7. Underway(p, kind, i)' = Amount(jobs'[p], Skip(p)', kind, i) + Amount(wire'[p], 0, kind, i)
    BY DEF Underway
  <1> QED  BY <1>1, <1>3, <1>6, <1>7 DEF Underway

LEMMA UnderwayAgain ==
  ASSUME TypeInv, NEW p \in Peer, jobs[p] # <<>>, NEW job \in Job,
         jobs' = [jobs EXCEPT ![p] = Append(Tail(@), job)], wire'[p] = wire[p],
         written'[p] = 0, ~flying'[p], Skip(p) = 0, NEW kind, NEW i,
         Counts(Head(jobs[p]), kind, i) = 0, Counts(job, kind, i) = 0
  PROVE  Underway(p, kind, i)' = Underway(p, kind, i)
  <1> DEFINE u == Tail(jobs[p])
  <1>1. jobs'[p] = Append(u, job) /\ Skip(p)' = 0
    BY DEF Skip, TypeInv, TypeOK, WriterType
  <1>2. jobs[p] \in Seq(Job) /\ \A y \in Job : Units(y) \in Nat
    BY LaneFacts, UnitsNat
  <1>3. Amount(u, 0, kind, i) = Amount(jobs[p], 1, kind, i)
    BY <1>2, AmountTail
  <1>4. Amount(jobs[p], 0, kind, i)
          = Amount(jobs[p], 1, kind, i) + Counts(Head(jobs[p]), kind, i)
    BY <1>2, AmountTail
  <1>5. u \in Seq(Job) /\ Len(u) \in Nat /\ 0 \in Nat
    BY <1>2, TailElements
  <1> HIDE DEF u
  <1>6. Amount(Append(u, job), 0, kind, i) = Amount(u, 0, kind, i) + Counts(job, kind, i)
    BY <1>2, <1>5, AmountAppend
  <1>7. Amount(u, 0, kind, i) \in Nat /\ Amount(jobs[p], 1, kind, i) \in Nat
    BY <1>2, <1>3, <1>5, WorthNat
  <1>8. Underway(p, kind, i)' = Amount(jobs'[p], Skip(p)', kind, i) + Amount(wire'[p], 0, kind, i)
    BY DEF Underway
  <1>9. Amount(jobs'[p], Skip(p)', kind, i) = Amount(jobs[p], Skip(p), kind, i)
    BY <1>1, <1>3, <1>4, <1>6, <1>7
  <1> QED  BY <1>8, <1>9 DEF Underway

\* A frame that is handed to the lane counts there, as its job has so far.
LEMMA UnderwayWritten ==
  ASSUME TypeInv, NEW p \in Peer, WriteFrame(p), NEW kind \in Credited, NEW i
  PROVE  Underway(p, kind, i)' = Underway(p, kind, i)
  <1> DEFINE j == Head(jobs[p])
             f == [kind |-> IF written[p] > 0 THEN "FRAGMENT" ELSE j.kind, id |-> j.id,
                   seq |-> outSeq[p], amount |-> j.amount, item |-> j.item,
                   size |-> j.size, part |-> written[p] + 1]
             n == Amount(jobs[p], 1, kind, i)
             m == Amount(wire[p], 0, kind, i)
  <1>1. /\ jobs[p] # <<>> /\ ~flying[p] /\ wire' = [wire EXCEPT ![p] = Append(@, f)]
        /\ flying' = [flying EXCEPT ![p] = TRUE] /\ UNCHANGED <<jobs, written>>
    BY DEF WriteFrame, CanWrite
  <1>2. /\ jobs[p] \in Seq(Job) /\ wire[p] \in Seq(Frame) /\ m \in Nat /\ 0 \in Nat /\ 1 \in Nat
        /\ \A y \in Job : Units(y) \in Nat
        /\ \A y \in Frame : Units(y) \in Nat
    BY LaneFacts, UnitsNat
  <1>3. wire'[p] = Append(wire[p], f) /\ Skip(p)' = 1 /\ written[p] \in Nat
    BY <1>1 DEF Skip, TypeInv, TypeOK, WriterType, ReaderType
  <1>4. f \in Frame
    <2>1. wire' \in [Peer -> Seq(Frame)]
      BY WriteFrameType DEF TypeInv, TypeOK, ReaderType
    <2>2. Append(wire[p], f) \in Seq(Frame)
      BY <1>3, <2>1
    <2> QED  BY <2>2
  <1>5. /\ f.kind = IF written[p] > 0 THEN "FRAGMENT" ELSE j.kind
        /\ f.id = j.id /\ f.amount = j.amount
    OBVIOUS
  <1>6. Amount(jobs[p], 0, kind, i) = n + Counts(j, kind, i) /\ n \in Nat
    BY <1>1, <1>2, AmountTail, WorthNat
  <1> HIDE DEF f, j, n, m
  <1>7. Amount(Append(wire[p], f), 0, kind, i) = m + Counts(f, kind, i)
    <2>1. Len(wire[p]) \in Nat
      BY <1>2
    <2> QED  BY <1>2, <1>4, <2>1, AmountAppend DEF m
  <1>8. Underway(p, kind, i)' = n + (m + Counts(f, kind, i))
    BY <1>1, <1>3, <1>7 DEF Underway, n
  <1>9. CASE written[p] = 0
    <2>1. Skip(p) = 0 /\ Counts(f, kind, i) = Counts(j, kind, i)
      BY <1>1, <1>5, <1>9 DEF Skip, Counts, Units
    <2>2. Counts(j, kind, i) \in Nat
      <3>1. j \in Job
        BY <1>1, FirstJob DEF TypeInv, TypeOK, j
      <3> QED  BY <1>2, <3>1 DEF Counts
    <2> QED  BY <1>2, <1>6, <1>8, <2>1, <2>2 DEF Underway, m
  <1>10. CASE written[p] > 0
    <2>1. Skip(p) = 1 /\ Counts(f, kind, i) = 0
      BY <1>5, <1>10 DEF Skip, Counts, Credited
    <2> QED  BY <1>2, <1>6, <1>8, <2>1 DEF Underway, m, n
  <1> QED  BY <1>3, <1>9, <1>10

\* A frame that is read is underway no more.
LEMMA UnderwayRead ==
  ASSUME TypeInv, NEW o \in Peer, wire[o] # <<>>, wire'[o] = Tail(wire[o]),
         jobs'[o] = jobs[o], written'[o] = written[o], flying'[o] = flying[o]
  PROVE  \A kind, i : /\ Underway(o, kind, i) = Underway(o, kind, i)' + Counts(Head(wire[o]), kind, i)
                      /\ Underway(o, kind, i)' \in Nat /\ Counts(Head(wire[o]), kind, i) \in Nat
  <1> SUFFICES ASSUME NEW kind, NEW i
               PROVE  /\ Underway(o, kind, i)
                           = Underway(o, kind, i)' + Counts(Head(wire[o]), kind, i)
                      /\ Underway(o, kind, i)' \in Nat /\ Counts(Head(wire[o]), kind, i) \in Nat
    OBVIOUS
  <1>1. Skip(o)' = Skip(o)
    BY DEF Skip
  <1>2. /\ wire[o] \in Seq(Frame) /\ 1 \in Nat /\ \A y \in Frame : Units(y) \in Nat
        /\ Amount(jobs[o], Skip(o), kind, i) \in Nat /\ Amount(wire[o], 0, kind, i) \in Nat
    BY LaneFacts, UnitsNat
  <1>3. /\ Amount(Tail(wire[o]), 0, kind, i) = Amount(wire[o], 1, kind, i)
        /\ Amount(wire[o], 1, kind, i) \in Nat
    BY <1>2, AmountTail, WorthNat
  <1>4. Amount(wire[o], 0, kind, i)
          = Amount(wire[o], 1, kind, i) + Counts(Head(wire[o]), kind, i)
    BY <1>2, AmountTail
  <1>5. Counts(Head(wire[o]), kind, i) \in Nat
    <2>1. Head(wire[o]) \in Frame
      BY <1>2, HeadTailProperties
    <2> QED  BY <1>2, <2>1 DEF Counts
  <1>6. Underway(o, kind, i)' = Amount(jobs[o], Skip(o), kind, i) + Amount(Tail(wire[o]), 0, kind, i)
    BY <1>1 DEF Underway
  <1> QED  BY <1>2, <1>3, <1>4, <1>5, <1>6 DEF Underway

-----------------------------------------------------------------------------
(* What a step does to the credit of a stream                              *)

\* p may still use stream i: it is in the table, or has not been used.
Current(p, i) == i \in live[p] \/ ~IsPast(p, i)
Joined(i) == BothReady /\ \A q \in Peer : Current(q, i)
\* The items that may still reach p on stream i: those its peer may send, once it
\* has read what p has granted, and those it has sent.
Due(p, i) ==
  stream[Other(p)][i].outCredit + Underway(p, "DEMAND", i) + Underway(Other(p), "DATA", i)
Balance(p, i) == Joined(i) =>
  /\ stream[p][i].inCredit <= Due(p, i)
  /\ stream[p][i].asked <= MaxCredit => stream[p][i].inCredit = Due(p, i)
\* No credit without demand, and none for a stream that has not been used, but what
\* the other peer grants while the OPEN is being written.
Covered(p, i) ==
  /\ stream[p][i].inCredit <= stream[p][i].asked
  /\ ~IsPast(p, i) => /\ stream[p][i].asked = 0
                      /\ i \in Own(p) \/ stream[p][i].outCredit = 0
\* What may still reach p was asked for by p.
Ledger(p, i) == Due(p, i) <= stream[p][i].asked
Credit(i) == \A q \in Peer : Covered(q, i) /\ Balance(q, i) /\ Ledger(q, i)
CreditInv == TableInv /\ FrontierInv /\ \A i \in StreamId : Credit(i)

SameCredit(s, t) == t.inCredit = s.inCredit /\ t.outCredit = s.outCredit /\ t.asked = s.asked
Steady(i) == \A r \in Peer, kind \in Credited : Underway(r, kind, i)' = Underway(r, kind, i)
Fading(i) == \A r \in Peer, kind \in Credited : Underway(r, kind, i)' <= Underway(r, kind, i)
\* Nothing moves on stream i while it is joined, and nothing is added to it.
Passive(i) ==
  /\ Fading(i)
  /\ \A q \in Peer : /\ stream'[q][i].inCredit = stream[q][i].inCredit
                     /\ stream'[q][i].asked = stream[q][i].asked
                     /\ stream'[q][i].outCredit \in {stream[q][i].outCredit, 0}
  /\ Joined(i)' => /\ Steady(i)
                   /\ \A q \in Peer : stream'[q][i].outCredit = stream[q][i].outCredit
\* What is underway from q of this kind changes by n, and nothing else.
Shifted(i, q, kind, n) ==
  /\ \A r \in Peer, x \in Credited : r # q \/ x # kind => Underway(r, x, i)' = Underway(r, x, i)
  /\ Underway(q, kind, i)' = Underway(q, kind, i) + n
Beside(p, i) == \A q \in Peer \ {p} : SameCredit(stream[q][i], stream'[q][i])

Asks(p, i, n) ==
  /\ Beside(p, i) /\ Shifted(i, p, "DEMAND", n) /\ IsPast(p, i)
  /\ stream'[p][i].inCredit = AddCredit(stream[p][i].inCredit, n)
  /\ stream'[p][i].asked = stream[p][i].asked + n /\ stream[p][i].asked + n <= MaxAsked
  /\ stream'[p][i].outCredit = stream[p][i].outCredit
Sends(p, i) ==
  /\ Beside(p, i) /\ Shifted(i, p, "DATA", 1) /\ IsPast(p, i)
  /\ stream[p][i].outCredit > 0
  /\ stream'[p][i].inCredit = stream[p][i].inCredit
  /\ stream'[p][i].asked = stream[p][i].asked
  /\ stream'[p][i].outCredit = stream[p][i].outCredit - 1
Granted(p, i, n) ==
  /\ Beside(p, i) /\ Shifted(i, Other(p), "DEMAND", -n) /\ (IsPast(p, i) \/ i \in Own(p))
  /\ Underway(Other(p), "DEMAND", i)' \in Nat
  /\ stream'[p][i].inCredit = stream[p][i].inCredit
  /\ stream'[p][i].asked = stream[p][i].asked
  /\ stream'[p][i].outCredit = AddCredit(stream[p][i].outCredit, n)
Gets(p, i) ==
  /\ Beside(p, i) /\ Shifted(i, Other(p), "DATA", -1) /\ IsPast(p, i)
  /\ stream'[p][i].inCredit = stream[p][i].inCredit - 1
  /\ stream'[p][i].asked = stream[p][i].asked
  /\ stream'[p][i].outCredit = stream[p][i].outCredit
Moves(p, i) ==
  Sends(p, i) \/ Gets(p, i) \/ \E n \in Nat : Asks(p, i, n) \/ Granted(p, i, n)

\* Ids stay used, and a stream that is not joined is not joined again.
Onward(i) ==
  /\ Joined(i)' => Joined(i)
  /\ \A q \in Peer : IsPast(q, i) => IsPast(q, i)'

LEMMA NoneBecomesReady ==
  ASSUME TypeInv, Next
  PROVE  NoneReadied
  <1>1. PICK p \in Peer : \/ Stays \/ Drops(p) \/ WriteFrame(p) \/ FragmentWritten(p)
                          \/ Finishes(p) \/ Receives(p) \/ EndsLane(p)
    BY LaneKinds
  <1>2. CASE Stays
    BY <1>2 DEF Stays
  <1>3. CASE Drops(p) \/ WriteFrame(p) \/ FragmentWritten(p) \/ Finishes(p) \/ Receives(p)
    <2>1. UNCHANGED session
      BY <1>3 DEF Drops, WriteFrame, FragmentWritten, Finishes, Receives, stateVars
    <2> QED  BY <2>1 DEF NoneReadied, Ready
  <1>4. CASE EndsLane(p)
    <2>1. PICK state \in {"closed", "detached"} : session' = [session EXCEPT ![p] = state]
      BY <1>4 DEF EndsLane, Ends, Over
    <2> QED  BY <2>1 DEF NoneReadied, Ready, TypeInv, TypeOK, StateType
  <1> QED  BY <1>1, <1>2, <1>3, <1>4

LEMMA NextOnward ==
  ASSUME TableInv, Next
  PROVE  \A i \in StreamId : Onward(i)
  <1>1. TypeInv /\ IdInv
    BY DEF TableInv, IdInv
  <1>2. NoneReadied
    BY <1>1, NoneBecomesReady
  <1>3. ASSUME NEW i \in StreamId, NEW q \in Peer, IsPast(q, i)
        PROVE  IsPast(q, i)' /\ (i \notin live[q] => i \notin live'[q])
    BY <1>1, <1>3, UsedIdsStayOut
  <1>4. ASSUME NEW i \in StreamId, Joined(i)' PROVE Joined(i)
    <2>1. BothReady
      BY <1>2, <1>4 DEF Joined, BothReady, NoneReadied
    <2>2. ASSUME NEW q \in Peer PROVE Current(q, i)
      <3>1. i \in live'[q] \/ ~IsPast(q, i)'
        BY <1>4 DEF Joined, Current
      <3> QED  BY <1>3, <3>1 DEF Current
    <2> QED  BY <2>1, <2>2 DEF Joined
  <1> QED  BY <1>3, <1>4 DEF Onward

\* A used stream that has left the table of a peer is not joined.
LEMMA GoneApart ==
  ASSUME TableInv, Next, NEW p \in Peer, NEW i \in StreamId, IsPast(p, i), i \notin live[p]
  PROVE  ~Joined(i)'
  <1>1. IsPast(p, i)' /\ i \notin live'[p]
    BY UsedIdsStayOut DEF TableInv
  <1> QED  BY <1>1 DEF Joined, Current

LEMMA CreditNumbers ==
  ASSUME TypeInv, NEW p \in Peer, NEW i \in StreamId
  PROVE  /\ Other(p) \in Peer /\ Other(p) # p /\ Other(Other(p)) = p
         /\ \A q \in Peer : q = p \/ q = Other(p)
         /\ stream[p][i] \in Stream
         /\ stream[p][i].inCredit \in Nat /\ stream[p][i].outCredit \in Nat
         /\ stream[p][i].inCredit <= MaxCredit /\ stream[p][i].outCredit <= MaxCredit
         /\ stream[p][i].asked \in Nat /\ MaxCredit \in Nat
         /\ Underway(p, "DEMAND", i) \in Nat /\ Underway(p, "DATA", i) \in Nat
  <1>1. MaxCredit \in Nat
    BY CreditFacts
  <1>2. stream[p][i] \in Stream
    BY StreamOf DEF TypeInv, TypeOK
  <1>3. /\ stream[p][i].inCredit \in 0..MaxCredit /\ stream[p][i].outCredit \in 0..MaxCredit
        /\ stream[p][i].asked \in Nat
    BY <1>2 DEF Stream
  <1>4. Underway(p, "DEMAND", i) \in Nat /\ Underway(p, "DATA", i) \in Nat
    BY LaneFacts
  <1>5. /\ Other(p) \in Peer /\ Other(p) # p /\ Other(Other(p)) = p
        /\ \A q \in Peer : q = p \/ q = Other(p)
    BY DEF Other, Peer
  <1> QED  BY <1>1, <1>2, <1>3, <1>4, <1>5

LEMMA CreditPassive ==
  ASSUME TypeInv, TypeInv', NEW i \in StreamId, Credit(i), Onward(i), Passive(i)
  PROVE  Credit(i)'
  <1> SUFFICES ASSUME NEW q \in Peer PROVE Covered(q, i)' /\ Balance(q, i)' /\ Ledger(q, i)'
    BY DEF Credit
  <1>1. Covered(q, i) /\ Balance(q, i) /\ Ledger(q, i) /\ Other(q) \in Peer
    BY PeerFacts DEF Credit
  <1>2. Covered(q, i)'
    BY <1>1 DEF Covered, Passive, Onward
  <1>3. ASSUME Joined(i)' PROVE Due(q, i)' = Due(q, i)
    BY <1>1, <1>3 DEF Due, Passive, Steady, Credited
  <1>4. Balance(q, i)'
    BY <1>1, <1>3 DEF Balance, Passive, Onward
  <1>5. Ledger(q, i)'
    <2> DEFINE o == Other(q)
    <2>1. /\ o \in Peer /\ stream[o][i].outCredit \in Nat /\ stream[q][i].asked \in Nat
          /\ Underway(q, "DEMAND", i) \in Nat /\ Underway(o, "DATA", i) \in Nat
      BY <1>1, CreditNumbers
    <2>2. /\ stream'[q][i].asked = stream[q][i].asked
          /\ stream'[o][i].outCredit \in {stream[o][i].outCredit, 0}
          /\ Underway(q, "DEMAND", i)' <= Underway(q, "DEMAND", i)
          /\ Underway(o, "DATA", i)' <= Underway(o, "DATA", i)
      BY <2>1 DEF Passive, Fading, Credited
    <2>3. /\ Due(q, i) = stream[o][i].outCredit + Underway(q, "DEMAND", i) + Underway(o, "DATA", i)
          /\ Due(q, i)' = stream'[o][i].outCredit + Underway(q, "DEMAND", i)'
                            + Underway(o, "DATA", i)'
      BY DEF Due, o
    <2>4. Underway(q, "DEMAND", i)' \in Nat /\ Underway(o, "DATA", i)' \in Nat
      <3>1. UnderwayNat'
        BY LaterNat
      <3>2. UnderwayNat' => \A r \in Peer : \A kind, k : Underway(r, kind, k)' \in Nat
        BY DEF UnderwayNat
      <3> QED  BY <2>1, <3>1, <3>2
    <2> HIDE DEF o
    <2> QED  BY <1>1, <2>1, <2>2, <2>3, <2>4 DEF Ledger
  <1> QED  BY <1>2, <1>4, <1>5

\* What the other peer expects when p has moved.
LEMMA CreditAsks ==
  ASSUME TypeInv, NEW p \in Peer, NEW i \in StreamId, NEW n \in Nat, Credit(i), Onward(i),
         Asks(p, i, n)
  PROVE  Credit(i)'
  <1> DEFINE o == Other(p)
  <1>1. /\ o \in Peer /\ o # p /\ Other(o) = p /\ \A q \in Peer : q = p \/ q = o
    BY CreditNumbers
  <1>2. /\ stream[p][i].inCredit \in Nat /\ stream[p][i].asked \in Nat /\ MaxCredit \in Nat
        /\ stream[o][i].outCredit \in Nat /\ stream[p][i].inCredit <= MaxCredit
        /\ Underway(p, "DEMAND", i) \in Nat /\ Underway(o, "DATA", i) \in Nat
    BY <1>1, CreditNumbers
  <1>3. /\ Covered(p, i) /\ Balance(p, i) /\ Covered(o, i) /\ Balance(o, i)
        /\ Ledger(p, i) /\ Ledger(o, i)
    BY <1>1 DEF Credit
  <1>4. SameCredit(stream[o][i], stream'[o][i])
    BY <1>1 DEF Asks, Beside
  <1>5. /\ Underway(p, "DEMAND", i)' = Underway(p, "DEMAND", i) + n
        /\ Underway(o, "DEMAND", i)' = Underway(o, "DEMAND", i)
        /\ Underway(o, "DATA", i)' = Underway(o, "DATA", i)
        /\ Underway(p, "DATA", i)' = Underway(p, "DATA", i)
    BY <1>1 DEF Asks, Shifted, Credited
  <1>6. /\ stream'[p][i].inCredit = AddCredit(stream[p][i].inCredit, n) /\ IsPast(p, i)'
        /\ stream'[p][i].asked = stream[p][i].asked + n
        /\ stream'[p][i].outCredit = stream[p][i].outCredit
    BY DEF Asks, Onward
  <1> HIDE DEF o
  <1>7. Due(p, i)' = Due(p, i) + n /\ Due(o, i)' = Due(o, i) /\ Due(p, i) \in Nat
    <2>1. /\ Due(p, i) = stream[o][i].outCredit + Underway(p, "DEMAND", i) + Underway(o, "DATA", i)
          /\ Due(o, i) = stream[p][i].outCredit + Underway(o, "DEMAND", i) + Underway(p, "DATA", i)
      BY <1>1 DEF Due, o
    <2>2. /\ Due(p, i)' = stream'[o][i].outCredit + Underway(p, "DEMAND", i)'
                            + Underway(o, "DATA", i)'
          /\ Due(o, i)' = stream'[p][i].outCredit + Underway(o, "DEMAND", i)'
                            + Underway(p, "DATA", i)'
      BY <1>1 DEF Due, o
    <2> QED  BY <1>2, <1>4, <1>5, <1>6, <2>1, <2>2 DEF SameCredit
  <1>8. Covered(p, i)' /\ Covered(o, i)'
    <2>1. Covered(p, i)'
      BY <1>2, <1>3, <1>6 DEF Covered, AddCredit
    <2>2. Covered(o, i)'
      BY <1>1, <1>3, <1>4 DEF Covered, SameCredit, Onward
    <2> QED  BY <2>1, <2>2
  <1>9. Balance(p, i)'
    <2> SUFFICES ASSUME Joined(i)'
                 PROVE  /\ stream'[p][i].inCredit <= Due(p, i)'
                        /\ stream'[p][i].asked <= MaxCredit => stream'[p][i].inCredit = Due(p, i)'
      BY DEF Balance
    <2>1. /\ stream[p][i].inCredit <= Due(p, i)
          /\ stream[p][i].asked <= MaxCredit => stream[p][i].inCredit = Due(p, i)
      BY <1>3 DEF Balance, Onward
    <2>2. stream[p][i].inCredit <= stream[p][i].asked
      BY <1>3 DEF Covered
    <2> QED  BY <1>2, <1>6, <1>7, <2>1, <2>2 DEF AddCredit
  <1>10. Balance(o, i)'
    BY <1>3, <1>4, <1>7 DEF Balance, SameCredit, Onward
  <1>11. Ledger(p, i)' /\ Ledger(o, i)'
    BY <1>2, <1>3, <1>4, <1>6, <1>7 DEF Ledger, SameCredit
  <1> QED  BY <1>1, <1>8, <1>9, <1>10, <1>11 DEF Credit

LEMMA CreditSends ==
  ASSUME TypeInv, NEW p \in Peer, NEW i \in StreamId, Credit(i), Onward(i), Sends(p, i)
  PROVE  Credit(i)'
  <1> DEFINE o == Other(p)
  <1>1. /\ o \in Peer /\ o # p /\ Other(o) = p /\ \A q \in Peer : q = p \/ q = o
    BY CreditNumbers
  <1>2. /\ stream[p][i].outCredit \in Nat
        /\ Underway(o, "DEMAND", i) \in Nat /\ Underway(p, "DATA", i) \in Nat
    BY <1>1, CreditNumbers
  <1>3. /\ Covered(p, i) /\ Balance(p, i) /\ Covered(o, i) /\ Balance(o, i)
        /\ Ledger(p, i) /\ Ledger(o, i)
    BY <1>1 DEF Credit
  <1>4. SameCredit(stream[o][i], stream'[o][i])
    BY <1>1 DEF Sends, Beside
  <1>5. /\ Underway(p, "DEMAND", i)' = Underway(p, "DEMAND", i)
        /\ Underway(o, "DEMAND", i)' = Underway(o, "DEMAND", i)
        /\ Underway(o, "DATA", i)' = Underway(o, "DATA", i)
        /\ Underway(p, "DATA", i)' = Underway(p, "DATA", i) + 1
    BY <1>1 DEF Sends, Shifted, Credited
  <1>6. /\ stream'[p][i].inCredit = stream[p][i].inCredit /\ IsPast(p, i)'
        /\ stream'[p][i].asked = stream[p][i].asked
        /\ stream'[p][i].outCredit = stream[p][i].outCredit - 1
    BY DEF Sends, Onward
  <1> HIDE DEF o
  <1>7. Due(p, i)' = Due(p, i) /\ Due(o, i)' = Due(o, i)
    <2>1. /\ Due(p, i)' = stream'[o][i].outCredit + Underway(p, "DEMAND", i)'
                            + Underway(o, "DATA", i)'
          /\ Due(o, i)' = stream'[p][i].outCredit + Underway(o, "DEMAND", i)'
                            + Underway(p, "DATA", i)'
      BY <1>1 DEF Due, o
    <2>2. /\ Due(p, i) = stream[o][i].outCredit + Underway(p, "DEMAND", i) + Underway(o, "DATA", i)
          /\ Due(o, i) = stream[p][i].outCredit + Underway(o, "DEMAND", i) + Underway(p, "DATA", i)
      BY <1>1 DEF Due, o
    <2> QED  BY <1>2, <1>4, <1>5, <1>6, <2>1, <2>2 DEF SameCredit
  <1>8. Covered(p, i)' /\ Covered(o, i)'
    BY <1>1, <1>3, <1>4, <1>6 DEF Covered, SameCredit, Onward
  <1>9. Balance(p, i)' /\ Balance(o, i)'
    BY <1>3, <1>4, <1>6, <1>7 DEF Balance, SameCredit, Onward
  <1>10. Ledger(p, i)' /\ Ledger(o, i)'
    BY <1>3, <1>4, <1>6, <1>7 DEF Ledger, SameCredit
  <1> QED  BY <1>1, <1>8, <1>9, <1>10 DEF Credit

LEMMA CreditGranted ==
  ASSUME TypeInv, NEW p \in Peer, NEW i \in StreamId, NEW n \in Nat, Credit(i), Onward(i),
         Granted(p, i, n)
  PROVE  Credit(i)'
  <1> DEFINE o == Other(p)
  <1>1. /\ o \in Peer /\ o # p /\ Other(o) = p /\ \A q \in Peer : q = p \/ q = o
    BY CreditNumbers
  <1>2. /\ stream[p][i].outCredit \in Nat /\ stream[o][i].inCredit \in Nat
        /\ stream[o][i].asked \in Nat /\ stream[o][i].inCredit <= MaxCredit /\ MaxCredit \in Nat
        /\ Underway(o, "DEMAND", i) \in Nat /\ Underway(p, "DATA", i) \in Nat
    BY <1>1, CreditNumbers
  <1>3. /\ Covered(p, i) /\ Balance(p, i) /\ Covered(o, i) /\ Balance(o, i)
        /\ Ledger(p, i) /\ Ledger(o, i)
    BY <1>1 DEF Credit
  <1>4. SameCredit(stream[o][i], stream'[o][i])
    BY <1>1 DEF Granted, Beside
  <1>5. /\ Underway(p, "DEMAND", i)' = Underway(p, "DEMAND", i)
        /\ Underway(o, "DEMAND", i)' = Underway(o, "DEMAND", i) - n
        /\ Underway(o, "DEMAND", i)' \in Nat
        /\ Underway(o, "DATA", i)' = Underway(o, "DATA", i)
        /\ Underway(p, "DATA", i)' = Underway(p, "DATA", i)
    BY <1>1, <1>2 DEF Granted, Shifted, Credited
  <1>6. /\ stream'[p][i].inCredit = stream[p][i].inCredit
        /\ stream'[p][i].asked = stream[p][i].asked
        /\ stream'[p][i].outCredit = AddCredit(stream[p][i].outCredit, n)
        /\ IsPast(p, i) \/ i \in Own(p)
    BY DEF Granted
  <1> HIDE DEF o
  <1>7. /\ Due(p, i)' = Due(p, i)
        /\ Due(o, i) = stream[p][i].outCredit + Underway(o, "DEMAND", i) + Underway(p, "DATA", i)
        /\ Due(o, i)' = AddCredit(stream[p][i].outCredit, n) + (Underway(o, "DEMAND", i) - n)
                          + Underway(p, "DATA", i)
    <2>1. /\ Due(p, i)' = stream'[o][i].outCredit + Underway(p, "DEMAND", i)'
                            + Underway(o, "DATA", i)'
          /\ Due(o, i)' = stream'[p][i].outCredit + Underway(o, "DEMAND", i)'
                            + Underway(p, "DATA", i)'
      BY <1>1 DEF Due, o
    <2>2. /\ Due(p, i) = stream[o][i].outCredit + Underway(p, "DEMAND", i) + Underway(o, "DATA", i)
          /\ Due(o, i) = stream[p][i].outCredit + Underway(o, "DEMAND", i) + Underway(p, "DATA", i)
      BY <1>1 DEF Due, o
    <2> QED  BY <1>4, <1>5, <1>6, <2>1, <2>2 DEF SameCredit
  <1>8. Covered(p, i)' /\ Covered(o, i)'
    BY <1>1, <1>3, <1>4, <1>6 DEF Covered, SameCredit, Onward
  <1>9. Balance(p, i)'
    BY <1>3, <1>6, <1>7 DEF Balance, Onward
  <1>10. Balance(o, i)'
    <2> SUFFICES ASSUME Joined(i)'
                 PROVE  /\ stream'[o][i].inCredit <= Due(o, i)'
                        /\ stream'[o][i].asked <= MaxCredit => stream'[o][i].inCredit = Due(o, i)'
      BY DEF Balance
    <2>1. /\ stream[o][i].inCredit <= Due(o, i)
          /\ stream[o][i].asked <= MaxCredit => stream[o][i].inCredit = Due(o, i)
      BY <1>3 DEF Balance, Onward
    <2>2. stream[o][i].inCredit <= stream[o][i].asked
      BY <1>3 DEF Covered
    <2>3. stream'[o][i].inCredit = stream[o][i].inCredit /\ stream'[o][i].asked = stream[o][i].asked
      BY <1>4 DEF SameCredit
    <2>4. n <= Underway(o, "DEMAND", i)
      BY <1>2, <1>5
    <2>5. CASE stream[p][i].outCredit + n <= MaxCredit
      <3>1. AddCredit(stream[p][i].outCredit, n) = stream[p][i].outCredit + n
        BY <1>2, <2>5 DEF AddCredit
      <3>2. Due(o, i)' = Due(o, i)
        BY <1>2, <1>7, <3>1
      <3> QED  BY <2>1, <2>3, <3>2
    <2>6. CASE stream[p][i].outCredit + n > MaxCredit
      <3>1. AddCredit(stream[p][i].outCredit, n) = MaxCredit
        BY <1>2, <2>6 DEF AddCredit
      <3>2. MaxCredit <= Due(o, i)' /\ MaxCredit < Due(o, i) /\ Due(o, i) \in Nat
        BY <1>2, <1>7, <2>4, <2>6, <3>1
      <3>3. Due(o, i)' \in Nat
        BY <1>2, <1>7, <2>4, <3>1
      <3> QED  BY <1>2, <2>1, <2>2, <2>3, <3>2, <3>3
    <2> QED  BY <1>2, <2>5, <2>6
  <1>11. Ledger(p, i)' /\ Ledger(o, i)'
    <2>1. Ledger(p, i)'
      BY <1>3, <1>6, <1>7 DEF Ledger
    <2>2. Due(o, i)' <= Due(o, i)
      BY <1>2, <1>7 DEF AddCredit
    <2>3. Due(o, i) \in Nat /\ Due(o, i)' \in Nat
      BY <1>2, <1>5, <1>7 DEF AddCredit
    <2> QED  BY <1>2, <1>3, <1>4, <2>1, <2>2, <2>3 DEF Ledger, SameCredit
  <1> QED  BY <1>1, <1>8, <1>9, <1>10, <1>11 DEF Credit

LEMMA CreditGets ==
  ASSUME TypeInv, NEW p \in Peer, NEW i \in StreamId, Credit(i), Onward(i), Gets(p, i)
  PROVE  Credit(i)'
  <1> DEFINE o == Other(p)
  <1>1. /\ o \in Peer /\ o # p /\ Other(o) = p /\ \A q \in Peer : q = p \/ q = o
    BY CreditNumbers
  <1>2. /\ stream[p][i].inCredit \in Nat /\ stream[p][i].asked \in Nat
        /\ stream[o][i].outCredit \in Nat /\ MaxCredit \in Nat
        /\ Underway(p, "DEMAND", i) \in Nat /\ Underway(o, "DATA", i) \in Nat
    BY <1>1, CreditNumbers
  <1>3. /\ Covered(p, i) /\ Balance(p, i) /\ Covered(o, i) /\ Balance(o, i)
        /\ Ledger(p, i) /\ Ledger(o, i)
    BY <1>1 DEF Credit
  <1>4. SameCredit(stream[o][i], stream'[o][i])
    BY <1>1 DEF Gets, Beside
  <1>5. /\ Underway(p, "DEMAND", i)' = Underway(p, "DEMAND", i)
        /\ Underway(o, "DEMAND", i)' = Underway(o, "DEMAND", i)
        /\ Underway(o, "DATA", i)' = Underway(o, "DATA", i) - 1
        /\ Underway(p, "DATA", i)' = Underway(p, "DATA", i)
    BY <1>1, <1>2 DEF Gets, Shifted, Credited
  <1>6. /\ stream'[p][i].inCredit = stream[p][i].inCredit - 1 /\ IsPast(p, i)'
        /\ stream'[p][i].asked = stream[p][i].asked
        /\ stream'[p][i].outCredit = stream[p][i].outCredit
    BY DEF Gets, Onward
  <1> HIDE DEF o
  <1>7. Due(p, i)' = Due(p, i) - 1 /\ Due(o, i)' = Due(o, i) /\ Due(p, i) \in Nat
    <2>1. /\ Due(p, i)' = stream'[o][i].outCredit + Underway(p, "DEMAND", i)'
                            + Underway(o, "DATA", i)'
          /\ Due(o, i)' = stream'[p][i].outCredit + Underway(o, "DEMAND", i)'
                            + Underway(p, "DATA", i)'
      BY <1>1 DEF Due, o
    <2>2. /\ Due(p, i) = stream[o][i].outCredit + Underway(p, "DEMAND", i) + Underway(o, "DATA", i)
          /\ Due(o, i) = stream[p][i].outCredit + Underway(o, "DEMAND", i) + Underway(p, "DATA", i)
      BY <1>1 DEF Due, o
    <2> QED  BY <1>2, <1>4, <1>5, <1>6, <2>1, <2>2 DEF SameCredit
  <1>8. Covered(p, i)' /\ Covered(o, i)'
    <2>1. Covered(p, i)'
      BY <1>2, <1>3, <1>6 DEF Covered
    <2>2. Covered(o, i)'
      BY <1>1, <1>3, <1>4 DEF Covered, SameCredit, Onward
    <2> QED  BY <2>1, <2>2
  <1>9. Balance(p, i)'
    BY <1>2, <1>3, <1>6, <1>7 DEF Balance, Onward
  <1>10. Balance(o, i)'
    BY <1>3, <1>4, <1>7 DEF Balance, SameCredit, Onward
  <1>11. Ledger(p, i)' /\ Ledger(o, i)'
    <2>1. Ledger(p, i)'
      BY <1>2, <1>3, <1>6, <1>7 DEF Ledger
    <2>2. Ledger(o, i)'
      BY <1>3, <1>4, <1>7 DEF Ledger, SameCredit
    <2> QED  BY <2>1, <2>2
  <1> QED  BY <1>1, <1>8, <1>9, <1>10, <1>11 DEF Credit

-----------------------------------------------------------------------------
(* The steps that move nothing                                             *)

\* What is underway from q of stream i, which grows no more and stays while the
\* stream is joined; and what a peer holds of its credit.
Held(q, i) == \A kind \in Credited :
  /\ Underway(q, kind, i)' <= Underway(q, kind, i)
  /\ Joined(i)' => Underway(q, kind, i)' = Underway(q, kind, i)
CreditKept(p, i) ==
  /\ \A q \in Peer \ {p} : stream'[q][i] = stream[q][i]
  /\ stream'[p][i].inCredit = stream[p][i].inCredit
  /\ stream'[p][i].asked = stream[p][i].asked
  /\ stream'[p][i].outCredit \in {stream[p][i].outCredit, 0}
  /\ Joined(i)' => stream'[p][i].outCredit = stream[p][i].outCredit

LEMMA PassiveBy ==
  ASSUME NEW p \in Peer, NEW i \in StreamId, Held(p, i), Held(Other(p), i), CreditKept(p, i)
  PROVE  Passive(i)
  <1>1. \A q \in Peer : q = p \/ q = Other(p)
    BY DEF Peer, Other
  <1>2. /\ stream'[p][i].inCredit = stream[p][i].inCredit
        /\ stream'[p][i].asked = stream[p][i].asked
        /\ stream'[p][i].outCredit \in {stream[p][i].outCredit, 0}
        /\ Joined(i)' => stream'[p][i].outCredit = stream[p][i].outCredit
    BY DEF CreditKept
  <1>3. \A q \in Peer \ {p} : stream'[q][i] = stream[q][i]
    BY DEF CreditKept
  <1>4. Fading(i) /\ (Joined(i)' => Steady(i))
    BY <1>1 DEF Fading, Steady, Held
  <1> QED  BY <1>2, <1>3, <1>4 DEF Passive

\* The queue of q.
LEMMA HeldSame ==
  ASSUME TypeInv, NEW q \in Peer, jobs'[q] = jobs[q], wire'[q] = wire[q],
         \/ written'[q] = written[q] /\ flying'[q] = flying[q]
         \/ Skip(q)' = Skip(q),
         NEW i
  PROVE  Held(q, i)
  <1>1. \A kind : Underway(q, kind, i)' = Underway(q, kind, i)
    BY UnderwayStill
  <1>2. \A kind : Underway(q, kind, i) \in Nat
    BY LaneFacts
  <1> QED  BY <1>1, <1>2 DEF Held

LEMMA HeldQueued ==
  ASSUME TypeInv, NEW q \in Peer, NEW job \in Job, Queue(q, job),
         UNCHANGED <<written, flying>>, wire'[q] = wire[q],
         NEW i, \A kind \in Credited : Counts(job, kind, i) = 0
  PROVE  Held(q, i)
  <1>1. \A kind : Underway(q, kind, i)' = Underway(q, kind, i) + Counts(job, kind, i)
    BY UnderwayQueued
  <1>2. \A kind : Underway(q, kind, i) \in Nat
    BY LaneFacts
  <1> QED  BY <1>1, <1>2 DEF Held

LEMMA HeldShorter ==
  ASSUME TypeInv, NEW q \in Peer, jobs[q] # <<>>, jobs' = [jobs EXCEPT ![q] = Tail(@)],
         written'[q] = 0, ~flying'[q], wire'[q] = wire[q], NEW i,
         \/ Skip(q) = 1
         \/ \A kind \in Credited : Counts(Head(jobs[q]), kind, i) = 0
         \/ ~Joined(i)'
  PROVE  Held(q, i)
  <1>1. CASE Skip(q) = 1 \/ \A kind \in Credited : Counts(Head(jobs[q]), kind, i) = 0
    <2>1. ASSUME NEW kind \in Credited PROVE Underway(q, kind, i)' = Underway(q, kind, i)
      BY <1>1, UnderwayShorter
    <2>2. \A kind : Underway(q, kind, i) \in Nat
      BY LaneFacts
    <2> QED  BY <2>1, <2>2 DEF Held
  <1>2. CASE Skip(q) # 1 /\ ~Joined(i)'
    <2> SUFFICES ASSUME NEW kind PROVE Underway(q, kind, i)' <= Underway(q, kind, i)
      BY <1>2 DEF Held
    <2>1. jobs'[q] = Tail(jobs[q]) /\ Skip(q)' = 0
      BY DEF Skip, TypeInv, TypeOK, WriterType
    <2>2. /\ jobs[q] \in Seq(Job) /\ Skip(q) = 0 /\ 1 \in Nat
          /\ \A y \in Job : Units(y) \in Nat
      BY <1>2, LaneFacts, UnitsNat
    <2>3. Amount(Tail(jobs[q]), 0, kind, i) = Amount(jobs[q], 1, kind, i)
      BY <2>2, AmountTail
    <2>4. Amount(jobs[q], 0, kind, i)
            = Amount(jobs[q], 1, kind, i) + Counts(Head(jobs[q]), kind, i)
      BY <2>2, AmountTail
    <2>5. Amount(jobs[q], 1, kind, i) \in Nat /\ Amount(wire[q], 0, kind, i) \in Nat
      BY <2>2, WorthNat, LaneFacts
    <2>6. Counts(Head(jobs[q]), kind, i) \in Nat
      <3>1. Head(jobs[q]) \in Job
        BY FirstJob DEF TypeInv, TypeOK
      <3> QED  BY <2>2, <3>1 DEF Counts
    <2>7. Underway(q, kind, i)' = Amount(jobs'[q], Skip(q)', kind, i) + Amount(wire'[q], 0, kind, i)
      BY DEF Underway
    <2> QED  BY <2>1, <2>2, <2>3, <2>4, <2>5, <2>6, <2>7 DEF Underway
  <1> QED  BY <1>1, <1>2

LEMMA HeldAgain ==
  ASSUME TypeInv, NEW q \in Peer, jobs[q] # <<>>, NEW job \in Job,
         jobs' = [jobs EXCEPT ![q] = Append(Tail(@), job)], wire'[q] = wire[q],
         written'[q] = 0, ~flying'[q], Skip(q) = 0, NEW i,
         \A kind \in Credited : Counts(Head(jobs[q]), kind, i) = 0 /\ Counts(job, kind, i) = 0
  PROVE  Held(q, i)
  <1>1. ASSUME NEW kind \in Credited PROVE Underway(q, kind, i)' = Underway(q, kind, i)
    BY UnderwayAgain
  <1>2. \A kind : Underway(q, kind, i) \in Nat
    BY LaneFacts
  <1> QED  BY <1>1, <1>2 DEF Held

LEMMA HeldNone ==
  ASSUME TypeInv, NEW q \in Peer, jobs'[q] = <<>>, wire'[q] = wire[q], NEW i, ~Joined(i)'
  PROVE  Held(q, i)
  <1> SUFFICES ASSUME NEW kind PROVE Underway(q, kind, i)' <= Underway(q, kind, i)
    BY DEF Held
  <1>1. /\ Amount(jobs[q], Skip(q), kind, i) \in Nat /\ Amount(wire[q], 0, kind, i) \in Nat
    BY LaneFacts
  <1>2. Amount(<<>>, Skip(q)', kind, i) = 0
    BY AmountEmpty
  <1>3. Underway(q, kind, i)' = Amount(jobs'[q], Skip(q)', kind, i) + Amount(wire'[q], 0, kind, i)
    BY DEF Underway
  <1> QED  BY <1>1, <1>2, <1>3 DEF Underway

LEMMA HeldWritten ==
  ASSUME TypeInv, NEW q \in Peer, WriteFrame(q), NEW i
  PROVE  Held(q, i)
  <1>1. ASSUME NEW kind \in Credited PROVE Underway(q, kind, i)' = Underway(q, kind, i)
    BY UnderwayWritten
  <1>2. \A kind : Underway(q, kind, i) \in Nat
    BY LaneFacts
  <1> QED  BY <1>1, <1>2 DEF Held

\* A frame of stream i has been read that counts for nothing, or not any more.
Spent(p, i) == \A kind \in Credited : Joined(i)' => Counts(Incoming(p), kind, i) = 0

LEMMA HeldRead ==
  ASSUME TypeInv, NEW p \in Peer, NEW i,
         \/ Stays \/ Drops(p) \/ FragmentWritten(p) \/ Finishes(p) \/ Receives(p) \/ EndsLane(p),
         \A q \in Peer \ {p} : jobs'[q] = jobs[q], UNCHANGED wire \/ Spent(p, i)
  PROVE  Held(Other(p), i) /\ wire'[p] = wire[p]
  <1> DEFINE o == Other(p)
  <1>1. o \in Peer /\ o # p
    BY PeerFacts DEF Other, Peer
  <1>2. /\ jobs'[o] = jobs[o] /\ written'[o] = written[o] /\ flying'[o] = flying[o]
        /\ \/ UNCHANGED wire
           \/ wire[o] # <<>> /\ wire' = [wire EXCEPT ![o] = Tail(@)]
    BY <1>1, LaneRests
  <1>3. wire'[p] = wire[p]
    BY <1>1, <1>2 DEF TypeInv, TypeOK, ReaderType
  <1>4. CASE UNCHANGED wire
    <2>1. wire'[o] = wire[o]
      BY <1>4
    <2> HIDE DEF o
    <2> QED  BY <1>1, <1>2, <1>3, <2>1, HeldSame DEF o
  <1>5. CASE ~UNCHANGED wire
    <2>1. wire[o] # <<>> /\ wire'[o] = Tail(wire[o]) /\ Spent(p, i)
      BY <1>1, <1>2, <1>5 DEF TypeInv, TypeOK, ReaderType
    <2>2. Incoming(p) = Head(wire[o])
      BY DEF Incoming
    <2> HIDE DEF o
    <2>3. \A kind : /\ Underway(o, kind, i) = Underway(o, kind, i)' + Counts(Head(wire[o]), kind, i)
                    /\ Underway(o, kind, i)' \in Nat /\ Counts(Head(wire[o]), kind, i) \in Nat
      BY <1>1, <1>2, <2>1, UnderwayRead
    <2>4. Held(o, i)
      BY <2>1, <2>2, <2>3 DEF Held, Spent
    <2> QED  BY <1>3, <2>4 DEF o
  <1> QED  BY <1>4, <1>5

\* The credit p holds.
LEMMA KeptStill ==
  ASSUME UNCHANGED stream, NEW p, NEW i
  PROVE  CreditKept(p, i)
  BY DEF CreditKept

LEMMA KeptAt ==
  ASSUME TypeInv, NEW p \in Peer, NEW k \in StreamId, NEW t,
         stream' = [stream EXCEPT ![p][k] = t], SameCredit(stream[p][k], t), NEW i \in StreamId
  PROVE  CreditKept(p, i)
  <1>1. stream'[p][k] = t /\ \A m \in StreamId \ {k} : stream'[p][m] = stream[p][m]
    BY ChangedStream
  <1>2. \A q \in Peer \ {p} : stream'[q] = stream[q]
    BY DEF TypeInv, TypeOK, TableType
  <1>3. CASE i = k
    BY <1>1, <1>2, <1>3 DEF CreditKept, SameCredit
  <1>4. CASE i # k
    BY <1>1, <1>2, <1>4 DEF CreditKept
  <1> QED  BY <1>3, <1>4

\* A stream that is entered under a new id has no credit anywhere.
LEMMA KeptFresh ==
  ASSUME CreditInv, NEW p \in Peer, NEW k \in StreamId, ~IsPast(p, k), NEW t,
         stream' = [stream EXCEPT ![p][k] = t],
         t.inCredit = 0, t.outCredit = 0, t.asked = 0, NEW i \in StreamId,
         i = k => (Joined(i)' => stream[p][i].outCredit = 0)
  PROVE  CreditKept(p, i)
  <1>0. TypeInv /\ TableInv /\ Covered(p, k) /\ Credit(i)
    BY DEF CreditInv, Credit, FrontierInv
  <1>1. stream'[p][k] = t /\ \A m \in StreamId \ {k} : stream'[p][m] = stream[p][m]
    BY <1>0, ChangedStream
  <1>2. \A q \in Peer \ {p} : stream'[q] = stream[q]
    BY <1>0 DEF TypeInv, TypeOK, TableType
  <1>3. stream[p][k].inCredit = 0 /\ stream[p][k].asked = 0
    BY <1>0, SoundOf DEF Covered, Untouched
  <1>4. CASE i = k
    BY <1>1, <1>2, <1>3, <1>4 DEF CreditKept
  <1>5. CASE i # k
    BY <1>1, <1>2, <1>5 DEF CreditKept
  <1> QED  BY <1>4, <1>5

\* Nothing is granted on an id that its owner has not used, unless its OPEN is
\* with the lane.
LEMMA NextUnused ==
  ASSUME CreditInv, NEW p \in Peer, BothReady, ~opening[p], nextId[p] \in StreamId
  PROVE  ~IsPast(Other(p), nextId[p])
  <1> DEFINE o == Other(p)
  <1>1. o \in Peer /\ o # p /\ TypeInv /\ IdInv
    BY PeerFacts DEF Other, Peer, CreditInv, TableInv, IdInv
  <1>2. ~OpenBegun(p)
    <2>1. OpenAt(jobs[p]) = {}
      BY <1>1 DEF IdInv, OneOpen
    <2>2. ASSUME OpenBegun(p) PROVE FALSE
      <3>1. jobs[p] # <<>> /\ Head(jobs[p]).kind = "OPEN" /\ jobs[p] \in Seq(Job)
        BY <1>1, <2>2 DEF OpenBegun, TypeInv, WritesFirst, TypeOK, WriterType
      <3>2. 1 \in DOMAIN jobs[p] /\ jobs[p][1].kind = "OPEN"
        BY <3>1
      <3> QED  BY <2>1, <3>2 DEF OpenAt
    <2> QED  BY <2>2
  <1>3. nextId[p] = ExpectedId(o) + 2 * Cardinality(OpenAt(wire[p]))
    <2>1. Frontier(p) /\ nextId[p] \in Nat
      BY <1>1 DEF CreditInv, FrontierInv, TypeInv, TypeOK, IdType
    <2> QED  BY <1>1, <1>2, <2>1 DEF Frontier, BothReady
  <1>4. Cardinality(OpenAt(wire[p])) \in Nat
    <2>1. wire[p] \in Seq(Frame)
      BY <1>1 DEF TypeInv, TypeOK, ReaderType
    <2>2. IsFiniteSet(OpenAt(wire[p]))
      BY <2>1, OpensFinite
    <2> QED  BY <2>2, FS_CardinalityType
  <1>5. highestRemote[o] \in Nat /\ highestRemote[o] < ExpectedId(o) /\ ExpectedId(o) \in Nat
    BY <1>1 DEF TypeInv, TypeOK, IdType, ExpectedId
  <1>6. nextId[p] \notin Own(o)
    <2>1. nextId[p] \in Own(p)
      BY <1>1, NextIdFresh
    <2> QED  BY <1>1, <2>1 DEF Own, Peer
  <1>7. nextId[p] \in Nat
    BY <1>1 DEF TypeInv, TypeOK, IdType
  <1> HIDE DEF o
  <1>8. highestRemote[o] < nextId[p]
    BY <1>3, <1>4, <1>5, <1>7
  <1>9. ~IsPast(o, nextId[p])
    BY <1>5, <1>6, <1>7, <1>8 DEF IsPast
  <1> QED  BY <1>9 DEF o

LEMMA PassiveOpen ==
  ASSUME CreditInv, Next, NEW p \in Peer, Open(p), NEW i \in StreamId
  PROVE  Passive(i)
  <1> DEFINE k == nextId[p]
  <1>1. PICK w \in Weights, fits \in Encodable :
          /\ stream' = [stream EXCEPT ![p][k] = NewStream(w)]
          /\ Queue(p, [Plain("OPEN", k) EXCEPT !.amount = w, !.fits = fits])
    BY DEF Open
  <1>2. /\ TypeInv /\ IdInv /\ k \in StreamId /\ ~opening[p] /\ UNCHANGED <<written, flying, wire>>
        /\ TableInv
    BY DEF Open, CreditInv, TableInv, IdInv, readerVars
  <1> DEFINE t == NewStream(w)
             job == [Plain("OPEN", k) EXCEPT !.amount = w, !.fits = fits]
  <1>3. t.inCredit = 0 /\ t.outCredit = 0 /\ t.asked = 0 /\ stream' = [stream EXCEPT ![p][k] = t]
    BY <1>1 DEF NewStream
  <1>4. job \in Job /\ Queue(p, job) /\ job.kind = "OPEN"
    <2>1. job \in Job
      BY <1>2, PlainType, JobChanges, CallsAssumption DEF JobKind
    <2> QED  BY <1>1, <2>1 DEF Plain
  <1>5. ~IsPast(p, k)
    BY <1>2, NextIdFresh
  <1>6. ASSUME i = k, Joined(i)' PROVE stream[p][i].outCredit = 0
    <2> DEFINE o == Other(p)
    <2>1. o \in Peer /\ Other(o) = p
      BY CreditNumbers, <1>2
    <2>2. BothReady
      BY <1>2, <1>6, NextOnward DEF Onward, Joined
    <2>3. ~IsPast(o, i)
      BY <1>2, <1>6, <2>2, NextUnused
    <2>4. Covered(o, i) /\ Ledger(o, i)
      BY <2>1 DEF CreditInv, Credit
    <2>5. stream[o][i].asked = 0
      BY <2>3, <2>4 DEF Covered
    <2>6. /\ Due(o, i) <= 0
          /\ Due(o, i) = stream[p][i].outCredit + Underway(o, "DEMAND", i) + Underway(p, "DATA", i)
      BY <2>1, <2>4, <2>5 DEF Ledger, Due
    <2>7. stream[p][i].outCredit \in Nat /\ Underway(o, "DEMAND", i) \in Nat /\ Underway(p, "DATA", i) \in Nat
      BY <1>2, <2>1, CreditNumbers
    <2> HIDE DEF o
    <2> QED  BY <2>6, <2>7
  <1> HIDE DEF t, job, k
  <1>7. CreditKept(p, i)
    BY <1>2, <1>3, <1>5, <1>6, KeptFresh
  <1>8. Held(p, i)
    BY <1>2, <1>4, HeldQueued DEF Counts, Credited
  <1>9. Held(Other(p), i)
    <2>1. Stays
      BY <1>2, SessionStays
    <2>2. \A q \in Peer \ {p} : jobs'[q] = jobs[q]
      BY <1>2, <1>4 DEF Queue, TypeInv, TypeOK, WriterType
    <2> QED  BY <1>2, <2>1, <2>2, HeldRead
  <1> QED  BY <1>7, <1>8, <1>9, PassiveBy

LEMMA HeldRefused ==
  ASSUME TypeInv, NEW p \in Peer, NEW k \in StreamId, Refuse(p, k), UNCHANGED <<written, flying>>,
         wire'[p] = wire[p], NEW i
  PROVE  Held(p, i)
  <1>1. PICK fits \in Encodable :
          Queue(p, [Plain("ERROR", k) EXCEPT !.fits = fits, !.reader = TRUE])
    BY DEF Refuse
  <1> DEFINE job == [Plain("ERROR", k) EXCEPT !.fits = fits, !.reader = TRUE]
  <1>2. job \in Job /\ Queue(p, job) /\ job.kind = "ERROR"
    <2>1. job \in Job
      BY PlainType, JobChanges, CallsAssumption DEF JobKind
    <2> QED  BY <1>1, <2>1 DEF Plain
  <1> HIDE DEF job
  <1> QED  BY <1>2, HeldQueued DEF Counts, Credited

LEMMA PassiveOpens ==
  ASSUME CreditInv, Next, NEW p \in Peer, TurnsAway(p) \/ Admits(p), NEW i \in StreamId
  PROVE  Passive(i)
  <1>1. /\ ReadsOpen(p) /\ Reads(p, {"OPEN"}) /\ TypeInv /\ IdInv /\ TableInv /\ Read(p)
        /\ UNCHANGED <<written, flying>>
    BY DEF TurnsAway, Admits, RejectOpen, AcceptorThrows, HandleOpen, PendOpen, ReadsOpen,
           CreditInv, TableInv, IdInv, Read
  <1>2. PICK k \in StreamId : k = Incoming(p).id /\ ~IsPast(p, k) /\ k \notin Own(p)
    BY <1>1, RemoteIdFresh
  <1>3. stream[p][k].outCredit = 0
    <2>1. Covered(p, k)
      BY DEF CreditInv, Credit
    <2> QED  BY <1>2, <2>1 DEF Covered
  <1>4. CreditKept(p, i)
    <2> DEFINE a == NewStream(Incoming(p).amount)
               b == [a EXCEPT !.handle = TRUE]
               c == Cancelled(a)
    <2>1. UNCHANGED stream \/ \E t \in {a, b, c} : stream' = [stream EXCEPT ![p][k] = t]
      BY <1>2 DEF TurnsAway, Admits, RejectOpen, AcceptorThrows, HandleOpen, PendOpen
    <2>2. \A t \in {a, b, c} : t.inCredit = 0 /\ t.outCredit = 0 /\ t.asked = 0
      <3>1. a.inCredit = 0 /\ a.outCredit = 0 /\ a.asked = 0
        BY DEF NewStream
      <3>2. b.inCredit = 0 /\ b.outCredit = 0 /\ b.asked = 0
        BY DEF NewStream
      <3>3. c.inCredit = 0 /\ c.outCredit = 0 /\ c.asked = 0
        BY DEF NewStream, Cancelled
      <3> HIDE DEF a, b, c
      <3> QED  BY <3>1, <3>2, <3>3
    <2> HIDE DEF a, b, c
    <2> QED  BY <1>2, <1>3, <2>1, <2>2, KeptStill, KeptFresh
  <1>5. \A q \in Peer \ {p} : jobs'[q] = jobs[q]
    BY <1>1 DEF TurnsAway, Admits, RejectOpen, AcceptorThrows, HandleOpen, PendOpen, Refuse, Queue,
                TypeInv, TypeOK, WriterType
  <1>6. Held(Other(p), i) /\ wire'[p] = wire[p]
    <2>1. Receives(p) \/ EndsLane(p)
      BY <1>1, ReadKinds
    <2>2. Spent(p, i)
      BY <1>1 DEF Spent, Counts, Credited, Reads
    <2> QED  BY <1>1, <1>5, <2>1, <2>2, HeldRead
  <1>7. Held(p, i)
    <2>1. CASE TurnsAway(p)
      BY <1>1, <1>2, <1>6, <2>1, HeldRefused DEF TurnsAway, RejectOpen, AcceptorThrows
    <2>2. CASE Admits(p)
      BY <1>1, <1>6, <2>2, HeldSame DEF Admits, HandleOpen, PendOpen
    <2> QED  BY <2>1, <2>2
  <1> QED  BY <1>4, <1>6, <1>7, PassiveBy

LEMMA PassiveEnds ==
  ASSUME CreditInv, NEW p \in Peer, EndsLane(p), NEW i \in StreamId
  PROVE  Passive(i)
  <1>1. PICK state \in {"closed", "detached"}, why \in {"none", "lost", "violation", "exhausted"} :
          Over(p, state, why)
    BY DEF EndsLane, Ends
  <1>2. TypeInv
    BY DEF CreditInv, FrontierInv
  <1>3. ~Joined(i)'
    BY <1>1, <1>2 DEF Over, Joined, BothReady, Ready, TypeInv, TypeOK, StateType
  <1>4. CreditKept(p, i)
    <2> DEFINE v == [k \in StreamId |-> IF k \in live[p]
                         THEN [Cancelled(stream[p][k]) EXCEPT !.busy = FALSE]
                         ELSE [stream[p][k] EXCEPT !.busy = FALSE]]
    <2>1. stream' = [stream EXCEPT ![p] = v]
      BY <1>1 DEF Over
    <2>2. \/ v[i] = [Cancelled(stream[p][i]) EXCEPT !.busy = FALSE]
          \/ v[i] = [stream[p][i] EXCEPT !.busy = FALSE]
      OBVIOUS
    <2> HIDE DEF v
    <2>3. stream'[p] = v /\ \A q \in Peer \ {p} : stream'[q] = stream[q]
      BY <1>2, <2>1 DEF TypeInv, TypeOK, TableType
    <2>4. stream[p][i] \in Stream
      BY <1>2, StreamOf DEF TypeInv, TypeOK
    <2>5. SameCredit(stream[p][i], v[i])
      BY <2>2, <2>4 DEF SameCredit, Cancelled, Stream
    <2> QED  BY <2>3, <2>5 DEF CreditKept, SameCredit
  <1>5. /\ jobs'[p] = <<>> /\ \A q \in Peer \ {p} : jobs'[q] = jobs[q]
    BY <1>1, <1>2 DEF Over, TypeInv, TypeOK, WriterType
  <1>6. Held(Other(p), i) /\ wire'[p] = wire[p]
    BY <1>2, <1>3, <1>5, HeldRead DEF Spent
  <1>7. Held(p, i)
    BY <1>2, <1>3, <1>5, <1>6, HeldNone
  <1> QED  BY <1>4, <1>6, <1>7, PassiveBy

\* A call that queues no credit and no item, and leaves the lane alone.
LEMMA PassiveStays ==
  ASSUME TypeInv, NEW p \in Peer, NEW i \in StreamId, CreditKept(p, i), Stays,
         UNCHANGED <<written, flying, wire>>,
         \/ UNCHANGED jobs
         \/ \E job \in Job : /\ Queue(p, job) /\ job.kind \notin Credited
  PROVE  Passive(i)
  <1>1. CASE UNCHANGED jobs
    BY <1>1, HeldSame, HeldRead, PassiveBy
  <1>2. ASSUME NEW job \in Job, Queue(p, job), job.kind \notin Credited PROVE Passive(i)
    <2>1. \A q \in Peer \ {p} : jobs'[q] = jobs[q]
      BY <1>2 DEF Queue, TypeInv, TypeOK, WriterType
    <2>2. \A kind \in Credited : Counts(job, kind, i) = 0
      BY <1>2 DEF Counts
    <2>3. Held(p, i)
      BY <1>2, <2>2, HeldQueued
    <2> QED  BY <2>1, <2>3, HeldRead, PassiveBy
  <1> QED  BY <1>1, <1>2

LEMMA PassiveCalls ==
  ASSUME TypeInv, NEW p \in Peer, NEW k \in StreamId, NEW i \in StreamId,
         \/ \E size \in ItemSizes : Send(p, k, size)
         \/ Complete(p, k) \/ Cancel(p, k) \/ Fail(p, k)
  PROVE  Passive(i)
  <1>1. Stays /\ UNCHANGED <<written, flying, wire>> /\ stream[p][k] \in Stream
    BY CallsStay, StreamOf DEF TypeInv, TypeOK, Send, Complete, Cancel, Fail, End, readerVars, writerVars
  <1> DEFINE s == stream[p][k]
  <1>2. ASSUME NEW size \in ItemSizes, Send(p, k, size) PROVE Passive(i)
    <2> DEFINE t == [s EXCEPT !.calls = @ + 1,
                       !.tail = Append(@, [kind |-> "send", item |-> s.calls + 1, size |-> size])]
    <2>1. stream' = [stream EXCEPT ![p][k] = t] /\ UNCHANGED jobs
      BY <1>2 DEF Send, Update, writerVars
    <2>2. SameCredit(s, t)
      BY <1>1 DEF SameCredit, Stream
    <2> HIDE DEF t
    <2>3. CreditKept(p, i)
      BY <2>1, <2>2, KeptAt
    <2> QED  BY <1>1, <2>1, <2>3, PassiveStays
  <1>3. CASE Complete(p, k)
    <2> DEFINE t == [s EXCEPT !.tail = Append(@, [kind |-> "complete", item |-> 0, size |-> 1])]
    <2>1. stream' = [stream EXCEPT ![p][k] = t] /\ UNCHANGED jobs
      BY <1>3 DEF Complete, Update, writerVars
    <2>2. SameCredit(s, t)
      BY <1>1 DEF SameCredit, Stream
    <2> HIDE DEF t
    <2>3. CreditKept(p, i)
      BY <2>1, <2>2, KeptAt
    <2> QED  BY <1>1, <2>1, <2>3, PassiveStays
  <1>4. CASE Cancel(p, k) \/ Fail(p, k)
    <2>1. PICK call \in {"cancel", "fail"}, kind \in {"CANCEL", "ERROR"} : End(p, k, call, kind)
      BY <1>4 DEF Cancel, Fail
    <2>2. PICK fits \in Encodable : Queue(p, [Plain(kind, k) EXCEPT !.fits = fits])
      BY <2>1 DEF End
    <2> DEFINE t == Cancelled(s)
               job == [Plain(kind, k) EXCEPT !.fits = fits]
    <2>3. stream' = [stream EXCEPT ![p][k] = t]
      BY <2>1 DEF End, CancelStream
    <2>4. SameCredit(s, t)
      BY <1>1 DEF SameCredit, Cancelled, Stream
    <2>5. job \in Job /\ Queue(p, job) /\ job.kind \notin Credited
      <3>1. job \in Job
        BY PlainType, JobChanges, CallsAssumption DEF JobKind
      <3> QED  BY <2>2, <3>1 DEF Plain, Credited
    <2> HIDE DEF t, job
    <2>6. CreditKept(p, i)
      BY <2>3, <2>4, KeptAt
    <2> QED  BY <1>1, <2>5, <2>6, PassiveStays
  <1> QED  BY <1>2, <1>3, <1>4

LEMMA PassiveSession ==
  ASSUME TypeInv, NEW p \in Peer, NEW i \in StreamId,
         TakeIncoming(p) \/ Close(p) \/ CloseDetached(p)
  PROVE  Passive(i)
  <1>1. UNCHANGED <<written, flying, wire>>
    BY DEF TakeIncoming, Close, CloseDetached, writerVars, readerVars
  <1>2. Stays
    BY SessionStays
  <1>3. CASE TakeIncoming(p)
    <2> DEFINE k == Head(pending[p])
               s == stream[p][k]
               t == [s EXCEPT !.handle = TRUE]
    <2>1. Update(p, k, t) /\ pending[p] # <<>> /\ UNCHANGED jobs
      BY <1>3 DEF TakeIncoming, writerVars
    <2>2. pending[p] \in Seq(StreamId)
      BY DEF TypeInv, TypeOK, IdType
    <2>3. k \in StreamId
      BY <2>1, <2>2, HeadTailProperties
    <2>4. s \in Stream
      BY <2>3, StreamOf DEF TypeInv, TypeOK
    <2>5. SameCredit(s, t)
      BY <2>4 DEF Stream, SameCredit
    <2> HIDE DEF t, k
    <2>6. stream' = [stream EXCEPT ![p][k] = t]
      BY <2>1 DEF Update
    <2>7. CreditKept(p, i)
      BY <2>3, <2>5, <2>6, KeptAt
    <2> QED  BY <1>1, <1>2, <2>1, <2>7, PassiveStays
  <1>4. CASE Close(p)
    <2>1. PICK fits \in Encodable : Queue(p, [Plain("CLOSE", 0) EXCEPT !.fits = fits])
      BY <1>4 DEF Close
    <2> DEFINE job == [Plain("CLOSE", 0) EXCEPT !.fits = fits]
    <2>2. job \in Job /\ Queue(p, job) /\ job.kind \notin Credited
      <3>1. job \in Job
        BY CloseJobType, CallsAssumption
      <3> QED  BY <2>1, <3>1 DEF Plain, Credited
    <2> HIDE DEF job
    <2>3. CreditKept(p, i)
      BY <1>4, KeptStill DEF Close, tableVars
    <2> QED  BY <1>1, <1>2, <2>2, <2>3, PassiveStays
  <1>5. CASE CloseDetached(p)
    <2>1. CreditKept(p, i) /\ UNCHANGED jobs
      BY <1>5, KeptStill DEF CloseDetached, tableVars, writerVars
    <2> QED  BY <1>1, <1>2, <2>1, PassiveStays
  <1> QED  BY <1>3, <1>4, <1>5

LEMMA PassiveTail ==
  ASSUME TypeInv, NEW p \in Peer, NEW k \in StreamId, SendTooLarge(p, k) \/ CompleteNext(p, k),
         NEW i \in StreamId
  PROVE  Passive(i)
  <1> DEFINE s == stream[p][k]
  <1>1. s \in Stream /\ UNCHANGED <<written, flying, wire>>
    BY StreamOf DEF TypeInv, TypeOK, SendTooLarge, CompleteNext, writerVars, readerVars
  <1>2. Stays
    BY TailStays DEF StreamTail
  <1>3. CASE SendTooLarge(p, k)
    <2> DEFINE t == [s EXCEPT !.outCredit = Refund(s), !.tail = Tail(@)]
    <2>1. stream' = [stream EXCEPT ![p][k] = t] /\ UNCHANGED jobs /\ s.outCredit > 0
      BY <1>3 DEF SendTooLarge, Update, HasCredit, writerVars
    <2>2. s.outCredit \in Nat /\ s.outCredit <= MaxCredit /\ MaxCredit \in Nat
      BY CreditNumbers
    <2>3. Refund(s) = s.outCredit
      BY <2>1, <2>2 DEF Refund, AddCredit
    <2>4. SameCredit(s, t)
      BY <1>1, <2>3 DEF SameCredit, Stream
    <2> HIDE DEF t
    <2>5. CreditKept(p, i)
      BY <2>1, <2>4, KeptAt
    <2> QED  BY <1>1, <1>2, <2>1, <2>5, PassiveStays
  <1>4. CASE CompleteNext(p, k)
    <2> DEFINE t == [s EXCEPT !.tail = Tail(@), !.busy = TRUE]
               job == Plain("COMPLETE", k)
    <2>1. stream' = [stream EXCEPT ![p][k] = t] /\ Queue(p, job)
      BY <1>4 DEF CompleteNext, Update
    <2>2. SameCredit(s, t)
      BY <1>1 DEF SameCredit, Stream
    <2>3. job \in Job /\ job.kind \notin Credited
      <3>1. "COMPLETE" \in JobKind \ {"CLOSE"}
        BY DEF JobKind
      <3>2. job \in JobOf(JobKind \ {"CLOSE"}, StreamId)
        BY <3>1, PlainType
      <3> QED  BY <3>2 DEF Plain, Job, Credited
    <2> HIDE DEF t, job
    <2>4. CreditKept(p, i)
      BY <2>1, <2>2, KeptAt
    <2> QED  BY <1>1, <1>2, <2>1, <2>3, <2>4, PassiveStays
  <1> QED  BY <1>3, <1>4

\* The first job leaves, and its stream keeps its credit.
LEMMA PassiveDone ==
  ASSUME TypeInv, NEW p \in Peer, NEW i \in StreamId, CreditKept(p, i),
         Drops(p) \/ Finishes(p),
         jobs[p] # <<>>, jobs' = [jobs EXCEPT ![p] = Tail(@)], UNCHANGED wire,
         \/ Skip(p) = 1
         \/ \A kind \in Credited : Counts(Head(jobs[p]), kind, i) = 0
         \/ ~Joined(i)'
  PROVE  Passive(i)
  <1>1. written'[p] = 0 /\ ~flying'[p] /\ wire'[p] = wire[p]
    <2>1. CASE Drops(p)
      BY <2>1 DEF Drops, CanWrite, TypeInv, TypeOK, WriterType
    <2>2. CASE Finishes(p)
      BY <2>2 DEF Finishes, JobDone, TypeInv, TypeOK, WriterType
    <2> QED  BY <2>1, <2>2
  <1>2. Held(p, i)
    BY <1>1, HeldShorter
  <1>3. \A q \in Peer \ {p} : jobs'[q] = jobs[q]
    BY DEF TypeInv, TypeOK, WriterType
  <1>4. Held(Other(p), i)
    BY <1>3, HeldRead
  <1> QED  BY <1>2, <1>4, PassiveBy

LEMMA PassiveWriteStream ==
  ASSUME TypeInv, NEW p \in Peer, NEW k \in StreamId, NEW i \in StreamId,
         LET s == stream[p][k]
         IN \/ stream' = [stream EXCEPT ![p][k] = [s EXCEPT !.busy = FALSE]]
            \/ stream' = [stream EXCEPT ![p][k] = [s EXCEPT !.handle = TRUE]]
            \/ stream' = [stream EXCEPT ![p][k] = [s EXCEPT !.busy = FALSE, !.sent = @ + 1]]
            \/ stream' = [stream EXCEPT ![p][k] =
                 [s EXCEPT !.outClosed = TRUE, !.tail = <<>>, !.busy = FALSE]]
  PROVE  CreditKept(p, i)
  <1> DEFINE s == stream[p][k]
             a == [s EXCEPT !.busy = FALSE]
             b == [s EXCEPT !.handle = TRUE]
             c == [s EXCEPT !.busy = FALSE, !.sent = @ + 1]
             d == [s EXCEPT !.outClosed = TRUE, !.tail = <<>>, !.busy = FALSE]
  <1>1. s \in Stream
    BY StreamOf DEF TypeInv, TypeOK
  <1>2. SameCredit(s, a) /\ SameCredit(s, b)
    BY <1>1 DEF Stream, SameCredit
  <1>3. SameCredit(s, c)
    BY <1>1 DEF Stream, SameCredit
  <1>4. SameCredit(s, d)
    BY <1>1 DEF Stream, SameCredit
  <1>5. \E t \in {a, b, c, d} : stream' = [stream EXCEPT ![p][k] = t]
    OBVIOUS
  <1> HIDE DEF a, b, c, d
  <1>6. \A t \in {a, b, c, d} : SameCredit(s, t)
    BY <1>2, <1>3, <1>4
  <1> HIDE DEF s
  <1> QED  BY <1>5, <1>6, KeptAt DEF s

LEMMA PassiveWrite ==
  ASSUME CreditInv, Next, NEW p \in Peer, Write(p), NEW i \in StreamId
  PROVE  Passive(i)
  <1> DEFINE j == Head(jobs[p])
             k == Head(jobs[p]).id
  <1>0. TypeInv /\ TableInv
    BY DEF CreditInv, TableInv, IdInv
  <1>1. Drops(p) \/ WriteFrame(p) \/ FragmentWritten(p) \/ Finishes(p) \/ EndsLane(p)
    BY <1>0, WriteKinds
  <1>2. jobs[p] # <<>> /\ j.kind # "CLOSE" => k \in StreamId
    BY <1>0, FirstJob DEF TypeInv, TypeOK
  <1>3. flying[p] => jobs[p] # <<>> /\ Skip(p) = 1
    BY <1>0 DEF TypeInv, WritesFirst, Skip
  <1>4. EndsLane(p) => Passive(i)
    BY PassiveEnds
  <1> SUFFICES ASSUME ~EndsLane(p) PROVE Passive(i)
    BY <1>4
  <1>5. CASE Abandon(p)
    <2>1. /\ jobs[p] # <<>> /\ k \in StreamId /\ jobs' = [jobs EXCEPT ![p] = Tail(@)]
          /\ stream' = [stream EXCEPT ![p][k] = [stream[p][k] EXCEPT !.busy = FALSE]]
          /\ UNCHANGED wire /\ j.kind = "DATA" /\ (stream[p][k].cancelled \/ stream[p][k].outClosed)
      BY <1>2, <1>5 DEF Abandon, CanWrite, Abandoned, Update, readerVars
    <2>2. stream[p][k].busy /\ IsPast(p, k)
      BY <1>0, <2>1, HeadCall
    <2>3. k \notin live[p]
      BY <1>0, <2>1, <2>2, SoundOf DEF StreamSound, IsClosed
    <2>4. (\A kind \in Credited : Counts(j, kind, i) = 0) \/ ~Joined(i)'
      <3>1. CASE i = k
        <4>1. IsPast(p, i) /\ i \notin live[p]
          BY <2>2, <2>3, <3>1
        <4> HIDE DEF k
        <4> QED  BY <1>0, <4>1, GoneApart
      <3>2. CASE i # k
        BY <3>2 DEF Counts
      <3> QED  BY <3>1, <3>2
    <2>5. Drops(p) \/ Finishes(p)
      <3>1. \A q \in Peer \ {p} : jobs'[q] = jobs[q]
        BY <1>0, <2>1 DEF TypeInv, TypeOK, WriterType
      <3>2. CanWrite(p) /\ written' = [written EXCEPT ![p] = 0]
        BY <1>5 DEF Abandon
      <3>3. UNCHANGED <<flying, outSeq, nextId, highestRemote, inSeq, wire, session>>
        BY <1>5 DEF Abandon, idVars, readerVars, stateVars
      <3> QED  BY <3>1, <3>2, <3>3 DEF Drops
    <2> HIDE DEF k
    <2>6. CreditKept(p, i)
      BY <1>0, <2>1, PassiveWriteStream
    <2> QED  BY <1>0, <2>1, <2>4, <2>5, <2>6, PassiveDone
  <1>6. CASE RollBackOpen(p)
    <2>1. /\ jobs[p] # <<>> /\ jobs' = [jobs EXCEPT ![p] = Tail(@)] /\ UNCHANGED <<stream, wire>>
          /\ j.kind = "OPEN" /\ ~flying[p] /\ ~j.fits
      BY <1>6 DEF RollBackOpen, CanWrite, readerVars
    <2>2. \A kind \in Credited : Counts(j, kind, i) = 0
      BY <2>1 DEF Counts, Credited
    <2>3. Drops(p) \/ Finishes(p)
      BY <1>1, <2>1 DEF WriteFrame, FragmentWritten
    <2> QED  BY <1>0, <2>1, <2>2, <2>3, KeptStill, PassiveDone
  <1>7. CASE DropReason(p)
    <2> DEFINE job == [j EXCEPT !.fits = TRUE]
    <2>1. /\ jobs[p] # <<>> /\ HasReason(j) /\ UNCHANGED <<stream, wire, written, flying>>
          /\ jobs' = [jobs EXCEPT ![p] = Append(Tail(@), job)] /\ ~flying[p] /\ ~j.fits
      BY <1>7 DEF DropReason, CanWrite, tableVars, readerVars
    <2>2. j \in Job
      BY <1>0, <2>1, FirstJob DEF TypeInv, TypeOK
    <2>3. job \in Job /\ job.kind = j.kind /\ j.kind \notin Credited
      BY <2>1, <2>2 DEF HasReason, Job, JobOf, Credited
    <2>4. written[p] = 0
      <3>1. j.kind # "DATA" /\ written[p] \in Nat
        BY <1>0, <2>1 DEF HasReason, TypeInv, TypeOK, WriterType
      <3> QED  BY <1>0, <3>1 DEF TypeInv, WritesFirst
    <2>5. \A kind \in Credited : Counts(j, kind, i) = 0 /\ Counts(job, kind, i) = 0
      BY <2>3 DEF Counts
    <2>6. Skip(p) = 0
      BY <2>1, <2>4 DEF Skip
    <2>7. \A q \in Peer \ {p} : jobs'[q] = jobs[q]
      BY <1>0, <2>1 DEF TypeInv, TypeOK, WriterType
    <2>8. Drops(p) \/ Finishes(p)
      BY <1>1, <2>1 DEF WriteFrame, FragmentWritten
    <2> HIDE DEF job, j
    <2>9. Held(p, i)
      BY <1>0, <2>1, <2>3, <2>4, <2>5, <2>6, HeldAgain DEF j
    <2>10. Held(Other(p), i)
      BY <1>0, <2>1, <2>7, <2>8, HeldRead
    <2> QED  BY <2>1, <2>9, <2>10, KeptStill, PassiveBy
  <1>8. CASE WriteFrame(p)
    <2>1. UNCHANGED <<stream, jobs, written>> /\ \A q \in Peer \ {p} : wire'[q] = wire[q] /\ flying'[q] = flying[q]
      BY <1>0, <1>8 DEF WriteFrame, tableVars, TypeInv, TypeOK, ReaderType, WriterType
    <2>2. Other(p) \in Peer \ {p}
      BY DEF Other, Peer
    <2>3. Held(Other(p), i)
      BY <1>0, <2>1, <2>2, HeldSame
    <2>4. Held(p, i)
      BY <1>0, <1>8, HeldWritten
    <2> QED  BY <2>1, <2>3, <2>4, KeptStill, PassiveBy
  <1>9. CASE FragmentWritten(p)
    <2>1. /\ UNCHANGED <<stream, wire, jobs>> /\ written'[p] = written[p] + 1 /\ written[p] \in Nat
          /\ flying[p]
      BY <1>0, <1>9 DEF FragmentWritten, tableVars, readerVars, TypeInv, TypeOK, WriterType
    <2>2. Skip(p) = 1 /\ Skip(p)' = 1
      BY <2>1 DEF Skip
    <2>3. Held(p, i)
      BY <1>0, <2>1, <2>2, HeldSame
    <2>4. Held(Other(p), i)
      BY <1>0, <1>9, <2>1, HeldRead
    <2> QED  BY <2>1, <2>3, <2>4, KeptStill, PassiveBy
  <1>10. CASE OpenWritten(p) \/ DemandWritten(p) \/ DataWritten(p) \/ CompleteWritten(p) \/ EndingWritten(p)
    <2>1. /\ flying[p] /\ JobDone(p) /\ UNCHANGED wire /\ j.kind # "CLOSE"
      BY <1>10 DEF OpenWritten, DemandWritten, DataWritten, CompleteWritten, EndingWritten, JobWritten,
                   readerVars
    <2>2. jobs' = [jobs EXCEPT ![p] = Tail(@)] /\ written'[p] = 0 /\ ~flying'[p]
      BY <1>0, <2>1 DEF JobDone, TypeInv, TypeOK, WriterType
    <2>3. Drops(p) \/ Finishes(p)
      <3>1. ~WriteFrame(p)
        BY <2>1 DEF WriteFrame, CanWrite
      <3>2. ASSUME FragmentWritten(p) PROVE FALSE
        <4>1. written'[p] = written[p] + 1 /\ written[p] \in Nat
          BY <1>0, <3>2 DEF FragmentWritten, TypeInv, TypeOK, WriterType
        <4> QED  BY <2>2, <4>1
      <3> QED  BY <1>1, <3>1, <3>2
    <2>4. CreditKept(p, i)
      <3>1. CASE DemandWritten(p) \/ EndingWritten(p)
        <4>1. UNCHANGED stream
          BY <3>1 DEF DemandWritten, EndingWritten, tableVars
        <4> QED  BY <4>1, KeptStill
      <3>2. CASE OpenWritten(p)
        <4>1. stream' = [stream EXCEPT ![p][k] = [stream[p][k] EXCEPT !.handle = TRUE]]
          BY <3>2 DEF OpenWritten, Update
        <4> HIDE DEF k
        <4> QED  BY <1>0, <1>2, <1>3, <2>1, <4>1, PassiveWriteStream
      <3>3. CASE DataWritten(p)
        <4>1. stream' = [stream EXCEPT ![p][k] = [stream[p][k] EXCEPT !.busy = FALSE, !.sent = @ + 1]]
          BY <3>3 DEF DataWritten, Update
        <4> HIDE DEF k
        <4> QED  BY <1>0, <1>2, <1>3, <2>1, <4>1, PassiveWriteStream
      <3>4. CASE CompleteWritten(p)
        <4>1. stream' = [stream EXCEPT ![p][k] =
                [stream[p][k] EXCEPT !.outClosed = TRUE, !.tail = <<>>, !.busy = FALSE]]
          BY <3>4 DEF CompleteWritten, Release
        <4> HIDE DEF k
        <4> QED  BY <1>0, <1>2, <1>3, <2>1, <4>1, PassiveWriteStream
      <3> QED  BY <1>10, <3>1, <3>2, <3>3, <3>4
    <2> QED  BY <1>0, <1>3, <2>1, <2>2, <2>3, <2>4, PassiveDone
  <1>11. CASE Exhaust(p) \/ CloseWritten(p)
    <2>1. EndsLane(p)
      BY <1>0, <1>11, SessionEnds DEF EndsLane, Exhaust, CloseWritten
    <2> QED  BY <2>1
  <1> QED  BY <1>5, <1>6, <1>7, <1>8, <1>9, <1>10, <1>11 DEF Write

\* A frame that changes no credit leaves the streams as they are, or ends one.
LEMMA KeptRead ==
  ASSUME TypeInv, NEW p \in Peer, NEW i \in StreamId,
         ReadFragment(p) \/ ReadComplete(p) \/ ReadEnding(p)
  PROVE  CreditKept(p, i)
  <1>1. Reads(p, {"FRAGMENT", "COMPLETE", "CANCEL", "ERROR"})
    BY DEF ReadFragment, ReadComplete, ReadEnding, ReadsLive, Reads
  <1>2. PICK k \in StreamId : k = Incoming(p).id
    BY <1>1, ReadsType
  <1> DEFINE f == Incoming(p)
             s == stream[p][k]
             data == Append(s.partial, Payload(f))
             a == [s EXCEPT !.partial = data]
             b == [s EXCEPT !.expected = 0, !.partial = <<>>, !.got = Push(s, data)]
             c == [s EXCEPT !.inClosed = TRUE]
             d == Cancelled(s)
  <1>3. s \in Stream
    BY StreamOf DEF TypeInv, TypeOK
  <1>4. SameCredit(s, a) /\ SameCredit(s, c)
    BY <1>3 DEF SameCredit, Stream
  <1>5. SameCredit(s, b)
    BY <1>3 DEF SameCredit, Stream
  <1>6. SameCredit(s, d)
    BY <1>3 DEF SameCredit, Stream, Cancelled
  <1>7. \E t \in {a, b, c, d} : stream' = [stream EXCEPT ![p][k] = t]
    <2>1. CASE ReadFragment(p)
      BY <1>2, <2>1 DEF ReadFragment, Update
    <2>2. CASE ReadComplete(p)
      BY <1>2, <2>2 DEF ReadComplete, Release
    <2>3. CASE ReadEnding(p)
      BY <1>2, <2>3 DEF ReadEnding, CancelStream
    <2> QED  BY <2>1, <2>2, <2>3
  <1> HIDE DEF a, b, c, d
  <1>8. \A t \in {a, b, c, d} : SameCredit(s, t)
    BY <1>4, <1>5, <1>6
  <1> HIDE DEF s
  <1> QED  BY <1>7, <1>8, KeptAt DEF s

LEMMA PassiveRead ==
  ASSUME CreditInv, NEW p \in Peer, ReadFragment(p) \/ ReadComplete(p) \/ ReadEnding(p),
         NEW i \in StreamId
  PROVE  Passive(i)
  <1>1. TypeInv /\ Read(p)
    BY DEF CreditInv, FrontierInv, Read
  <1>2. UNCHANGED <<jobs, written, flying>>
    BY DEF ReadFragment, ReadComplete, ReadEnding, writerVars
  <1>3. Receives(p) \/ EndsLane(p)
    BY <1>1, ReadKinds
  <1>4. Spent(p, i)
    BY DEF Spent, Counts, Credited, ReadFragment, ReadComplete, ReadEnding, ReadsLive, Reads
  <1>5. Held(Other(p), i) /\ wire'[p] = wire[p]
    BY <1>1, <1>2, <1>3, <1>4, HeldRead
  <1>6. Held(p, i)
    BY <1>1, <1>2, <1>5, HeldSame
  <1> QED  BY <1>1, <1>5, <1>6, KeptRead, PassiveBy

\* Demand and items that come too late are for a stream that is not joined.
LEMMA PassiveLate ==
  ASSUME CreditInv, Next, NEW p \in Peer, ReadLate(p), NEW i \in StreamId
  PROVE  Passive(i)
  <1>1. TypeInv /\ TableInv /\ Read(p)
    BY DEF CreditInv, FrontierInv, Read
  <1>2. /\ UNCHANGED <<stream, jobs, written, flying>> /\ Incoming(p).id \notin live[p]
        /\ Reads(p, {"DATA", "FRAGMENT", "DEMAND", "COMPLETE", "CANCEL", "ERROR"})
    BY DEF ReadLate, tableVars, writerVars
  <1>3. Receives(p) \/ EndsLane(p)
    BY <1>1, ReadKinds
  <1>4. Spent(p, i)
    <2> SUFFICES ASSUME NEW kind \in Credited, Counts(Incoming(p), kind, i) # 0
                 PROVE  ~Joined(i)'
      BY DEF Spent
    <2>1. Incoming(p).kind = kind /\ Incoming(p).id = i
      BY DEF Counts
    <2>2. i \notin live[p] /\ CanRead(p) /\ ~Illegal(p, Incoming(p))
      BY <1>2, <2>1 DEF Reads
    <2>3. CASE kind = "DEMAND"
      <3>1. IsPast(p, i)
        BY <2>1, <2>2, <2>3 DEF Illegal, Tolerated
      <3> QED  BY <1>1, <2>2, <3>1, GoneApart
    <2>4. CASE kind = "DATA"
      <3> DEFINE o == Other(p)
      <3>1. o \in Peer /\ o # p /\ wire[o] # <<>>
        BY <2>2, CreditNumbers, <1>1 DEF CanRead
      <3>2. \A q \in Peer \ {p} : jobs'[q] = jobs[q]
        BY <1>2
      <3>3. Underway(o, "DATA", i) >= 1
        <4>1. /\ jobs'[o] = jobs[o] /\ written'[o] = written[o] /\ flying'[o] = flying[o]
              /\ wire'[o] = Tail(wire[o]) /\ Head(wire[o]) = Incoming(p)
          BY <1>1, <1>2, <3>1 DEF Reads, Consume, TypeInv, TypeOK, ReaderType, Incoming
        <4> HIDE DEF o
        <4>2. /\ Underway(o, "DATA", i) = Underway(o, "DATA", i)' + Counts(Head(wire[o]), "DATA", i)
              /\ Underway(o, "DATA", i)' \in Nat
          BY <1>1, <3>1, <4>1, UnderwayRead
        <4>3. Counts(Head(wire[o]), "DATA", i) = 1
          BY <2>1, <2>4, <4>1 DEF Counts, Units
        <4> QED  BY <4>2, <4>3
      <3>4. Covered(p, i) /\ Ledger(p, i)
        BY DEF CreditInv, Credit
      <3>5. Due(p, i) = stream[o][i].outCredit + Underway(p, "DEMAND", i) + Underway(o, "DATA", i)
        BY DEF Due
      <3>6. /\ stream[o][i].outCredit \in Nat /\ Underway(p, "DEMAND", i) \in Nat
            /\ Underway(o, "DATA", i) \in Nat /\ stream[p][i].asked \in Nat
        BY <1>1, <3>1, CreditNumbers
      <3> HIDE DEF o
      <3>7. stream[p][i].asked # 0
        BY <3>3, <3>4, <3>5, <3>6 DEF Ledger
      <3>8. IsPast(p, i)
        BY <3>4, <3>7 DEF Covered
      <3> QED  BY <1>1, <2>2, <3>8, GoneApart
    <2> QED  BY <2>3, <2>4 DEF Credited
  <1>5. Held(Other(p), i) /\ wire'[p] = wire[p]
    BY <1>1, <1>2, <1>3, <1>4, HeldRead
  <1>6. Held(p, i)
    BY <1>1, <1>2, <1>5, HeldSame
  <1> QED  BY <1>2, <1>5, <1>6, KeptStill, PassiveBy

-----------------------------------------------------------------------------
(* The steps that move credit, or an item it was spent on                  *)

LEMMA ShiftedQueued ==
  ASSUME TypeInv, NEW p \in Peer, NEW job \in Job, Queue(p, job),
         UNCHANGED <<written, flying, wire>>, NEW i, NEW kind \in Credited,
         job.kind = kind, job.id = i
  PROVE  Shifted(i, p, kind, Units(job))
  <1>1. \A x, m : Underway(p, x, m)' = Underway(p, x, m) + Counts(job, x, m)
    BY UnderwayQueued
  <1>2. Counts(job, kind, i) = Units(job) /\ \A x : x # kind => Counts(job, x, i) = 0
    BY DEF Counts
  <1>3. ASSUME NEW r \in Peer \ {p} PROVE \A x, m : Underway(r, x, m)' = Underway(r, x, m)
    <2>1. jobs'[r] = jobs[r]
      BY DEF Queue, TypeInv, TypeOK, WriterType
    <2> QED  BY <2>1, UnderwayStill
  <1>4. \A x : Underway(p, x, i) \in Nat
    BY LaneFacts
  <1>5. ASSUME NEW r \in Peer, NEW x \in Credited, r # p \/ x # kind
        PROVE  Underway(r, x, i)' = Underway(r, x, i)
    <2>1. CASE r # p
      BY <1>3, <2>1
    <2>2. CASE r = p /\ x # kind
      BY <1>1, <1>2, <1>4, <2>2
    <2> QED  BY <1>5, <2>1, <2>2
  <1>6. Underway(p, kind, i)' = Underway(p, kind, i) + Units(job)
    BY <1>1, <1>2
  <1> QED  BY <1>5, <1>6 DEF Shifted

LEMMA ShiftedRead ==
  ASSUME TypeInv, NEW p \in Peer, CanRead(p), Consume(p), UNCHANGED <<written, flying>>,
         jobs'[Other(p)] = jobs[Other(p)], NEW i, NEW kind \in Credited,
         Incoming(p).kind = kind, Incoming(p).id = i,
         \A x \in Credited : Underway(p, x, i)' = Underway(p, x, i)
  PROVE  /\ Shifted(i, Other(p), kind, -Units(Incoming(p)))
         /\ Underway(Other(p), kind, i)' \in Nat /\ wire'[p] = wire[p]
  <1> DEFINE o == Other(p)
             n == Units(Incoming(p))
  <1>1. o \in Peer /\ o # p /\ \A q \in Peer : q = p \/ q = o
    BY DEF Other, Peer
  <1>2. /\ wire[o] # <<>> /\ wire'[o] = Tail(wire[o]) /\ Head(wire[o]) = Incoming(p)
        /\ wire'[p] = wire[p]
    BY <1>1 DEF CanRead, Consume, Incoming, TypeInv, TypeOK, ReaderType
  <1>3. jobs'[o] = jobs[o] /\ written'[o] = written[o] /\ flying'[o] = flying[o]
    OBVIOUS
  <1>4. Counts(Incoming(p), kind, i) = n /\ \A x : x # kind => Counts(Incoming(p), x, i) = 0
    BY DEF Counts
  <1> HIDE DEF o, n
  <1>5. \A x, m : /\ Underway(o, x, m) = Underway(o, x, m)' + Counts(Head(wire[o]), x, m)
                  /\ Underway(o, x, m)' \in Nat /\ Counts(Head(wire[o]), x, m) \in Nat
    BY <1>1, <1>2, <1>3, UnderwayRead
  <1>6. /\ Underway(o, kind, i)' = Underway(o, kind, i) + (-n) /\ Underway(o, kind, i)' \in Nat
    BY <1>2, <1>4, <1>5
  <1>7. ASSUME NEW r \in Peer, NEW x \in Credited, r # o \/ x # kind
        PROVE  Underway(r, x, i)' = Underway(r, x, i)
    <2>1. CASE r = p
      BY <2>1
    <2>2. CASE r = o /\ x # kind
      BY <1>2, <1>4, <1>5, <2>2
    <2> QED  BY <1>1, <1>7, <2>1, <2>2
  <1>8. Shifted(i, o, kind, -n)
    BY <1>6, <1>7 DEF Shifted
  <1> QED  BY <1>2, <1>6, <1>8 DEF o, n

\* One stream moves, and the others are passive.
LEMMA OthersQueued ==
  ASSUME TypeInv, NEW p \in Peer, NEW k \in StreamId, NEW t, NEW job \in Job,
         stream' = [stream EXCEPT ![p][k] = t], Queue(p, job), job.id = k, Stays,
         UNCHANGED <<written, flying, wire>>, NEW i \in StreamId, i # k
  PROVE  Passive(i)
  <1>1. CreditKept(p, i)
    <2>1. stream'[p][i] = stream[p][i]
      BY ChangedStream
    <2>2. \A q \in Peer \ {p} : stream'[q] = stream[q]
      BY DEF TypeInv, TypeOK, TableType
    <2> QED  BY <2>1, <2>2 DEF CreditKept
  <1>2. \A kind \in Credited : Counts(job, kind, i) = 0
    BY DEF Counts
  <1>3. Held(p, i)
    BY <1>2, HeldQueued
  <1>4. \A q \in Peer \ {p} : jobs'[q] = jobs[q]
    BY DEF Queue, TypeInv, TypeOK, WriterType
  <1> QED  BY <1>1, <1>3, <1>4, HeldRead, PassiveBy

LEMMA RequestAsks ==
  ASSUME CreditInv, NEW p \in Peer, NEW k \in StreamId, NEW n \in Demands, Request(p, k, n),
         NEW i \in StreamId
  PROVE  Passive(i) \/ (n \in Nat /\ Asks(p, i, n))
  <1> DEFINE s == stream[p][k]
             t == [s EXCEPT !.inCredit = AddCredit(@, n), !.asked = @ + n]
             job == [Plain("DEMAND", k) EXCEPT !.amount = n]
  <1>0. TypeInv /\ TableInv
    BY DEF CreditInv, FrontierInv
  <1>1. stream' = [stream EXCEPT ![p][k] = t] /\ Queue(p, job) /\ UNCHANGED <<written, flying, wire>>
    BY DEF Request, Update, readerVars
  <1>2. n \in Nat
    BY CallsAssumption, CreditFacts
  <1>3. s \in Stream /\ s.handle /\ s.asked + n <= MaxAsked
    BY <1>0, StreamOf DEF TypeInv, TypeOK, Request, Holds
  <1>4. IsPast(p, k)
    BY <1>0, <1>3, SoundOf DEF Untouched
  <1>5. job \in Job /\ job.kind = "DEMAND" /\ job.id = k /\ Units(job) = n
    <2>1. job \in Job
      <3>1. "DEMAND" \in JobKind \ {"CLOSE"}
        BY DEF JobKind
      <3> QED  BY <1>2, <3>1, PlainType, JobChanges
    <2> QED  BY <2>1 DEF Plain, Units
  <1>6. /\ t.inCredit = AddCredit(s.inCredit, n) /\ t.asked = s.asked + n
        /\ t.outCredit = s.outCredit
    BY <1>3 DEF Stream
  <1>7. Stays
    BY <1>0, CallsStay
  <1> HIDE DEF t, job
  <1>8. CASE i = k
    <2>1. stream'[p][k] = t /\ \A q \in Peer \ {p} : stream'[q] = stream[q]
      BY <1>0, <1>1, ChangedStream DEF TypeInv, TypeOK, TableType
    <2>2. Shifted(i, p, "DEMAND", n)
      BY <1>0, <1>1, <1>5, <1>8, ShiftedQueued DEF Credited
    <2>3. Beside(p, i)
      BY <2>1 DEF Beside, SameCredit
    <2> QED  BY <1>2, <1>3, <1>4, <1>6, <1>8, <2>1, <2>2, <2>3 DEF Asks
  <1>9. CASE i # k
    BY <1>0, <1>1, <1>5, <1>7, <1>9, OthersQueued
  <1> QED  BY <1>8, <1>9

LEMMA SendNextSends ==
  ASSUME CreditInv, NEW p \in Peer, NEW k \in StreamId, SendNext(p, k), NEW i \in StreamId
  PROVE  Passive(i) \/ Sends(p, i)
  <1> DEFINE s == stream[p][k]
             op == Head(s.tail)
             t == [s EXCEPT !.outCredit = @ - 1, !.tail = Tail(@), !.busy = TRUE]
             job == [Plain("DATA", k) EXCEPT !.item = op.item, !.size = op.size]
  <1>0. TypeInv /\ TableInv
    BY DEF CreditInv, FrontierInv
  <1>1. /\ stream' = [stream EXCEPT ![p][k] = t] /\ Queue(p, job)
        /\ UNCHANGED <<written, flying, wire>> /\ s.tail # <<>> /\ s.outCredit > 0
    BY DEF SendNext, Update, Waiting, HasCredit, readerVars
  <1>2. s \in Stream /\ s.tail \in Seq(Op)
    BY <1>0, StreamOf DEF TypeInv, TypeOK, Stream
  <1>3. IsPast(p, k)
    BY <1>0, <1>1, SoundOf DEF Untouched
  <1>4. job \in Job /\ job.kind = "DATA" /\ job.id = k /\ Units(job) = 1
    <2>1. op \in Op
      BY <1>1, <1>2, HeadTailProperties, SMTT(30)
    <2>2. job \in Job
      BY <2>1, PlainType, JobChanges DEF JobKind, Op
    <2> QED  BY <2>2 DEF Plain, Units
  <1>5. t.inCredit = s.inCredit /\ t.asked = s.asked /\ t.outCredit = s.outCredit - 1
    BY <1>2 DEF Stream
  <1>6. Stays
    BY <1>0, TailStays DEF StreamTail
  <1> HIDE DEF t, job
  <1>7. CASE i = k
    <2>1. stream'[p][k] = t /\ \A q \in Peer \ {p} : stream'[q] = stream[q]
      BY <1>0, <1>1, ChangedStream DEF TypeInv, TypeOK, TableType
    <2>2. Shifted(i, p, "DATA", 1)
      BY <1>0, <1>1, <1>4, <1>7, ShiftedQueued DEF Credited
    <2>3. Beside(p, i)
      BY <2>1 DEF Beside, SameCredit
    <2> QED  BY <1>1, <1>3, <1>5, <1>7, <2>1, <2>2, <2>3 DEF Sends
  <1>8. CASE i # k
    BY <1>0, <1>1, <1>4, <1>6, <1>8, OthersQueued
  <1> QED  BY <1>7, <1>8

LEMMA OthersRead ==
  ASSUME TypeInv, NEW p \in Peer, NEW k \in StreamId, k = Incoming(p).id, Read(p),
         \A m \in StreamId \ {k} : stream'[p][m] = stream[p][m],
         \A q \in Peer \ {p} : stream'[q] = stream[q] /\ jobs'[q] = jobs[q],
         NEW i \in StreamId, i # k, wire'[p] = wire[p] => Held(p, i)
  PROVE  Passive(i)
  <1>1. Receives(p) \/ EndsLane(p)
    BY ReadKinds
  <1>2. Spent(p, i)
    BY DEF Spent, Counts
  <1>3. CreditKept(p, i)
    BY DEF CreditKept
  <1> QED  BY <1>1, <1>2, <1>3, HeldRead, PassiveBy

LEMMA DemandGranted ==
  ASSUME CreditInv, NEW p \in Peer, ReadDemand(p), NEW i \in StreamId
  PROVE  Passive(i) \/ \E n \in Nat : Granted(p, i, n)
  <1>0. TypeInv /\ TableInv /\ Reads(p, {"DEMAND"}) /\ Read(p) /\ UNCHANGED <<jobs, written, flying>>
    BY DEF CreditInv, FrontierInv, ReadDemand, ReadsLive, Read, writerVars
  <1>1. PICK k \in StreamId, n \in Nat : k = Incoming(p).id /\ n = Incoming(p).amount
    BY <1>0, ReadsType
  <1> DEFINE s == stream[p][k]
             t == [s EXCEPT !.outCredit = AddCredit(@, n)]
  <1>2. /\ stream' = [stream EXCEPT ![p][k] = t] /\ k \in live[p] /\ Incoming(p).kind = "DEMAND"
        /\ CanRead(p) /\ Consume(p)
    BY <1>1 DEF ReadDemand, ReadsLive, Reads, Update
  <1>3. s \in Stream
    BY <1>0, StreamOf DEF TypeInv, TypeOK
  <1>4. t.inCredit = s.inCredit /\ t.asked = s.asked /\ t.outCredit = AddCredit(s.outCredit, n)
    BY <1>3 DEF Stream
  <1>5. IsPast(p, k) \/ k \in Own(p)
    BY <1>0, <1>2 DEF TableInv, IdInv, IdsInOrder, IsPast
  <1> HIDE DEF t
  <1>6. /\ stream'[p][k] = t /\ \A q \in Peer \ {p} : stream'[q] = stream[q]
        /\ \A m \in StreamId \ {k} : stream'[p][m] = stream[p][m]
    BY <1>0, <1>2, ChangedStream DEF TypeInv, TypeOK, TableType
  <1>7. CASE i = k
    <2>1. wire'[p] = wire[p]
      <3>1. Other(p) # p
        BY DEF Other, Peer
      <3> QED  BY <1>0, <1>2, <3>1 DEF Consume, TypeInv, TypeOK, ReaderType
    <2>2. \A x \in Credited : Underway(p, x, i)' = Underway(p, x, i)
      BY <1>0, <2>1, UnderwayStill
    <2>3. Units(Incoming(p)) = n /\ Incoming(p).id = i
      BY <1>1, <1>2, <1>7 DEF Units
    <2>4. Shifted(i, Other(p), "DEMAND", -n) /\ Underway(Other(p), "DEMAND", i)' \in Nat
      BY <1>0, <1>2, <2>2, <2>3, ShiftedRead DEF Credited
    <2>5. Beside(p, i)
      BY <1>6 DEF Beside, SameCredit
    <2> QED  BY <1>4, <1>5, <1>6, <1>7, <2>4, <2>5 DEF Granted
  <1>8. CASE i # k
    <2>1. wire'[p] = wire[p] => Held(p, i)
      BY <1>0, HeldSame
    <2> QED  BY <1>0, <1>1, <1>6, <1>8, <2>1, OthersRead
  <1> QED  BY <1>7, <1>8

LEMMA DataGets ==
  ASSUME CreditInv, NEW p \in Peer, ReadData(p) \/ StartReassembly(p) \/ RefuseReassembly(p),
         NEW i \in StreamId
  PROVE  Passive(i) \/ Gets(p, i)
  <1>0. /\ TypeInv /\ TableInv /\ ReadsLive(p, {"DATA"}) /\ Reads(p, {"DATA"}) /\ Read(p)
        /\ UNCHANGED <<written, flying>>
    BY DEF CreditInv, FrontierInv, ReadData, StartReassembly, RefuseReassembly, ReadsLive, Read,
           writerVars
  <1>1. PICK k \in StreamId : k = Incoming(p).id
    BY <1>0, ReadsType
  <1>2. /\ Incoming(p).kind = "DATA" /\ CanRead(p) /\ Consume(p)
    BY <1>0 DEF Reads
  <1>3. stream[p][k] \in Stream /\ IsPast(p, k)
    BY <1>0, <1>1, DataIsPast, SoundOf
  <1>4. /\ stream'[p][k].inCredit = stream[p][k].inCredit - 1
        /\ stream'[p][k].asked = stream[p][k].asked
        /\ stream'[p][k].outCredit = stream[p][k].outCredit
        /\ \A m \in StreamId \ {k} : stream'[p][m] = stream[p][m]
        /\ \A q \in Peer \ {p} : stream'[q] = stream[q]
    <2> DEFINE f == Incoming(p)
               s == stream[p][k]
    <2>1. CASE ReadData(p)
      <3> DEFINE t == [s EXCEPT !.inCredit = @ - 1, !.got = Push(s, <<Payload(f)>>)]
      <3>1. stream' = [stream EXCEPT ![p][k] = t]
        BY <1>1, <2>1 DEF ReadData, Update
      <3>2. t.inCredit = s.inCredit - 1 /\ t.asked = s.asked /\ t.outCredit = s.outCredit
        BY <1>3 DEF Stream
      <3> HIDE DEF t
      <3> QED  BY <1>0, <3>1, <3>2, ChangedStream DEF TypeInv, TypeOK, TableType
    <2>2. CASE StartReassembly(p)
      <3> DEFINE t == [s EXCEPT !.inCredit = @ - 1, !.expected = f.size, !.partial = <<Payload(f)>>]
      <3>1. stream' = [stream EXCEPT ![p][k] = t]
        BY <1>0, <1>1, <1>3, <2>2 DEF StartReassembly, TypeInv, TypeOK, TableType, Stream
      <3>2. t.inCredit = s.inCredit - 1 /\ t.asked = s.asked /\ t.outCredit = s.outCredit
        BY <1>3 DEF Stream
      <3> HIDE DEF t
      <3> QED  BY <1>0, <3>1, <3>2, ChangedStream DEF TypeInv, TypeOK, TableType
    <2>3. CASE RefuseReassembly(p)
      <3> DEFINE t == Cancelled([s EXCEPT !.inCredit = @ - 1])
      <3>1. stream' = [stream EXCEPT ![p][k] = t]
        BY <1>1, <2>3 DEF RefuseReassembly, CancelStream
      <3>2. t.inCredit = s.inCredit - 1 /\ t.asked = s.asked /\ t.outCredit = s.outCredit
        BY <1>3 DEF Stream, Cancelled
      <3> HIDE DEF t
      <3> QED  BY <1>0, <3>1, <3>2, ChangedStream DEF TypeInv, TypeOK, TableType
    <2> QED  BY <2>1, <2>2, <2>3
  <1>5. \A q \in Peer \ {p} : jobs'[q] = jobs[q]
    BY <1>0 DEF ReadData, StartReassembly, RefuseReassembly, Refuse, Queue, writerVars,
                TypeInv, TypeOK, WriterType
  <1>6. wire'[p] = wire[p]
    <2>1. Other(p) # p
      BY DEF Other, Peer
    <2> QED  BY <1>0, <1>2, <2>1 DEF Consume, TypeInv, TypeOK, ReaderType
  <1>7. CASE i = k
    <2>1. \A x \in Credited : Underway(p, x, i)' = Underway(p, x, i)
      <3>1. CASE UNCHANGED jobs
        BY <1>0, <1>6, <3>1, UnderwayStill
      <3>2. CASE Refuse(p, k)
        <4>1. PICK fits \in Encodable :
                Queue(p, [Plain("ERROR", k) EXCEPT !.fits = fits, !.reader = TRUE])
          BY <3>2 DEF Refuse
        <4> DEFINE job == [Plain("ERROR", k) EXCEPT !.fits = fits, !.reader = TRUE]
        <4>2. job \in Job /\ Queue(p, job) /\ job.kind = "ERROR"
          <5>1. job \in Job
            BY PlainType, JobChanges, CallsAssumption DEF JobKind
          <5> QED  BY <4>1, <5>1 DEF Plain
        <4> HIDE DEF job
        <4>3. \A x : Underway(p, x, i)' = Underway(p, x, i) + Counts(job, x, i)
          BY <1>0, <1>6, <4>2, UnderwayQueued
        <4>4. \A x \in Credited : Counts(job, x, i) = 0
          BY <4>2 DEF Counts, Credited
        <4>5. \A x : Underway(p, x, i) \in Nat
          BY <1>0, LaneFacts
        <4> QED  BY <4>3, <4>4, <4>5
      <3> QED  BY <1>1, <3>1, <3>2 DEF ReadData, StartReassembly, RefuseReassembly, writerVars
    <2>2. Units(Incoming(p)) = 1 /\ Incoming(p).id = i
      BY <1>1, <1>2, <1>7 DEF Units
    <2>3. Shifted(i, Other(p), "DATA", -1)
      <3>1. Other(p) \in Peer \ {p}
        BY DEF Other, Peer
      <3> QED  BY <1>0, <1>2, <1>5, <2>1, <2>2, <3>1, ShiftedRead DEF Credited
    <2>4. Beside(p, i)
      BY <1>4 DEF Beside, SameCredit
    <2> QED  BY <1>3, <1>4, <1>7, <2>3, <2>4 DEF Gets
  <1>8. CASE i # k
    <2>1. Held(p, i)
      <3>1. CASE UNCHANGED jobs
        BY <1>0, <1>6, <3>1, HeldSame
      <3>2. CASE Refuse(p, k)
        BY <1>0, <1>6, <3>2, HeldRefused
      <3> QED  BY <1>1, <3>1, <3>2 DEF ReadData, StartReassembly, RefuseReassembly, writerVars
    <2> QED  BY <1>0, <1>1, <1>4, <1>5, <1>8, <2>1, OthersRead
  <1> QED  BY <1>7, <1>8

-----------------------------------------------------------------------------
(* The invariant                                                           *)

LEMMA CreditKinds ==
  ASSUME CreditInv, Next, NEW i \in StreamId
  PROVE  Passive(i) \/ \E p \in Peer : Moves(p, i)
  <1>0. TypeInv /\ TableInv
    BY DEF CreditInv, FrontierInv
  <1>1. PICK p \in Peer : \/ Application(p) \/ Write(p) \/ LaneFails(p) \/ Read(p)
                          \/ \E k \in StreamId : StreamTail(p, k)
    BY DEF Next
  <1>2. CASE Application(p)
    <2>1. ASSUME NEW k \in StreamId, NEW n \in Demands, Request(p, k, n)
          PROVE  Passive(i) \/ Moves(p, i)
      BY <2>1, RequestAsks DEF Moves
    <2>2. Open(p) \/ TakeIncoming(p) \/ Close(p) \/ CloseDetached(p) => Passive(i)
      BY <1>0, PassiveOpen, PassiveSession
    <2>3. ASSUME NEW k \in StreamId, \/ \E size \in ItemSizes : Send(p, k, size)
                                     \/ Complete(p, k) \/ Cancel(p, k) \/ Fail(p, k)
          PROVE  Passive(i)
      BY <1>0, <2>3, PassiveCalls
    <2> QED  BY <1>2, <2>1, <2>2, <2>3, Zenon DEF Application
  <1>3. CASE Write(p)
    BY <1>3, PassiveWrite
  <1>4. CASE LaneFails(p)
    <2>1. EndsLane(p)
      BY <1>0, <1>4, SessionEnds DEF LaneFails, EndsLane
    <2> QED  BY <2>1, PassiveEnds
  <1>5. CASE Read(p)
    <2>1. CASE ReadIllegal(p) \/ ReadClose(p) \/ CarrierEnds(p)
      <3>1. Receives(p) \/ EndsLane(p)
        BY <1>0, <1>5, ReadKinds
      <3>2. Ends(p)
        BY <1>0, <2>1, SessionEnds
      <3>3. ~Receives(p)
        <4>1. ~Ready(p)' /\ Ready(p)
          BY <1>0, <2>1, <3>2 DEF Ends, Over, Ready, TypeInv, TypeOK, StateType, ReadIllegal,
                                  ReadClose, Reads, CanRead, CarrierEnds
        <4> QED  BY <4>1 DEF Receives, Ready
      <3> QED  BY <3>1, <3>3, PassiveEnds
    <2>2. CASE TurnsAway(p) \/ Admits(p)
      BY <2>2, PassiveOpens
    <2>3. CASE ReadLate(p)
      BY <2>3, PassiveLate
    <2>4. CASE ReadFragment(p) \/ ReadComplete(p) \/ ReadEnding(p)
      BY <2>4, PassiveRead
    <2>5. CASE ReadDemand(p)
      BY <2>5, DemandGranted DEF Moves
    <2>6. CASE ReadData(p) \/ StartReassembly(p) \/ RefuseReassembly(p)
      BY <2>6, DataGets DEF Moves
    <2> QED  BY <1>5, <2>1, <2>2, <2>3, <2>4, <2>5, <2>6 DEF Read, TurnsAway, Admits
  <1>6. ASSUME NEW k \in StreamId, StreamTail(p, k) PROVE Passive(i) \/ Moves(p, i)
    <2>1. SendNext(p, k) => Passive(i) \/ Moves(p, i)
      BY SendNextSends DEF Moves
    <2>2. SendTooLarge(p, k) \/ CompleteNext(p, k) => Passive(i)
      BY <1>0, PassiveTail
    <2> QED  BY <1>6, <2>1, <2>2 DEF StreamTail
  <1> QED  BY <1>1, <1>2, <1>3, <1>4, <1>5, <1>6

LEMMA InitCredit == Init => CreditInv
  <1> SUFFICES ASSUME Init PROVE CreditInv
    OBVIOUS
  <1>1. TableInv /\ FrontierInv
    BY InitTable, InitFrontiers
  <1>2. ASSUME NEW p \in Peer, NEW i \in StreamId
        PROVE  /\ stream[p][i].inCredit = 0 /\ stream[p][i].outCredit = 0 /\ stream[p][i].asked = 0
               /\ \A kind : Underway(p, kind, i) = 0
    <2>1. stream[p][i] = NewStream(0)
      BY DEF Init
    <2>2. jobs[p] = <<>> /\ wire[p] = <<>>
      BY DEF Init
    <2>3. \A kind, n : Amount(<<>>, n, kind, i) = 0
      BY AmountEmpty
    <2> QED  BY <2>1, <2>2, <2>3 DEF NewStream, Underway
  <1>3. ASSUME NEW p \in Peer, NEW i \in StreamId
        PROVE  Covered(p, i) /\ Balance(p, i) /\ Ledger(p, i)
    <2>1. Other(p) \in Peer
      BY PeerFacts
    <2>2. Due(p, i) = 0
      BY <1>2, <2>1 DEF Due
    <2> QED  BY <1>2, <2>2 DEF Covered, Balance, Ledger
  <1> QED  BY <1>1, <1>3 DEF CreditInv, Credit

LEMMA NextCredit ==
  ASSUME CreditInv, [Next]_vars
  PROVE  CreditInv'
  <1>1. TableInv' /\ FrontierInv' /\ TypeInv /\ TypeInv'
    BY NextTable, NextFrontiers DEF CreditInv, FrontierInv
  <1>2. CASE Next
    <2>1. ASSUME NEW i \in StreamId PROVE Credit(i)'
      <3>1. Credit(i) /\ Onward(i)
        BY <1>2, NextOnward DEF CreditInv
      <3>2. Passive(i) => Credit(i)'
        BY <1>1, <3>1, CreditPassive
      <3>3. ASSUME NEW p \in Peer, Moves(p, i) PROVE Credit(i)'
        BY <1>1, <3>1, <3>3, CreditAsks, CreditSends, CreditGranted, CreditGets DEF Moves
      <3> QED  BY <1>2, <3>2, <3>3, CreditKinds
    <2> QED  BY <1>1, <2>1 DEF CreditInv
  <1>3. CASE UNCHANGED vars
    <2>1. ASSUME NEW i \in StreamId PROVE Credit(i)'
      <3>1. Credit(i)
        BY DEF CreditInv
      <3>2. UNCHANGED <<session, stream, live, nextId, highestRemote, jobs, written, flying, wire>>
        BY <1>3 DEF vars, tableVars, idVars, writerVars, readerVars, stateVars
      <3> QED  BY <3>1, <3>2 DEF Credit, Covered, Balance, Ledger, Due, Joined, Current, BothReady,
                                 Ready, IsPast, Underway, Skip
    <2> QED  BY <1>1, <2>1 DEF CreditInv
  <1> QED  BY <1>2, <1>3

\* The numbers the properties speak of are those the invariant speaks of.
LEMMA PairsOf ==
  ASSUME NEW s, NEW field, NEW ids
  PROVE  /\ Total(s, field, ids) = Cardinality(Pairs(s, field, ids))
         /\ \A x : x \in Pairs(s, field, ids) <=>
                     \E k \in ids : \E u \in 1..s[k][field] : x = <<k, u>>
  BY DEF Total, Pairs

LEMMA DemandTotal ==
  ASSUME NEW q, NEW n, NEW i, NEW M,
         M = {k \in 1..Len(q) : k > n /\ q[k].kind = "DEMAND" /\ q[k].id = i},
         \A k \in M : q[k].amount \in Nat
  PROVE  Amount(q, n, "DEMAND", i) = Total(q, "amount", M)
  <1> DEFINE h == Worth(q, "DEMAND", i)
             g == [k \in DOMAIN h |-> [amount |-> h[k]]]
             A == {k \in DOMAIN h : k > n}
  <1>1. DOMAIN h = 1..Len(q) /\ \A k \in 1..Len(q) : h[k] = Counts(q[k], "DEMAND", i)
    BY DEF Worth
  <1>2. \A k \in A : g[k]["amount"] = h[k]
    OBVIOUS
  <1>3. \A k \in A : /\ k \in M => h[k] = q[k]["amount"]
                     /\ k \notin M => h[k] = 0
    BY <1>1 DEF Counts, Units
  <1>4. M \subseteq A
    BY <1>1
  <1>5. Amount(q, n, "DEMAND", i) = Total(g, "amount", A)
    BY DEF Amount, Sum
  <1> HIDE DEF g, h, A
  <1>6. Pairs(g, "amount", A) = Pairs(q, "amount", M)
    <2>1. ASSUME NEW x \in Pairs(g, "amount", A) PROVE x \in Pairs(q, "amount", M)
      <3>1. PICK k \in A : \E u \in 1..g[k]["amount"] : x = <<k, u>>
        BY <2>1, PairsOf
      <3>2. PICK u \in 1..h[k] : x = <<k, u>>
        BY <1>2, <3>1
      <3>3. k \in M /\ u \in 1..q[k]["amount"]
        BY <1>3, <3>2
      <3> QED  BY <3>2, <3>3, PairsOf
    <2>2. ASSUME NEW x \in Pairs(q, "amount", M) PROVE x \in Pairs(g, "amount", A)
      <3>1. PICK k \in M : \E u \in 1..q[k]["amount"] : x = <<k, u>>
        BY <2>2, PairsOf
      <3>2. k \in A /\ g[k]["amount"] = q[k]["amount"]
        BY <1>2, <1>3, <1>4
      <3> QED  BY <3>1, <3>2, PairsOf
    <2> QED  BY <2>1, <2>2
  <1> QED  BY <1>5, <1>6, PairsOf

LEMMA ItemTotal ==
  ASSUME NEW q, Len(q) \in Nat, NEW n, NEW i, NEW M,
         M = {k \in 1..Len(q) : k > n /\ q[k].kind = "DATA" /\ q[k].id = i}
  PROVE  Amount(q, n, "DATA", i) = Cardinality(M)
  <1> DEFINE h == Worth(q, "DATA", i)
             g == [k \in DOMAIN h |-> [amount |-> h[k]]]
             A == {k \in DOMAIN h : k > n}
             f == [k \in M |-> <<k, 1>>]
             P == Pairs(g, "amount", A)
  <1>1. DOMAIN h = 1..Len(q) /\ \A k \in 1..Len(q) : h[k] = Counts(q[k], "DATA", i)
    BY DEF Worth
  <1>2. \A k \in A : g[k]["amount"] = h[k]
    OBVIOUS
  <1>3. \A k \in A : /\ k \in M => h[k] = 1
                     /\ k \notin M => h[k] = 0
    BY <1>1 DEF Counts, Units
  <1>4. M \subseteq A
    BY <1>1
  <1>5. Amount(q, n, "DATA", i) = Total(g, "amount", A)
    BY DEF Amount, Sum
  <1>6. IsFiniteSet(M)
    <2>1. IsFiniteSet(1..Len(q))
      BY FS_Interval
    <2> QED  BY <2>1, FS_Subset
  <1> HIDE DEF g, h, A
  <1>7. \A x : x \in P <=> \E k \in M : x = <<k, 1>>
    <2>1. ASSUME NEW x \in P PROVE \E k \in M : x = <<k, 1>>
      <3>1. PICK k \in A : \E u \in 1..g[k]["amount"] : x = <<k, u>>
        BY <2>1, PairsOf
      <3>2. PICK u \in 1..h[k] : x = <<k, u>>
        BY <1>2, <3>1
      <3>3. k \in M /\ u = 1
        BY <1>3, <3>2
      <3> QED  BY <3>2, <3>3
    <2>2. ASSUME NEW k \in M PROVE <<k, 1>> \in P
      <3>1. k \in A /\ 1 \in 1..g[k]["amount"]
        BY <1>2, <1>3, <1>4
      <3> QED  BY <3>1, PairsOf
    <2> QED  BY <2>1, <2>2
  <1> HIDE DEF P
  <1>8. f \in Bijection(M, P)
    <2>1. f \in [M -> P] /\ \A k, m \in M : f[k] = f[m] => k = m
      BY <1>7
    <2>2. \A b \in P : \E k \in M : f[k] = b
      BY <1>7
    <2> HIDE DEF f
    <2> QED  BY <2>1, <2>2 DEF Bijection, Injection, Surjection, IsInjective
  <1>9. Cardinality(P) = Cardinality(M)
    BY <1>6, <1>8, FS_Bijection DEF ExistsBijection
  <1> QED  BY <1>5, <1>9, PairsOf DEF P

LEMMA UnderwayIs ==
  ASSUME TypeInv, NEW p \in Peer, NEW i \in StreamId
  PROVE  /\ DemandUnderway(p, i) = Underway(p, "DEMAND", i)
         /\ ItemsUnderway(p, i) = Underway(p, "DATA", i)
  <1>1. /\ jobs[p] \in Seq(Job) /\ wire[p] \in Seq(Frame) /\ Len(jobs[p]) \in Nat
        /\ DOMAIN jobs[p] = 1..Len(jobs[p]) /\ DOMAIN wire[p] = 1..Len(wire[p])
        /\ Len(wire[p]) \in Nat
    BY DEF TypeInv, TypeOK, WriterType, ReaderType
  <1>2. Unwritten(p) = {k \in 1..Len(jobs[p]) : k > Skip(p)}
    BY <1>1 DEF Unwritten, Skip
  <1>3. DemandUnderway(p, i) = Underway(p, "DEMAND", i)
    <2> DEFINE M == {k \in Unwritten(p) : jobs[p][k].kind = "DEMAND" /\ jobs[p][k].id = i}
               N == {k \in DOMAIN wire[p] : wire[p][k].kind = "DEMAND" /\ wire[p][k].id = i}
    <2>1. M = {k \in 1..Len(jobs[p]) : k > Skip(p) /\ jobs[p][k].kind = "DEMAND" /\ jobs[p][k].id = i}
      BY <1>2
    <2>2. N = {k \in 1..Len(wire[p]) : k > 0 /\ wire[p][k].kind = "DEMAND" /\ wire[p][k].id = i}
      BY <1>1
    <2>3. (\A k \in M : jobs[p][k].amount \in Nat) /\ \A k \in N : wire[p][k].amount \in Nat
      <3>1. \A k \in M : jobs[p][k] \in Job
        BY <1>1, <2>1
      <3>2. \A k \in N : wire[p][k] \in Frame
        BY <1>1, <2>2
      <3> HIDE DEF M, N
      <3> QED  BY <3>1, <3>2 DEF Job, JobOf, Frame, FrameOf
    <2>4. DemandUnderway(p, i) = Total(jobs[p], "amount", M) + Total(wire[p], "amount", N)
      BY DEF DemandUnderway
    <2> HIDE DEF M, N
    <2>5. Amount(jobs[p], Skip(p), "DEMAND", i) = Total(jobs[p], "amount", M)
      BY <2>1, <2>3, DemandTotal
    <2>6. Amount(wire[p], 0, "DEMAND", i) = Total(wire[p], "amount", N)
      BY <2>2, <2>3, DemandTotal
    <2> QED  BY <2>4, <2>5, <2>6 DEF Underway
  <1>4. ItemsUnderway(p, i) = Underway(p, "DATA", i)
    <2> DEFINE M == {k \in Unwritten(p) : jobs[p][k].kind = "DATA" /\ jobs[p][k].id = i}
               N == {k \in DOMAIN wire[p] : wire[p][k].kind = "DATA" /\ wire[p][k].id = i}
    <2>1. M = {k \in 1..Len(jobs[p]) : k > Skip(p) /\ jobs[p][k].kind = "DATA" /\ jobs[p][k].id = i}
      BY <1>2
    <2>2. N = {k \in 1..Len(wire[p]) : k > 0 /\ wire[p][k].kind = "DATA" /\ wire[p][k].id = i}
      BY <1>1
    <2>3. ItemsUnderway(p, i) = Cardinality(M) + Cardinality(N)
      BY DEF ItemsUnderway
    <2> HIDE DEF M, N
    <2>4. Amount(jobs[p], Skip(p), "DATA", i) = Cardinality(M)
      BY <1>1, <2>1, ItemTotal
    <2>5. Amount(wire[p], 0, "DATA", i) = Cardinality(N)
      BY <1>1, <2>2, ItemTotal
    <2> QED  BY <2>3, <2>4, <2>5 DEF Underway
  <1> QED  BY <1>3, <1>4

\* A stream both peers hold is balanced.
LEMMA SharedBalance ==
  ASSUME CreditInv, NEW p \in Peer, BothReady, NEW i \in live[p] \cap live[Other(p)]
  PROVE  LET due == stream[Other(p)][i].outCredit + DemandUnderway(p, i)
                      + ItemsUnderway(Other(p), i)
         IN /\ stream[p][i].inCredit <= due
            /\ stream[p][i].asked <= MaxCredit => stream[p][i].inCredit = due
  <1>1. TypeInv /\ Other(p) \in Peer /\ \A q \in Peer : q = p \/ q = Other(p)
    BY PeerFacts DEF CreditInv, FrontierInv, Other, Peer
  <1>2. i \in StreamId
    BY <1>1 DEF TypeInv, TypeOK, TableType
  <1>3. Balance(p, i) /\ Joined(i)
    BY <1>1, <1>2 DEF CreditInv, Credit, Joined, Current
  <1> QED  BY <1>1, <1>2, <1>3, UnderwayIs DEF Balance, Due

LEMMA CreditInvariant == Spec => []CreditInv
  BY InitCredit, NextCredit, PTL DEF Spec

\* The receiver of a stream never expects more than its sender may send it: through
\* every grant, item and ending underway, and however high the demand adds up.
THEOREM CreditNeverOverstated == Spec => []CreditNotOverstated
  <1>1. CreditInv => CreditNotOverstated
    BY SharedBalance DEF CreditNotOverstated
  <1> QED  BY <1>1, CreditInvariant, PTL

\* No stream has been asked for more than a DEMAND can carry.
Unsaturated == \A p \in Peer, i \in StreamId : stream[p][i].asked <= MaxCredit
AskedInv == CreditInv /\ \A p \in Peer, i \in StreamId : stream[p][i].asked <= MaxAsked

LEMMA AskedInvariant == Spec => []AskedInv
  <1>1. Init => AskedInv
    <2> SUFFICES ASSUME Init PROVE AskedInv
      OBVIOUS
    <2>1. \A p \in Peer, i \in StreamId : stream[p][i].asked = 0
      BY DEF Init, NewStream
    <2>2. MaxAsked \in Nat
      BY BoundsAssumption
    <2> QED  BY <2>1, <2>2, InitCredit DEF AskedInv
  <1>2. AskedInv /\ [Next]_vars => AskedInv'
    <2> SUFFICES ASSUME AskedInv, [Next]_vars PROVE AskedInv'
      OBVIOUS
    <2>1. CreditInv' /\ CreditInv
      BY NextCredit DEF AskedInv
    <2>2. ASSUME NEW q \in Peer, NEW i \in StreamId PROVE stream'[q][i].asked <= MaxAsked
      <3>1. stream[q][i].asked <= MaxAsked
        BY DEF AskedInv
      <3>2. CASE Next
        <4>1. Passive(i) => stream'[q][i].asked = stream[q][i].asked
          BY DEF Passive
        <4>2. ASSUME NEW p \in Peer, Moves(p, i) PROVE stream'[q][i].asked <= MaxAsked
          <5>1. CASE q = p
            BY <3>1, <4>2, <5>1 DEF Moves, Sends, Gets, Granted, Asks
          <5>2. CASE q # p
            BY <3>1, <4>2, <5>2 DEF Moves, Sends, Gets, Granted, Asks, Beside, SameCredit
          <5> QED  BY <5>1, <5>2
        <4> QED  BY <2>1, <3>1, <3>2, <4>1, <4>2, CreditKinds
      <3>3. CASE UNCHANGED vars
        BY <3>1, <3>3 DEF vars, tableVars
      <3> QED  BY <3>2, <3>3
    <2> QED  BY <2>1, <2>2 DEF AskedInv
  <1> QED  BY <1>1, <1>2, PTL DEF Spec

\* Until the demand for a stream adds up to more than a DEMAND can carry no credit is
\* lost or invented: each grant is added, each item takes one, and a send() that is
\* refused gives its own back.  Nothing is lost at all when no application asks for more.
THEOREM CreditAlwaysConserved ==
  /\ Spec => [](Unsaturated => CreditConserved)
  /\ MaxAsked <= MaxCredit => (Spec => []CreditConserved)
  <1>1. CreditInv => (Unsaturated => CreditConserved)
    <2> SUFFICES ASSUME CreditInv, Unsaturated, NEW p \in Peer, BothReady,
                        NEW i \in live[p] \cap live[Other(p)]
                 PROVE  stream[p][i].inCredit = stream[Other(p)][i].outCredit
                          + DemandUnderway(p, i) + ItemsUnderway(Other(p), i)
      BY DEF CreditConserved
    <2>1. i \in StreamId
      BY DEF CreditInv, FrontierInv, TypeInv, TypeOK, TableType
    <2> QED  BY <2>1, SharedBalance DEF Unsaturated
  <1>2. AskedInv /\ MaxAsked <= MaxCredit => Unsaturated
    <2> SUFFICES ASSUME AskedInv, MaxAsked <= MaxCredit, NEW p \in Peer, NEW i \in StreamId
                 PROVE  stream[p][i].asked <= MaxCredit
      BY DEF Unsaturated
    <2>1. stream[p][i].asked \in Nat /\ MaxCredit \in Nat
      BY CreditNumbers DEF AskedInv, CreditInv, FrontierInv
    <2> QED  BY <2>1, BoundsAssumption DEF AskedInv
  <1>3. AskedInv => CreditInv
    BY DEF AskedInv
  <1>4. Spec => [](Unsaturated => CreditConserved)
    BY <1>1, CreditInvariant, PTL
  <1>5. ASSUME MaxAsked <= MaxCredit PROVE Spec => []CreditConserved
    <2>1. AskedInv => CreditConserved
      BY <1>1, <1>2, <1>3, <1>5
    <2> QED  BY <2>1, AskedInvariant, PTL
  <1> QED  BY <1>4, <1>5
===============================================================================
