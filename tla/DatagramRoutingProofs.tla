----------------------- MODULE DatagramRoutingProofs -----------------------
(***************************************************************************)
(* What datagram-routing/1 promises, for all route tables and any number of *)
(* calls: DatagramsKept is an invariant.                                   *)
(*                                                                         *)
(* Handlers are given the right values because both ends count the same set *)
(* of common routes and an id names one of them; callers of sendLatest()    *)
(* are told the truth because the value that is written belongs to the      *)
(* route and is as new as everybody in its batch (EntriesInOrder).          *)
(***************************************************************************)
EXTENDS DatagramRouting, FiniteSetTheorems, SequenceTheorems, TLAPS

States == {"waiting", "writing", "resolved", "rejected"}
Writes == {"none", "pending", "accepted", "refused"}
Call == [how : {"one", "latest"}, route : Nat, state : States]
Entry == [data : Nat, waiters : SUBSET Nat, batch : SUBSET Nat, value : Nat, write : Writes]

TypeInv ==
  /\ table \in Tables
  /\ calls \in Seq(Call)
  /\ latest \in [Routes -> Entry]
  /\ air \subseteq [id : Nat, value : Nat]
  /\ handlers \subseteq Common("server")
  /\ given \in [Routes -> SUBSET Nat]
  /\ raw \in Seq(Nat)

\* Calls are made on common routes, or raw; those of sendLatest() have no write of
\* their own.
CallsRouted ==
  \A c \in DOMAIN calls :
    /\ calls[c].route \in Common("client") \cup {0}
    /\ calls[c].how = "latest" => calls[c].route # 0 /\ calls[c].state # "writing"

\* Who waits or is written for has called on this route, and no later than the value
\* that is, or will be, written.
EntryInOrder(r) ==
  /\ latest[r].waiters \cup latest[r].batch \subseteq Of(r)
  /\ latest[r].waiters # {} => /\ latest[r].data \in Of(r)
                               /\ \A c \in latest[r].waiters : c <= latest[r].data
  /\ latest[r].write = "none" => latest[r].waiters = {}
  /\ latest[r].write # "none" => /\ latest[r].value \in Of(r)
                                 /\ \A c \in latest[r].batch : c <= latest[r].value
  /\ latest[r].write = "accepted" =>
       [id |-> IdOf("client", r), value |-> latest[r].value] \in air

EntriesInOrder == \A r \in Routes : EntryInOrder(r)

\* What is in the air carries the id of the route it was sent on.
AirAddressed ==
  \A m \in air : /\ m.value \in DOMAIN calls
                 /\ m.id = IdOf("client", calls[m.value].route)

Inv == TypeInv /\ CallsRouted /\ EntriesInOrder /\ AirAddressed /\ DatagramsKept

-----------------------------------------------------------------------------
(* Route tables.                                                           *)

\* Both ends keep the same finite set of routes.
LEMMA CommonRoutes ==
  ASSUME table \in Tables
  PROVE  /\ Common("client") = Common("server")
         /\ IsFiniteSet(Common("client"))
         /\ Common("client") \subseteq Nat \ {0}
         /\ Common("client") \subseteq Routes
<1>1. /\ table["client"] \subseteq Nat \ {0} /\ IsFiniteSet(table["client"])
      /\ table["server"] \subseteq Nat \ {0}
  BY RoutingAssumption DEF Ends
<1>2. Common("client") = Common("server") /\ Common("client") \subseteq table["client"]
  BY DEF Common, Other
<1>3. table["client"] = table.client
  OBVIOUS
<1> QED BY <1>1, <1>2, <1>3, FS_Subset DEF Routes

\* Counting the members up to one of them tells the members apart.
LEMMA PlacesDiffer ==
  ASSUME NEW S, IsFiniteSet(S), S \subseteq Nat, NEW r \in S, NEW s \in S,
         Cardinality({x \in S : x <= r}) = Cardinality({x \in S : x <= s})
  PROVE  r = s
<1> DEFINE UpTo(n) == {x \in S : x <= n}
<1>1. ASSUME NEW a \in S, NEW b \in S, a < b, Cardinality(UpTo(a)) = Cardinality(UpTo(b))
      PROVE  FALSE
  <2>1. UpTo(b) \in SUBSET S
    OBVIOUS
  <2>2. IsFiniteSet(UpTo(b))
    BY <2>1, FS_Subset
  <2>3. UpTo(a) \subseteq UpTo(b) /\ b \in UpTo(b) /\ b \notin UpTo(a)
    <3>1. a \in Nat /\ b \in Nat
      OBVIOUS
    <3>2. \A x \in S : x \in Nat /\ (x <= a => x <= b)
      BY <1>1, <3>1
    <3>3. b <= b /\ ~(b <= a)
      BY <1>1, <3>1
    <3> QED BY <3>2, <3>3
  <2>4. UpTo(a) = UpTo(b)
    <3>1. UpTo(a) \in SUBSET UpTo(b)
      BY <2>3
    <3> QED BY <1>1, <2>2, <3>1, FS_Subset
  <2> QED BY <2>3, <2>4
<1> QED BY <1>1

\* An id is a number, 0 exactly for what is raw.
LEMMA Ids ==
  ASSUME table \in Tables, NEW r \in Common("client") \cup {0}
  PROVE  /\ IdOf("client", r) \in Nat
         /\ IdOf("client", r) = 0 <=> r = 0
<1> DEFINE S == {x \in Common("client") : x <= r}
<1>1. IsFiniteSet(Common("client")) /\ Common("client") \subseteq Nat \ {0}
  BY CommonRoutes
<1>2. IsFiniteSet(S)
  BY <1>1, FS_Subset
<1>3. Cardinality(S) \in Nat /\ (Cardinality(S) = 0 <=> S = {})
  BY <1>2, FS_CardinalityType, FS_EmptySet
<1>4. S = {} <=> r = 0
  BY <1>1
<1> QED BY <1>3, <1>4 DEF IdOf

\* What arrives with the id of a route was sent on it.
LEMMA IdNamesRoute ==
  ASSUME table \in Tables, NEW r \in Common("server"), NEW s \in Common("client") \cup {0},
         IdOf("server", r) = IdOf("client", s)
  PROVE  r = s
<1>1. /\ Common("client") = Common("server") /\ IsFiniteSet(Common("client"))
      /\ Common("client") \subseteq Nat \ {0}
  BY CommonRoutes
<1>2. IdOf("server", r) = IdOf("client", r)
  BY <1>1 DEF IdOf
<1>3. s # 0
  BY <1>1, <1>2, Ids
<1> QED BY <1>1, <1>2, <1>3, PlacesDiffer DEF IdOf

-----------------------------------------------------------------------------
(* Steps of the lane and of the server.                                    *)

\* Nothing but the lane or the profile goes away.
LEMMA LaneEndsKeeps ==
  ASSUME Inv, LaneEnds
  PROVE  Inv'
BY DEF Inv, LaneEnds, Server, TypeInv, CallsRouted, EntriesInOrder, EntryInOrder,
       AirAddressed, DatagramsKept, RoutesKept, LatestHandedOver, NobodyForgotten, Routes,
       Of, IdOf, Common

\* What the server does touches neither the calls nor their entries.
LEMMA ServerKeeps ==
  ASSUME Inv, UNCHANGED <<table, calls, latest, lane, attached, air>>
  PROVE  /\ CallsRouted' /\ EntriesInOrder' /\ AirAddressed'
         /\ LatestHandedOver' /\ NobodyForgotten'
BY DEF Inv, CallsRouted, EntriesInOrder, EntryInOrder, AirAddressed, DatagramsKept,
       LatestHandedOver, NobodyForgotten, Routes, Of, IdOf, Common

LEMMA ArriveKeeps ==
  ASSUME Inv, Arrive
  PROVE  Inv'
<1> USE DEF Inv
<1>1. /\ UNCHANGED <<table, calls, latest, lane, attached, air, handlers>>
      /\ table \in Tables
  BY DEF Arrive, TypeInv
<1>2. /\ CallsRouted' /\ EntriesInOrder' /\ AirAddressed'
      /\ LatestHandedOver' /\ NobodyForgotten'
  BY <1>1, ServerKeeps
<1>3. PICK m \in air :
        IF m.id = 0
        THEN /\ raw' = IF Len(raw) < MaxPending THEN Append(raw, m.value) ELSE raw
             /\ UNCHANGED given
        ELSE /\ given' = [r \in Routes |->
                  IF r \in handlers /\ IdOf("server", r) = m.id
                  THEN given[r] \cup {m.value} ELSE given[r]]
             /\ UNCHANGED raw
  BY DEF Arrive
<1>4. /\ m \in [id : Nat, value : Nat]
      /\ m.value \in DOMAIN calls
      /\ m.id = IdOf("client", calls[m.value].route)
      /\ calls[m.value].route \in Common("client") \cup {0}
  BY DEF TypeInv, AirAddressed, CallsRouted
<1>0. raw' \in Seq(Nat) /\ ToSet(raw') \subseteq ToSet(raw) \cup (IF m.id = 0 THEN {m.value} ELSE {})
  <2>1. raw \in Seq(Nat) /\ m.value \in Nat
    BY <1>4 DEF TypeInv
  <2>2. CASE raw' = raw
    BY <2>1, <2>2
  <2>3. CASE raw' = Append(raw, m.value) /\ m.id = 0
    BY <2>1, <2>3 DEF ToSet
  <2> QED BY <1>3, <2>2, <2>3
<1>5. TypeInv'
  <2>1. given' \in [Routes -> SUBSET Nat]
    BY <1>3, <1>4 DEF TypeInv
  <2> QED BY <1>1, <1>0, <2>1 DEF TypeInv, Common, Routes
<1>6. RoutesKept'
  <2>1. CASE m.id = 0
    <3>1. calls[m.value].route = 0
      BY <1>1, <1>4, <2>1, Ids
    <3>2. ToSet(raw') \subseteq ToSet(raw) \cup {m.value}
      BY <1>0, <2>1
    <3> QED BY <1>1, <1>3, <1>4, <2>1, <3>1, <3>2
            DEF DatagramsKept, RoutesKept, Of, Routes
  <2>2. CASE m.id # 0
    <3>1. ASSUME NEW r \in Routes, NEW v \in given'[r]
          PROVE  v \in Of(r)
      <4>1. CASE v \in given[r]
        BY <4>1 DEF DatagramsKept, RoutesKept
      <4>2. CASE v \notin given[r]
        <5>1. v = m.value /\ r \in Common("server") /\ IdOf("server", r) = m.id
          BY <1>3, <2>2, <3>1, <4>2 DEF TypeInv
        <5>2. r = calls[m.value].route
          BY <1>1, <1>4, <5>1, IdNamesRoute
        <5> QED BY <1>4, <5>1, <5>2 DEF Of
      <4> QED BY <4>1, <4>2
    <3>2. raw' = raw
      BY <1>3, <2>2
    <3> QED BY <1>1, <3>1, <3>2 DEF DatagramsKept, RoutesKept, Of, Routes
  <2> QED BY <2>1, <2>2
<1> QED BY <1>2, <1>5, <1>6 DEF DatagramsKept

LEMMA ReadRawKeeps ==
  ASSUME Inv, ReadRaw
  PROVE  Inv'
<1>1. UNCHANGED <<table, calls, latest, lane, attached, air, handlers, given>>
  BY DEF ReadRaw
<1>2. /\ CallsRouted' /\ EntriesInOrder' /\ AirAddressed'
      /\ LatestHandedOver' /\ NobodyForgotten'
  BY <1>1, ServerKeeps
<1>3. raw \in Seq(Nat) /\ raw # <<>> /\ raw' = Tail(raw)
  BY DEF ReadRaw, Inv, TypeInv
<1>4. raw' \in Seq(Nat) /\ ToSet(raw') \subseteq ToSet(raw)
  BY <1>3 DEF ToSet
<1>5. TypeInv'
  BY <1>1, <1>4 DEF Inv, TypeInv, Common, Routes
<1>6. RoutesKept'
  BY <1>1, <1>4 DEF Inv, DatagramsKept, RoutesKept, Of, Routes
<1> QED BY <1>2, <1>5, <1>6 DEF Inv, DatagramsKept

LEMMA RegisterKeeps ==
  ASSUME Inv, Register
  PROVE  Inv'
<1>1. UNCHANGED <<table, calls, latest, lane, attached, air, given, raw>>
  BY DEF Register
<1>2. /\ CallsRouted' /\ EntriesInOrder' /\ AirAddressed'
      /\ LatestHandedOver' /\ NobodyForgotten'
  BY <1>1, ServerKeeps
<1>3. TypeInv'
  BY <1>1 DEF Inv, TypeInv, Register, Common, Routes
<1>4. RoutesKept'
  BY <1>1 DEF Inv, DatagramsKept, RoutesKept, Of, Routes
<1> QED BY <1>2, <1>3, <1>4 DEF Inv, DatagramsKept

-----------------------------------------------------------------------------
(* The client's steps.  All of them keep what the server has.              *)

\* Calls may learn how they ended; what is in the air stays there.
Restates ==
  /\ calls' \in Seq(Call)
  /\ DOMAIN calls' = DOMAIN calls
  /\ \A c \in DOMAIN calls : calls'[c].route = calls[c].route /\ calls'[c].how = calls[c].how
  /\ air \subseteq air'

LEMMA RestatesKeeps ==
  ASSUME Inv, Restates, UNCHANGED <<table, handlers, given, raw>>
  PROVE  /\ RoutesKept'
         /\ \A r : Of(r)' = Of(r)
         /\ \A r : IdOf("client", r)' = IdOf("client", r)
<1>1. /\ \A r : Of(r)' = Of(r)
      /\ \A r : IdOf("client", r)' = IdOf("client", r)
  BY DEF Restates, Of, IdOf, Common
<1>2. RoutesKept'
  BY <1>1 DEF Inv, DatagramsKept, RoutesKept, Routes
<1> QED BY <1>1, <1>2

\* One call learns how it ended.
LEMMA OneRestates ==
  ASSUME Inv, NEW c \in DOMAIN calls, NEW s \in States,
         calls' = [calls EXCEPT ![c].state = s], air \subseteq air'
  PROVE  /\ Restates
         /\ \A d \in DOMAIN calls : d # c => calls'[d] = calls[d]
         /\ calls'[c].state = s
<1>1. calls \in Seq(Call) /\ c \in 1..Len(calls)
  BY DEF Inv, TypeInv
<1>2. /\ [calls[c] EXCEPT !.state = s] \in Call
      /\ [calls[c] EXCEPT !.state = s].route = calls[c].route
      /\ [calls[c] EXCEPT !.state = s].how = calls[c].how
      /\ [calls[c] EXCEPT !.state = s].state = s
  <2>1. calls[c] \in Call
    BY <1>1
  <2> QED BY <2>1 DEF Call
<1>3. calls' = [calls EXCEPT ![c] = [calls[c] EXCEPT !.state = s]]
  OBVIOUS
<1>4. /\ calls' \in Seq(Call) /\ Len(calls') = Len(calls)
      /\ \A d \in 1..Len(calls) :
            calls'[d] = IF d = c THEN [calls[c] EXCEPT !.state = s] ELSE calls[d]
  BY <1>1, <1>2, <1>3, ExceptSeq
<1>5. DOMAIN calls' = DOMAIN calls
  BY <1>1, <1>4
<1> QED BY <1>1, <1>2, <1>4, <1>5 DEF Restates

\* A datagram that is put into the air belongs to a call.
LEMMA AirborneKeeps ==
  ASSUME Inv, NEW r, NEW v \in Of(r), Airborne(r, v), Restates,
         UNCHANGED <<table, handlers, given, raw>>
  PROVE  /\ AirAddressed'
         /\ air' \subseteq [id : Nat, value : Nat]
         /\ [id |-> IdOf("client", r), value |-> v] \in air'
<1>1. /\ v \in DOMAIN calls /\ calls[v].route = r
      /\ table \in Tables /\ r \in Common("client") \cup {0} /\ v \in Nat
  BY DEF Of, Inv, CallsRouted, TypeInv
<1>2. IdOf("client", r) \in Nat
  BY <1>1, Ids
<1>3. \A s : IdOf("client", s)' = IdOf("client", s)
  BY RestatesKeeps
<1>4. air' = air \cup {[id |-> IdOf("client", r), value |-> v]}
  BY DEF Airborne
<1>5. AirAddressed'
  BY <1>1, <1>3, <1>4 DEF Inv, AirAddressed, Restates
<1> QED BY <1>1, <1>2, <1>4, <1>5 DEF Inv, TypeInv

\* What is known of the entries stays known while they stay.
LEMMA EntriesStay ==
  ASSUME Inv, Restates, UNCHANGED <<table, handlers, given, raw, latest>>
  PROVE  EntriesInOrder'
<1>1. /\ \A r : Of(r)' = Of(r)
      /\ \A r : IdOf("client", r)' = IdOf("client", r)
  BY RestatesKeeps
<1> QED BY <1>1 DEF Inv, EntriesInOrder, EntryInOrder, Routes, Restates

\* A single datagram: its caller is not one of sendLatest().
LEMMA OneKeeps ==
  ASSUME Inv, NEW c \in DOMAIN calls, OneAccepted(c) \/ OneRefused(c)
  PROVE  Inv'
<1>1. /\ UNCHANGED <<table, latest, attached, handlers, given, raw>>
      /\ calls[c].state = "writing"
  BY DEF OneAccepted, OneRefused, Server
<1>2. PICK s \in States : /\ calls' = [calls EXCEPT ![c].state = s]
                          /\ s \notin {"waiting", "writing"}
  BY DEF OneAccepted, OneRefused, States
<1>3. \/ air' = air
      \/ Airborne(calls[c].route, c)
  BY DEF OneAccepted, OneRefused
<1>4. /\ Restates
      /\ \A d \in DOMAIN calls : d # c => calls'[d] = calls[d]
      /\ calls'[c].state = s
  BY <1>2, <1>3, OneRestates DEF Airborne
<1>5. /\ RoutesKept' /\ EntriesInOrder'
      /\ \A r : Of(r)' = Of(r)
      /\ \A r : IdOf("client", r)' = IdOf("client", r)
  BY <1>1, <1>4, RestatesKeeps, EntriesStay
<1>6. AirAddressed' /\ air' \subseteq [id : Nat, value : Nat]
  <2>1. CASE air' = air
    BY <1>1, <1>4, <1>5, <2>1 DEF Inv, AirAddressed, Restates, TypeInv
  <2>2. CASE Airborne(calls[c].route, c)
    <3>1. c \in Of(calls[c].route)
      BY DEF Of
    <3> QED BY <1>1, <1>4, <2>2, <3>1, AirborneKeeps
  <2> QED BY <1>3, <2>1, <2>2
<1>7. TypeInv' /\ CallsRouted'
  BY <1>1, <1>2, <1>4, <1>6 DEF Inv, TypeInv, CallsRouted, Common, Routes, Restates
<1>8. LatestHandedOver'
  <2>1. \A m \in air : m \in air' /\ calls'[m.value].route = calls[m.value].route
    BY <1>4 DEF Inv, AirAddressed, Restates
  <2>2. calls[c].how # "latest"
    BY <1>1 DEF Inv, CallsRouted
  <2> QED BY <1>4, <2>1, <2>2 DEF Inv, DatagramsKept, LatestHandedOver, Restates
<1>9. NobodyForgotten'
  BY <1>1, <1>2, <1>4 DEF Inv, DatagramsKept, NobodyForgotten, Restates
<1> QED BY <1>5, <1>6, <1>7, <1>8, <1>9 DEF Inv, DatagramsKept

\* The carrier answers a drain.
LEMMA LatestAcceptedKeeps ==
  ASSUME Inv, NEW r \in Routes, LatestAccepted(r)
  PROVE  Inv'
<1>1. /\ UNCHANGED <<table, calls, lane, attached, handlers, given, raw>>
      /\ latest[r].write = "pending"
      /\ latest' = [latest EXCEPT ![r].write = "accepted"]
      /\ Airborne(r, latest[r].value)
  BY DEF LatestAccepted, Server
<1>2. Restates
  BY <1>1 DEF Restates, Airborne, Inv, TypeInv
<1>3. latest[r].value \in Of(r)
  BY <1>1 DEF Inv, EntriesInOrder, EntryInOrder
<1>4. /\ AirAddressed'
      /\ air' \subseteq [id : Nat, value : Nat]
      /\ [id |-> IdOf("client", r), value |-> latest[r].value] \in air'
  BY <1>1, <1>2, <1>3, AirborneKeeps
<1>5. /\ RoutesKept'
      /\ \A s : Of(s)' = Of(s)
      /\ \A s : IdOf("client", s)' = IdOf("client", s)
  BY <1>1, <1>2, RestatesKeeps
<1>6. /\ latest' \in [Routes -> Entry]
      /\ latest'[r] = [latest[r] EXCEPT !.write = "accepted"]
      /\ \A s \in Routes : s # r => latest'[s] = latest[s]
      /\ latest[r] \in Entry
  BY <1>1 DEF Inv, TypeInv, Entry, Writes
<1>7. TypeInv' /\ CallsRouted'
  BY <1>1, <1>4, <1>6 DEF Inv, TypeInv, CallsRouted, Common, Routes
<1>8. EntriesInOrder'
  <2>1. ASSUME NEW s \in Routes
        PROVE  EntryInOrder(s)'
    <3>1. EntryInOrder(s)
      BY DEF Inv, EntriesInOrder
    <3>2. CASE s = r
      BY <1>1, <1>3, <1>4, <1>5, <1>6, <3>1, <3>2 DEF EntryInOrder, Entry
    <3>3. CASE s # r
      BY <1>2, <1>5, <1>6, <3>1, <3>3 DEF EntryInOrder, Restates
    <3> QED BY <3>2, <3>3
  <2> QED BY <1>1, <2>1 DEF EntriesInOrder, Routes
<1>9. LatestHandedOver'
  BY <1>1, <1>2 DEF Inv, DatagramsKept, LatestHandedOver, Restates
<1>10. NobodyForgotten'
  <2>1. \A c \in DOMAIN calls : calls[c].how = "latest" => calls[c].route \in Routes
    BY CommonRoutes DEF Inv, TypeInv, CallsRouted
  <2> QED BY <1>1, <1>6, <2>1 DEF Inv, DatagramsKept, NobodyForgotten, Entry
<1> QED BY <1>4, <1>5, <1>7, <1>8, <1>9, <1>10 DEF Inv, DatagramsKept

LEMMA LatestRefusedKeeps ==
  ASSUME Inv, NEW r \in Routes, LatestRefused(r)
  PROVE  Inv'
<1>1. /\ UNCHANGED <<table, calls, attached, air, handlers, given, raw>>
      /\ latest[r].write = "pending"
      /\ latest' = [latest EXCEPT ![r].write = "refused"]
  BY DEF LatestRefused, Server
<1>2. Restates
  BY <1>1 DEF Restates, Inv, TypeInv
<1>5. /\ RoutesKept'
      /\ \A s : Of(s)' = Of(s)
      /\ \A s : IdOf("client", s)' = IdOf("client", s)
  BY <1>1, <1>2, RestatesKeeps
<1>6. /\ latest' \in [Routes -> Entry]
      /\ latest'[r] = [latest[r] EXCEPT !.write = "refused"]
      /\ \A s \in Routes : s # r => latest'[s] = latest[s]
      /\ latest[r] \in Entry
  BY <1>1 DEF Inv, TypeInv, Entry, Writes
<1>7. TypeInv' /\ CallsRouted' /\ AirAddressed'
  BY <1>1, <1>5, <1>6 DEF Inv, TypeInv, CallsRouted, AirAddressed, Common, Routes
<1>8. EntriesInOrder'
  <2>1. ASSUME NEW s \in Routes
        PROVE  EntryInOrder(s)'
    <3>1. EntryInOrder(s)
      BY DEF Inv, EntriesInOrder
    <3>2. CASE s = r
      BY <1>1, <1>5, <1>6, <3>1, <3>2 DEF EntryInOrder, Entry
    <3>3. CASE s # r
      BY <1>1, <1>5, <1>6, <3>1, <3>3 DEF EntryInOrder
    <3> QED BY <3>2, <3>3
  <2> QED BY <1>1, <2>1 DEF EntriesInOrder, Routes
<1>9. LatestHandedOver'
  BY <1>1 DEF Inv, DatagramsKept, LatestHandedOver
<1>10. NobodyForgotten'
  <2>1. \A c \in DOMAIN calls : calls[c].how = "latest" => calls[c].route \in Routes
    BY CommonRoutes DEF Inv, TypeInv, CallsRouted
  <2> QED BY <1>1, <1>6, <2>1 DEF Inv, DatagramsKept, NobodyForgotten, Entry
<1> QED BY <1>5, <1>7, <1>8, <1>9, <1>10 DEF Inv, DatagramsKept

\* A drain goes on.
LEMMA DrainKeeps ==
  ASSUME Inv, NEW r \in Routes, Drain(r)
  PROVE  Inv'
<1> DEFINE how == IF latest[r].write = "accepted" THEN "resolved" ELSE "rejected"
<1>1. /\ UNCHANGED <<table, lane, attached, air, handlers, given, raw>>
      /\ latest[r].write \in {"accepted", "refused"}
      /\ latest' = [latest EXCEPT ![r] = IF @.waiters = {} THEN NewEntry ELSE Turn(@)]
      /\ calls' = [c \in DOMAIN calls |-> IF c \in latest[r].batch
                                        THEN [calls[c] EXCEPT !.state = how] ELSE calls[c]]
  BY DEF Drain, Settled, Server
<1>2. /\ Restates
      /\ \A c \in DOMAIN calls : calls'[c].state =
            IF c \in latest[r].batch THEN how ELSE calls[c].state
  <2>1. calls \in Seq(Call) /\ DOMAIN calls = 1..Len(calls) /\ Len(calls) \in Nat
    BY DEF Inv, TypeInv
  <2>2. \A c \in DOMAIN calls : calls[c] \in Call
    BY <2>1
  <2>3. \A c \in DOMAIN calls : /\ calls'[c] \in Call
                              /\ calls'[c].route = calls[c].route
                              /\ calls'[c].how = calls[c].how
                              /\ calls'[c].state = IF c \in latest[r].batch THEN how ELSE calls[c].state
    BY <1>1, <2>2 DEF Call, States
  <2>4. calls' = [c \in 1..Len(calls) |-> calls'[c]] /\ DOMAIN calls' = 1..Len(calls)
    BY <1>1, <2>1
  <2>5. calls' \in Seq(Call)
    BY <2>1, <2>3, <2>4
  <2> QED BY <1>1, <2>1, <2>3, <2>4, <2>5 DEF Restates
<1>3. /\ RoutesKept'
      /\ \A s : Of(s)' = Of(s)
      /\ \A s : IdOf("client", s)' = IdOf("client", s)
  BY <1>1, <1>2, RestatesKeeps
<1>4. latest \in [Routes -> Entry] /\ latest[r] \in Entry /\ EntryInOrder(r)
  BY DEF Inv, TypeInv, EntriesInOrder
<1>5. /\ \A s \in Routes : s # r => latest'[s] = latest[s]
      /\ \/ latest[r].waiters = {} /\ latest'[r] = NewEntry
         \/ latest[r].waiters # {} /\ latest'[r] = Turn(latest[r])
      /\ latest' = [s \in Routes |-> latest'[s]]
  BY <1>1, <1>4
<1>6. /\ latest[r].waiters # {} =>
           /\ Turn(latest[r]) \in Entry
           /\ Turn(latest[r]).waiters = {}
           /\ Turn(latest[r]).batch = latest[r].waiters
           /\ Turn(latest[r]).value = latest[r].data
           /\ Turn(latest[r]).write \in {"pending", "refused"}
      /\ NewEntry \in Entry
  BY <1>4 DEF Turn, Entry, Writes, NewEntry
<1>7. TypeInv'
  <2>1. latest' \in [Routes -> Entry]
    BY <1>4, <1>5, <1>6
  <2> QED BY <1>1, <1>2, <2>1 DEF Inv, TypeInv, Common, Routes, Restates
<1>8. CallsRouted'
  BY <1>1, <1>2 DEF Inv, CallsRouted, Restates, Common
<1>9. EntriesInOrder'
  <2>1. ASSUME NEW s \in Routes
        PROVE  EntryInOrder(s)'
    <3>1. CASE s # r
      BY <1>1, <1>3, <1>5, <3>1 DEF Inv, EntriesInOrder, EntryInOrder
    <3>2. CASE s = r /\ latest[r].waiters = {}
      BY <1>3, <1>5, <3>2 DEF EntryInOrder, NewEntry
    <3>3. CASE s = r /\ latest[r].waiters # {}
      BY <1>3, <1>4, <1>5, <1>6, <3>3 DEF EntryInOrder
    <3> QED BY <3>1, <3>2, <3>3
  <2> QED BY <1>1, <2>1 DEF EntriesInOrder, Routes
<1>10. AirAddressed'
  BY <1>1, <1>2, <1>3 DEF Inv, AirAddressed, Restates
<1>11. LatestHandedOver'
  <2>1. ASSUME NEW c \in DOMAIN calls, calls[c].how = "latest", calls'[c].state = "resolved"
        PROVE  \E m \in air : m.value >= c /\ calls[m.value].route = calls[c].route
    <3>1. CASE c \notin latest[r].batch
      BY <1>2, <2>1, <3>1 DEF Inv, DatagramsKept, LatestHandedOver
    <3>2. CASE c \in latest[r].batch
      <4>1. latest[r].write = "accepted"
        BY <1>2, <2>1, <3>2
      <4>2. /\ c \in Of(r) /\ latest[r].value \in Of(r) /\ c <= latest[r].value
            /\ [id |-> IdOf("client", r), value |-> latest[r].value] \in air
        BY <1>4, <3>2, <4>1 DEF EntryInOrder
      <4>3. c \in Nat /\ latest[r].value \in Nat
        BY <1>4 DEF Inv, TypeInv, Entry
      <4> QED BY <4>2, <4>3 DEF Of
    <3> QED BY <3>1, <3>2
  <2>2. \A m \in air : m.value \in DOMAIN calls
    BY DEF Inv, AirAddressed
  <2>3. ASSUME NEW c \in DOMAIN calls', calls'[c].how = "latest", calls'[c].state = "resolved"
        PROVE  \E m \in air' : m.value >= c /\ calls'[m.value].route = calls'[c].route
    <3>1. c \in DOMAIN calls /\ calls[c].how = "latest" /\ calls'[c].route = calls[c].route
      BY <1>2, <2>3 DEF Restates
    <3>2. PICK m \in air : m.value >= c /\ calls[m.value].route = calls[c].route
      BY <2>1, <2>3, <3>1
    <3>3. calls'[m.value].route = calls[m.value].route
      BY <1>2, <2>2 DEF Restates
    <3> QED BY <1>1, <3>1, <3>2, <3>3
  <2> QED BY <2>3 DEF LatestHandedOver
<1>12. NobodyForgotten'
  <2>1. ASSUME NEW c \in DOMAIN calls, calls[c].how = "latest", calls'[c].state = "waiting"
        PROVE  LET e == latest'[calls[c].route]
               IN e.write # "none" /\ c \in e.batch \cup e.waiters
    <3>1. calls[c].state = "waiting" /\ c \notin latest[r].batch
      BY <1>2, <2>1
    <3>2. LET e == latest[calls[c].route]
          IN e.write # "none" /\ c \in e.batch \cup e.waiters
      BY <2>1, <3>1 DEF Inv, DatagramsKept, NobodyForgotten
    <3>3. calls[c].route \in Routes
      BY <2>1, CommonRoutes DEF Inv, TypeInv, CallsRouted
    <3>4. CASE calls[c].route = r
      BY <1>5, <1>6, <3>1, <3>2, <3>4
    <3>5. CASE calls[c].route # r
      BY <1>5, <3>2, <3>3, <3>5
    <3> QED BY <3>4, <3>5
  <2> QED BY <1>2, <2>1 DEF NobodyForgotten, Restates
<1> QED BY <1>3, <1>7, <1>8, <1>9, <1>10, <1>11, <1>12 DEF Inv, DatagramsKept

-----------------------------------------------------------------------------
(* New calls.                                                              *)

\* A call is added after all others and has not been answered.
Adds(call) ==
  /\ call \in Call
  /\ call.route \in Common("client") \cup {0}
  /\ call.state # "resolved"
  /\ call.how = "latest" => call.route # 0 /\ call.state # "writing"
  /\ calls' = Append(calls, call)
  /\ UNCHANGED <<table, lane, attached, air, handlers, given, raw>>

LEMMA AddsKeeps ==
  ASSUME Inv, NEW call, Adds(call)
  PROVE  /\ calls' \in Seq(Call) /\ Value \in Nat
         /\ Value \notin DOMAIN calls /\ DOMAIN calls' = DOMAIN calls \cup {Value}
         /\ calls'[Value] = call
         /\ \A c \in DOMAIN calls : calls'[c] = calls[c] /\ c < Value
         /\ \A r : Of(r) \subseteq Of(r)'
         /\ \A r : IdOf("client", r)' = IdOf("client", r)
         /\ CallsRouted' /\ AirAddressed' /\ RoutesKept' /\ LatestHandedOver'
<1>1. calls \in Seq(Call) /\ DOMAIN calls = 1..Len(calls) /\ Len(calls) \in Nat /\ call \in Call
  BY DEF Inv, TypeInv, Adds
<1>2. /\ calls' \in Seq(Call) /\ Len(calls') = Len(calls) + 1
      /\ \A c \in 1..Len(calls) : calls'[c] = calls[c]
      /\ calls'[Len(calls) + 1] = call
  BY <1>1, AppendProperties DEF Adds
<1>3. /\ Value \in Nat /\ Value \notin DOMAIN calls /\ DOMAIN calls' = DOMAIN calls \cup {Value}
      /\ calls'[Value] = call
      /\ \A c \in DOMAIN calls : calls'[c] = calls[c] /\ c < Value
  BY <1>1, <1>2 DEF Value
<1>4. /\ \A r : Of(r) \subseteq Of(r)'
      /\ \A r : IdOf("client", r)' = IdOf("client", r)
  BY <1>3 DEF Of, IdOf, Common, Adds
<1>5. CallsRouted'
  BY <1>3 DEF Inv, CallsRouted, Adds, Common
<1>6. AirAddressed'
  BY <1>3, <1>4 DEF Inv, AirAddressed, Adds
<1>7. RoutesKept'
  BY <1>4 DEF Inv, DatagramsKept, RoutesKept, Routes, Adds
<1>8. LatestHandedOver'
  <2>1. ASSUME NEW c \in DOMAIN calls', calls'[c].how = "latest", calls'[c].state = "resolved"
        PROVE  \E m \in air' : m.value >= c /\ calls'[m.value].route = calls'[c].route
    <3>1. c \in DOMAIN calls /\ calls'[c] = calls[c]
      BY <1>3, <2>1 DEF Adds
    <3>2. PICK m \in air : m.value >= c /\ calls[m.value].route = calls[c].route
      BY <2>1, <3>1 DEF Inv, DatagramsKept, LatestHandedOver
    <3>3. calls'[m.value] = calls[m.value]
      BY <1>3 DEF Inv, AirAddressed
    <3> QED BY <3>1, <3>2, <3>3 DEF Adds
  <2> QED BY <2>1 DEF LatestHandedOver
<1> QED BY <1>2, <1>3, <1>4, <1>5, <1>6, <1>7, <1>8

\* A call that leaves the entries alone does not wait.
LEMMA PlainCallKeeps ==
  ASSUME Inv, NEW call, Adds(call), UNCHANGED latest, call.state # "waiting"
  PROVE  Inv'
<1>1. /\ calls' \in Seq(Call) /\ Value \notin DOMAIN calls
      /\ DOMAIN calls' = DOMAIN calls \cup {Value}
      /\ calls'[Value] = call
      /\ \A c \in DOMAIN calls : calls'[c] = calls[c]
      /\ \A r : Of(r) \subseteq Of(r)'
      /\ \A r : IdOf("client", r)' = IdOf("client", r)
      /\ CallsRouted' /\ AirAddressed' /\ RoutesKept' /\ LatestHandedOver'
  BY AddsKeeps
<1>2. TypeInv'
  BY <1>1 DEF Inv, TypeInv, Common, Routes, Adds
<1>3. EntriesInOrder'
  BY <1>1 DEF Inv, EntriesInOrder, EntryInOrder, Routes, Adds
<1>4. NobodyForgotten'
  BY <1>1 DEF Inv, DatagramsKept, NobodyForgotten
<1> QED BY <1>1, <1>2, <1>3, <1>4 DEF Inv, DatagramsKept

LEMMA SendOneKeeps ==
  ASSUME Inv, SendOne
  PROVE  Inv'
<1>1. PICK r \in Common("client") \cup {0} :
        calls' = Append(calls, NewCall("one", r,
                   IF lane = "open" /\ (r = 0 \/ attached) THEN "writing" ELSE "rejected"))
  BY DEF SendOne
<1> DEFINE call == NewCall("one", r,
                   IF lane = "open" /\ (r = 0 \/ attached) THEN "writing" ELSE "rejected")
<1>2. r \in Nat
  BY CommonRoutes DEF Inv, TypeInv
<1>3. call \in Call /\ call.route = r /\ call.how = "one" /\ call.state \in {"writing", "rejected"}
  BY <1>2 DEF NewCall, Call, States
<1>4. Adds(call) /\ UNCHANGED latest
  BY <1>1, <1>3 DEF Adds, SendOne, Server
<1> QED BY <1>3, <1>4, PlainCallKeeps

LEMMA SendLatestKeeps ==
  ASSUME Inv, SendLatest
  PROVE  Inv'
<1>1. PICK r \in Common("client") :
        IF Sendable
        THEN LET e == [latest[r] EXCEPT !.data = Value, !.waiters = @ \cup {Value}]
             IN /\ latest' = [latest EXCEPT ![r] = IF e.write = "none" THEN Turn(e) ELSE e]
                /\ calls' = Append(calls, NewCall("latest", r, "waiting"))
        ELSE calls' = Append(calls, NewCall("latest", r, "rejected")) /\ UNCHANGED latest
  BY DEF SendLatest
<1>2. r \in Nat \ {0} /\ r \in Routes
  BY CommonRoutes DEF Inv, TypeInv
<1>3. CASE ~Sendable
  <2> DEFINE call == NewCall("latest", r, "rejected")
  <2>1. /\ call \in Call /\ call.route = r /\ call.how = "latest" /\ call.state = "rejected"
    BY <1>2 DEF NewCall, Call, States
  <2>2. Adds(call) /\ UNCHANGED latest
    BY <1>1, <1>2, <1>3, <2>1 DEF Adds, SendLatest, Server
  <2> QED BY <2>1, <2>2, PlainCallKeeps
<1>4. CASE Sendable
  <2> DEFINE call == NewCall("latest", r, "waiting")
             e == [latest[r] EXCEPT !.data = Value, !.waiters = @ \cup {Value}]
  <2>1. /\ call \in Call /\ call.route = r /\ call.how = "latest" /\ call.state = "waiting"
    BY <1>2 DEF NewCall, Call, States
  <2>2. Adds(call)
    BY <1>1, <1>2, <1>4, <2>1 DEF Adds, SendLatest, Server
  <2>3. /\ calls' \in Seq(Call) /\ Value \in Nat /\ Value \notin DOMAIN calls
        /\ DOMAIN calls' = DOMAIN calls \cup {Value}
        /\ calls'[Value] = call
        /\ \A c \in DOMAIN calls : calls'[c] = calls[c] /\ c < Value
        /\ \A s : Of(s) \subseteq Of(s)'
        /\ \A s : IdOf("client", s)' = IdOf("client", s)
        /\ CallsRouted' /\ AirAddressed' /\ RoutesKept' /\ LatestHandedOver'
    BY <2>2, AddsKeeps
  <2>4. latest \in [Routes -> Entry] /\ latest[r] \in Entry /\ EntryInOrder(r)
    BY <1>2 DEF Inv, TypeInv, EntriesInOrder
  <2>5. /\ e \in Entry /\ e.data = Value /\ e.waiters = latest[r].waiters \cup {Value}
        /\ e.batch = latest[r].batch /\ e.value = latest[r].value /\ e.write = latest[r].write
    BY <2>3, <2>4 DEF Entry
  <2>6. /\ Turn(e) \in Entry /\ Turn(e).waiters = {} /\ Turn(e).batch = e.waiters
        /\ Turn(e).value = Value /\ Turn(e).write \in {"pending", "refused"}
    BY <2>5 DEF Turn, Entry, Writes
  <2>7. latest' = [latest EXCEPT ![r] = IF e.write = "none" THEN Turn(e) ELSE e]
    BY <1>1, <1>4
  <2>8. /\ \A s \in Routes : s # r => latest'[s] = latest[s]
        /\ latest'[r] = IF e.write = "none" THEN Turn(e) ELSE e
        /\ latest' \in [Routes -> Entry]
    BY <1>2, <2>4, <2>5, <2>6, <2>7
  <2>9. TypeInv'
    BY <2>2, <2>3, <2>8 DEF Inv, TypeInv, Common, Routes, Adds
  <2>10. Value \in Of(r)' /\ \A c \in Of(r) : c \in Of(r)' /\ c < Value
    BY <2>1, <2>3 DEF Of
  <2>11. EntriesInOrder'
    <3>1. ASSUME NEW s \in Routes
          PROVE  EntryInOrder(s)'
      <4>1. CASE s # r
        BY <2>2, <2>3, <2>8, <4>1 DEF Inv, EntriesInOrder, EntryInOrder, Adds
      <4>2. CASE s = r /\ e.write = "none"
        <5>1. latest[r].waiters = {}
          BY <2>4, <2>5, <4>2 DEF EntryInOrder
        <5> QED BY <2>3, <2>5, <2>6, <2>8, <2>10, <4>2, <5>1 DEF EntryInOrder
      <4>3. CASE s = r /\ e.write # "none"
        <5>1. ASSUME NEW c \in e.waiters
              PROVE  c \in Of(r)' /\ c <= Value
          <6>1. CASE c = Value
            BY <2>3, <2>10, <6>1
          <6>2. CASE c \in latest[r].waiters
            <7>1. c \in Of(r) /\ c \in Nat
              BY <2>4, <6>2 DEF EntryInOrder, Entry
            <7> QED BY <2>3, <2>10, <7>1
          <6> QED BY <2>5, <6>1, <6>2
        <5> QED BY <2>2, <2>3, <2>4, <2>5, <2>8, <2>10, <4>3, <5>1 DEF EntryInOrder, Adds
      <4> QED BY <4>1, <4>2, <4>3
    <3> QED BY <2>2, <3>1 DEF EntriesInOrder, Routes, Adds
  <2>12. NobodyForgotten'
    <3>1. ASSUME NEW c \in DOMAIN calls', calls'[c].how = "latest", calls'[c].state = "waiting"
          PROVE  LET f == latest'[calls'[c].route]
                 IN f.write # "none" /\ c \in f.batch \cup f.waiters
      <4>1. CASE c = Value
        <5>1. calls'[c].route = r
          BY <2>1, <2>3, <4>1
        <5>2. c \in e.waiters
          BY <2>5, <4>1
        <5> QED BY <2>6, <2>8, <5>1, <5>2
      <4>2. CASE c \in DOMAIN calls
        <5>1. LET f == latest[calls[c].route]
              IN f.write # "none" /\ c \in f.batch \cup f.waiters
          BY <2>3, <3>1, <4>2 DEF Inv, DatagramsKept, NobodyForgotten
        <5>2. calls[c].route \in Routes
          BY <2>3, <3>1, <4>2, CommonRoutes DEF Inv, TypeInv, CallsRouted
        <5> QED BY <2>3, <2>5, <2>6, <2>8, <4>2, <5>1, <5>2
      <4> QED BY <2>3, <3>1, <4>1, <4>2
    <3> QED BY <3>1 DEF NobodyForgotten
  <2> QED BY <2>3, <2>9, <2>11, <2>12 DEF Inv, DatagramsKept
<1> QED BY <1>3, <1>4

-----------------------------------------------------------------------------

LEMMA InitHolds == Init => Inv
BY DEF Init, Inv, TypeInv, CallsRouted, EntriesInOrder, EntryInOrder, AirAddressed,
       DatagramsKept, RoutesKept, LatestHandedOver, NobodyForgotten, Of, NewEntry, Entry,
       Writes, ToSet

LEMMA NextKeeps == Inv /\ [Next]_vars => Inv'
<1> SUFFICES ASSUME Inv, [Next]_vars
             PROVE  Inv'
  OBVIOUS
<1>1. CASE SendOne
  BY <1>1, SendOneKeeps
<1>2. CASE SendLatest
  BY <1>2, SendLatestKeeps
<1>3. CASE LaneEnds
  BY <1>3, LaneEndsKeeps
<1>4. CASE Arrive
  BY <1>4, ArriveKeeps
<1>5. CASE ReadRaw
  BY <1>5, ReadRawKeeps
<1>6. CASE Register
  BY <1>6, RegisterKeeps
<1>7. CASE \E c \in DOMAIN calls : OneAccepted(c) \/ OneRefused(c)
  BY <1>7, OneKeeps
<1>8. CASE \E r \in Routes : LatestAccepted(r) \/ LatestRefused(r) \/ Drain(r)
  BY <1>8, LatestAcceptedKeeps, LatestRefusedKeeps, DrainKeeps
<1>9. CASE UNCHANGED vars
  <2>1. UNCHANGED <<table, calls, latest, lane, attached, air, handlers, given, raw>>
    BY <1>9 DEF vars, Server
  <2>2. TypeInv' /\ RoutesKept'
    BY <2>1 DEF Inv, TypeInv, DatagramsKept, RoutesKept, Routes, Of, Common
  <2> QED BY <2>1, <2>2, ServerKeeps DEF Inv, DatagramsKept
<1> QED BY <1>1, <1>2, <1>3, <1>4, <1>5, <1>6, <1>7, <1>8, <1>9 DEF Next

\* Routed datagrams reach only the handlers of their route, a caller of sendLatest() is
\* told of success only when a value at least as new was handed to the carrier, and no
\* caller is forgotten: for all route tables, any number of calls and any buffer.
THEOREM DatagramsAlwaysKept == Spec => []DatagramsKept
<1>1. Inv => DatagramsKept
  BY DEF Inv
<1> QED BY InitHolds, NextKeeps, <1>1, PTL DEF Spec
=============================================================================
