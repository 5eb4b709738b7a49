-------------------------- MODULE DatagramRouting --------------------------
(***************************************************************************)
(* datagram-routing/1 (src/profile/datagram-routing) over the native        *)
(* datagram lane of core/session.ts: route tables, latest-wins sending, and *)
(* a lane that loses, repeats and reorders, and that may go away while the  *)
(* session stays.                                                          *)
(*                                                                         *)
(* The client sends and the server receives.  Routes are numbers in their   *)
(* sorting order; the n-th call sends the value n, on a route or raw (route *)
(* 0).  Payloads are not empty and fit the limits, and no raw one begins    *)
(* with the magic number of an envelope, by which the code tells the two.   *)
(***************************************************************************)
EXTENDS RouteTables, Integers, Sequences, FiniteSets, SequencesExt

Other(e) == IF e = "client" THEN "server" ELSE "client"

VARIABLES
  table,      \* one of Tables, never changed
  calls,      \* the calls so far, see NewCall
  latest,     \* per route: the LatestEntry and its drain, see NewEntry
  lane,       \* the client's datagramLane: "open" or "gone"
  attached,   \* is the client's profile attached?
  air,        \* what the client's carrier has accepted: it may arrive at any time, or never
  handlers,   \* the routes that have a handler at the server
  given,      \* per route: the values its handlers were given
  raw         \* the server's incomingDatagrams

vars == <<table, calls, latest, lane, attached, air, handlers, given, raw>>

Routes == table.client \cup table.server

\* attach(): what both route tables have.
Common(e) == {r \in table[e] : r \in table[Other(e)]}

\* Ids count the common routes from 1, in their sorting order; a raw datagram has none.
IdOf(e, r) == Cardinality({x \in Common(e) : x <= r})

---------------------------------------------------------------------------

NewCall(how, route, state) == [how |-> how, route |-> route, state |-> state]

NewEntry == [data |-> 0, waiters |-> {}, batch |-> {}, value |-> 0,
             write |-> "none"]    \* or "pending", "accepted", "refused"

Init ==
  /\ table \in Tables
  /\ calls = <<>>
  /\ latest = [r \in Routes |-> NewEntry]
  /\ lane = "open" /\ attached = TRUE
  /\ air = {}
  /\ handlers = {}
  /\ given = [r \in Routes |-> {}]
  /\ raw = <<>>

Server == <<handlers, given, raw>>

Sendable == lane = "open" /\ attached

\* One turn of drainLatest: everybody who waits is of this write.
Turn(e) == [e EXCEPT !.batch = e.waiters, !.waiters = {}, !.value = e.data,
                     !.write = IF Sendable THEN "pending" ELSE "refused"]

\* The carrier takes a datagram.
Airborne(r, value) == air' = air \cup {[id |-> IdOf("client", r), value |-> value]}

---------------------------------------------------------------------------
(* The client's calls.                                                     *)

Value == Len(calls) + 1

\* send() of a route, and sendDatagram() of a raw datagram.
SendOne ==
  /\ Len(calls) < table.calls
  /\ \E r \in Common("client") \cup {0} :
       calls' = Append(calls, NewCall("one", r,
                  IF lane = "open" /\ (r = 0 \/ attached) THEN "writing" ELSE "rejected"))
  /\ UNCHANGED <<table, latest, lane, attached, air, Server>>

\* sendLatest(): the newest value replaces the one that waits.
SendLatest ==
  /\ Len(calls) < table.calls
  /\ \E r \in Common("client") :
       IF Sendable
       THEN LET e == [latest[r] EXCEPT !.data = Value, !.waiters = @ \cup {Value}]
            IN /\ latest' = [latest EXCEPT ![r] = IF e.write = "none" THEN Turn(e) ELSE e]
               /\ calls' = Append(calls, NewCall("latest", r, "waiting"))
       ELSE calls' = Append(calls, NewCall("latest", r, "rejected")) /\ UNCHANGED latest
  /\ UNCHANGED <<table, lane, attached, air, Server>>

---------------------------------------------------------------------------
(* The carrier's answers: a write that fails takes the lane with it.        *)

OneAccepted(c) ==
  /\ calls[c].state = "writing"
  /\ Airborne(calls[c].route, c)
  /\ calls' = [calls EXCEPT ![c].state = "resolved"]
  /\ UNCHANGED <<table, latest, lane, attached, Server>>

OneRefused(c) ==
  /\ calls[c].state = "writing"
  /\ calls' = [calls EXCEPT ![c].state = "rejected"]
  /\ lane' = "gone"
  /\ UNCHANGED <<table, latest, attached, air, Server>>

LatestAccepted(r) ==
  /\ latest[r].write = "pending"
  /\ Airborne(r, latest[r].value)
  /\ latest' = [latest EXCEPT ![r].write = "accepted"]
  /\ UNCHANGED <<table, calls, lane, attached, Server>>

LatestRefused(r) ==
  /\ latest[r].write = "pending"
  /\ latest' = [latest EXCEPT ![r].write = "refused"]
  /\ lane' = "gone"
  /\ UNCHANGED <<table, calls, attached, air, Server>>

Settled(callers, how) ==
  [c \in DOMAIN calls |-> IF c \in callers THEN [calls[c] EXCEPT !.state = how] ELSE calls[c]]

\* Mutant: the waiters are taken after the write, with those who came during it.
DrainSettlesAll(r) ==
  /\ latest[r].write \in {"accepted", "refused"}
  /\ calls' = Settled(latest[r].batch \cup latest[r].waiters,
                      IF latest[r].write = "accepted" THEN "resolved" ELSE "rejected")
  /\ latest' = [latest EXCEPT ![r] = NewEntry]
  /\ UNCHANGED <<table, lane, attached, air, Server>>

\* drainLatest goes on: those of the write learn of it, then the next turn.
Drain(r) ==
  /\ latest[r].write \in {"accepted", "refused"}
  /\ calls' = Settled(latest[r].batch, IF latest[r].write = "accepted" THEN "resolved" ELSE "rejected")
  /\ latest' = [latest EXCEPT ![r] = IF @.waiters = {} THEN NewEntry ELSE Turn(@)]
  /\ UNCHANGED <<table, lane, attached, air, Server>>

\* The lane ends for another reason: its reader, or the whole session, which disposes
\* the profile.
LaneEnds ==
  /\ lane' = "gone"
  /\ attached' \in {attached, FALSE}
  /\ <<lane', attached'>> # <<lane, attached>>
  /\ UNCHANGED <<table, calls, latest, air, Server>>

---------------------------------------------------------------------------
(* The server.  A routing envelope is the profile's, handled or not; what   *)
(* is raw waits while there is room.                                       *)

Arrive ==
  /\ \E m \in air :
       IF m.id = 0
       THEN /\ raw' = IF Len(raw) < MaxPending THEN Append(raw, m.value) ELSE raw
            /\ UNCHANGED given
       ELSE /\ given' = [r \in Routes |->
                 IF r \in handlers /\ IdOf("server", r) = m.id
                 THEN given[r] \cup {m.value} ELSE given[r]]
            /\ UNCHANGED raw
  /\ UNCHANGED <<table, calls, latest, lane, attached, air, handlers>>

ReadRaw ==
  /\ raw # <<>>
  /\ raw' = Tail(raw)
  /\ UNCHANGED <<table, calls, latest, lane, attached, air, handlers, given>>

\* route(), and the function it returns.
Register ==
  /\ \E r \in Common("server") :
       handlers' = IF r \in handlers THEN handlers \ {r} ELSE handlers \cup {r}
  /\ UNCHANGED <<table, calls, latest, lane, attached, air, given, raw>>

Next ==
  \/ SendOne \/ SendLatest \/ LaneEnds
  \/ Arrive \/ ReadRaw \/ Register
  \/ \E c \in DOMAIN calls : OneAccepted(c) \/ OneRefused(c)
  \/ \E r \in Routes : LatestAccepted(r) \/ LatestRefused(r) \/ Drain(r)

Spec == Init /\ [][Next]_vars

---------------------------------------------------------------------------
(* Properties.                                                             *)

Of(r) == {c \in DOMAIN calls : calls[c].route = r}

\* Handlers are given only what was sent on their route, however the tables differ and
\* the lane behaves, and raw datagrams stay raw.
RoutesKept ==
  /\ \A r \in Routes : given[r] \subseteq Of(r)
  /\ ToSet(raw) \subseteq Of(0)

\* "All callers resolve when a datagram at least as new as their value has been handed
\* to the carrier."
LatestHandedOver ==
  \A c \in DOMAIN calls : calls[c].how = "latest" /\ calls[c].state = "resolved" =>
    \E m \in air : m.value >= c /\ calls[m.value].route = calls[c].route

\* Whoever waits is of the write in progress, or of the turn a running drain takes next.
NobodyForgotten ==
  \A c \in DOMAIN calls : calls[c].how = "latest" /\ calls[c].state = "waiting" =>
    LET e == latest[calls[c].route]
    IN e.write # "none" /\ c \in e.batch \cup e.waiters

\* Together: what the routing profile promises its users over a lane that promises nothing.
DatagramsKept == RoutesKept /\ LatestHandedOver /\ NobodyForgotten
=============================================================================
