---------------------------- MODULE RouteTables -----------------------------
(***************************************************************************)
(* What the two profiles of DatagramRouting are configured with.           *)
(***************************************************************************)
EXTENDS Naturals, FiniteSets

CONSTANTS
  Tables,        \* the route tables each profile is configured with, and how many calls
                 \* of send(), sendLatest() and sendDatagram() are made
  MaxPending     \* datagrams.maxPending, 256 in the code

Ends == {"client", "server"}

ASSUME RoutingAssumption ==
  /\ MaxPending \in Nat \ {0}
  /\ \A t \in Tables :
       /\ t.calls \in Nat
       /\ \A e \in Ends : t[e] \subseteq Nat \ {0} /\ IsFiniteSet(t[e])
=============================================================================
