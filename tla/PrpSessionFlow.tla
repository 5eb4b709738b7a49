---------------------------- MODULE PrpSessionFlow ----------------------------
(***************************************************************************)
(* The directions of PrpSession's streams implement DemandFlow.             *)
(***************************************************************************)
EXTENDS PrpSession

\* How the direction toward p has ended for p's application.
Ended(s) ==
  IF s.cancelled THEN "cut" ELSE IF s.inClosed THEN "completed" ELSE "open"

\* Items toward p that have been begun: those published, the one being
\* reassembled, and those on the wire.  After the end nothing is underway.
Started(p, i) ==
  LET s == stream[p][i]
      sent == {k \in DOMAIN wire[Other(p)] :
                 wire[Other(p)][k].kind = "DATA" /\ wire[Other(p)][k].id = i}
  IN Len(s.got) + IF Ended(s) # "open" THEN 0
                  ELSE Cardinality(sent) + IF s.expected > 0 THEN 1 ELSE 0

\* The direction toward p of stream i, as DemandFlow sees it.
Toward(p, i) ==
  LET s == stream[p][i]
  IN [asked |-> s.asked, started |-> Started(p, i), got |-> Len(s.got), ended |-> Ended(s)]
Directions == [f \in Peer \X StreamId |-> Toward(f[1], f[2])]

Flow == INSTANCE DemandFlow WITH Flows <- Peer \X StreamId, flow <- Directions

\* Items are put on the wire only within the demand granted for them, arrive
\* exactly once, and are all there when a direction completes.
FlowKept == Flow!Spec
=============================================================================
