------------------------------ MODULE DemandFlow ------------------------------
(***************************************************************************)
(* What the directions of PRP/1 streams promise the applications            *)
(* (PROTOCOL.md, section 6): items travel only within the demand the        *)
(* receiver has granted, each arrives once, and a direction that completes  *)
(* has delivered all of them.  Sessions, frames, credits, fragments and     *)
(* write queues do not appear here; PrpSessionFlow shows that they          *)
(* implement it.                                                            *)
(***************************************************************************)
EXTENDS Integers

CONSTANT Flows  \* the directions: each has a receiver and a sender

\* Of each direction: the demand its receiver has requested so far (asked),
\* the items its sender has begun to put on the wire (started), the items
\* published to the receiving application (got), and how it ended there.
VARIABLE flow

Init == flow = [f \in Flows |->
                  [asked |-> 0, started |-> 0, got |-> 0, ended |-> "open"]]

\* The steps of one direction, from state s to state t.
Ask(s, t) == /\ s.ended = "open" /\ t.asked > s.asked
             /\ t = [s EXCEPT !.asked = t.asked]
Start(s, t) == /\ s.ended = "open" /\ s.started < s.asked
               /\ t = [s EXCEPT !.started = @ + 1]
Deliver(s, t) == /\ s.ended = "open" /\ s.got < s.started
                 /\ t = [s EXCEPT !.got = @ + 1]
\* The receiver learns that the direction is complete: nothing is underway.
Complete(s, t) == /\ s.ended = "open" /\ s.got = s.started
                  /\ t = [s EXCEPT !.ended = "completed"]
\* The stream or its session ends; what was underway is never published.
Cut(s, t) == /\ s.ended # "cut"
             /\ t = [s EXCEPT !.ended = "cut", !.started = s.got]

Step(s, t) == Ask(s, t) \/ Start(s, t) \/ Deliver(s, t) \/ Complete(s, t) \/ Cut(s, t)

\* A session that ends cuts several directions at once.
Next == \A f \in Flows : Step(flow[f], flow'[f]) \/ flow'[f] = flow[f]
Spec == Init /\ [][Next]_flow
=============================================================================
