---------------------------- MODULE ReliableLane ----------------------------
(***************************************************************************)
(* What a session expects of the lane it runs on ("One required reliable,   *)
(* ordered physical lane", PROTOCOL.md): frames arrive whole, once and in   *)
(* order, and the lane is reported to have ended cleanly only when it       *)
(* delivered everything, or was closed by the session itself.               *)
(***************************************************************************)
EXTENDS Naturals, Sequences

VARIABLE lane

(***************************************************************************)
(* lane.sent   how many frames write() has accepted                        *)
(* lane.got    the frames read, by number                                  *)
(* lane.over   is the other side "closed", or the carrier "broken"?         *)
(* lane.own    has the reader closed the lane?                             *)
(* lane.told   what the reader was told: "nothing", "end" or "failure"      *)
(***************************************************************************)
Init == lane = [sent |-> 0, got |-> <<>>, over |-> "no", own |-> FALSE, told |-> "nothing"]

Write == /\ lane.over = "no"
         /\ lane' = [lane EXCEPT !.sent = @ + 1]

Get == /\ lane.told = "nothing"
       /\ Len(lane.got) < lane.sent
       /\ lane' = [lane EXCEPT !.got = Append(@, Len(@) + 1)]

End == /\ lane.told = "nothing"
       /\ lane.own \/ (lane.over = "closed" /\ Len(lane.got) = lane.sent)
       /\ lane' = [lane EXCEPT !.told = "end"]

Fail == /\ lane.told = "nothing"
        /\ lane' = [lane EXCEPT !.told = "failure"]

Over == /\ lane.over = "no"
        /\ \E o \in {"closed", "broken"} : lane' = [lane EXCEPT !.over = o]

\* A carrier may close both sides at once.
Close == /\ ~lane.own
         /\ \E o \in {lane.over, IF lane.over = "no" THEN "closed" ELSE lane.over} :
              lane' = [lane EXCEPT !.own = TRUE, !.over = o]

Next == Write \/ Get \/ End \/ Fail \/ Over \/ Close

Spec == Init /\ [][Next]_lane
=============================================================================
