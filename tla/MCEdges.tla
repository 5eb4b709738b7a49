------------------------------ MODULE MCEdges ------------------------------
(***************************************************************************)
(* What lies around a session, one subject at a time: the lane it runs on,  *)
(* the calls made over its streams and the datagrams beside them.  The      *)
(* subjects share no state; a behaviour is one of `subject`, the others     *)
(* stay where they are.                                                    *)
(***************************************************************************)
EXTENDS DatagramRouting, LaneLimits, RpcCalls

VARIABLES
  subject,
  carrier, sent, writer, wire, queue, glue, own, reader, outcome, got, told,
  call, stream, chan, source, pump, callReader, callGot, result, event

Made(pattern, from, to, events) ==
  [pattern |-> pattern, push |-> FALSE, endless |-> FALSE, events |-> events,
   items |-> [d \in Sides |-> IF d = "caller" THEN from ELSE to]]
Rx(c) == [c EXCEPT !.push = TRUE]
Endless(c) == [c EXCEPT !.push = TRUE, !.endless = TRUE]

MCCalls ==
  [unary |-> Made("unary", 1, 1, Kinds),
   notify |-> Made("notify", 1, 0, Kinds),
   streamed |-> Made("server-stream", 1, 2, Kinds),
   duplex |-> Made("duplex", 2, 1, Kinds),
   \* an Observable gives more than the one answer, more than the bridge holds, or
   \* nothing more
   rxUnary |-> Rx(Made("unary", 1, 2, {"abort"})),
   rxSilent |-> Endless(Made("unary", 1, 0, {"abort", "detach"})),
   rxStream |-> Rx(Made("server-stream", 1, 3, {})),
   rxEndless |-> Endless(Made("server-stream", 1, 1, {"abort", "break"})),
   rxDuplex |-> Rx(Made("duplex", 2, 1, {"break"})),
   rxBoth |-> Endless(Made("duplex", 1, 1, {"abort"}))]

\* One common route with a different place in each table, and two.
MCTables == {[client |-> {1, 2}, server |-> {2, 3}, calls |-> 3],
             [client |-> {1, 2, 3}, server |-> {1, 3}, calls |-> 2]}

Lanes == INSTANCE CarrierLane
Rpc == INSTANCE RpcCall WITH reader <- callReader, got <- callGot

\* A subject that is not the one stays in one initial state.
EdgesInit ==
  /\ subject \in {"lanes", "rpc", "datagrams"}
  /\ Lanes!Init /\ (subject = "lanes" \/ carrier = "memory")
  /\ Rpc!Init /\ (subject = "rpc" \/ call = "unary")
  /\ Init /\ (subject = "datagrams" \/ table.calls = 2)

laneVars == <<carrier, sent, writer, wire, queue, glue, own, reader, outcome, got, told>>
rpcVars == <<call, stream, chan, source, pump, callReader, callGot, result, event>>
edgeVars == <<subject, laneVars, rpcVars, vars>>

OnlyLanes == subject = "lanes" /\ UNCHANGED <<subject, rpcVars, vars>>
OnlyRpc == subject = "rpc" /\ UNCHANGED <<subject, laneVars, vars>>
OnlyRouting == subject = "datagrams" /\ UNCHANGED <<subject, laneVars, rpcVars>>

EdgesNext ==
  \/ OnlyLanes /\ Lanes!Next
  \/ OnlyRpc /\ Rpc!Next
  \/ OnlyRouting /\ Next

\* What the subjects' own specifications are fair to.
EdgesPassing == (OnlyLanes /\ Lanes!Passing) \/ (OnlyRpc /\ Rpc!Passing)

EdgesSpec == EdgesInit /\ [][EdgesNext]_edgeVars /\ WF_edgeVars(EdgesPassing)

---------------------------------------------------------------------------
(* The properties of the subjects, with the exceptions named there; that of *)
(* datagrams is DatagramsKept itself.                                      *)

\* Every carrier's lane implements ReliableLane: frames arrive whole, once and in order,
\* and it ends cleanly only when everything was delivered or the session closed it.
LaneKept == Lanes!LaneKept

\* A lane that has ended, at either side, does not leave the read loop waiting.
LaneSettles == Lanes!LaneSettles

\* A call, a generator or an Observable never passes for complete when something of it
\* is missing.
RpcKept == Rpc!RpcKept

\* A call ends on both sides however it goes, and nothing of it stays behind.
RpcEnds == <>[](subject = "rpc" => Rpc!Over)
=============================================================================
