--------------------------- MODULE MCPrpLifecycle ---------------------------
(***************************************************************************)
(* Small instances of PrpLifecycle: pairs of runtimes with a carrier each.  *)
(***************************************************************************)
EXTENDS PrpLifecycle

Rpc == "rpc"
Routing == "routing"
NoProfiles == [id \in {} |-> VersionRange(1, 1)]
NoNeeds == [id \in {} |-> {}]

Plain(require) == Runtime(FALSE, FALSE, NoProfiles, <<>>, NoNeeds, require)
WithRpc(min, max, require) ==
  Runtime(FALSE, FALSE, [id \in {Rpc} |-> VersionRange(min, max)], <<Rpc>>,
          [id \in {Rpc} |-> {}], require)
\* Datagrams, compact frames and two extensions, one of which needs datagrams.
Full(require) ==
  Runtime(TRUE, TRUE, [id \in {Rpc, Routing} |-> VersionRange(1, 1)], <<Routing, Rpc>>,
          [id \in {Rpc, Routing} |-> IF id = Routing THEN {Datagram} ELSE {}], require)

At(runtime, lane) == [runtime |-> runtime, lane |-> lane]
Pair(i, a, limit, kinds) ==
  [initiator |-> i, acceptor |-> a, limit |-> limit, events |-> kinds]
Datagrams == At(Runtime(TRUE, FALSE, NoProfiles, <<>>, NoNeeds, {}), TRUE)

MCConfigurations ==
  [\* ranges that overlap; anything may happen
   overlap |-> Pair(At(WithRpc(1, 2, {}), FALSE), At(WithRpc(2, 3, {}), FALSE),
                    1, EventKinds),
   \* ranges that do not overlap and need not; a close crosses something else
   disjoint |-> Pair(At(WithRpc(1, 1, {}), FALSE), At(WithRpc(2, 3, {}), FALSE),
                     2, {"close", "idle", "silence"}),
   \* a required profile that the other side lacks
   missing |-> Pair(At(WithRpc(1, 1, {Rpc}), FALSE), At(Plain({}), FALSE),
                    2, {"break", "timeout"}),
   \* everything, over a carrier with a datagram lane at both ends or at one
   full |-> Pair(At(Full({}), TRUE), At(Full({Routing}), TRUE), 1, {"abort", "refusal", "idle"}),
   half |-> Pair(At(Full({}), TRUE), At(Full({}), FALSE), 2, {"extension", "close"}),
   \* a required datagram lane that the carrier does not have
   absent |-> Pair(Datagrams, At(Full({Datagram}), FALSE), 1, {"abort"})]

\* Both carriers have a datagram lane, as the memory and the WebTransport carriers
\* do, and nobody requires one.
DefaultConfigurations ==
  [default |-> Pair(Datagrams, Datagrams, 0, {}),
   reliable |-> Pair(At(Plain({}), FALSE), At(WithRpc(1, 1, {}), FALSE), 0, {})]
=============================================================================
