-------------------------- MODULE MCRSocketSession --------------------------
(***************************************************************************)
(* Small instances of RSocketSession.                                      *)
(***************************************************************************)
EXTENDS RSocketSession

Does(i, a, items, lengths, grants, limit, kinds) ==
  [requests |-> [p \in Peers |-> IF p = "initiator" THEN i ELSE a],
   items |-> [p \in Peers |-> IF p = "initiator" THEN items[1] ELSE items[2]], lengths |-> lengths, grants |-> grants,
   reassembly |-> 2, limit |-> limit, events |-> kinds, attached |-> TRUE]

MCConfigurations ==
  [channel |-> Does(<<"duplex">>, <<>>, <<2, 0>>, {1}, 2, 1, {"complete"}),
   hasty |-> Does(<<"duplex">>, <<>>, <<2, 0>>, {1}, 1, 1, {"hasty"}),
   cancelled |-> Does(<<"duplex">>, <<>>, <<1, 1>>, {1}, 1, 2, {"cancel", "fail"}),
   streamed |-> Does(<<"server-stream">>, <<>>, <<1, 2>>, {1}, 2, 1, {"complete", "fail"}),
   several |-> Does(<<"server-stream", "unary">>, <<>>, <<1, 0>>, {1}, 1, 1, {"cancel"}),
   crossing |-> Does(<<"unary">>, <<"notify">>, <<1, 1>>, {1}, 1, 1, {"throw"}),
   ended |-> Does(<<"unary">>, <<>>, <<1, 1>>, {1}, 1, 2, {"close", "break"}),
   fragmented |-> Does(<<"duplex">>, <<>>, <<1, 1>>, {2, 3}, 1, 1, {"cancel"}),
   refused |-> [Does(<<"unary">>, <<>>, <<1, 1>>, {1}, 1, 0, {"unsupported"})
                 EXCEPT !.attached = FALSE],
   setup |-> [Does(<<>>, <<"unary">>, <<1, 1>>, {1}, 1, 1, {"silence", "keepalive"})
               EXCEPT !.attached = FALSE]]
=============================================================================
