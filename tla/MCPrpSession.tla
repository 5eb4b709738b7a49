----------------------------- MODULE MCPrpSession -----------------------------
(***************************************************************************)
(* Small instances of PrpSession.  Each script says which calls the two     *)
(* applications make in one run; the cfg files give the other constants.   *)
(***************************************************************************)
EXTENDS PrpSessionFlow

Does(p, calls) == {p} \X calls

\* One item source and one sink.
FlowScript == Does("initiator", {"open", "send", "complete"})
              \cup Does("acceptor", {"request", "complete", "cancel"})
\* ... where the source may give up as well.
StreamScript == FlowScript \cup Does("initiator", {"cancel"})
\* Both peers open short streams; one side cancels, the other
\* completes its direction.
TableScript == Does("initiator", {"open", "cancel"})
               \cup Does("acceptor", {"open", "complete"})
\* Two streams carry fragmented items, which the source may break off, to a sink
\* that cannot hold two.
FragmentScript == Does("initiator", {"open", "send", "complete", "cancel"})
                  \cup Does("acceptor", {"request"})
\* A sink that completes its own side of several streams and then gives up.
SinkScript == Does("initiator", {"open", "request", "complete", "cancel"})
              \cup Does("acceptor", {"send"})
\* A stream both sides want to finish; the sink may fail or refuse it, and
\* the source may close the session.
EndingScript == Does("initiator", {"open", "send", "complete", "close"})
                \cup Does("acceptor", {"request", "complete", "fail"})
=============================================================================
