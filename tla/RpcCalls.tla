------------------------------ MODULE RpcCalls ------------------------------
(***************************************************************************)
(* The kinds of call RpcCall is about.                                     *)
(***************************************************************************)
EXTENDS Naturals

CONSTANTS
  Calls,         \* the kinds of call, by name
  MaxBuffered    \* maxBufferedItems of the RxJS bridge, 64 in the code

Sides == {"caller", "handler"}
Kinds == {"abort", "encode", "throw", "break", "detach"}

\* A call has a pattern, sources of so many items, pushed by an Observable (which may
\* be endless: silent after them) or pulled from a generator, and may meet one event.
ASSUME CallAssumption ==
  /\ MaxBuffered \in Nat \ {0}
  /\ \A c \in DOMAIN Calls :
       /\ Calls[c].pattern \in {"unary", "notify", "server-stream", "duplex"}
       /\ Calls[c].items \in [Sides -> Nat]
       /\ Calls[c].push \in BOOLEAN
       /\ Calls[c].endless \in BOOLEAN /\ (Calls[c].endless => Calls[c].push)
       /\ Calls[c].events \subseteq Kinds
=============================================================================
