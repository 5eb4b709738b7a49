------------------------------ MODULE RpcCall ------------------------------
(***************************************************************************)
(* One call of rpc/1 (src/profile/rpc/index.ts) over one logical stream:    *)
(* the four patterns, the caller and the handler, AbortSignals, failures,   *)
(* and the RxJS adapter (src/rxjs/index.ts) on both sides.                  *)
(*                                                                         *)
(* The stream is what core/session.ts gives each side: credit, an inbound   *)
(* queue and two directions that end; its frames arrive in order.  Values   *)
(* of a side are numbered as its source produces them, decoding is exact,   *)
(* and a target without a handler counts as a handler that throws.          *)
(***************************************************************************)
EXTENDS RpcCalls, Integers, Sequences, SequencesExt

Other(d) == IF d = "caller" THEN "handler" ELSE "caller"

VARIABLES
  call,      \* the name of this run's call, never changed
  stream,    \* per side: its end of the stream, see NewStream
  chan,      \* per side: frames on their way to it
  source,    \* per side: where its items come from, see NewSource
  pump,      \* per side: the activity that sends them
  reader,    \* per side: the activity that reads the other side's
  got,       \* per side: the items it was given
  result,    \* of the call: "none", "resolved", "rejected"
  event      \* the event the call has met

vars == <<call, stream, chan, source, pump, reader, got, result, event>>

Pattern == Calls[call].pattern

\* Is side d to get one item only?
One(d) == Pattern \in {"unary", "notify"} \/ (Pattern = "server-stream" /\ d = "handler")

---------------------------------------------------------------------------
(* The stream: ReactiveStreamImpl and the frames that reach it.             *)

NewStream == [known |-> FALSE, credit |-> 0, items |-> <<>>,
              inClosed |-> FALSE, outClosed |-> FALSE, cancelled |-> FALSE]

Closed(x) == x.cancelled \/ (x.inClosed /\ x.outClosed)

\* cancelStream
Cut(x) == [x EXCEPT !.cancelled = TRUE, !.inClosed = TRUE, !.outClosed = TRUE, !.items = <<>>]

Sending(d, kind, item) == [chan EXCEPT ![Other(d)] = Append(@, [kind |-> kind, item |-> item])]

\* cancel() and fail() of a stream that is not closed.
Abandon(d) ==
  IF stream[d].known /\ ~Closed(stream[d])
  THEN stream' = [stream EXCEPT ![d] = Cut(@)] /\ chan' = Sending(d, "cut", 0)
  ELSE UNCHANGED <<stream, chan>>

---------------------------------------------------------------------------
(* Sources.  An Observable is bridged by toAsyncIterable's queue.           *)

NewSource == [made |-> 0,          \* items produced so far
              queue |-> <<>>,      \* items that wait in the bridge
              state |-> "live"]    \* or "completed", "failed", "stopped"

\* Mutant: the error is not handed to the queue.
StopQuietly(x, why) == IF x.state = "live" THEN [x EXCEPT !.state = "completed"] ELSE x

\* stop(): what is queued can still be taken.
Stop(x, why) == IF x.state = "live" THEN [x EXCEPT !.state = why] ELSE x

Produced(d) == Calls[call].items[d]

Emit(d) ==
  /\ Calls[call].push
  /\ source[d].state = "live"
  /\ pump[d] # "idle"
  /\ Calls[call].endless => source[d].made < Produced(d)
  /\ source' = [source EXCEPT ![d] =
       CASE @.made = Produced(d) -> Stop(@, "completed")
         [] @.made < Produced(d) /\ Len(@.queue) >= MaxBuffered -> Stop(@, "failed")
         [] OTHER -> [@ EXCEPT !.made = @ + 1, !.queue = Append(@, source[d].made + 1)]]
  /\ UNCHANGED <<call, stream, chan, pump, reader, got, result, event>>

\* What next() of the source gives: an item, 0 at its end, -1 if it throws; nothing if
\* it has to wait.
Taken(x, push, most) ==
  CASE x.queue # <<>> -> {<<Head(x.queue), [x EXCEPT !.queue = Tail(@)]>>}
    [] x.queue = <<>> /\ x.state = "failed" -> {<<-1, x>>}
    [] x.queue = <<>> /\ x.state \in {"completed", "stopped"} -> {<<0, x>>}
    [] ~push /\ x.state = "live" /\ x.made < most -> {<<x.made + 1, [x EXCEPT !.made = @ + 1]>>}
    [] ~push /\ x.state = "live" /\ x.made = most -> {<<0, [x EXCEPT !.state = "completed"]>>}
    [] OTHER -> {}

---------------------------------------------------------------------------

Init ==
  /\ call \in DOMAIN Calls
  /\ stream = [d \in Sides |-> NewStream]
  /\ chan = [d \in Sides |-> <<>>]
  /\ source = [d \in Sides |-> NewSource]
  /\ pump = [d \in Sides |-> "idle"]
  /\ reader = [d \in Sides |-> "idle"]
  /\ got = [d \in Sides |-> <<>>]
  /\ result = "none"
  /\ event = "none"

Happens(kind) == kind \in Calls[call].events /\ event = "none" /\ event' = kind

\* The caller opens its stream; a signal that is aborted already cancels it.
Open ==
  /\ pump["caller"] = "idle"
  /\ pump' = [pump EXCEPT !["caller"] = IF Pattern = "duplex" THEN "pulling" ELSE "sending"]
  /\ reader' = [reader EXCEPT !["caller"] = IF Pattern \in {"duplex"} THEN "asking" ELSE "idle"]
  /\ source' = IF Pattern = "duplex" THEN source
               ELSE [source EXCEPT !["caller"] = [@ EXCEPT !.made = 1, !.state = "completed"]]
  /\ stream' = [stream EXCEPT !["caller"] = [NewStream EXCEPT !.known = TRUE]]
  /\ chan' = Sending("caller", "open", 0)
  /\ UNCHANGED <<call, got, result, event>>

---------------------------------------------------------------------------
(* Frames that arrive.                                                     *)

\* handleOpen hands the stream to handleIncomingRpc.
Accept(f) ==
  /\ f.kind = "open"
  /\ stream' = [stream EXCEPT !["handler"] = [NewStream EXCEPT !.known = TRUE]]
  /\ LET duplex == Pattern = "duplex"
     IN /\ pump' = [pump EXCEPT !["handler"] = IF duplex THEN "pulling" ELSE "idle"]
        /\ reader' = [reader EXCEPT !["handler"] = IF duplex THEN "resting" ELSE "asking"]

\* A frame of a stream that is closed on this side is ignored.
Arrive(d, f) ==
  /\ f.kind # "open"
  /\ stream' = [stream EXCEPT ![d] =
       CASE Closed(@) -> @
         [] ~Closed(@) /\ f.kind = "demand" -> [@ EXCEPT !.credit = @ + 1]
         [] ~Closed(@) /\ f.kind = "item" -> [@ EXCEPT !.items = Append(@, f.item)]
         [] ~Closed(@) /\ f.kind = "complete" -> [@ EXCEPT !.inClosed = TRUE]
         [] OTHER -> Cut(@)]
  /\ UNCHANGED <<pump, reader>>

Deliver(d) ==
  /\ chan[d] # <<>>
  /\ chan' = [chan EXCEPT ![d] = Tail(@)]
  /\ Accept(Head(chan[d])) \/ Arrive(d, Head(chan[d]))
  /\ UNCHANGED <<call, source, got, result, event>>

\* Mutant: the handler's Observable is not told of the cancellation.
SignalAbortsCaller(d) ==
  /\ d = "caller" /\ stream[d].cancelled
  /\ source[d].state = "live"
  /\ source' = [source EXCEPT ![d] = Stop(@, "stopped")]
  /\ UNCHANGED <<call, stream, chan, pump, reader, got, result, event>>

\* stream.signal stops the caller's input, context.signal an Observable's answers; a
\* generator ends with its consumer.
SignalAborts(d) ==
  /\ stream[d].cancelled
  /\ d = "caller" \/ Calls[call].push
  /\ source[d].state = "live"
  /\ source' = [source EXCEPT ![d] = Stop(@, IF d = "caller" THEN "stopped" ELSE "failed")]
  /\ UNCHANGED <<call, stream, chan, pump, reader, got, result, event>>

---------------------------------------------------------------------------
(* Sending: the caller's input, and what the handler answers.               *)

\* Only an Observable answers while its handler waits for input.  A unary handler gives
\* the first item of its source.
Pull(d) ==
  /\ pump[d] = "pulling"
  /\ Calls[call].push \/ d = "caller" \/ reader[d] \notin {"asking", "awaiting"}
  /\ \E t \in Taken(source[d], Calls[call].push, Produced(d)) :
       /\ source' = [source EXCEPT ![d] = IF Pattern = "unary" THEN Stop(t[2], "stopped") ELSE t[2]]
       /\ pump' = [pump EXCEPT ![d] = CASE t[1] > 0 -> "sending"
                                        [] t[1] = 0 /\ Pattern # "unary" -> "completing"
                                        [] OTHER -> "throwing"]
  /\ UNCHANGED <<call, stream, chan, reader, got, result, event>>

\* The number of the item that pump d holds.
Held(d) == source[d].made - Len(source[d].queue)

Send(d) ==
  /\ pump[d] = "sending"
  /\ \/ /\ stream[d].outClosed
        /\ pump' = [pump EXCEPT ![d] = "throwing"]
        /\ UNCHANGED <<stream, chan>>
     \/ /\ ~stream[d].outClosed
        /\ stream[d].credit > 0
        /\ stream' = [stream EXCEPT ![d].credit = @ - 1]
        /\ chan' = Sending(d, "item", Held(d))
        /\ pump' = [pump EXCEPT ![d] = IF One(Other(d)) THEN "completing" ELSE "pulling"]
  /\ UNCHANGED <<call, source, reader, got, result, event>>

\* complete(); a caller that does not pump goes on to read.
Complete(d) ==
  /\ pump[d] = "completing"
  /\ IF stream[d].outClosed THEN UNCHANGED <<stream, chan>>
     ELSE stream' = [stream EXCEPT ![d].outClosed = TRUE] /\ chan' = Sending(d, "complete", 0)
  /\ pump' = [pump EXCEPT ![d] = "done"]
  /\ reader' = IF d = "caller" /\ Pattern \in {"unary", "server-stream"}
               THEN [reader EXCEPT ![d] = "asking"] ELSE reader
  /\ result' = IF d = "caller" /\ Pattern = "notify" THEN "resolved" ELSE result
  /\ UNCHANGED <<call, source, got, event>>

\* What is thrown fails the handler's stream and the caller's channel; an iterator that
\* sent is returned.  A unary call or notification only rejects.
Throw(d) ==
  /\ pump[d] = "throwing"
  /\ pump' = [pump EXCEPT ![d] = "failed"]
  /\ IF d = "handler" \/ Pattern \in {"server-stream", "duplex"} THEN Abandon(d)
     ELSE UNCHANGED <<stream, chan>>
  /\ source' = [source EXCEPT ![d] = Stop(@, "stopped")]
  /\ result' = IF d = "caller" /\ Pattern # "duplex" THEN "rejected" ELSE result
  /\ UNCHANGED <<call, reader, got, event>>

---------------------------------------------------------------------------
(* Reading.                                                                *)

\* iterator.next() asks for an item if one can come.
Ask(d) ==
  /\ reader[d] \in {"asking", "asking again"}
  /\ reader' = [reader EXCEPT ![d] = IF @ = "asking" THEN "awaiting" ELSE "awaiting the end"]
  /\ chan' = IF stream[d].inClosed THEN chan ELSE Sending(d, "demand", 0)
  /\ UNCHANGED <<call, stream, source, pump, got, result, event>>

\* The item that was asked for; `one` and a unary call then ask for the end.
ReadItem(d) ==
  /\ reader[d] = "awaiting"
  /\ stream[d].items # <<>>
  /\ got' = [got EXCEPT ![d] = Append(@, Head(stream[d].items))]
  /\ stream' = [stream EXCEPT ![d].items = Tail(@)]
  /\ reader' = [reader EXCEPT ![d] = CASE One(d) -> "asking again"
                                       [] Pattern = "duplex" /\ d = "handler" -> "resting"
                                       [] OTHER -> "asking"]
  /\ UNCHANGED <<call, chan, source, pump, result, event>>

\* The handler has its input and runs.
Run(d) ==
  IF d = "handler" /\ Pattern # "duplex"
  THEN pump' = [pump EXCEPT ![d] = IF Pattern = "notify" THEN "completing" ELSE "pulling"]
  ELSE UNCHANGED pump

\* The stream has ended where it should: the caller's generator returns, and a channel
\* whose input has not been sent is cancelled.
ReadEnd(d) ==
  /\ reader[d] \in {"awaiting", "awaiting the end"}
  /\ stream[d].items = <<>> /\ stream[d].inClosed /\ ~stream[d].cancelled
  /\ reader' = [reader EXCEPT ![d] = "done"]
  /\ IF One(d) /\ reader[d] = "awaiting"
     THEN /\ pump' = IF d = "handler" THEN [pump EXCEPT ![d] = "throwing"] ELSE pump
          /\ result' = IF d = "caller" THEN "rejected" ELSE result
          /\ UNCHANGED <<stream, chan, source>>
     ELSE /\ Run(d)
          /\ result' = IF d = "caller"
                       THEN IF pump[d] = "failed" THEN "rejected" ELSE "resolved" ELSE result
          /\ IF d = "caller" /\ Pattern = "duplex" /\ pump[d] \notin {"done", "failed"}
             THEN Abandon(d) /\ source' = [source EXCEPT ![d] = Stop(@, "stopped")]
             ELSE UNCHANGED <<stream, chan, source>>
  /\ UNCHANGED <<call, got, event>>

\* It was cut.
ReadFails(d) ==
  /\ reader[d] \in {"awaiting", "awaiting the end"}
  /\ stream[d].cancelled
  /\ reader' = [reader EXCEPT ![d] = "failed"]
  /\ pump' = IF d = "handler" THEN [pump EXCEPT ![d] = IF @ \in {"idle", "pulling"} THEN "throwing" ELSE @]
             ELSE pump
  /\ source' = IF d = "caller" THEN [source EXCEPT ![d] = Stop(@, "stopped")] ELSE source
  /\ result' = IF d = "caller" THEN "rejected" ELSE result
  /\ UNCHANGED <<call, stream, chan, got, event>>

\* A duplex handler asks for input; a generator does it between two answers.
HandlerAsks ==
  /\ reader["handler"] = "resting"
  /\ pump["handler"] = "pulling"
  /\ reader' = [reader EXCEPT !["handler"] = "asking"]
  /\ UNCHANGED <<call, stream, chan, source, pump, got, result, event>>

---------------------------------------------------------------------------
(* What may go wrong.                                                      *)

\* The caller's AbortSignal, or an unsubscribed Observable.
Abort ==
  /\ pump["caller"] # "idle"
  /\ result = "none"
  /\ Abandon("caller")
  /\ Happens("abort")
  /\ UNCHANGED <<call, source, pump, reader, got, result>>

\* encode() throws, or the item is larger than the peer takes.
EncodeFails(d) ==
  /\ pump[d] = "sending"
  /\ pump' = [pump EXCEPT ![d] = "throwing"]
  /\ Happens("encode")
  /\ UNCHANGED <<call, stream, chan, source, reader, got, result>>

\* The handler or its generator throws, or there is none.
HandlerThrows ==
  /\ pump["handler"] = "pulling" \/ (Pattern = "notify" /\ pump["handler"] = "completing")
  /\ pump' = [pump EXCEPT !["handler"] = "throwing"]
  /\ Happens("throw")
  /\ UNCHANGED <<call, stream, chan, source, reader, got, result>>

\* Who iterates stops early: return() of autoDemand cancels the stream.
Leave(d) ==
  /\ ~One(d)
  /\ got[d] # <<>>
  /\ reader[d] = (IF d = "caller" THEN "asking" ELSE "resting")
  /\ reader' = [reader EXCEPT ![d] = "done"]
  /\ Abandon(d)
  /\ result' = IF d = "caller" THEN "resolved" ELSE result
  /\ source' = IF d = "caller" THEN [source EXCEPT ![d] = Stop(@, "stopped")] ELSE source
  /\ Happens("break")
  /\ UNCHANGED <<call, pump, got>>

\* The session ends under both.
Detach ==
  /\ pump["caller"] # "idle"
  /\ stream' = [d \in Sides |-> IF Closed(stream[d]) THEN stream[d] ELSE Cut(stream[d])]
  /\ chan' = [d \in Sides |-> <<>>]
  /\ Happens("detach")
  /\ UNCHANGED <<call, source, pump, reader, got, result>>

Passing ==
  \/ Open \/ HandlerAsks
  \/ \E d \in Sides : \/ Emit(d) \/ Deliver(d) \/ SignalAborts(d)
                      \/ Pull(d) \/ Send(d) \/ Complete(d) \/ Throw(d)
                      \/ Ask(d) \/ ReadItem(d) \/ ReadEnd(d) \/ ReadFails(d)

Next == Passing \/ Abort \/ HandlerThrows \/ Detach \/ \E d \in Sides : EncodeFails(d) \/ Leave(d)
Spec == Init /\ [][Next]_vars /\ WF_vars(Passing)

---------------------------------------------------------------------------
(* Properties.                                                             *)

UpTo(n) == [i \in 1..n |-> i]

\* What a side is to be given: everything the other side's source produces, or one item.
Due(d) == UpTo(IF One(d) THEN 1 ELSE Produced(Other(d)))

\* The one case in which a call leaves its stream behind: encode() of a unary request or
\* a notification throws, or its item is too large, and nothing cancels the stream.
Leaks == pump["caller"] = "failed" /\ event = "encode" /\ Pattern \in {"unary", "notify"}

\* A side is given the other side's items in order, and unless it stopped early it takes
\* a call to be complete only when it was given all of them: a source that failed,
\* overflowed its bridge or was cut off never looks as if it had ended.
RpcKept ==
  /\ \A d \in Sides : IsPrefix(got[d], Due(d))
  /\ event # "break" =>
       /\ reader["caller"] = "done" /\ result = "resolved" => got["caller"] = Due("caller")
       /\ reader["handler"] = "done" => got["handler"] = Due("handler")

\* However a call goes, in the end the caller knows, both sides have closed their stream,
\* nothing pumps, and no generator or Observable is left subscribed.  A call whose
\* Observable never completes may stay open until somebody ends it.
Over ==
  \/ Leaks
  \/ Calls[call].endless /\ event = "none"
  \/ /\ result # "none"
     /\ \A d \in Sides :
          /\ stream[d].known => Closed(stream[d])
          /\ pump[d] \in {"idle", "done", "failed"}
          /\ pump[d] # "idle" /\ Pattern # "notify" => source[d].state # "live"

RpcEnds == <>[]Over
=============================================================================
