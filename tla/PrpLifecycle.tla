---------------------------- MODULE PrpLifecycle ----------------------------
(***************************************************************************)
(* How two native sessions come up and go down (src/core/session.ts):       *)
(* attach with its abort signal and handshake timer, HELLO and WELCOME,     *)
(* extensions and their disposers, idle probes, close, and attachment loss.*)
(* PrpSession models what happens in between.                              *)
(*                                                                         *)
(* A peer runs several activities that interleave at every await: attach,   *)
(* the read loop, the liveness timer, close, the disposers of an ended      *)
(* session, and the write queue they share.  Each has its own program       *)
(* counter in the peer's record.  A write is two steps, as in PrpSession;   *)
(* a write that ends and the code that awaited it are one.                  *)
(*                                                                         *)
(* The carrier keeps the order of frames.  It may refuse to open, break     *)
(* (with or without what is in flight) or fall silent.                      *)
(* Time is abstract: the liveness timeout exceeds a round trip of a working *)
(* carrier, so that a peer is given up only when no answer can come.        *)
(*                                                                         *)
(* A definition marked "Mutant" is a plausible mistake in the one that      *)
(* follows it and belongs to no behaviour of the code.                     *)
(***************************************************************************)
EXTENDS Capabilities

CONSTANT
  Configurations   \* what two applications may have installed, by name

Peers == {"initiator", "acceptor"}
Other(p) == IF p = "initiator" THEN "acceptor" ELSE "initiator"
EventKinds ==
  {"abort", "break", "silence", "refusal", "extension", "close", "timeout", "idle"}

\* A configuration gives each peer a runtime and says whether its carrier has a
\* datagram lane (supportsLane); up to `limit` (a bound) of `events` happen in it.
ASSUME ConfigurationsAssumption ==
  \A c \in DOMAIN Configurations :
    /\ Configurations[c].events \subseteq EventKinds
    /\ Configurations[c].limit \in Nat
    /\ \A p \in Peers : /\ Constructible(Configurations[c][p].runtime)
                       /\ Configurations[c][p].lane \in BOOLEAN

VARIABLES
  config,   \* the name of this run's configuration, never changed
  s,        \* per peer: the session, see Idle
  chan,     \* per peer: frames on their way to it
  eof,      \* per peer: does lane.incoming end after these?
  silent,   \* has the carrier stopped delivering without saying so?
  events    \* how many of these there have been

vars == <<config, s, chan, eof, silent, events>>

Ended == {"detached", "closed"}
Resources == {"connection", "lane", "datagramLane"}
None == "none"

\* new ReactiveSessionImpl(runtime)
Idle ==
  [state |-> "idle",
   attach |-> "idle",         \* where attach() is
   outcome |-> "pending",     \* what its promise became
   ready |-> "pending",       \* this.ready
   aborted |-> FALSE,         \* options.signal
   held |-> {},               \* which of connection, lane, datagramLane are set
   physical |-> [x \in Resources |-> "none"],
   offered |-> <<>>,          \* this.offeredCapabilities
   agreed |-> <<>>,           \* this.negotiated
   reader |-> "off",          \* where readLoop() is
   extension |-> 0,           \* index of the extension it awaits
   attached |-> {},           \* extensions whose attach() has returned
   disposers |-> <<>>,        \* this.extensionDisposers
   disposing |-> <<>>,        \* disposers an ended session still has to run
   disposed |-> <<>>,         \* disposers that have run, in that order
   releasing |-> {},          \* what finishClosed closes after these
   jobs |-> <<>>,             \* this.writeTail: writes that have not begun
   writing |-> None,          \* the write the lane has not finished
   timer |-> "off",           \* this.livenessTimer
   quiet |-> FALSE,           \* a probe interval has passed without a frame
   reason |-> None]           \* why attach failed or the session ended

Runtime_(p) == Configurations[config][p].runtime
HasDatagramLane(p) ==
  Datagram \in DOMAIN Runtime_(p).capabilities /\ Configurations[config][p].lane

---------------------------------------------------------------------------
(* The ends of a session, as functions of the peer's record.               *)

Because(r, why) == IF r.reason = None THEN why ELSE r.reason

Close(r, names) ==
  [r EXCEPT !.physical = [x \in Resources |-> IF x \in names THEN "closed" ELSE @[x]]]

\* The disposers are spliced out and run in reverse order.
Dispose(r) ==
  [r EXCEPT !.disposing = @ \o Reverse(r.disposers), !.disposers = <<>>]

Rejected(r) == IF r.ready = "pending" THEN "rejected" ELSE r.ready

Detach(r, why) ==
  IF r.state \in Ended THEN r
  ELSE [Dispose(Close(r, r.held)) EXCEPT !.state = "detached", !.held = {},
          !.ready = IF r.state = "connecting" THEN Rejected(r) ELSE @,
          !.timer = "off", !.reason = Because(r, why)]

FinishClosedHolds(r) ==  \* Mutant of FinishClosed: the lane is given up with the carrier.
  IF r.state = "closed" THEN r
  ELSE [Dispose(r) EXCEPT !.state = "closed", !.releasing = @ \cup r.held,
          !.timer = "off", !.reason = Because(r, "closed")]

FinishClosed(r) ==
  IF r.state = "closed" THEN r
  ELSE [Dispose(r) EXCEPT !.state = "closed", !.held = {}, !.releasing = @ \cup r.held,
          !.timer = "off", !.reason = Because(r, "closed")]

\* attach() throws: its catch clause detaches.
AttachFails(r, why) ==
  [Detach(r, why) EXCEPT !.attach = "settled", !.outcome = "rejected"]

\* readLoop's catch clause.
ReadLoopFails(r, why) == [Detach(r, why) EXCEPT !.reader = "done"]

---------------------------------------------------------------------------
(* The handshake.                                                          *)

Queue(r, kind) == [r EXCEPT !.jobs = Append(@, kind)]

\* handleHello and handleWelcome: ready.reject, then writeSessionError.
Refuse(r, why) ==
  [Queue(r, "ERROR") EXCEPT !.ready = Rejected(r), !.reader = "refusing",
                            !.reason = Because(r, why)]

BecomeReady(r) ==
  [r EXCEPT !.state = "ready", !.timer = "armed", !.quiet = FALSE,
            !.ready = IF @ = "pending" THEN "resolved" ELSE @,
            !.reader = "reading"]

\* attachExtensions goes on after extension k, or is done.
NextExtension(p, r, k) ==
  LET order == Runtime_(p).extensions
      later == {j \in (k + 1)..Len(order) : order[j] \in DOMAIN r.agreed}
  IN CASE later # {} -> [r EXCEPT !.reader = "extending",
                                  !.extension = CHOOSE j \in later : \A i \in later : j <= i]
       [] later = {} /\ p = "acceptor" -> [Queue(r, "WELCOME") EXCEPT !.reader = "welcoming"]
       [] later = {} /\ p = "initiator" -> BecomeReady(r)

\* applyDatagramCapability: a lane nobody will use is closed.
DropUnusedDatagramLane(r) ==
  IF Datagram \in DOMAIN r.agreed THEN r
  ELSE [Close(r, r.held \cap {"datagramLane"}) EXCEPT !.held = @ \ {"datagramLane"}]

\* handleHello and handleWelcome; only the latter looks at the policy again, so that
\* an acceptor may go on without what it requires and could not offer itself.
Negotiate(p, r, offer) ==
  LET agreed == Negotiated(r.offered, offer)
  IN IF \/ Mismatch(r.offered, offer, Runtime_(p).require)
        \/ p = "initiator" /\ ~(Runtime_(p).require \subseteq DOMAIN agreed)
        \/ Datagram \in DOMAIN agreed /\ "datagramLane" \notin r.held
     THEN Refuse(r, "mismatch")
     ELSE NextExtension(p, DropUnusedDatagramLane([r EXCEPT !.agreed = agreed]), 0)

---------------------------------------------------------------------------
(* Frames.                                                                 *)

Compacted(r) == r.state = "ready" /\ Compact \in DOMAIN r.agreed

\* writeFrameNow: HELLO, WELCOME and negotiation errors have the bootstrap encoding.
Frame(p, kind) ==
  LET r == s[p]
  IN [kind |-> kind,
      compact |-> Compacted(r) /\ kind \notin {"HELLO", "WELCOME"},
      offer |-> CASE kind = "HELLO" -> Offer(r.offered, Runtime_(p).require)
                  [] kind = "WELCOME" -> Offer(Exactly(r.agreed), Runtime_(p).require)
                  [] OTHER -> <<>>]

\* What the code that awaited a write of `kind` does when it ends.
Resume(r, kind, ok) ==
  CASE kind = "HELLO" ->
         IF ok /\ ~r.aborted THEN [r EXCEPT !.attach = "waiting"]
         ELSE AttachFails(r, IF ok THEN "abort" ELSE "lost")
    [] kind = "WELCOME" -> IF ok THEN BecomeReady(r) ELSE Refuse(r, "lost")
    [] kind = "ERROR" -> ReadLoopFails(r, "refused")
    [] kind = "PONG" -> IF ok THEN [r EXCEPT !.reader = "reading"]
                        ELSE ReadLoopFails(r, "lost")
    [] kind = "PING" -> [r EXCEPT !.timer = IF r.state = "ready" THEN "armed" ELSE "off"]
    [] kind = "CLOSE" -> FinishClosed(r)

\* readLoop and handleFrame, for one frame.
Handle(p, r, f) ==
  IF f.compact # Compacted(r) \/ (f.kind \in {"PING", "PONG", "CLOSE"} /\ r.state # "ready")
  THEN ReadLoopFails(r, "violation")
  ELSE CASE f.kind = "HELLO" ->
              IF p = "acceptor" /\ r.state = "connecting" THEN Negotiate(p, r, f.offer)
              ELSE ReadLoopFails(r, "violation")
         [] f.kind = "WELCOME" ->
              IF p = "initiator" /\ r.state = "connecting" THEN Negotiate(p, r, f.offer)
              ELSE ReadLoopFails(r, "violation")
         [] f.kind = "ERROR" -> ReadLoopFails(r, "remote")
         [] f.kind = "PING" -> [Queue(r, "PONG") EXCEPT !.reader = "replying"]
         [] f.kind = "PONG" -> r
         [] f.kind = "CLOSE" -> FinishClosed(r)

---------------------------------------------------------------------------

\* Peer p's record becomes r and `channels` the frames in flight.  Whoever closes
\* the connection or the reliable lane ends both directions: what it has not read
\* is discarded, what it has written still arrives.
Becomes(p, r, channels) ==
  LET cut == \E x \in {"connection", "lane"} :
               r.physical[x] = "closed" /\ s[p].physical[x] # "closed"
  IN /\ s' = [s EXCEPT ![p] = r]
     /\ chan' = IF cut THEN [channels EXCEPT ![p] = <<>>] ELSE channels
     /\ eof' = IF cut THEN [q \in Peers |-> TRUE] ELSE eof

Init ==
  /\ config \in DOMAIN Configurations
  /\ s = [p \in Peers |-> Idle]
  /\ chan = [p \in Peers |-> <<>>]
  /\ eof = [p \in Peers |-> FALSE]
  /\ silent = FALSE
  /\ events = 0

Calm == UNCHANGED <<config, silent, events>>

\* Something outside the two sessions happens.
Event(kind) ==
  /\ kind \in Configurations[config].events
  /\ events < Configurations[config].limit
  /\ events' = events + 1
  /\ UNCHANGED config

(* attach()                                                                *)

Attach(p) ==
  /\ s[p].state = "idle"
  /\ Becomes(p, [s[p] EXCEPT !.state = "connecting", !.attach = "connecting",
                             !.physical["connection"] = "opening"], chan)
  /\ Calm

\* From `const physicallyAvailable` to the first await: the offer, and HELLO.
MakeOffer(p, r) ==
  LET offered == Offered(Runtime_(p), "datagramLane" \in r.held)
      made == [r EXCEPT !.offered = offered]
  IN CASE Datagram \in Runtime_(p).require /\ "datagramLane" \notin r.held ->
            AttachFails(r, "mismatch")
       [] OTHER ->
            IF p = "initiator" THEN [Queue(made, "HELLO") EXCEPT !.attach = "hello"]
            ELSE IF r.aborted THEN AttachFails(made, "abort")
            ELSE [made EXCEPT !.attach = "waiting"]

ConnectedHoldsLane(p) ==  \* Mutant of Connected: the lane is set before it is open.
  /\ s[p].attach = "connecting"
  /\ Becomes(p, [s[p] EXCEPT !.attach = "laneOpening", !.held = {"connection", "lane"},
                             !.physical = [@ EXCEPT !["connection"] = "open",
                                                    !["lane"] = "opening"]], chan)
  /\ Calm

Connected(p) ==
  /\ s[p].attach = "connecting"
  /\ Becomes(p, [s[p] EXCEPT !.attach = "laneOpening", !.held = {"connection"},
                             !.physical = [@ EXCEPT !["connection"] = "open",
                                                    !["lane"] = "opening"]], chan)
  /\ Calm

\* The read loop starts; the offer waits for the datagram lane, if there is one.
LaneOpened(p) ==
  /\ s[p].attach = "laneOpening"
  /\ LET r == [s[p] EXCEPT !.held = @ \cup {"lane"}, !.physical["lane"] = "open",
                           !.reader = "reading"]
     IN Becomes(p, IF HasDatagramLane(p)
                   THEN [r EXCEPT !.attach = "datagramOpening",
                                  !.physical["datagramLane"] = "opening"]
                   ELSE MakeOffer(p, r), chan)
  /\ Calm

DatagramLaneOpened(p) ==
  /\ s[p].attach = "datagramOpening"
  /\ Becomes(p, MakeOffer(p, [s[p] EXCEPT !.held = @ \cup {"datagramLane"},
                                          !.physical["datagramLane"] = "open"]), chan)
  /\ Calm

\* The carrier refuses: the session goes on without an optional datagram lane.
OpeningFails(p) ==
  /\ \/ /\ s[p].attach \in {"connecting", "laneOpening"}
        /\ Becomes(p, AttachFails([s[p] EXCEPT !.physical =
                        [x \in Resources |-> IF @[x] = "opening" THEN "none" ELSE @[x]]],
                      "lost"), chan)
     \/ /\ s[p].attach = "datagramOpening"
        /\ Becomes(p, MakeOffer(p, [s[p] EXCEPT !.physical["datagramLane"] = "none"]), chan)
  /\ Event("refusal")
  /\ UNCHANGED silent

\* The promise races the signal at every wait of attach but the write of HELLO,
\* which notices the signal later; while the datagram lane opens, the catch clause
\* takes an abort for a carrier without one.
Abort(p) ==
  /\ s[p].attach \notin {"idle", "settled"}
  /\ ~s[p].aborted
  /\ LET r == [s[p] EXCEPT !.aborted = TRUE]
     IN Becomes(p, CASE r.attach \in {"connecting", "laneOpening", "waiting"} ->
                          AttachFails(r, "abort")
                     [] r.attach = "datagramOpening" -> MakeOffer(p, r)
                     [] OTHER -> r, chan)
  /\ Event("abort")
  /\ UNCHANGED silent

LateOpeningLeaks(p) ==  \* Mutant of LateOpening: without the hook on the promise.
  \E x \in Resources :
    /\ s[p].physical[x] = "opening"
    /\ s[p].attach \in {"hello", "waiting", "settled"}
    /\ Becomes(p, [s[p] EXCEPT !.physical[x] = "open"], chan)
    /\ Calm

\* The carrier opens what an aborted attach() no longer waits for, and it is closed.
LateOpening(p) ==
  \E x \in Resources :
    /\ s[p].physical[x] = "opening"
    /\ s[p].attach \in {"hello", "waiting", "settled"}
    /\ Becomes(p, IF s[p].aborted THEN Close(s[p], {x})
                  ELSE [s[p] EXCEPT !.physical[x] = "open"], chan)
    /\ Calm

Settle(p) ==
  /\ s[p].attach = "waiting"
  /\ s[p].ready # "pending"
  /\ Becomes(p, IF s[p].ready = "resolved"
                THEN [s[p] EXCEPT !.attach = "settled", !.outcome = "resolved"]
                ELSE AttachFails(s[p], "refused"), chan)
  /\ Calm

\* No answer to p is on its way or can still come.
Forsaken(p) ==
  /\ chan[p] = <<>>
  /\ silent \/ s[Other(p)].state \in {"idle"} \cup Ended

HandshakeTimeoutNever(p) == FALSE  \* Mutant of HandshakeTimeout: no timer.

HandshakeTimeout(p) ==
  /\ s[p].attach = "waiting"
  /\ s[p].ready = "pending"
  /\ Becomes(p, AttachFails(s[p], "timeout"), chan)
  /\ IF Forsaken(p) THEN UNCHANGED <<config, events>> ELSE Event("timeout")
  /\ UNCHANGED silent

(* The write queue.                                                        *)

\* The head of the queue begins: without a lane it fails, otherwise its frame is
\* encoded and handed to the carrier.
BeginWrite(p) ==
  /\ s[p].jobs # <<>>
  /\ s[p].writing = None
  /\ LET kind == Head(s[p].jobs)
         r == [s[p] EXCEPT !.jobs = Tail(@)]
     IN IF "lane" \notin r.held THEN Becomes(p, Resume(r, kind, FALSE), chan)
        ELSE Becomes(p, [r EXCEPT !.writing = kind],
                     IF silent \/ eof[p] THEN chan
                     ELSE [chan EXCEPT ![Other(p)] = Append(@, Frame(p, kind))])
  /\ Calm

EndWrite(p) ==
  /\ s[p].writing # None
  /\ \E ok \in IF eof[p] THEN BOOLEAN ELSE {TRUE} :
       LET r == [s[p] EXCEPT !.writing = None]
       IN Becomes(p, IF ok THEN Resume(r, s[p].writing, TRUE)
                     ELSE Resume(Detach(r, "lost"), s[p].writing, FALSE), chan)
  /\ Calm

(* The read loop.                                                          *)

Read(p) ==
  /\ s[p].reader = "reading"
  /\ chan[p] # <<>>
  /\ Becomes(p, Handle(p, [s[p] EXCEPT !.quiet = FALSE], Head(chan[p])),
             [chan EXCEPT ![p] = Tail(@)])
  /\ Calm

\* lane.incoming is exhausted: attachment loss, unless the session was closed.
ReadEnd(p) ==
  /\ s[p].reader = "reading"
  /\ chan[p] = <<>>
  /\ eof[p]
  /\ Becomes(p, ReadLoopFails(s[p], "lost"), chan)
  /\ Calm

Current(p) == Runtime_(p).extensions[s[p].extension]

ExtensionAttachedAlways(p) ==  \* Mutant of ExtensionAttached: no check for the end.
  /\ s[p].reader = "extending"
  /\ Becomes(p, NextExtension(p,
       [s[p] EXCEPT !.attached = @ \cup {Current(p)},
                    !.disposers = Append(@, Current(p))], s[p].extension), chan)
  /\ Calm

\* extension.attach(session) returns a disposer; a session that ended meanwhile
\* runs it at once.
ExtensionAttached(p) ==
  /\ s[p].reader = "extending"
  /\ LET r == [s[p] EXCEPT !.attached = @ \cup {Current(p)}]
     IN Becomes(p, NextExtension(p,
          IF r.state \in Ended THEN [r EXCEPT !.disposed = Append(@, Current(p))]
          ELSE [r EXCEPT !.disposers = Append(@, Current(p))], s[p].extension), chan)
  /\ Calm

ExtensionFails(p) ==
  /\ s[p].reader = "extending"
  /\ Becomes(p, Refuse(s[p], "extension"), chan)
  /\ Event("extension")
  /\ UNCHANGED silent

(* Liveness.                                                               *)

\* The tick after an interval without a frame probes the peer.
Probe(p) ==
  /\ s[p].timer = "armed"
  /\ s[p].state = "ready"
  /\ ~s[p].quiet
  /\ chan[p] = <<>>
  /\ Becomes(p, [Queue(s[p], "PING") EXCEPT !.timer = "probing", !.quiet = TRUE], chan)
  /\ IF Forsaken(p) THEN UNCHANGED <<config, events>> ELSE Event("idle")
  /\ UNCHANGED silent

ExpireNever(p) == FALSE  \* Mutant of Expire: the timeout is not looked at.

\* The tick after the timeout detaches.
Expire(p) ==
  /\ s[p].timer = "armed"
  /\ s[p].state = "ready"
  /\ s[p].quiet
  /\ Forsaken(p)
  /\ Becomes(p, Detach(s[p], "liveness"), chan)
  /\ Calm

(* close() and what follows an end.                                        *)

\* The application has the session once attach() resolved, an extension from its
\* own attach() on.
CloseSession(p) ==
  /\ s[p].outcome = "resolved" \/ s[p].reader = "extending"
  /\ s[p].state # "closed"
  /\ "CLOSE" \notin ToSet(s[p].jobs) \cup {s[p].writing}
  /\ Becomes(p, IF s[p].state = "ready" /\ "lane" \in s[p].held THEN Queue(s[p], "CLOSE")
                ELSE FinishClosed(s[p]), chan)
  /\ Event("close")
  /\ UNCHANGED silent

RunDisposer(p) ==
  /\ s[p].disposing # <<>>
  /\ Becomes(p, [s[p] EXCEPT !.disposing = Tail(@),
                             !.disposed = Append(@, Head(s[p].disposing))], chan)
  /\ Calm

\* finishClosed closes the carrier when the disposers are done.
Release(p) ==
  /\ s[p].releasing # {}
  /\ s[p].disposing = <<>>
  /\ Becomes(p, [Close(s[p], s[p].releasing) EXCEPT !.releasing = {}], chan)
  /\ Calm

(* The carrier.                                                            *)

Break ==
  /\ eof # [p \in Peers |-> TRUE]
  /\ eof' = [p \in Peers |-> TRUE]
  /\ \E lost \in SUBSET Peers : chan' = [p \in Peers |-> IF p \in lost THEN <<>> ELSE chan[p]]
  /\ Event("break")
  /\ UNCHANGED <<s, silent>>

FallSilent ==
  /\ ~silent
  /\ silent' = TRUE
  /\ chan' = [p \in Peers |-> <<>>]
  /\ Event("silence")
  /\ UNCHANGED <<s, eof>>

Passing(p) ==
  \/ Connected(p) \/ LaneOpened(p) \/ DatagramLaneOpened(p) \/ LateOpening(p)
  \/ Settle(p) \/ HandshakeTimeout(p)
  \/ BeginWrite(p) \/ EndWrite(p) \/ Read(p) \/ ReadEnd(p) \/ ExtensionAttached(p)
  \/ Probe(p) \/ Expire(p) \/ RunDisposer(p) \/ Release(p)

Happening ==
  \/ \E p \in Peers : Attach(p) \/ OpeningFails(p) \/ Abort(p) \/ ExtensionFails(p)
                     \/ CloseSession(p)
  \/ Break \/ FallSilent

Next == (\E p \in Peers : Passing(p)) \/ Happening

\* Promises that can settle do, timers fire and a queued frame is read.  No step of
\* one activity can be repeated for ever within the limit, so that this is enough to
\* keep any of them from being starved.
Fairness == WF_vars(\E p \in Peers : Passing(p))

Spec == Init /\ [][Next]_vars /\ Fairness

---------------------------------------------------------------------------
(* Properties.                                                             *)

FrameKinds == {"HELLO", "WELCOME", "ERROR", "CLOSE", "PING", "PONG"}

IsFrame(f) ==
  /\ f.kind \in FrameKinds
  /\ f.compact \in BOOLEAN
  /\ \A id \in DOMAIN f.offer :
       f.offer[id].min \in 0..f.offer[id].max /\ f.offer[id].required \in BOOLEAN

\* Every activity is at one of its awaits and every field is of its kind.
TypeOK ==
  /\ config \in DOMAIN Configurations
  /\ \A p \in Peers :
       LET r == s[p]
           names == ToSet(Runtime_(p).extensions)
       IN /\ r.state \in {"idle", "connecting", "ready"} \cup Ended
          /\ r.attach \in {"idle", "connecting", "laneOpening", "datagramOpening",
                           "hello", "waiting", "settled"}
          /\ r.outcome \in {"pending", "resolved", "rejected"}
          /\ r.ready \in {"pending", "resolved", "rejected"}
          /\ r.held \subseteq {x \in Resources : r.physical[x] \in {"open", "closed"}}
          /\ r.physical \in [Resources -> {"none", "opening", "open", "closed"}]
          /\ DOMAIN r.agreed \subseteq DOMAIN r.offered
          /\ r.reader \in {"off", "reading", "extending", "welcoming", "refusing",
                           "replying", "done"}
          /\ r.reader = "extending" => r.extension \in DOMAIN Runtime_(p).extensions
          /\ r.attached \subseteq names
          /\ ToSet(r.disposers \o r.disposing \o r.disposed) \subseteq names
          /\ r.releasing \subseteq Resources
          /\ r.writing \in {None} \cup FrameKinds
          /\ r.timer \in {"off", "armed", "probing"}
          /\ \A f \in ToSet(chan[p]) : IsFrame(f)
  /\ {eof[p] : p \in Peers} \cup {silent} \subseteq BOOLEAN
  /\ events \in 0..Configurations[config].limit

\* Two sessions that are ready on one lane agree on every capability and its
\* version, and that covers whatever the initiator requires and, of what the acceptor
\* requires, all that it could offer: handleHello settles it from the first offer,
\* handleWelcome again from the answer.
ReadyPeersAgree ==
  (\A p \in Peers : s[p].state = "ready" /\ "lane" \in s[p].held) =>
    /\ s["initiator"].agreed = s["acceptor"].agreed
    /\ Runtime_("initiator").require \subseteq DOMAIN s["initiator"].agreed
    /\ Runtime_("acceptor").require \cap DOMAIN s["acceptor"].offered
         \subseteq DOMAIN s["acceptor"].agreed

\* Each extension that was attached has its disposer in exactly one place, run or
\* to be run, and an ended session keeps none back: detach() may come while
\* attachExtensions waits for the next one.
DisposersAccounted ==
  \A p \in Peers :
    LET all == s[p].disposers \o s[p].disposing \o s[p].disposed
    IN /\ IsInjective(all)
       /\ ToSet(all) = s[p].attached
       /\ s[p].state \in Ended => s[p].disposers = <<>>

\* An ended session puts nothing on the wire, although its write queue is not
\* emptied and closing the lane may wait for disposers.
SilentOnceEnded ==
  [][\A p \in Peers : s[p].state \in Ended =>
        Len(chan'[Other(p)]) <= Len(chan[Other(p)])]_vars

Attaching(p) == s[p].attach \notin {"idle", "settled"}

\* attach() returns or throws, whatever the other peer does and however the carrier
\* fails, provided that the carrier settles what it is asked: connect, openLane and
\* the write of HELLO, which no timer limits.
AttachSettles ==
  (\E p \in Peers : Attaching(p)) ~> (\A p \in Peers : ~Attaching(p))

\* When one session has ended, or the carrier has fallen silent, no session stays
\* connecting or ready, not even one that became ready after it had ended: a close,
\* a lost lane, a handshake or a liveness timeout ends it.
PeersEndTogether ==
  (silent \/ \E p \in Peers : s[p].state \in Ended) ~>
    (\A p \in Peers : s[p].state \notin {"connecting", "ready"})

\* No connection outlives the session that opened it, not even one that the carrier
\* delivers after attach() has given up.
ConnectionReleased ==
  (\E p \in Peers : s[p].state \in Ended) ~>
    (\A p \in Peers : s[p].state \in Ended =>
                      s[p].physical["connection"] \in {"none", "closed"})

Incompatible ==
  LET o == [p \in Peers |-> Offered(Runtime_(p), HasDatagramLane(p))]
  IN \E p \in Peers :
       \/ Mismatch(o[p], Offer(o[Other(p)], Runtime_(Other(p)).require), Runtime_(p).require)
       \/ Datagram \in Runtime_(p).require /\ ~HasDatagramLane(p)

\* PROTOCOL.md section 8 names the versions that peers must share; two runtimes that
\* share them and what either requires are never refused as incompatible.
RefusedOnlyIfIncompatible ==
  (\E p \in Peers : s[p].reason = "mismatch") => Incompatible
=============================================================================
