--------------------------- MODULE RSocketSession ---------------------------
(***************************************************************************)
(* Two RSocket compatibility sessions                                      *)
(* (src/compatibility/rsocket-v1/session.ts): SETUP, the four interaction   *)
(* models, demand, fragments, cancellation, errors, keepalive and ends.     *)
(*                                                                         *)
(* A stream is named by the peer that requests it and a number.  Here that  *)
(* is the requester's order of open(); for its responder, and on the wire,  *)
(* the order of the requests written (the id is 2n - 1 or 2n).              *)
(*                                                                         *)
(* A payload is its length in fragments and the number of the item.  As in  *)
(* PrpSession a write is two steps, and a write that ends and the code that *)
(* awaited it are one.  Demand stays far below 2^31, both sessions have the *)
(* same options and route metadata is always there.                        *)
(***************************************************************************)
EXTENDS Integers, FiniteSets, Sequences, SequencesExt, FiniteSetsExt

CONSTANT
  Configurations   \* what two applications do, by name

Peers == {"initiator", "acceptor"}
Other(p) == IF p = "initiator" THEN "acceptor" ELSE "initiator"
Patterns == {"unary", "notify", "server-stream", "duplex"}

\* A configuration lists the streams each peer requests and bounds the rest: items
\* per direction and their lengths, grants per receiver, the fragments a session
\* reassembles at once, and how many of which other events there are.
EventKinds == {"complete", "cancel", "fail", "throw", "hasty", "close", "break", "silence",
               "keepalive", "unsupported"}
ASSUME ConfigurationsAssumption ==
  \A c \in DOMAIN Configurations :
    LET C == Configurations[c]
    IN /\ C.requests \in [Peers -> Seq(Patterns)]
       /\ C.items \in [Peers -> Nat] /\ C.lengths \subseteq Nat \ {0}
       /\ C.grants \in Nat /\ C.reassembly \in Nat \ {0}
       /\ C.events \subseteq EventKinds /\ C.limit \in Nat
       /\ C.attached \in BOOLEAN   \* does the run begin with both sessions ready?

VARIABLES
  config,   \* the name of this run's configuration, never changed
  s,        \* per peer: the session, see Idle
  chan,     \* per peer: frames on their way to it
  broken,   \* has the carrier ended, by itself or because a peer closed it?
  silent,   \* has it stopped delivering without saying so?
  events    \* how many events of the configuration there have been

vars == <<config, s, chan, broken, silent, events>>

Config == Configurations[config]
Over(r) == r.state \in {"detached", "closed"}

---------------------------------------------------------------------------
(* Streams.                                                                *)

Names(c) ==
  UNION {{p} \X (1..Len(Configurations[c].requests[p])) : p \in Peers}

\* createState; `table` says whether this.streams has the state, `pending` whether
\* pendingLocalStreams has.
NewStream ==
  [pattern |-> "none", wire |-> 0, table |-> FALSE, pending |-> FALSE,
   started |-> FALSE,        \* wireStarted
   pregranted |-> 0, initialDemand |-> 0, allowance |-> 0, credit |-> 0,
   inClosed |-> FALSE, outClosed |-> FALSE, cancelled |-> FALSE,
   ended |-> FALSE,          \* incoming has ended
   sends |-> <<>>,           \* send() calls that have not put their item on writeTail
   sending |-> "none",       \* where the first of them is
   sent |-> 0,               \* send() calls so far
   completing |-> FALSE,     \* complete() has been called
   granted |-> 0,            \* demand ever put into `allowance`
   got |-> 0,                \* items published to the application
   dead |-> FALSE,           \* terminated, or refused before it existed
   revived |-> FALSE,        \* its request began after it or its session had ended
   hasty |-> FALSE]          \* complete() was called with sends outstanding

Idle(c) ==
  [state |-> "idle", lane |-> FALSE, attach |-> "idle",
   reader |-> "reading",     \* readLoop: "reading", "writing" or "done"
   streams |-> [k \in Names(c) |-> NewStream],
   starts |-> <<>>,          \* this.startTail: requests that wait to be written
   starting |-> FALSE,       \* the first of them is being written
   next |-> 1,               \* nextWireStreamId, in requests
   highest |-> 0,            \* highestRemoteStreamId, in requests
   jobs |-> <<>>,            \* this.writeTail
   writing |-> FALSE,        \* the lane has not finished the frame it was given
   fragments |-> <<>>,       \* this.fragments
   inFlight |-> 0,           \* inFlightReassemblyBytes
   reason |-> "none"]        \* why the session ended

Local(p, k) == k[1] = p
Supports(p, k, x) ==  \* directionSupportsRequestN
  x.pattern = "duplex" \/ (Local(p, k) /\ x.pattern = "server-stream")
\* Mutant: only responses wait for credit.
NeedsCreditOfResponses(p, k, x) == ~Local(p, k) /\ x.pattern = "server-stream"
NeedsCredit(p, k, x) ==  \* sendNeedsCredit
  x.pattern = "duplex" \/ (~Local(p, k) /\ x.pattern = "server-stream")

\* Mutant: a stream is retired with its first direction.
RetireEither(x) ==
  IF x.cancelled \/ x.inClosed \/ x.outClosed THEN [x EXCEPT !.table = FALSE] ELSE x

\* maybeRetire
Retire(x) ==
  IF x.cancelled \/ (x.inClosed /\ x.outClosed) THEN [x EXCEPT !.table = FALSE] ELSE x

Without(f, w) == [v \in DOMAIN f \ {w} |-> f[v]]

\* Mutant: a dropped assembly stays on the budget.
DropKeepsBudget(r, w) == [r EXCEPT !.fragments = Without(@, w)]

\* dropFragmentAssembly
Drop(r, w) ==
  IF w \in DOMAIN r.fragments
  THEN [r EXCEPT !.fragments = Without(@, w), !.inFlight = @ - Len(r.fragments[w].parts)]
  ELSE r

\* Mutant: creditWaiters are forgotten.
RejectedNot(x) == x

Rejected(x) ==
  IF x.sending = "credit" THEN [x EXCEPT !.sending = "none", !.sends = Tail(@)] ELSE x

Ending(x) ==
  [Rejected(x) EXCEPT !.pending = FALSE, !.table = FALSE, !.cancelled = TRUE,
                      !.inClosed = TRUE, !.outClosed = TRUE, !.ended = TRUE, !.dead = TRUE]

\* terminate
Terminate(r, k) ==
  Drop([r EXCEPT !.streams[k] = Ending(@)], <<k[1], r.streams[k].wire>>)

\* What detach and finishClosed do to streams, fragments and the carrier.
End(r, state, why) ==
  [r EXCEPT !.state = state, !.lane = FALSE, !.fragments = <<>>, !.inFlight = 0,
            !.reason = IF @ = "none" THEN why ELSE @,
            !.streams = [k \in DOMAIN @ |-> IF @[k].table \/ @[k].pending THEN Ending(@[k])
                                            ELSE @[k]]]

Detach(r, why) == IF Over(r) THEN r ELSE End(r, "detached", why)
FinishClosed(r) == IF r.state = "closed" THEN r ELSE End(r, "closed", "closed")

\* readLoop's catch clause.
ReadLoopFails(r, why) == [Detach(r, why) EXCEPT !.reader = "done"]

---------------------------------------------------------------------------
(* Writing.                                                                *)

Job(what, k, w, n, size, item) ==
  [what |-> what, k |-> k, wire |-> w, n |-> n, size |-> size, part |-> 0, item |-> item,
   read |-> FALSE]   \* does the read loop wait for it?

NoStream == <<"none", 0>>
Control(what) == Job(what, NoStream, NoStream, 0, 1, 0)
OnStream(r, what, k, n) == Job(what, k, <<k[1], r.streams[k].wire>>, n, 1, 0)

Queue(r, j) == [r EXCEPT !.jobs = Append(@, j)]
ReadWaits(r, j) == [Queue(r, [j EXCEPT !.read = TRUE]) EXCEPT !.reader = "writing"]

\* The frame a job writes next: fragments after the first are PAYLOADs, and COMPLETE
\* is on the last one.
Frame(r, j) ==
  [kind |-> CASE j.what = "answer" -> IF j.part + 1 < j.size THEN "item" ELSE "answer"
              [] j.what = "request" /\ j.part > 0 -> "item"
              [] OTHER -> j.what,
   stream |-> j.wire, n |-> j.n, item |-> j.item, part |-> j.part + 1,
   follows |-> j.part + 1 < j.size,
   pattern |-> IF j.what = "request" THEN r.streams[j.k].pattern ELSE "none"]

\* sendInitialRequestNow after its write: the id is committed, or all is undone.
RequestWritten(r, k) ==
  [r EXCEPT !.next = @ + 1, !.starts = Tail(@), !.starting = FALSE,
            !.streams[k] = Retire([@ EXCEPT !.pending = FALSE, !.initialDemand = 0,
                                            !.sending = "none"])]
\* Mutant: the stream stays in the table.
RequestFailedInTable(r, k) ==
  [r EXCEPT !.starts = Tail(@), !.starting = FALSE,
            !.streams[k] = [@ EXCEPT !.wire = 0, !.started = FALSE, !.allowance = 0,
                                     !.sending = "none"]]
RequestFailed(r, k) ==
  [r EXCEPT !.starts = Tail(@), !.starting = FALSE,
            !.streams[k] = [@ EXCEPT !.table = FALSE, !.wire = 0, !.started = FALSE,
                              !.allowance = 0, !.inClosed = FALSE, !.outClosed = FALSE,
                              !.sending = "none"]]

\* The code that awaited the job.
Resume(r, j, ok) ==
  CASE j.what = "setup" ->
         IF ok THEN [r EXCEPT !.state = "ready", !.attach = "resolved"]
         ELSE [Detach(r, "lost") EXCEPT !.attach = "rejected"]
    [] j.what = "refusal" -> ReadLoopFails(r, "setup")
    [] j.what = "request" -> IF ok THEN RequestWritten(r, j.k) ELSE RequestFailed(r, j.k)
    [] j.what = "item" -> [r EXCEPT !.streams[j.k].sending = "none"]
    [] j.what \in {"answer", "complete"} ->
         LET x == r.streams[j.k]
             y == IF j.what = "answer" THEN [x EXCEPT !.sending = "none"] ELSE x
         IN [r EXCEPT !.streams[j.k] = IF ok THEN Retire([y EXCEPT !.outClosed = TRUE]) ELSE y]
    [] j.what \in {"cancel", "error"} /\ j.k # NoStream -> Terminate(r, j.k)
    [] j.what = "pong" -> IF ok THEN r ELSE ReadLoopFails(r, "lost")
    [] j.what = "close" -> FinishClosed(r)
    [] OTHER -> r

ReadResumes(r, j) ==
  IF j.read /\ r.reader = "writing" THEN [r EXCEPT !.reader = "reading"] ELSE r

---------------------------------------------------------------------------
(* Reading.                                                                *)

\* The stream of this.streams that has the wire id.
OfWire(r, w) ==
  {k \in DOMAIN r.streams : k[1] = w[1] /\ r.streams[k].table /\ r.streams[k].wire = w[2]}

Violation(r) == ReadLoopFails(r, "violation")

\* handleRequest, up to the acceptor.
HandleRequest(r, f) ==
  LET single == f.pattern # "duplex"
  IN [r EXCEPT !.streams[f.stream] =
        [NewStream EXCEPT !.pattern = f.pattern, !.wire = f.stream[2], !.table = TRUE,
           !.started = TRUE, !.pregranted = 1,
           !.credit = IF f.pattern = "unary" THEN 1 ELSE f.n,
           !.inClosed = single, !.ended = single, !.outClosed = f.pattern = "notify",
           !.got = 1]]

\* incoming.push throws once the queue has ended.
HandlePayload(p, r, k, f) ==
  LET x == r.streams[k]
      next == f.kind \in {"item", "answer"}
      unary == Local(p, k) /\ x.pattern = "unary"
      last == f.kind \in {"answer", "complete"} \/ unary
      y == IF next THEN [x EXCEPT !.allowance = IF @ > 0 THEN @ - 1 ELSE @, !.got = @ + 1]
           ELSE x
  IN IF next /\ (x.ended \/ (x.allowance = 0 /\ ~unary)) THEN Violation(r)
     ELSE [r EXCEPT !.streams[k] =
             IF last THEN Retire([y EXCEPT !.inClosed = TRUE, !.ended = TRUE]) ELSE y]

\* Mutant: the last REQUEST_N counts.
HandleDemandLatest(r, k, f) ==
  [r EXCEPT !.streams[k].credit = f.n,
            !.streams[k].sending = IF @ = "credit" THEN "woken" ELSE @]

\* REQUEST_N wakes a sender that waits.
HandleDemand(r, k, f) ==
  [r EXCEPT !.streams[k].credit = @ + f.n,
            !.streams[k].sending = IF @ = "credit" THEN "woken" ELSE @]

\* What a whole frame does to its stream; one that is not there is ignored.
Dispatch(p, r, f) ==
  IF f.kind = "request" THEN HandleRequest(r, f)
  ELSE LET known == OfWire(r, f.stream)
           k == CHOOSE k \in known : TRUE
       IN IF known = {} THEN r
          ELSE CASE f.kind = "demand" -> HandleDemand(r, k, f)
                 [] f.kind \in {"cancel", "error"} -> Terminate(r, k)
                 [] OTHER -> HandlePayload(p, r, k, f)

\* The budget is exhausted: only this stream is given up.
Refuse(p, r, w) ==
  LET known == OfWire(r, w)
      dropped == Drop(r, w)
  IN ReadWaits(CASE known # {} -> Terminate(dropped, CHOOSE k \in known : TRUE)
                 [] known = {} /\ ~Local(p, w) -> [dropped EXCEPT !.streams[w].dead = TRUE]
                 [] OTHER -> dropped,
               Job("error", NoStream, w, 0, 1, 0))

\* reassemble and appendFragment.
Reassemble(p, r, f) ==
  LET w == f.stream
      existing == w \in DOMAIN r.fragments
      first == IF existing THEN r.fragments[w].first ELSE f
      parts == Append(IF existing THEN r.fragments[w].parts ELSE <<>>, <<f.item, f.part>>)
      last == [first EXCEPT !.kind = IF f.kind = "answer" THEN "answer" ELSE @]
  IN IF ~existing /\ ~f.follows THEN Dispatch(p, r, f)
     ELSE IF r.inFlight + 1 > Config.reassembly THEN Refuse(p, r, w)
     ELSE IF ~f.follows THEN Dispatch(p, Drop(r, w), last)
     ELSE [r EXCEPT !.inFlight = @ + 1,
                    !.fragments = [v \in DOMAIN @ \cup {w} |->
                      IF v = w THEN [first |-> first, parts |-> parts] ELSE @[v]]]

\* handleRawFrame for the frames of streams.
HandleStream(p, r, f) ==
  IF \/ f.kind = "request" /\ f.stream[2] # r.highest + 1
     \/ f.kind \in {"request", "demand"} /\ f.stream \in DOMAIN r.fragments
  THEN Violation(r)
  ELSE CASE f.kind \in {"cancel", "error"} -> Dispatch(p, Drop(r, f.stream), f)
         [] f.kind = "demand" -> Dispatch(p, r, f)
         [] f.kind = "request" -> Reassemble(p, [r EXCEPT !.highest = @ + 1], f)
         [] OTHER -> Reassemble(p, r, f)

Handle(p, r, f) ==
  IF p = "acceptor" /\ r.state = "connecting"
  THEN IF f.kind = "setup" /\ "unsupported" \notin Config.events
       THEN [r EXCEPT !.state = "ready", !.attach = "resolved"]
       ELSE ReadWaits(r, Control("refusal"))
  ELSE IF f.kind = "setup" THEN r
  ELSE IF r.state # "ready" THEN ReadLoopFails(r, "early")
  ELSE CASE f.kind = "keepalive" -> ReadWaits(r, Control("pong"))
         [] f.kind = "pong" -> r
         [] f.kind = "close" -> FinishClosed(r)
         [] f.kind = "refusal" -> ReadLoopFails(r, "remote")
         [] OTHER -> HandleStream(p, r, f)

---------------------------------------------------------------------------

\* Peer p's record becomes r.  Whoever gives up its lane closes the carrier: what it
\* has not read is discarded, what it has written still arrives.
Becomes(p, r, channels) ==
  LET cut == s[p].lane /\ ~r.lane
  IN /\ s' = [s EXCEPT ![p] = r]
     /\ chan' = IF cut THEN [channels EXCEPT ![p] = <<>>] ELSE channels
     /\ broken' = (broken \/ cut)

Init ==
  /\ config \in DOMAIN Configurations
  /\ s = [p \in Peers |->
            IF Config.attached
            THEN [Idle(config) EXCEPT !.state = "ready", !.lane = TRUE, !.attach = "resolved"]
            ELSE Idle(config)]
  /\ chan = [p \in Peers |-> <<>>]
  /\ broken = FALSE
  /\ silent = FALSE
  /\ events = 0

Calm == UNCHANGED <<config, silent, events>>

Event(kind) ==
  /\ kind \in Config.events
  /\ events < Config.limit
  /\ events' = events + 1
  /\ UNCHANGED config

\* attach(), with the connection and its lane opened.
Attach(p) ==
  /\ s[p].state = "idle"
  /\ LET r == [s[p] EXCEPT !.state = "connecting", !.lane = TRUE, !.attach = "waiting"]
     IN Becomes(p, IF p = "initiator" THEN Queue(r, Control("setup")) ELSE r, chan)
  /\ Calm

\* Nothing can reach p any more.
Forsaken(p) ==
  \/ silent
  \/ chan[p] = <<>> /\ (~s[p].lane \/ s[Other(p)].state = "idle" \/ Over(s[Other(p)]))

\* The acceptor waits for SETUP, or for the read loop to have refused it.
HandshakeTimeout(p) ==
  /\ p = "acceptor"
  /\ s[p].attach = "waiting"
  /\ Over(s[p]) \/ Forsaken(p)
  /\ Becomes(p, [Detach(s[p], "timeout") EXCEPT !.attach = "rejected"], chan)
  /\ Calm

---------------------------------------------------------------------------
(* The application.                                                        *)

Live(p, k) == s[p].streams[k].pattern # "none"
Stream(p, k) == s[p].streams[k]

Open(p) ==
  LET k == <<p, 1 + Cardinality({j \in DOMAIN s[p].streams : Local(p, j) /\ Live(p, j)})>>
      pattern == Config.requests[p][k[2]]
  IN /\ s[p].state = "ready"
     /\ k \in DOMAIN s[p].streams
     /\ Becomes(p, [s[p] EXCEPT !.streams[k] =
                      [@ EXCEPT !.pattern = pattern, !.pending = TRUE,
                                !.pregranted = IF pattern = "notify" THEN 0 ELSE 1]], chan)
     /\ Calm

\* send() chains on the stream's writeTail.
Send(p, k) ==
  /\ Live(p, k)
  /\ ~Stream(p, k).cancelled
  /\ Stream(p, k).sent < Config.items[p]
  /\ \E size \in Config.lengths :
       LET x == Stream(p, k)
       IN Becomes(p, [s[p] EXCEPT !.streams[k] =
            [x EXCEPT !.sends = Append(@, size), !.sent = @ + 1, !.hasty = @ \/ x.completing]], chan)
  /\ IF Stream(p, k).completing THEN Event("hasty") /\ UNCHANGED silent ELSE Calm

\* An item with credit goes to the session's writeTail; a unary answer completes.
Emit(p, k) ==
  LET x == Stream(p, k)
      what == IF ~Local(p, k) /\ x.pattern = "unary" THEN "answer" ELSE "item"
  IN Queue([s[p] EXCEPT !.streams[k] = [x EXCEPT !.credit = @ - 1, !.sending = "writing",
                                                 !.sends = Tail(@)]],
           Job(what, k, <<k[1], x.wire>>, 0, Head(x.sends), x.sent - Len(x.sends) + 1))

\* The first send() in turn passes its checks, or is rejected.
BeginSend(p, k) ==
  LET x == Stream(p, k)
  IN /\ x.sends # <<>>
     /\ x.sending = "none"
     /\ Becomes(p,
          IF s[p].state # "ready" \/ x.cancelled \/ x.outClosed
          THEN [s[p] EXCEPT !.streams[k].sends = Tail(@)]
          ELSE IF Local(p, k) /\ ~x.started
          THEN [s[p] EXCEPT !.streams[k].sending = "starting", !.starts = Append(@, k)]
          ELSE IF NeedsCredit(p, k, x) /\ x.credit = 0
          THEN [s[p] EXCEPT !.streams[k].sending = "credit"]
          ELSE Emit(p, k), chan)
     /\ Calm

\* waitOutboundCredit goes on without looking at the stream again.
SendWoken(p, k) ==
  /\ Stream(p, k).sending = "woken"
  /\ Becomes(p, Emit(p, k), chan)
  /\ Calm

\* sendInitialRequestNow up to its write.
StartRequest(p) ==
  /\ s[p].starts # <<>>
  /\ ~s[p].starting
  /\ LET k == Head(s[p].starts)
         x == Stream(p, k)
         wire == s[p].next
         demand == IF x.pattern \in {"server-stream", "duplex"} THEN 1 + x.initialDemand
                   ELSE IF x.pattern = "unary" THEN 1 ELSE 0
     IN Becomes(p, Queue([s[p] EXCEPT !.starting = TRUE, !.streams[k] =
            [x EXCEPT !.wire = wire, !.started = TRUE, !.table = TRUE,
                      !.outClosed = @ \/ x.pattern # "duplex",
                      !.inClosed = @ \/ x.pattern = "notify",
                      !.allowance = demand, !.granted = demand, !.sends = Tail(@),
                      !.revived = x.cancelled \/ s[p].reason # "none"]],
            Job("request", k, <<p, wire>>, demand, Head(x.sends), 1)), chan)
  /\ Calm

\* request(): demand granted beforehand is used up first.
Request(p, k) ==
  LET x == Stream(p, k)
      rest == IF x.pregranted > 0 THEN 0 ELSE 1
  IN /\ Live(p, k)
     /\ ~x.cancelled
     /\ ~x.inClosed
     /\ x.granted + x.initialDemand < Config.grants
     /\ x.pregranted > 0 \/ Supports(p, k, x)
     /\ Becomes(p,
          CASE rest = 0 -> [s[p] EXCEPT !.streams[k].pregranted = @ - 1]
            [] rest = 1 /\ Local(p, k) /\ ~x.started ->
                 [s[p] EXCEPT !.streams[k].initialDemand = @ + 1]
            [] OTHER -> Queue([s[p] EXCEPT !.streams[k].allowance = @ + 1,
                                           !.streams[k].granted = @ + 1],
                              OnStream(s[p], "demand", k, 1)), chan)
     /\ Calm

\* complete() is not chained on the stream's writeTail.
Complete(p, k) ==
  LET x == Stream(p, k)
      hasty == x.sends # <<>>
      silentEnd == IF Local(p, k) THEN x.pattern # "duplex"
                   ELSE x.pattern \in {"notify", "unary"}
  IN /\ Live(p, k)
     /\ ~x.cancelled
     /\ ~x.completing
     /\ ~(Local(p, k) /\ ~x.started)
     /\ LET r == [s[p] EXCEPT !.streams[k].completing = TRUE,
                              !.streams[k].hasty = @ \/ hasty]
        IN Becomes(p, IF silentEnd \/ x.outClosed
                      THEN [r EXCEPT !.streams[k] = Retire([@ EXCEPT !.outClosed = TRUE])]
                      ELSE Queue(r, OnStream(s[p], "complete", k, 0)), chan)
     /\ Event(IF hasty THEN "hasty" ELSE "complete")
     /\ UNCHANGED silent

\* Mutant: the other peer is not told.
CancellingAlone(r, k, what) == Terminate(r, k)

\* cancel() and fail(): the frame goes out if the request has, then terminate().
Cancelling(r, k, what) ==
  LET x == r.streams[k]
      marked == [r EXCEPT !.streams[k].cancelled = TRUE]
  IN IF x.started THEN Queue(marked, OnStream(r, what, k, 0)) ELSE Terminate(marked, k)

Cancel(p, k) ==
  /\ Live(p, k)
  /\ ~Stream(p, k).cancelled
  /\ Becomes(p, Cancelling(s[p], k, IF Local(p, k) THEN "cancel" ELSE "error"), chan)
  /\ Event("cancel")
  /\ UNCHANGED silent

Fail(p, k) ==
  /\ Live(p, k)
  /\ ~Stream(p, k).cancelled
  /\ Becomes(p, Cancelling(s[p], k, "error"), chan)
  /\ Event("fail")
  /\ UNCHANGED silent

Close(p) ==
  /\ s[p].attach = "resolved"
  /\ s[p].state # "closed"
  /\ \A i \in DOMAIN s[p].jobs : s[p].jobs[i].what # "close"
  /\ Becomes(p, IF s[p].state = "ready" THEN Queue(s[p], Control("close"))
                ELSE FinishClosed(s[p]), chan)
  /\ Event("close")
  /\ UNCHANGED silent

---------------------------------------------------------------------------
(* The session's own activities.                                           *)

\* writeNow, up to the await: without a lane the whole job fails.
BeginWrite(p) ==
  /\ s[p].jobs # <<>>
  /\ ~s[p].writing
  /\ LET j == Head(s[p].jobs)
     IN IF ~s[p].lane
        THEN Becomes(p, ReadResumes(Resume([s[p] EXCEPT !.jobs = Tail(@)], j, FALSE), j), chan)
        ELSE Becomes(p, [s[p] EXCEPT !.writing = TRUE, !.jobs[1].part = @ + 1],
                     IF broken THEN chan
                     ELSE [chan EXCEPT ![Other(p)] = Append(@, Frame(s[p], j))])
  /\ Calm

EndWrite(p) ==
  /\ s[p].writing
  /\ \E ok \in IF broken THEN BOOLEAN ELSE {TRUE} :
       LET j == Head(s[p].jobs)
           r == [s[p] EXCEPT !.writing = FALSE]
           done == [(IF ok THEN r ELSE Detach(r, "lost")) EXCEPT !.jobs = Tail(@)]
       IN Becomes(p, IF ok /\ j.part < j.size THEN r
                     ELSE ReadResumes(Resume(done, j, ok), j), chan)
  /\ Calm

CanRead(p) == s[p].reader = "reading" /\ chan[p] # <<>> /\ ~silent /\ s[p].state # "idle"

Read(p) ==
  /\ CanRead(p)
  /\ Becomes(p, Handle(p, s[p], Head(chan[p])), [chan EXCEPT ![p] = Tail(@)])
  /\ Calm

\* accepts() throws for a request that has just been read: the read loop fails the
\* stream and waits for it.
ReadThrows(p) ==
  /\ CanRead(p)
  /\ LET f == Head(chan[p])
         r == Handle(p, s[p], f)
     IN /\ f.stream \in DOMAIN r.streams /\ ~Local(p, f.stream) /\ ~Live(p, f.stream)
        /\ r.streams[f.stream].table
        /\ Becomes(p, [ReadWaits(r, OnStream(r, "error", f.stream, 0))
                         EXCEPT !.streams[f.stream].cancelled = TRUE],
                   [chan EXCEPT ![p] = Tail(@)])
  /\ Event("throw")
  /\ UNCHANGED silent

\* lane.incoming ends; what was in flight may be lost.
ReadEnd(p) ==
  /\ s[p].reader = "reading"
  /\ s[p].state # "idle"
  /\ broken
  /\ Becomes(p, ReadLoopFails(s[p], "lost"), [chan EXCEPT ![p] = <<>>])
  /\ Calm

\* The requester's tick.
KeepAlive ==
  /\ s["initiator"].state = "ready"
  /\ Becomes("initiator", Queue(s["initiator"], Control("keepalive")), chan)
  /\ Event("keepalive")
  /\ UNCHANGED silent

\* The tick after the lifetime.
Expire(p) ==
  /\ s[p].state = "ready"
  /\ Forsaken(p)
  /\ Becomes(p, Detach(s[p], "silence"), chan)
  /\ Calm

Break ==
  /\ ~broken
  /\ broken' = TRUE
  /\ Event("break")
  /\ UNCHANGED <<s, chan, silent>>

FallSilent ==
  /\ ~silent
  /\ silent' = TRUE
  /\ Event("silence")
  /\ UNCHANGED <<s, chan, broken>>

Passing(p) ==
  \/ HandshakeTimeout(p) \/ StartRequest(p) \/ BeginWrite(p) \/ EndWrite(p)
  \/ Read(p) \/ ReadEnd(p) \/ Expire(p)
  \/ \E k \in DOMAIN s[p].streams : BeginSend(p, k) \/ SendWoken(p, k)

Calling(p) ==
  \/ Attach(p) \/ Open(p) \/ Close(p) \/ ReadThrows(p)
  \/ \E k \in DOMAIN s[p].streams :
       Send(p, k) \/ Request(p, k) \/ Complete(p, k) \/ Cancel(p, k) \/ Fail(p, k)

Next == (\E p \in Peers : Passing(p) \/ Calling(p)) \/ KeepAlive \/ Break \/ FallSilent

\* Promises that can settle do, timers fire and what has arrived is read.  The bounds
\* leave no activity that could go on for ever in place of another.
Fairness == WF_vars(\E p \in Peers : Passing(p))

Spec == Init /\ [][Next]_vars /\ Fairness

---------------------------------------------------------------------------
(* Properties.                                                             *)

Sending == {"none", "starting", "credit", "woken", "writing"}

\* Every stream, session and activity is in one of its states.
TypeOK ==
  /\ config \in DOMAIN Configurations
  /\ {broken, silent} \subseteq BOOLEAN
  /\ events \in 0..Config.limit
  /\ \A p \in Peers :
       /\ s[p].state \in {"idle", "connecting", "ready", "detached", "closed"}
       /\ s[p].attach \in {"idle", "waiting", "resolved", "rejected"}
       /\ s[p].reader \in {"reading", "writing", "done"}
       /\ ToSet(s[p].starts) \subseteq DOMAIN s[p].streams
       /\ s[p].starting => s[p].starts # <<>>
       /\ s[p].writing => s[p].jobs # <<>>
       /\ \A k \in DOMAIN s[p].streams :
            LET x == Stream(p, k)
            IN /\ x.pattern \in Patterns \cup {"none"}
               /\ x.sending \in Sending
               /\ {x.pregranted, x.initialDemand, x.allowance, x.credit, x.got} \subseteq Nat
               /\ x.table => x.wire > 0 /\ x.started

\* With another session of its kind at the other end no session detects a protocol
\* violation: stream ids arrive without a gap although requests are abandoned before
\* they are written, PAYLOADs only within the demand granted and never after COMPLETE,
\* and nothing comes between the fragments of an item.  Two things the code does not
\* guard against are excepted: complete() overtaking send() of the same stream, and a
\* request that is written although it was cancelled.
Excepted(x) == x.hasty \/ x.revived

NoViolation ==
  (\E p \in Peers : s[p].reason = "violation") =>
    \E p \in Peers, k \in Names(config) : Excepted(Stream(p, k))

\* The items of a stream that are underway to p.
Underway(p, w) ==
  LET q == Other(p)
      queued == {j \in ToSet(s[q].jobs) :
                   j.wire = w /\ j.what \in {"item", "answer"} /\ j.part < j.size}
      sent == {f \in ToSet(chan[p]) : f.stream = w /\ f.kind \in {"item", "answer"}}
      partly == IF w \in DOMAIN s[p].fragments THEN ToSet(s[p].fragments[w].parts) ELSE {}
  IN {j.item : j \in queued} \cup {f.item : f \in sent} \cup {x[1] : x \in partly}

\* Demand of p's that the other peer has not taken in.
DemandUnderway(p, w) ==
  Cardinality({i \in DOMAIN s[p].jobs :
                 s[p].jobs[i].wire = w /\ s[p].jobs[i].what = "demand" /\ s[p].jobs[i].part = 0})
  + Cardinality({i \in DOMAIN chan[Other(p)] :
                   chan[Other(p)][i].stream = w /\ chan[Other(p)][i].kind = "demand"})

\* The stream at the other peer.
Mirror(p, k) == IF Local(p, k) THEN <<p, Stream(p, k).wire>> ELSE
  CHOOSE j \in DOMAIN s[k[1]].streams : j[1] = k[1] /\ Stream(k[1], j).wire = k[2]

BothHave(p, k) ==
  /\ ~broken
  /\ Stream(p, k).table
  /\ Local(p, k) \/ \E j \in Names(config) : j[1] = k[1] /\ Stream(k[1], j).wire = k[2]
  /\ Stream(Other(p), Mirror(p, k)).table

\* What a receiver counts on is what the sender may still send and what is underway,
\* through requests, REQUEST_N, refused and unsent items; and nobody waits for credit
\* that is there.
CreditConserved ==
  \A p \in Peers, k \in Names(config) :
    /\ BothHave(p, k) =>
         LET w == IF Local(p, k) THEN Mirror(p, k) ELSE k
         IN Stream(p, k).allowance =
              Stream(Other(p), Mirror(p, k)).credit + Cardinality(Underway(p, w))
              + DemandUnderway(p, w)
    /\ Stream(p, k).sending = "credit" => Stream(p, k).credit = 0

\* The reassembly budget is what the assemblies hold.  An assembly is the beginning of
\* one item, or what is left of one its stream no longer wants, and goes on.
AssembliesExact ==
  \A p \in Peers :
    LET r == s[p]
        q == Other(p)
    IN /\ r.inFlight = Cardinality(UNION {{w} \X DOMAIN r.fragments[w].parts :
                                          w \in DOMAIN r.fragments})
       /\ r.inFlight <= Config.reassembly
       /\ \A w \in DOMAIN r.fragments :
            LET parts == r.fragments[w].parts
            IN /\ \A i \in DOMAIN parts : parts[i] = <<parts[1][1], parts[1][2] + i - 1>>
               /\ parts[1][2] = 1 \/ OfWire(r, w) = {}
               /\ \/ broken
                  \/ \E f \in ToSet(chan[p]) : f.stream = w /\ f.item = parts[1][1]
                  \/ \E j \in ToSet(s[q].jobs) : j.wire = w /\ j.item = parts[1][1] /\ j.part < j.size

Quiet ==
  /\ ~broken /\ ~silent
  /\ \A p \in Peers : /\ s[p].state = "ready" /\ ~s[p].starting
                     /\ s[p].jobs = <<>> /\ chan[p] = <<>>

\* When nothing is underway the peers agree which streams there are and which of their
\* directions are open.  A responder may hold on to a request without an answer, and
\* an answer completed without an item tells the requester nothing.
QuietPeersAgree ==
  Quiet => \A p \in Peers, k \in Names(config) :
    LET x == Stream(p, k)
        y == Stream(Other(p), Mirror(p, k))
    IN Local(p, k) /\ x.wire > 0 =>
         \/ Excepted(x) \/ Excepted(y)
         \/ x.pattern = "notify"
         \/ x.pattern = "unary" /\ y.completing
         \/ /\ x.table = y.table
            /\ x.table => x.inClosed = y.outClosed /\ x.outClosed = y.inClosed

\* How a direction toward p stands in terms of DemandFlow; the request is an item the
\* responder has asked for.
Ended(p, k) ==
  CASE \/ Stream(p, k).dead \/ s[p].reason # "none"
       \/ Stream(p, k).cancelled /\ ~Stream(p, k).table /\ ~Stream(p, k).inClosed -> "cut"
    [] OTHER -> IF /\ Stream(p, k).inClosed
                   /\ Stream(p, k).pattern = "duplex"
                        \/ (Local(p, k) /\ Stream(p, k).pattern = "server-stream")
                THEN "completed" ELSE "open"

Direction(p, k) ==
  LET x == Stream(p, k)
      w == IF Local(p, k) THEN <<p, x.wire>> ELSE k
      sent == {f \in ToSet(chan[p]) : f.stream = w /\ f.kind \in {"request", "item", "answer"}}
      partly == IF w \in DOMAIN s[p].fragments THEN ToSet(s[p].fragments[w].parts) ELSE {}
  IN [asked |-> IF Local(p, k) THEN x.granted ELSE x.granted + 1,
      started |-> x.got + IF Ended(p, k) = "cut" THEN 0
                          ELSE Cardinality({f.item : f \in sent} \cup {y[1] : y \in partly}),
      got |-> x.got, ended |-> Ended(p, k)]

Flow == INSTANCE DemandFlow WITH
  Flows <- Peers \X UNION {Names(c) : c \in DOMAIN Configurations},
  flow <- [d \in Peers \X Names(config) |-> Direction(d[1], d[2])]

\* RSocket streams keep the promise of native streams (ARCHITECTURE.md: the same
\* ReactiveSession contract): every step of a direction is one of DemandFlow's, but
\* for the applications and requests excepted above.
FlowKept ==
  [][\A p \in Peers, k \in Names(config) :
       \/ Flow!Step(Direction(p, k), Direction(p, k)')
       \/ UNCHANGED Direction(p, k)
       \/ \E q \in Peers, j \in Names(config) :
            Excepted(Stream(q, j))']_vars

\* When one session has ended or the carrier is silent, the other session ends as well,
\* also an initiator that becomes ready after it was detached; and no send() outlives
\* its session, wherever it waits: for earlier ones, for the request to be written, for
\* credit, for the lane.
EverythingEnds ==
  (silent \/ \E p \in Peers : Over(s[p])) ~>
    (\A p \in Peers :
       /\ s[p].state \notin {"connecting", "ready"}
       /\ \A k \in Names(config) :
            Stream(p, k).hasty \/ (Stream(p, k).sends = <<>> /\ Stream(p, k).sending = "none"))
=============================================================================
