-------------------------------- MODULE Bridge --------------------------------
(***************************************************************************)
(* The private bridge between a peer (the Go Bridge, role "host") and the  *)
(* managed extension of a native process (PrivateBridge, role "native"):   *)
(* two endpoints of one protocol over one full-duplex connection.          *)
(*                                                                         *)
(* Each endpoint numbers its requests 1, 2, ... and answers the other's.   *)
(* A handler may call back over the same connection, with its own context. *)
(* Every frame counts as one byte towards MaxRetained.                     *)
(***************************************************************************)
EXTENDS Integers, FiniteSets, SequencesExt

CONSTANTS
  HostCalls, NativeCalls,   \* how many calls each end makes
  MaxPendingCalls, MaxActiveCalls, MaxPendingWrites, MaxRetained,   \* BridgeLimits
  Outcomes,  \* which of "ok" and "error" a handler may answer
  Cancelling,   \* the ends at which a caller's own context may end
  Faults     \* which of "close" (Close), "ready" (Ready's context ends) and
             \* "loss" (the connection breaks) may happen

ASSUME BridgeAssumption ==
  /\ {HostCalls, NativeCalls} \subseteq Nat
  /\ {MaxPendingCalls, MaxActiveCalls, MaxPendingWrites, MaxRetained} \subseteq Nat \ {0}
  /\ Outcomes \subseteq {"ok", "error"} /\ Outcomes # {}
  /\ Cancelling \subseteq {"host", "native"}
  /\ Faults \subseteq {"close", "ready", "loss"}

Sides    == {"host", "native"}
Other(s) == IF s = "host" THEN "native" ELSE "host"
Bound(s) == IF s = "host" THEN HostCalls ELSE NativeCalls
Seqs     == 1 .. IF HostCalls > NativeCalls THEN HostCalls ELSE NativeCalls

VARIABLES
  ep,      \* [Sides -> endpoint], see NewEndpoint
  wire,    \* [Sides -> Seq(frame)], written by this end, not read by the other
  pc,      \* [Sides -> [Seqs -> idle, writing, waiting, what Call returned]]
  parent,  \* [Sides -> [Seqs -> the request whose handler made the call, or 0]]
  work,    \* [Sides -> [Seqs -> none, running, ok, error, busy]], this end's
           \* handling of the other end's request
  done     \* ends whose Done is closed

vars == <<ep, wire, pc, parent, work, done>>

Frame(kind, n, r) == [kind |-> kind, id |-> n, result |-> r]
Hello          == Frame("hello", 0, "none")
Request(n)     == Frame("request", n, "none")
Cancel(n)      == Frame("cancel", n, "none")
Response(n, r) == Frame("response", n, r)

Results == {"ok", "error", "busy"}

NewEndpoint == [
  status    |-> "up",   \* or why it stopped
  ready     |-> FALSE,  \* the other end's hello has been read
  reading   |-> TRUE,   \* the reader has not returned
  nextOut   |-> 0,
  nextIn    |-> 0,
  pending   |-> {},     \* own calls the other end has not answered
  abandoned |-> {},     \* those whose caller has given up
  slot      |-> [n \in Seqs |-> "none"],   \* an answer its caller has not taken
  active    |-> {},     \* inbound: requests being handled
  cancelled |-> {},     \* requests whose handler's context is done
  handlers  |-> {},     \* handlers that have not returned
  retained  |-> 0,      \* retainedBytes
  queue     |-> <<Hello>>,   \* frames the writer has not written
  flushing  |-> <<>> ]  \* frames written, their write not yet completed

Init ==
  /\ ep     = [s \in Sides |-> NewEndpoint]
  /\ wire   = [s \in Sides |-> <<>>]
  /\ pc     = [s \in Sides |-> [n \in Seqs |-> "idle"]]
  /\ parent = [s \in Sides |-> [n \in Seqs |-> 0]]
  /\ work   = [s \in Sides |-> [n \in Seqs |-> "none"]]
  /\ done   = {}

-----------------------------------------------------------------------------
\* Operators on an endpoint e of side s.

Up(s)     == ep[s].status = "up"
Writes(e) == e.queue \o e.flushing
Unwritten(e, f) == Contains(Writes(e), f)
\* Mutation: the frame to be retained is not counted.
HasRoomForOneMore(e) == e.retained + Len(Writes(e)) <= MaxRetained

HasRoom(e) == e.retained + Len(Writes(e)) < MaxRetained

CanWrite(e) == Len(Writes(e)) < MaxPendingWrites /\ HasRoom(e)
CanSend(e) == e.status = "up" /\ CanWrite(e)
Enqueue(e, f) == [e EXCEPT !.queue = Append(@, f)]

\* stop: every waiting caller hears that the bridge is closed and every handler's
\* context ends.  The host forgets what it handles; the native end leaves that to
\* the handlers.  The host's reader may still take the frames it has buffered.
Stop(s, e, why) ==
  IF e.status # "up" THEN e
  ELSE [e EXCEPT
          !.status = why,
          !.reading = @ /\ s = "host",
          !.pending = {}, !.abandoned = {},
          !.slot = [n \in Seqs |-> IF n \in e.pending \ e.abandoned THEN "closed" ELSE e.slot[n]],
          !.cancelled = @ \cup e.active,
          !.active = IF s = "host" THEN {} ELSE @,
          !.retained = IF s = "host" THEN @ - Cardinality(e.active) ELSE @]

\* The reader refuses a frame, stops the endpoint and returns.
Fail(s, e, why) == [Stop(s, e, why) EXCEPT !.reading = FALSE]

Set(s, e)        == ep' = [ep EXCEPT ![s] = e]
Returns(s, n, r) == pc' = [pc EXCEPT ![s][n] = r]

-----------------------------------------------------------------------------
\* The callers (Call, call).

\* A handler waits for the one nested call it has made.
Nesting(s, p) == \E n \in Seqs : parent[s][n] = p /\ pc[s][n] \in {"writing", "waiting"}

\* admitCall: the id is consumed with the frame's place in the queue.  A call
\* that finds no room consumes nothing and changes nothing.
Call(s, p) ==
  LET e == ep[s]
      n == e.nextOut + 1
  IN /\ e.ready /\ CanSend(e) /\ n <= Bound(s)
     /\ Cardinality(e.pending) < MaxPendingCalls
     /\ p # 0 => work[s][p] = "running" /\ p \notin e.cancelled /\ ~Nesting(s, p)
     /\ Set(s, [Enqueue(e, Request(n)) EXCEPT !.nextOut = n, !.pending = @ \cup {n}])
     /\ Returns(s, n, "writing")
     /\ parent' = [parent EXCEPT ![s][n] = p]
     /\ UNCHANGED <<wire, work, done>>

\* waitBridgeWrite returns; the answer may have come first.
WriteReturns(s, n) ==
  /\ pc[s][n] = "writing" /\ ~Unwritten(ep[s], Request(n))
  /\ Returns(s, n, "waiting")
  /\ UNCHANGED <<ep, wire, parent, work, done>>

\* consumeCallResult
Take(s, n) ==
  LET r == ep[s].slot[n] IN
  /\ r # "none"
  /\ Set(s, [ep[s] EXCEPT !.slot[n] = "none",
                          !.retained = IF r \in Results THEN @ - 1 ELSE @])
  /\ Returns(s, n, r)

Consume(s, n) ==
  /\ pc[s][n] = "waiting" /\ Take(s, n)
  /\ UNCHANGED <<wire, parent, work, done>>

\* The context of a call: its own, or that of the handler that makes it.
ContextDone(s, n) ==
  IF parent[s][n] = 0 THEN s \in Cancelling ELSE parent[s][n] \in ep[s].cancelled

\* The context ends before the request is known to be written: the request may be
\* partly written, so the endpoint stops unless the answer is already there.
GiveUpWriting(s, n) ==
  /\ pc[s][n] = "writing" /\ ContextDone(s, n)
  /\ \/ Take(s, n)
     \/ /\ ep[s].slot[n] = "none"
        /\ Set(s, Stop(s, [ep[s] EXCEPT !.abandoned = @ \cup {n}], "gaveup"))
        /\ Returns(s, n, "gaveup")
  /\ UNCHANGED <<wire, parent, work, done>>

\* Mutation: the entry of an abandoned call is forgotten at once.
GiveUpForgets(s, n) ==
  LET e == [ep[s] EXCEPT !.pending = @ \ {n}] IN
  /\ pc[s][n] = "waiting" /\ ContextDone(s, n) /\ ep[s].slot[n] = "none"
  /\ Set(s, IF CanSend(e) THEN Enqueue(e, Cancel(n)) ELSE Stop(s, e, "busy"))
  /\ Returns(s, n, "gaveup")
  /\ UNCHANGED <<wire, parent, work, done>>

\* Mutation: the other end is not told.
GiveUpSilently(s, n) ==
  /\ pc[s][n] = "waiting" /\ ContextDone(s, n) /\ ep[s].slot[n] = "none"
  /\ Set(s, [ep[s] EXCEPT !.abandoned = @ \cup {n}])
  /\ Returns(s, n, "gaveup")
  /\ UNCHANGED <<wire, parent, work, done>>

\* The context ends while the answer is awaited: abandonPending keeps the entry
\* for the late response and a cancel frame follows the request.
GiveUp(s, n) ==
  LET e == [ep[s] EXCEPT !.abandoned = @ \cup {n}] IN
  /\ pc[s][n] = "waiting" /\ ContextDone(s, n) /\ ep[s].slot[n] = "none"
  /\ Set(s, IF CanSend(e) THEN Enqueue(e, Cancel(n)) ELSE Stop(s, e, "busy"))
  /\ Returns(s, n, "gaveup")
  /\ UNCHANGED <<wire, parent, work, done>>

-----------------------------------------------------------------------------
\* The writers (writeLoop, #send).

\* The host's writer has one frame in hand; node completes writes in order.
WriteFrame(s) ==
  LET e == ep[s] IN
  /\ Up(s) /\ e.queue # <<>> /\ (s = "host" => e.flushing = <<>>)
  /\ wire' = [wire EXCEPT ![s] = IF ep[Other(s)].reading THEN Append(@, Head(e.queue)) ELSE @]
  /\ Set(s, [e EXCEPT !.queue = Tail(@), !.flushing = Append(@, Head(e.queue))])
  /\ UNCHANGED <<pc, parent, work, done>>

WriteCompletes(s) ==
  /\ Up(s) /\ ep[s].flushing # <<>>
  /\ Set(s, [ep[s] EXCEPT !.flushing = Tail(@)])
  /\ UNCHANGED <<wire, pc, parent, work, done>>

WriteFails(s) ==
  /\ Up(s) /\ ep[s].queue # <<>> /\ (~Up(Other(s)) \/ "loss" \in Faults)
  /\ Set(s, Stop(s, ep[s], "closed"))
  /\ UNCHANGED <<wire, pc, parent, work, done>>

\* Mutation: the frame the writer has in hand is never completed.
DrainQueueOnly(s) ==
  /\ ~Up(s) /\ ep[s].queue # <<>>
  /\ Set(s, [ep[s] EXCEPT !.queue = <<>>])
  /\ UNCHANGED <<wire, pc, parent, work, done>>

\* drainWrites: the writes of a stopped endpoint all complete, with an error.
DrainWrites(s) ==
  /\ ~Up(s) /\ Writes(ep[s]) # <<>>
  /\ Set(s, [ep[s] EXCEPT !.queue = <<>>, !.flushing = <<>>])
  /\ UNCHANGED <<wire, pc, parent, work, done>>

-----------------------------------------------------------------------------
\* The readers (readLoop, #onData).

\* acceptRequest: a request starts its handler or is refused as busy.  When even
\* the refusal finds no room the endpoint stops; what the native end still reads
\* of the same chunk changes nothing, so its reader counts as returned.
Accept(s, e, n) ==
  CASE n # e.nextIn + 1 -> Fail(s, e, "protocol")
    [] n = e.nextIn + 1 /\ Cardinality(e.active) < MaxActiveCalls /\ HasRoom(e) ->
         [e EXCEPT !.nextIn = n, !.active = @ \cup {n}, !.retained = @ + 1,
                   !.handlers = @ \cup {n},
                   !.cancelled = IF e.status = "up" THEN @ ELSE @ \cup {n}]
    [] OTHER ->
         LET f == [e EXCEPT !.nextIn = n] IN
         IF CanSend(f) THEN Enqueue(f, Response(n, "busy")) ELSE Fail(s, f, "busy")

\* Mutation: responses are matched in the order of the calls.
AcceptResponseInOrder(s, e, n, r) ==
  IF e.pending = {} THEN Fail(s, e, "protocol")
  ELSE LET m == CHOOSE m \in e.pending : \A k \in e.pending : m <= k IN
       IF m \in e.abandoned
       THEN [e EXCEPT !.pending = @ \ {m}, !.abandoned = @ \ {m}]
       ELSE IF HasRoom(e)
       THEN [e EXCEPT !.pending = @ \ {m}, !.slot[m] = r, !.retained = @ + 1]
       ELSE Fail(s, e, "busy")

\* acceptResponse
AcceptResponse(s, e, n, r) ==
  CASE n \notin e.pending -> Fail(s, e, "protocol")
    [] n \in e.pending \cap e.abandoned ->
         [e EXCEPT !.pending = @ \ {n}, !.abandoned = @ \ {n}]
    [] n \in e.pending \ e.abandoned /\ ~HasRoom(e) -> Fail(s, e, "busy")
    [] n \in e.pending \ e.abandoned /\ HasRoom(e) ->
         [e EXCEPT !.pending = @ \ {n}, !.slot[n] = r, !.retained = @ + 1]

\* acceptCancel: a request that is no longer handled ignores it.
AcceptCancel(s, e, n) ==
  IF n > e.nextIn THEN Fail(s, e, "protocol")
  ELSE [e EXCEPT !.cancelled = @ \cup (e.active \cap {n})]

Accepted(s, e, f) ==
  CASE f.kind = "hello" /\ ~e.ready -> [e EXCEPT !.ready = TRUE]
    [] (f.kind = "hello") = e.ready -> Fail(s, e, "protocol")
    [] f.kind = "request" /\ e.ready  -> Accept(s, e, f.id)
    [] f.kind = "response" /\ e.ready -> AcceptResponse(s, e, f.id, f.result)
    [] f.kind = "cancel" /\ e.ready   -> AcceptCancel(s, e, f.id)

\* Mutation: the reader awaits the handler it has started.
ReadingAwaits(s) == ep[s].reading /\ wire[Other(s)] # <<>> /\ ep[s].handlers = {}

\* A frame is read; the reader awaits nobody.
CanRead(s) == ep[s].reading /\ wire[Other(s)] # <<>>

Read(s) ==
  /\ CanRead(s)
  /\ LET f == Head(wire[Other(s)])
         e == Accepted(s, ep[s], f)
     IN /\ Set(s, e)
        /\ IF f.kind = "request"
           THEN work' = [work EXCEPT ![s][f.id] =
                  IF f.id \in e.handlers THEN "running"
                  ELSE IF e.nextIn = f.id THEN "busy" ELSE @]
           ELSE UNCHANGED work
        /\ wire' = [wire EXCEPT ![Other(s)] = IF e.reading THEN Tail(@) ELSE <<>>]
  /\ UNCHANGED <<pc, parent, done>>

\* The reader sees the end of the connection; the frames still on it are lost.
\* (The host reports a failed read under ErrBridgeProtocol; "protocol" is kept for
\* frames an endpoint refuses.)
PeerGone(s) ==
  /\ Up(s) /\ ep[s].reading /\ (~Up(Other(s)) \/ "loss" \in Faults)
  /\ Set(s, Fail(s, ep[s], "closed"))
  /\ wire' = [wire EXCEPT ![Other(s)] = <<>>]
  /\ UNCHANGED <<pc, parent, work, done>>

\* A stopped endpoint's reader has used up what it had buffered.
ReaderReturns(s) ==
  /\ ~Up(s) /\ ep[s].reading
  /\ Set(s, [ep[s] EXCEPT !.reading = FALSE])
  /\ wire' = [wire EXCEPT ![Other(s)] = <<>>]
  /\ UNCHANGED <<pc, parent, work, done>>

-----------------------------------------------------------------------------
\* The handlers (runHandler).

\* The handler answers; an answer that finds no room stops the endpoint.
Answer(s, n) ==
  /\ work[s][n] = "running" /\ ~Nesting(s, n)
  /\ \E r \in Outcomes :
       /\ work' = [work EXCEPT ![s][n] = r]
       /\ Set(s, IF CanSend(ep[s]) THEN Enqueue(ep[s], Response(n, r))
                 ELSE Stop(s, ep[s], "busy"))
  /\ UNCHANGED <<wire, pc, parent, done>>

Handled(s, e, n) ==
  [e EXCEPT !.handlers = @ \ {n}, !.active = @ \ {n}, !.cancelled = @ \ {n},
            !.retained = IF n \in e.active THEN @ - 1 ELSE @]

\* The handler returns once its answer is written.  The host's does not wait for
\* the write of a stopped endpoint.
HandlerReturns(s, n) ==
  LET e == ep[s] IN
  /\ n \in e.handlers /\ work[s][n] # "running"
  /\ (\A r \in Results : ~Unwritten(e, Response(n, r))) \/ (s = "host" /\ ~Up(s))
  /\ Set(s, Handled(s, e, n))
  /\ UNCHANGED <<wire, pc, parent, work, done>>

-----------------------------------------------------------------------------
\* Stopping and joining.

Close(s) ==
  /\ "close" \in Faults /\ Up(s)
  /\ Set(s, Stop(s, ep[s], "closed"))
  /\ UNCHANGED <<wire, pc, parent, work, done>>

\* Ready's context ends before the other end's hello has been read.
ReadyGivesUp(s) ==
  /\ "ready" \in Faults /\ Up(s) /\ ~ep[s].ready
  /\ Set(s, Stop(s, ep[s], "gaveup"))
  /\ UNCHANGED <<wire, pc, parent, work, done>>

Joinable(s) == ~ep[s].reading /\ Writes(ep[s]) = <<>> /\ ep[s].handlers = {}

\* join, #onClose
Join(s) ==
  /\ ~Up(s) /\ s \notin done /\ Joinable(s)
  /\ done' = done \cup {s}
  /\ UNCHANGED <<ep, wire, pc, parent, work>>

-----------------------------------------------------------------------------
Caller(s)  == \E n \in Seqs : WriteReturns(s, n) \/ Consume(s, n) \/ GiveUpWriting(s, n) \/ GiveUp(s, n)
Writer(s)  == WriteFrame(s) \/ WriteCompletes(s) \/ WriteFails(s) \/ DrainWrites(s)
Reader(s)  == Read(s) \/ PeerGone(s) \/ ReaderReturns(s)
Handler(s) == \E n \in Seqs : Answer(s, n) \/ HandlerReturns(s, n)
Stopper(s) == Close(s) \/ ReadyGivesUp(s) \/ Join(s)

Next == \E s \in Sides :
  \/ \E p \in {0} \cup Seqs : Call(s, p)
  \/ Caller(s) \/ Writer(s) \/ Reader(s) \/ Handler(s) \/ Stopper(s)

Spec == Init /\ [][Next]_vars

\* Goroutines and event handlers run, the connection carries what is written, a
\* closed connection is noticed and every handler answers once its own calls have
\* returned.  Nobody has to call, cancel or close, and no connection has to break.
Fairness == \A s \in Sides :
  /\ WF_vars(WriteFrame(s)) /\ WF_vars(WriteCompletes(s)) /\ WF_vars(DrainWrites(s))
  /\ WF_vars(Read(s)) /\ WF_vars(ReaderReturns(s)) /\ WF_vars(~Up(Other(s)) /\ PeerGone(s))
  /\ WF_vars(Join(s))
  /\ \A n \in Seqs :
       /\ WF_vars(WriteReturns(s, n)) /\ WF_vars(Consume(s, n))
       /\ WF_vars(parent[s][n] # 0 /\ (GiveUp(s, n) \/ GiveUpWriting(s, n)))
       /\ WF_vars(Answer(s, n)) /\ WF_vars(HandlerReturns(s, n))

FairSpec == Spec /\ Fairness
-----------------------------------------------------------------------------
\* Properties.

Statuses == {"up", "closed", "gaveup", "busy", "protocol"}
Frames   == [kind : {"hello", "request", "cancel", "response"}, id : 0 .. Cardinality(Seqs),
             result : Results \cup {"none"}]

EndpointOK(e) ==
  /\ e.status \in Statuses /\ {e.ready, e.reading} \subseteq BOOLEAN
  /\ {e.nextOut, e.nextIn} \subseteq 0 .. Cardinality(Seqs)
  /\ e.abandoned \subseteq e.pending /\ e.pending \subseteq Seqs
  /\ e.active \subseteq e.handlers /\ e.handlers \subseteq Seqs /\ e.cancelled \subseteq Seqs
  /\ Cardinality(e.pending) <= MaxPendingCalls /\ Cardinality(e.active) <= MaxActiveCalls
  /\ Len(Writes(e)) <= MaxPendingWrites /\ e.retained + Len(Writes(e)) <= MaxRetained
  /\ e.slot \in [Seqs -> Results \cup {"none", "closed"}]
  /\ e.queue \in Seq(Frames) /\ e.flushing \in Seq(Frames)

\* Every variable stays in its range, and every limit of BridgeLimits is kept.
TypeOK ==
  /\ DOMAIN ep = Sides /\ \A s \in Sides : EndpointOK(ep[s])
  /\ wire \in [Sides -> Seq(Frames)]
  /\ pc \in [Sides -> [Seqs -> {"idle", "writing", "waiting", "closed", "gaveup"} \cup Results]]
  /\ parent \in [Sides -> [Seqs -> {0} \cup Seqs]]
  /\ work \in [Sides -> [Seqs -> Results \cup {"none", "running"}]]
  /\ done \subseteq Sides
  /\ \A s \in Sides :
       ep[s].retained = Cardinality(ep[s].active)
                        + Cardinality({n \in Seqs : ep[s].slot[n] \in Results})

\* Two correct endpoints never take each other's frames for a protocol violation,
\* whatever is cancelled, refused or answered late: request ids arrive in order,
\* every response finds its call, no cancellation overtakes its request
\* (acceptRequest, acceptResponse, acceptCancel).
NoProtocolFailure == \A s \in Sides : ep[s].status # "protocol"

\* A caller that gave up leaves no work behind: while both ends are up its cancel
\* frame is on its way, or the request is no longer handled, or its handler's
\* context is done (Call: "native work cannot outlive ...").
CancelFollows == \A s \in Sides : \A n \in Seqs :
  pc[s][n] = "gaveup" /\ Up(s) /\ Up(Other(s)) =>
    LET peer == ep[Other(s)] IN
    \/ Contains(ep[s].queue \o wire[s], Cancel(n))
    \/ n <= peer.nextIn /\ (n \in peer.active => n \in peer.cancelled)

\* Both ends' calls are remote calls: performed at most once, answered once, with
\* the answer of their own work, and refused as busy only if not performed.
Ids == {c \in Sides \X Seqs : c[2] <= Bound(c[1])}
Remote == INSTANCE RemoteCall WITH
  caller <- [c \in Ids |-> IF pc[c[1]][c[2]] = "writing" THEN "waiting" ELSE pc[c[1]][c[2]]],
  work   <- [c \in Ids |-> work[Other(c[1])][c[2]]]
ImplementsRemoteCall == Remote!Spec

\* Every call ends, and its entry leaves pending even when its caller gave up:
\* the reader never awaits a handler, so calls back and forth cannot deadlock.
CallSettles == \A s \in Sides : \A n \in Seqs :
  pc[s][n] = "writing" ~>
    pc[s][n] \notin {"writing", "waiting"} /\ n \notin ep[s].pending

\* An endpoint that stops is joined, and so is the other end.
StopJoins == \A s \in Sides : ~Up(s) ~> done = Sides
=============================================================================
