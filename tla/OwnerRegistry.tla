---------------------------- MODULE OwnerRegistry ----------------------------
(***************************************************************************)
(* The lifecycle of the bindings of one OMP launch                         *)
(* (wrappers/omp/owner_registry.go): native factories become ready, switch *)
(* and end through bridge handlers that hold registry.gate; every binding  *)
(* with a public identity runs a loop of connection attempts of its own;   *)
(* tool calls borrow the binding's current connection; Close stops it all. *)
(*                                                                         *)
(* The bridge is not trusted here: any ready, switch or end request may    *)
(* arrive at any time.  What a delivery does between its arrival and its   *)
(* answer is the subject of OmpDelivery; here it only holds retained       *)
(* bytes.  Bytes are counted in units: a binding, an adopted initial name, *)
(* a queued delivery and a retired token are one each.                     *)
(***************************************************************************)
EXTENDS Integers, SequencesExt

CONSTANTS
  N,             \* owner tokens the native process mints: 1 .. N
  Primaries,     \* the tokens of primary factories; the others are Task children
  Lane,          \* the lane topology: its primary has no public connection
  Attempts,      \* bound on the public connections one binding makes
  Work,          \* maxOwnerWork
  RetiredLimit,  \* maxOwnerTrackedItems, as the bound of retiredTokens
  MaxBindings,   \* maxOwnerBindings
  MaxRetained,   \* maxOwnerRetainedBytes, less the registry's own base
  ToolCalls      \* identifiers of the tool calls native makes, each one once

Bindings == 1 .. N

ASSUME RegistryAssumption ==
  /\ N \in Nat \ {0} /\ Attempts \in Nat \ {0}
  /\ Work \in Nat \ {0} /\ RetiredLimit \in Nat \ {0}
  /\ MaxBindings \in Nat \ {0} /\ MaxRetained \in Nat \ {0}
  /\ Primaries \subseteq 1 .. N
  /\ Lane \in BOOLEAN

VARIABLES
  \* OwnerRegistry
  status,      \* [Bindings -> absent, bound, removed, retired, closed]: "bound" is
               \* membership in registry.bindings
  primary,     \* registry.primaryToken, 0 for none
  lastEnded,   \* a primary ended with a reason: lastPrimaryReason # ""
  everPrimary, ready,
  retired,     \* retiredOrder
  total,       \* retainedBytes above the registry's own base
  err, canceled, ending, closed,
  bridge,      \* open, ended (its reader stopped), stopped and closed (by Close)
  \* the handler that holds registry.gate
  holder,
  \* ownerRegistryState
  terminal,    \* superseded by another Peer
  named,       \* adopted the registry's initial name
  bytes,       \* retainedBytes
  stopped,     \* publicCtx canceled for this binding alone
  loop,        \* where publicLoop is
  made,        \* how many attempts it has made
  attempt,     \* the attempt attached to the binding, 0 for none
  caller,      \* the attempt whose caller is published, 0 for none
  \* ownerPublicAttempt, the attempt the loop is in
  handling,    \* the kinds of public requests that begun handlers have not served
  queue,       \* attempt.deliveries
  delivering,  \* deliveryLoop is in deliver
  drained,     \* deliveryLoop has returned
  tool         \* [ToolCalls -> [pc, owner, att]]

stateVars  == <<status, primary, lastEnded, everPrimary, ready, retired>>
failVars   == <<err, canceled>>
endVars    == <<ending, closed, bridge>>
byteVars   == <<total, bytes, named>>
loopVars   == <<stopped, loop, made, attempt, caller, terminal>>
workVars   == <<handling, queue, delivering, drained>>
vars       == <<stateVars, failVars, endVars, byteVars, holder, loopVars, workVars, tool>>

NoHolder == [kind |-> "none", owner |-> 0, prev |-> 0, pc |-> "none"]
NoCall   == [pc |-> "idle", owner |-> 0, att |-> 0]

HasPublic(b) == ~(Lane /\ b \in Primaries)
Published(b) == caller[b] # 0
Done(b)      == canceled \/ stopped[b]           \* publicCtx, derived from registry.ctx
Unavailable  == ending \/ err \/ canceled        \* admissionErrorLocked

Init ==
  /\ status = [b \in Bindings |-> "absent"]
  /\ primary = 0 /\ lastEnded = FALSE /\ everPrimary = FALSE /\ ready = FALSE
  /\ retired = <<>> /\ total = 0
  /\ err = FALSE /\ canceled = FALSE /\ ending = FALSE /\ closed = FALSE
  /\ bridge = "open"
  /\ holder = NoHolder
  /\ terminal = {} /\ named = {}
  /\ bytes = [b \in Bindings |-> 0]
  /\ stopped = [b \in Bindings |-> FALSE]
  /\ loop = [b \in Bindings |-> "none"]
  /\ made = [b \in Bindings |-> 0]
  /\ attempt = [b \in Bindings |-> 0]
  /\ caller = [b \in Bindings |-> 0]
  /\ handling = [b \in Bindings |-> {}]
  /\ queue = [b \in Bindings |-> 0]
  /\ delivering = [b \in Bindings |-> FALSE]
  /\ drained = [b \in Bindings |-> TRUE]
  /\ tool = [c \in ToolCalls |-> NoCall]

-----------------------------------------------------------------------------
\* Retained bytes: reserveStateLocked refuses what does not fit and fails the
\* registry; releaseStateLocked gives back.

Room(n)      == total + n <= MaxRetained
Charge(b, n) == total' = total + n /\ bytes' = [bytes EXCEPT ![b] = @ + n]
Fail         == err' = TRUE /\ canceled' = TRUE            \* registry.fail

-----------------------------------------------------------------------------
\* The lifecycle handlers.  They take the gate, then describe, remove and admit
\* in critical sections of their own.

Hold(pc) == holder' = [holder EXCEPT !.pc = pc]
Release  == holder' = NoHolder
Target   == holder.owner

\* HandleBridge lets requests in until the registry's context is done; those it
\* let in before may still find the gate free afterwards.
Serving == bridge \in {"open", "ended"}

Begin(kind, b, prev, pc) ==
  /\ Serving /\ holder = NoHolder
  /\ holder' = [kind |-> kind, owner |-> b, prev |-> prev, pc |-> pc]

\* A request that is not valid, such as any owner.switch of a lane, is a protocol
\* failure and takes no gate.
RefuseRequest ==
  /\ Serving /\ Fail
  /\ UNCHANGED <<stateVars, endVars, byteVars, holder, loopVars, workVars, tool>>

\* ownerReady
BeginReady(b) ==
  /\ Begin("ready", b, 0, "describe")
  /\ UNCHANGED <<stateVars, failVars, endVars, byteVars, loopVars, workVars, tool>>

\* ownerSwitch up to its description; a stale request is refused with no effect.
BeginSwitch(p, b) ==
  /\ ~Lane /\ b # p /\ b \in Primaries
  /\ status[p] = "bound" /\ p \notin terminal /\ primary = p
  /\ Begin("switch", b, p, "describe")
  /\ UNCHANGED <<stateVars, failVars, endVars, byteVars, loopVars, workVars, tool>>

\* ownerEnd up to removeBinding
BeginEnd(b) ==
  /\ status[b] = "bound"
  /\ Begin("end", 0, b, "remove")
  /\ UNCHANGED <<stateVars, failVars, endVars, byteVars, loopVars, workVars, tool>>

\* native.describe answers, or fails; without a bridge it fails.
Describe ==
  /\ holder.pc = "describe"
  /\ \/ /\ ~ending /\ bridge = "open"
        /\ IF holder.kind = "switch" THEN Hold("remove") ELSE Hold("admit")
        /\ UNCHANGED failVars
     \/ Release /\ Fail
  /\ UNCHANGED <<stateVars, endVars, byteVars, loopVars, workVars, tool>>

\* removeBinding, first critical section: the binding leaves the registry.  A switch
\* is given up with no effect when its request's context is done (native canceled it).
Unmap ==
  /\ holder.pc = "remove"
  /\ LET p == holder.prev IN
     \/ /\ status[p] # "bound" \/ holder.kind = "switch"
        /\ Release /\ UNCHANGED <<stateVars, caller>>
     \/ /\ status[p] = "bound"
        /\ holder.kind = "switch" => ~Unavailable /\ p \notin terminal
        /\ Hold("cancel")
        /\ status' = [status EXCEPT ![p] = "removed"]
        /\ retired' = Append(retired, p)
        /\ IF primary = p
           THEN primary' = 0 /\ lastEnded' = (holder.kind = "end")
           ELSE UNCHANGED <<primary, lastEnded>>
        /\ caller' = [caller EXCEPT ![p] = 0]
        /\ UNCHANGED <<everPrimary, ready>>
  /\ UNCHANGED <<failVars, endVars, byteVars, stopped, loop, made, attempt, terminal,
                 workVars, tool>>

\* Mutant: publicCancel is forgotten, publicDone is waited for all the same.
CancelPublicMissing ==
  /\ holder.pc = "cancel" /\ Hold("join")
  /\ UNCHANGED <<stateVars, failVars, endVars, byteVars, loopVars, workVars, tool>>

\* publicCancel
CancelPublic ==
  /\ holder.pc = "cancel"
  /\ Hold("join")
  /\ stopped' = [stopped EXCEPT ![holder.prev] = TRUE]
  /\ UNCHANGED <<stateVars, failVars, endVars, byteVars, loop, made, attempt, caller,
                 terminal, workVars, tool>>

\* publicDone
Joined(b) == ~HasPublic(b) \/ loop[b] = "done"

\* The oldest retired token makes room for the new one.
Evicts == ~ending /\ Len(retired) > RetiredLimit

\* Mutant: the evicted token stays charged.
TokenCostKept == 1

\* What the registry is charged for its retired tokens on top of before.
TokenCost == IF Evicts THEN 0 ELSE 1

\* removeBinding, second critical section: the public loop is joined, what the
\* binding held is released, and one retired token is kept in its place.
JoinPublic ==
  /\ holder.pc = "join" /\ Joined(holder.prev)
  /\ LET p == holder.prev
     IN /\ status' = [status EXCEPT ![p] = "retired"]
        /\ bytes' = [bytes EXCEPT ![p] = 0]
        /\ total' = IF ending THEN total ELSE total - bytes[p] + TokenCost
        /\ retired' = IF Evicts THEN Tail(retired) ELSE retired
  /\ IF holder.kind = "switch" THEN Hold("admit") ELSE Release
  /\ UNCHANGED <<primary, lastEnded, everPrimary, ready, failVars, endVars, named,
                 loopVars, workVars, tool>>

\* registry.bindings takes no other one.
Full == Cardinality({b \in Bindings : status[b] = "bound"}) >= MaxBindings

\* Mutant: one of admit's checks is missing.
RefusedAnyPrimary(b) ==
  Unavailable \/ Contains(retired, b) \/ status[b] = "bound" \/ Full \/ ~Room(1)
\* What admit refuses.
Refused(b) ==
  \/ Unavailable
  \/ Contains(retired, b) \/ status[b] = "bound" \/ Full
  \/ b \in Primaries /\ primary # 0
  \/ ~Room(1)

\* admit fails: the binding is refused, or its request's context is done.
RefuseAdmission ==
  /\ holder.pc = "admit" /\ Release /\ Fail
  /\ UNCHANGED <<stateVars, endVars, byteVars, loopVars, workVars, tool>>

\* admit, and for a lane's primary finishLaneAdmission in the same handler.
Admit ==
  /\ holder.pc = "admit" /\ ~Refused(Target)
  /\ LET b == Target
     IN /\ status' = [status EXCEPT ![b] = "bound"]
        /\ primary' = IF b \in Primaries THEN b ELSE primary
        /\ Charge(b, 1) /\ named' = named \ {b}
        /\ loop' = [loop EXCEPT ![b] = IF HasPublic(b) THEN "idle" ELSE "none"]
        /\ stopped' = [stopped EXCEPT ![b] = FALSE]
        /\ attempt' = [attempt EXCEPT ![b] = 0]
        /\ terminal' = terminal \ {b}
        /\ tool' = [c \in ToolCalls |->          \* they hold an earlier state of b
                      IF tool[c].owner = b THEN [tool[c] EXCEPT !.owner = 0] ELSE tool[c]]
        /\ IF HasPublic(b) THEN Release ELSE Hold("finish")
  /\ UNCHANGED <<lastEnded, everPrimary, ready, retired, failVars, endVars, made, caller,
                 workVars>>

FinishLane ==
  /\ holder.pc = "finish" /\ Release
  /\ IF ending \/ status[Target] # "bound"
     THEN Fail /\ UNCHANGED <<lastEnded, everPrimary, ready>>
     ELSE /\ everPrimary' = TRUE /\ lastEnded' = FALSE /\ ready' = TRUE
          /\ UNCHANGED failVars
  /\ UNCHANGED <<status, primary, retired, endVars, byteVars, loopVars, workVars, tool>>

-----------------------------------------------------------------------------
\* publicLoop and connectPublicAttempt, one binding each.

Move(b, pc) == loop' = [loop EXCEPT ![b] = pc]
loopElse == <<stateVars, failVars, endVars, byteVars, holder, tool>>

\* The attempt is still the one the registry knows for this binding.
Attached(b) == /\ ~ending /\ status[b] = "bound" /\ b \notin terminal
               /\ attempt[b] = made[b]

\* The top of the loop: leave it, or connect.  A failed dial only waits.
LoopExit(b) ==
  /\ loop[b] = "idle" /\ Done(b)
  /\ Move(b, "done")
  /\ UNCHANGED <<loopElse, stopped, made, attempt, caller, terminal, workVars>>

Dial(b) ==
  /\ loop[b] = "idle" /\ ~Done(b) /\ made[b] < Attempts
  /\ Move(b, "dialed")
  /\ made' = [made EXCEPT ![b] = @ + 1]
  /\ queue' = [queue EXCEPT ![b] = 0]
  /\ drained' = [drained EXCEPT ![b] = FALSE]
  /\ UNCHANGED <<loopElse, stopped, attempt, caller, terminal, handling, delivering>>

\* The attempt is attached to the binding, unless that has changed meanwhile:
\* then the loop ends for good once the attempt is stopped.
Attach(b) ==
  /\ loop[b] = "dialed"
  /\ IF ~ending /\ status[b] = "bound" /\ b \notin terminal /\ attempt[b] = 0
     THEN attempt' = [attempt EXCEPT ![b] = made[b]] /\ Move(b, "hello")
     ELSE Move(b, "quit") /\ UNCHANGED attempt
  /\ UNCHANGED <<loopElse, stopped, made, caller, terminal, workVars>>

\* The first primary to be published takes the launch's name.
TakesInitialName(b) == b \in Primaries /\ ~everPrimary /\ b \notin named

\* session.hello is accepted: the binding is published by its response handler,
\* unless the name does not fit.
Publish(b) ==
  /\ loop[b] = "hello"
  /\ IF Attached(b) /\ (TakesInitialName(b) => Room(1))
     THEN /\ Move(b, "up")
          /\ caller' = [caller EXCEPT ![b] = made[b]]
          /\ IF TakesInitialName(b)
             THEN Charge(b, 1) /\ named' = named \cup {b}
             ELSE UNCHANGED byteVars
          /\ IF b \in Primaries
             THEN everPrimary' = TRUE /\ lastEnded' = FALSE /\ ready' = TRUE
             ELSE UNCHANGED <<everPrimary, lastEnded, ready>>
          /\ UNCHANGED failVars
     ELSE /\ Move(b, "lost")
          /\ IF Attached(b) THEN Fail ELSE UNCHANGED failVars
          /\ UNCHANGED <<caller, byteVars, everPrimary, lastEnded, ready>>
  /\ UNCHANGED <<status, primary, retired, endVars, holder, stopped, made,
                 attempt, terminal, workVars, tool>>

\* The daemon refuses the identity for good (InvalidHello).
HelloRejected(b) ==
  /\ loop[b] = "hello"
  /\ Move(b, "rejected")
  /\ UNCHANGED <<loopElse, stopped, made, attempt, caller, terminal, workVars>>

\* The connection is lost, or its context is done.
ConnectionLost(b) ==
  /\ loop[b] \in {"hello", "up"}
  /\ Move(b, "lost")
  /\ UNCHANGED <<loopElse, stopped, made, attempt, caller, terminal, workVars>>

\* Mutant: the attempt is detached, its caller is still lent out.
DetachKeepsCaller(b) ==
  /\ loop[b] \in {"lost", "rejected"}
  /\ Move(b, IF loop[b] = "lost" THEN "stopping" ELSE "refused")
  /\ attempt' = [attempt EXCEPT ![b] = 0]
  /\ UNCHANGED <<loopElse, stopped, made, caller, terminal, workVars>>

\* detachPublicAttempt
Detach(b) ==
  /\ loop[b] \in {"lost", "rejected"}
  /\ Move(b, IF loop[b] = "lost" THEN "stopping" ELSE "refused")
  /\ IF status[b] = "bound" /\ attempt[b] = made[b]
     THEN attempt' = [attempt EXCEPT ![b] = 0] /\ caller' = [caller EXCEPT ![b] = 0]
     ELSE UNCHANGED <<attempt, caller>>
  /\ UNCHANGED <<loopElse, stopped, made, terminal, workVars>>

\* attempt.stop: its handlers and its delivery loop are joined.
Stop(b) ==
  /\ loop[b] \in {"stopping", "quit", "refused"}
  /\ handling[b] = {} /\ drained[b]
  /\ Move(b, IF loop[b] = "stopping" /\ ~Done(b) THEN "idle" ELSE "done")
  /\ IF loop[b] = "refused" THEN Fail ELSE UNCHANGED failVars
  /\ UNCHANGED <<stateVars, endVars, byteVars, holder, stopped, made, attempt, caller,
                 terminal, workVars, tool>>

-----------------------------------------------------------------------------
\* Public requests.  The connection serves them beside its reader, so a begun
\* handler may find its attempt detached.  Several may have begun: one of each kind
\* is enough, for a second one of a kind does what the first one would do later.

Methods == {"deliver", "superseded"}

Arrive(b, method) ==
  /\ loop[b] \in {"hello", "up"} /\ method \notin handling[b]
  /\ handling' = [handling EXCEPT ![b] = @ \cup {method}]
  /\ UNCHANGED <<loopElse, loopVars, queue, delivering, drained>>

\* A begun handler serves its request: it returns, or goes on as "next" says.
Serve(b, method, next) ==
  /\ method \in handling[b]
  /\ handling' = [handling EXCEPT ![b] = (@ \ {method}) \cup next]
CloseConn(b) == Move(b, IF loop[b] \in {"hello", "up"} THEN "lost" ELSE loop[b])
Current(b) == Attached(b) /\ Published(b)

\* handlePublic for a request whose attempt is not the published one.
HandleStale(b) ==
  /\ ~Current(b)
  /\ (\E method \in Methods : Serve(b, method, {})) /\ CloseConn(b)
  /\ UNCHANGED <<loopElse, stopped, made, attempt, caller, terminal, queue, delivering,
                 drained>>

\* session.superseded: the binding is terminal at once, the registry fails after.
HandleSuperseded(b) ==
  /\ Current(b) /\ Serve(b, "superseded", {"failing"})
  /\ terminal' = terminal \cup {b}
  /\ caller' = [caller EXCEPT ![b] = 0]
  /\ UNCHANGED <<loopElse, stopped, loop, made, attempt, queue, delivering, drained>>

FailSuperseded(b) ==
  /\ Serve(b, "failing", {}) /\ Fail /\ CloseConn(b)
  /\ UNCHANGED <<stateVars, endVars, byteVars, holder, stopped, made, attempt, caller,
                 terminal, queue, delivering, drained, tool>>

\* Mutant: one delivery too many.
HasRoomForOneMore(b) == queue[b] <= Work

\* attempt.deliveries takes another one.
HasRoom(b) == queue[b] < Work

\* message.deliver is charged and queued.  The registry fails when it does not fit,
\* and on a full queue unless the handler's context is done, which closing the
\* connection may do.
HandleDeliver(b) ==
  /\ Current(b) /\ Serve(b, "deliver", {})
  /\ IF HasRoom(b) /\ Room(1)
     THEN /\ queue' = [queue EXCEPT ![b] = @ + 1]
          /\ Charge(b, 1)
          /\ UNCHANGED <<failVars, loop>>
     ELSE /\ CloseConn(b) /\ UNCHANGED <<queue, total, bytes>>
          /\ Fail \/ (Room(1) /\ UNCHANGED failVars)
  /\ UNCHANGED <<stateVars, endVars, named, holder, stopped, made, attempt, caller,
                 terminal, delivering, drained, tool>>

\* deliveryLoop takes a delivery and calls deliver.
TakeDelivery(b) ==
  /\ ~drained[b] /\ ~delivering[b] /\ queue[b] > 0
  /\ queue' = [queue EXCEPT ![b] = @ - 1]
  /\ delivering' = [delivering EXCEPT ![b] = TRUE]
  /\ UNCHANGED <<loopElse, loopVars, handling, drained>>

\* The delivery is answered, or it fails: deliver fails the registry itself, or
\* the loop does while the delivery's context lasts.  Then its bytes are released.
FinishDelivery(b) ==
  /\ delivering[b]
  /\ delivering' = [delivering EXCEPT ![b] = FALSE]
  /\ Charge(b, -1)
  /\ Fail \/ UNCHANGED failVars
  /\ UNCHANGED <<stateVars, endVars, named, holder, loopVars, handling, queue, drained,
                 tool>>

\* Mutant: the connection's end releases the delivery in progress as well.
DrainEarly(b) ==
  /\ ~drained[b]
  /\ canceled \/ loop[b] \in {"lost", "rejected", "stopping", "quit", "refused"}
  /\ drained' = [drained EXCEPT ![b] = TRUE]
  /\ queue' = [queue EXCEPT ![b] = 0]
  /\ Charge(b, -queue[b] - (IF delivering[b] THEN 1 ELSE 0))
  /\ UNCHANGED <<stateVars, failVars, endVars, named, holder, loopVars, handling,
                 delivering, tool>>

\* deliveryLoop returns once the connection or the registry is done, releasing
\* what it did not take.
Drain(b) ==
  /\ ~drained[b] /\ ~delivering[b]
  /\ canceled \/ loop[b] \in {"lost", "rejected", "stopping", "quit", "refused"}
  /\ drained' = [drained EXCEPT ![b] = TRUE]
  /\ queue' = [queue EXCEPT ![b] = 0]
  /\ Charge(b, -queue[b])
  /\ UNCHANGED <<stateVars, failVars, endVars, named, holder, loopVars, handling,
                 delivering, tool>>

-----------------------------------------------------------------------------
\* tool.call

toolElse == <<stateVars, failVars, endVars, byteVars, holder, loopVars, workVars>>

\* The handler returns: a result, or an error.
Return(c, outcome) ==
  /\ tool' = [tool EXCEPT ![c] = [pc |-> outcome, owner |-> 0, att |-> 0]]
  /\ UNCHANGED toolElse

\* currentCaller: the call is bound to the caller published now.
ToolBegin(c, b) ==
  /\ Serving /\ tool[c] = NoCall
  /\ status[b] = "bound"
  /\ HasPublic(b) => Published(b)
  /\ tool' = [tool EXCEPT ![c] = [pc |-> "captured", owner |-> b, att |-> caller[b]]]
  /\ UNCHANGED toolElse

\* callPublic sends it on that caller's own connection or not at all, and the daemon
\* answers it, unless the connection or the request's context ends first.
ToolSend(c) ==
  /\ tool[c].pc = "captured"
  /\ LET b == tool[c].owner
         own == b # 0 /\ (HasPublic(b) => Current(b) /\ attempt[b] = tool[c].att)
     IN \/ /\ own /\ tool' = [tool EXCEPT ![c] = [pc |-> "answered", owner |-> b, att |-> 0]]
           /\ UNCHANGED toolElse
        \/ Return(c, "failed")

\* Mutant: the result is passed on without looking at its binding again.
ToolCheckNothing(c) == tool[c].pc = "answered" /\ Return(c, "ok")

\* checkGeneration: a reconnect meanwhile does not spoil the result, a removed,
\* superseded or closed binding does.
ToolCheck(c) ==
  /\ tool[c].pc = "answered"
  /\ LET b == tool[c].owner IN
     Return(c, IF b # 0 /\ status[b] = "bound" /\ b \notin terminal THEN "ok" ELSE "failed")

-----------------------------------------------------------------------------
\* The end of the registry.

\* Close, up to registry.cancel
Close ==
  /\ ~ending
  /\ ending' = TRUE /\ canceled' = TRUE
  /\ status' = [b \in Bindings |-> IF status[b] = "bound" THEN "closed" ELSE status[b]]
  /\ caller' = [b \in Bindings |-> IF status[b] = "bound" THEN 0 ELSE caller[b]]
  /\ primary' = 0
  /\ UNCHANGED <<lastEnded, everPrimary, ready, retired, err, closed, bridge, byteVars,
                 holder, stopped, loop, made, attempt, terminal, workVars, tool>>

\* registry.work.Wait: the public loops, and the watcher of the bridge's end.
WorkDone == bridge # "open" /\ \A b \in Bindings : loop[b] \in {"none", "done"}

\* Mutant: the work is joined before the bridge is closed.
StopBridgeLast ==
  /\ ending /\ Serving /\ WorkDone
  /\ bridge' = "stopped"
  /\ Fail \/ UNCHANGED failVars
  /\ stopped' = [b \in Bindings |-> stopped[b] \/ status[b] = "closed"]
  /\ UNCHANGED <<stateVars, ending, closed, byteVars, holder, loop, made, attempt, caller,
                 terminal, workVars, tool>>

\* The rest of Close runs by itself: the public contexts are canceled, and bridge.Close
\* ends the contexts of its handlers.  An owner.ready that waits for the gate may
\* still take it, and then only fails: there is no bridge to describe on.
StopBridge ==
  /\ ending /\ Serving
  /\ bridge' = "stopped"
  /\ Fail \/ UNCHANGED failVars
  /\ stopped' = [b \in Bindings |-> stopped[b] \/ status[b] = "closed"]
  /\ UNCHANGED <<stateVars, ending, closed, byteVars, holder, loop, made, attempt, caller,
                 terminal, workVars, tool>>

\* Then it joins them.
ToolIdle(c) == tool[c].pc \in {"idle", "ok", "failed"}
CloseBridge ==
  /\ bridge = "stopped"
  /\ holder = NoHolder /\ \A c \in ToolCalls : ToolIdle(c)
  /\ bridge' = "closed"
  /\ UNCHANGED <<stateVars, failVars, ending, closed, byteVars, holder, loopVars,
                 workVars, tool>>

\* Then everything retained is forgotten.
Closed ==
  /\ ending /\ bridge = "closed" /\ ~closed
  /\ WorkDone
  /\ closed' = TRUE /\ total' = 0 /\ retired' = <<>>
  /\ UNCHANGED <<status, primary, lastEnded, everPrimary, ready, failVars, ending, bridge,
                 bytes, named, holder, loopVars, workVars, tool>>

\* The bridge ends.  That is orderly only when native closed it (ErrBridgeClosed) and
\* its last binding ended with a reason, a failure in any other case.
Orderly == /\ everPrimary /\ primary = 0 /\ lastEnded
           /\ \A b \in Bindings : status[b] # "bound"

BridgeEnded ==
  /\ bridge = "open"
  /\ bridge' = "ended"
  /\ IF ending THEN UNCHANGED failVars
     ELSE canceled' = TRUE /\ (err' = TRUE \/ (Orderly /\ UNCHANGED err))
  /\ UNCHANGED <<stateVars, ending, closed, byteVars, holder, loopVars, workVars, tool>>

Stopped == closed /\ UNCHANGED vars

Lifecycle ==
  \/ RefuseRequest
  \/ (\E b \in Bindings : BeginReady(b) \/ BeginEnd(b) \/ \E p \in Bindings : BeginSwitch(p, b))
  \/ Describe \/ Unmap \/ CancelPublic \/ JoinPublic \/ RefuseAdmission \/ Admit
  \/ FinishLane
PublicLoop(b) == LoopExit(b) \/ Dial(b) \/ Attach(b) \/ Publish(b) \/ HelloRejected(b)
                 \/ ConnectionLost(b) \/ Detach(b) \/ Stop(b)
Requests(b) == (\E method \in Methods : Arrive(b, method))
               \/ HandleStale(b) \/ HandleSuperseded(b) \/ FailSuperseded(b)
               \/ HandleDeliver(b) \/ TakeDelivery(b) \/ FinishDelivery(b) \/ Drain(b)
Tool(c) == (\E b \in Bindings : ToolBegin(c, b)) \/ ToolSend(c) \/ ToolCheck(c)

Next ==
  \/ Lifecycle
  \/ \E b \in Bindings : PublicLoop(b) \/ Requests(b)
  \/ \E c \in ToolCalls : Tool(c)
  \/ Close \/ StopBridge \/ CloseBridge \/ Closed \/ BridgeEnded \/ Stopped

Spec == Init /\ [][Next]_vars

\* What runs by itself: goroutines, their wake-ups when a context is done, and
\* bridge calls, which end.  Native, the daemon and a new Close are not promised.
Fairness ==
  /\ WF_vars(Describe) /\ WF_vars(Unmap \/ CancelPublic \/ JoinPublic)
  /\ WF_vars(RefuseAdmission \/ Admit \/ FinishLane)
  /\ \A b \in Bindings :
       /\ WF_vars(LoopExit(b)) /\ WF_vars(Attach(b) \/ Detach(b) \/ Stop(b))
       /\ WF_vars(Done(b) /\ ConnectionLost(b))
       /\ WF_vars(HandleStale(b) \/ HandleSuperseded(b) \/ FailSuperseded(b) \/ HandleDeliver(b))
       /\ WF_vars(FinishDelivery(b)) /\ WF_vars(Drain(b))
  /\ \A c \in ToolCalls : WF_vars(ToolSend(c) \/ ToolCheck(c))
  /\ WF_vars(StopBridge) /\ WF_vars(CloseBridge) /\ WF_vars(Closed)

FairSpec == Spec /\ Fairness

-----------------------------------------------------------------------------
Statuses == {"absent", "bound", "removed", "retired", "closed"}
LoopPcs  == {"none", "idle", "dialed", "hello", "up", "lost", "rejected", "stopping",
             "quit", "refused", "done"}

HoldPcs  == {"none", "describe", "remove", "cancel", "join", "admit", "finish"}
Holders  == [kind : {"none", "ready", "switch", "end"}, owner : 0 .. N, prev : 0 .. N,
             pc : HoldPcs]
Calls    == [pc : {"idle", "captured", "answered", "ok", "failed"},
             owner : 0 .. N, att : 0 .. Attempts]

RegistryTypes ==
  /\ status \in [Bindings -> Statuses]
  /\ primary \in 0 .. N
  /\ lastEnded \in BOOLEAN /\ everPrimary \in BOOLEAN /\ ready \in BOOLEAN
  /\ retired \in Seq(Bindings)
  /\ err \in BOOLEAN /\ canceled \in BOOLEAN /\ ending \in BOOLEAN /\ closed \in BOOLEAN
  /\ bridge \in {"open", "ended", "stopped", "closed"}
  /\ holder \in Holders
ByteTypes ==
  /\ total \in Int /\ bytes \in [Bindings -> Int]
  /\ named \subseteq Bindings
LoopTypes ==
  /\ stopped \in [Bindings -> BOOLEAN] /\ terminal \subseteq Bindings
  /\ loop \in [Bindings -> LoopPcs]
  /\ made \in [Bindings -> 0 .. Attempts]
  /\ attempt \in [Bindings -> 0 .. Attempts]
  /\ caller \in [Bindings -> 0 .. Attempts]
WorkTypes ==
  /\ handling \in [Bindings -> SUBSET (Methods \cup {"failing"})]
  /\ queue \in [Bindings -> 0 .. Work]
  /\ delivering \in [Bindings -> BOOLEAN]
  /\ drained \in [Bindings -> BOOLEAN]

\* Every variable stays in its range; no queue grows beyond its channel.
TypeOK == RegistryTypes /\ ByteTypes /\ LoopTypes /\ WorkTypes /\ tool \in [ToolCalls -> Calls]

\* At most one primary is bound, and primaryToken names it: a ready or a switch
\* that raced another could otherwise leave two selected sessions.
OnePrimary ==
  /\ \A b \in Primaries : status[b] = "bound" => primary = b
  /\ primary # 0 => primary \in Primaries /\ status[primary] = "bound"

\* A published caller belongs to a binding the registry still has, to the attempt
\* attached to it, and that attempt is the one its loop is in: a replaced or
\* superseded binding lends its connection to nobody.
CallerIsCurrent ==
  \A b \in Bindings : Published(b) =>
    /\ status[b] = "bound" /\ b \notin terminal
    /\ caller[b] = attempt[b] /\ attempt[b] = made[b] /\ loop[b] \in {"up", "lost"}

\* A superseded binding is never served again by a healthy registry: between the
\* mark and the failure its own handler is still on the way.
SupersededFails ==
  \A b \in Bindings : b \in terminal => canceled \/ "failing" \in handling[b]

\* Nothing of a removed binding outlives its removal: its loop, its handlers and
\* its delivery are joined before its bytes are given back.
RemovalJoins ==
  \A b \in Bindings : status[b] = "retired" =>
    /\ loop[b] \in {"none", "done"} /\ handling[b] = {}
    /\ ~delivering[b] /\ drained[b]

\* What a binding still has to release never exceeds what it was charged:
\* releaseStateLocked cannot panic, whatever ends first.
ReleaseCovered ==
  \A b \in Bindings : status[b] \in {"bound", "removed", "closed"} =>
    bytes[b] >= 1 + (IF delivering[b] THEN 1 ELSE 0) + (IF drained[b] THEN 0 ELSE queue[b])

\* The registry's retained bytes are those of its bindings and retired tokens,
\* except for the token a removal under way has still to be charged for, and they
\* stay under the limit although that token is charged without asking.
Accounted ==
  ~ending => total = FoldFunction(+, 0, bytes) + Len(retired)
                     - (IF holder.pc \in {"cancel", "join"} THEN 1 ELSE 0)
TotalExact == Accounted /\ total <= MaxRetained

\* A token the registry remembers as retired is never bound again.
RetiredStaysOut == \A b \in Bindings : status[b] = "bound" => ~Contains(retired, b)

\* Only the first published primary takes the launch's initial name.
InitialNameOnce == Cardinality(named) <= 1 /\ (named # {} => everPrimary)

\* After Close returned nothing of the registry runs.
ClosedIsQuiet ==
  closed => /\ holder = NoHolder /\ total = 0
            /\ \A b \in Bindings : loop[b] \in {"none", "done"} /\ ~delivering[b]
            /\ \A c \in ToolCalls : ToolIdle(c)

\* A primary's tool result is handed to native only while that binding is the
\* one the registry calls its primary.
ToolResultCurrent ==
  [][\A c \in ToolCalls :
       tool'[c].pc = "ok" /\ tool[c].pc # "ok" /\ tool[c].owner \in Primaries =>
         primary = tool[c].owner /\ ~ending]_vars

\* Ready is announced at the moment a primary owner is reachable.
ReadyIsPublished ==
  [][~ready /\ ready' => primary' # 0 /\ (Lane \/ caller'[primary'] # 0)]_vars

\* Close returns: it joins handlers, loops and deliveries that wait for each other
\* and for contexts it cancels itself.
CloseReturns == ending ~> closed

\* A handler that holds the gate gives it back.
GateReleased == holder # NoHolder ~> holder = NoHolder
=============================================================================
