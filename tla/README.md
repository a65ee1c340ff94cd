# A formal model of the Pi and OMP peers

This directory holds TLA+ specifications of the Sessionbus peers for Pi and OMP:
modules that follow the Go and JavaScript sources, TLC configurations that check
them on small instances, and theorems about them whose proofs TLAPS checks. Line numbers refer to the
sources beside this directory (`src/`).

A peer is a Go process that owns a native coding agent (Pi or OMP). It starts the
native process, puts a managed JavaScript extension into it, talks to that
extension over a private socket, and represents each native session as a peer on
the Sessionbus daemon. Three things are hard about it and are what the models are
about:

* **two runtimes, one session**: the queue of undelivered messages lives in the
  extension (OMP's hooks cannot wait), its bookkeeping in Go, and every message
  between them may meet a session that native has replaced in the meantime;
* **nothing is dropped silently and nothing is done twice**: a delivery whose
  outcome is unknown fails the owner, it is never replayed;
* **everything is bounded and everything is joined**: each table has a limit,
  each limit a refusal, and nothing returns before its work has ended.

## 1. Inventory

### OMP owner registry (`wrappers/omp/owner_registry.go`)

One registry per launch. State: `bindings` by token (phase, whether the public
session was published, `canceled`, `superseded`, handlers under way, the staged
FIFO and the report sequence, bytes charged), the `primary`, the remembered
`retired` tokens, the lifecycle gate, `total` bytes, `err`, `closed`.
Operations: the requests `owner.ready`, `owner.switch`, `session_end`,
`delivery.observe`, `preflight` of the extension; a public loop per binding that
dials the daemon, says `session.hello`, serves deliveries through a queue, and
redials after a loss; tool calls; `Close`. Hard: the gate is held across a join of
the public loop; the registry's lock is dropped around every call; a superseded or
late caller must find its binding gone. Correct means: one primary, a retired
token never comes back, a caller belongs to the attempt its loop is in, bytes are
given back once, removal and `Close` join all work.

### OMP native extension (`wrappers/omp/extension.mjs`)

Runs inside the native process. State: the factory's current binding, per binding
the queue of staged deliveries, which of them are in the running context, the
report queue and its one worker. Operations: `native.stage`, the hooks native
calls (message start and end, context, context reset, `session_switch`,
`session_shutdown`), the report worker. Hard: hooks are synchronous and cannot
wait for Go, so reports are queued and race with the stage acknowledgement; a
session may be replaced again before Go has heard of the first replacement.

### Private bridge (`wrappers/pifamily/bridge.go`, `extension/bridge.mjs`)

A symmetric request protocol over one socket, implemented twice. State per end:
`nextOutgoing`, `nextIncoming`, the pending and the active table, `retainedBytes`,
the write queue. Operations: `Call`, cancellation, responses, handlers that may
call back, `Ready`, `Close`, join. Hard: ids must arrive in order although callers
race; a caller may give up while its request is half written or while its answer
is being read; limits are hit by the refusal of a request too; join waits for
handlers that wait for calls that wait for writes. Correct means: answers reach
the call they belong to, a cancelled call's work is cancelled, no retained byte is
lost or given back twice, every call returns and every end is joined.

### OMP native RPC client (`wrappers/omp/rpc.go`)

The stdin/stdout protocol of a headless OMP. State: readiness and negotiation, the
pending calls (waiting, abandoned, a prompt already answered once), the response
channels, a prompt's late answer, an unfinished chunked frame, `retainedBytes`,
the write queue and its end-of-input marker. Operations: `Ready`, `Call`,
`StartPrompt`, `Finish`, `CancelUI`, `EndInput`, `Close`, the writer, the reader.
Hard: a prompt has two answers, and whoever holds it must find the second; a
context may end while the write is partial or while the answer is there; an
orderly end of native's output must be told from a loss. Correct means: answers
reach their call, bytes return exactly once, a prompt handed to its caller can
always be finished, a correct native is not taken for a violator, and a stopped
client leaves nobody waiting.

### OMP turn runner (`wrappers/omp/run.go`)

One turn at a time; state: the run's goroutine, `ompNativeTurn` (whether a preflight
and an `agent_start` were seen, the last assistant message, the `prompt_result`, the
verdict, what retires the lane), the prompt's two answers at the client, the
interrupt and the dialog's cancellation. Operations: `Run`, `startNativeTurn`,
`Wait`, `Interrupt`, the observation of native events. Hard: no event but a
`prompt_result` says whose it is; the admission comes over two channels in any
order; an interrupt, the end of a context and a late error fall anywhere between
them. Correct means: a run answers with what native said to its own prompt, its
receipt tells what became of it, whatever cannot be attributed retires the lane and
nothing else does, every run returns.

### OMP native owner and wrapper (`native_owner.go`, `omp.go`, `interactive_launch.go`)

Starts the process, waits for its readiness, joins or kills it, loses the lane when
a turn says so. A turn sees of it only the loss and the end of the process
(`OmpTurn`); start, readiness, the join and forced termination are not modelled.

### Pi interactive owner (`wrappers/pi/interactive_owner.go`, `extension.mjs`, `interactive_launch.go`)

One owner per launch. State under its mutex: the session's identity and name, the
published lifetime, the installed connection, the bounded queue of messages for the
next turn; beside it a gate of one token, which handlers and deliveries take, and a
channel of slots that bounds deliveries. Operations: `session_start`, `session_info`,
`session_end`, `before_tree`, drains and tool calls of the extension; a public loop
per lifetime that dials, says hello, serves and redials; deliveries; supersession;
`Close`. Hard: a drain appends the queue's messages one by one and lets go of the
lock around each; a delivery is refused, appended or queued depending on what the
native session does meanwhile; a rename meets a reconnect; a session ends while all
of this is under way. Correct means: receipts are true, no message reaches native
twice or overtakes a queued one, lifetimes do not overlap, the bus ends up with the
latest name, a superseded owner is never heard of again.

### Pi RPC client, turn runner and wrapper (`wrappers/pi/rpc.go`, `run.go`, `pi.go`)

The headless counterparts of the OMP parts, with other events. Not modelled.

### Left out

`process.go`, `native_executable.go`, `managed_extension.go`,
`inherited_transport.go` and `inherited.mjs` (process groups, executable lookup,
embedded files, one file descriptor handed over: operating system calls without a
state of their own), the argument planners (pure, sequential, enumerated by their
unit tests), `cmd/` (flag parsing) and `scripts/` (packaging). The Sessionbus SDK
(`kit`), the daemon and the native processes are not in this repository; they are
modelled only as what the sources require of them.

## 2. Modules

| module | models | composed with |
|---|---|---|
| `OwnerEvidence` | the registry's evidence of one binding's deliveries: reserve, claim, complete, reports held back by sequence number | used by `OmpDelivery` as operators on a record |
| `OmpDelivery` | a delivery's way: daemon, `deliveryLoop`, `native.stage`, the extension's queue, native, the reports back; session replacement and end | the Go registry and the extension, over the bridge's in-order channel |
| `DeliveryFifo` | what that path promises (abstract) | refined by `OmpDelivery` |
| `OwnerRegistry` | the registry's lifecycle: bindings, public loops, supersession, tool calls, `Close` | the requests of an extension that may do anything |
| `Bridge` | both ends of the private bridge | Go end and JavaScript end, over one connection |
| `OmpRpc` | the OMP RPC client: calls, prompts, writer, reader, end of input, stop | a native process that answers what it has read |
| `RemoteCall` | what a call promises (abstract) | refined by `Bridge` and by `OmpRpc` |
| `OmpTurn` | the lane's runs: admission, waiting, interrupts, receipts, results | native, the client and the registry's preflights, as far as a turn sees them |
| `PiOwner` | an interactive Pi launch: extension, owner, public session, supervisor | the bus and Pi itself as environment |
| `MCOmpDelivery`, `MCOwnerRegistry`, `MCBridge`, `MCOmpRpc`, `MCOmpTurn`, `MCPiOwner` | instances for TLC | |
| `OmpDeliveryProofs`, `OmpOrderProofs`, `OwnerRegistryProofs`, `BridgeProofs`, `OmpRpcProofs`, `OmpTurnProofs`, `PiOwnerProofs`, `PiDeliveryProofs` | theorems | each extends the module it is about; `OmpOrderProofs` builds on `OmpDeliveryProofs`, `PiDeliveryProofs` on `PiOwnerProofs` |

### OmpDelivery and OwnerEvidence

State of the Go side: `ev[o]`, the evidence record of binding `o` (the FIFO of
staged and claimed messages, what is reported complete, `batch_state`, the report
sequence and the reports held back), the loop of `o` (`deliveryLoop`,
`stageDelivery`), the lifecycle gate and its holder. State of the extension: the
stage queue of a binding, what of it is in context, the report queue and its
worker. Between them, per binding one `native.stage` request or its response (the
loop waits for it), and the set `calls` of reports and lifecycle requests under
way, at most `Pipeline` of them awaited: a set, because Go starts a goroutine per
request (`callHandler`) and so may handle them in any order. `StageAdmit` is `stageDelivery` up to the call, `StageReturn`,
`StageLost` and `StageCanceled` its continuations; `HandleReport` is
`observeDelivery`; `SwitchUnmap`, `PublicCancel` and `PublicJoin` are the three
critical sections of a removal; `NativeStage` is `native.stage`; `NativeMessage`,
`NativeContext`, `NativeReset`, `NativeSwitch`, `NativeEnd` are the hooks;
`WorkerSend`, `WorkerAck` and `WorkerError` the report worker; `BridgeEnded` is the
end of the native process. `StageTake` is what `StageAdmit` does with the delivery it
takes. A message is a model value; texts are left out. Each place that reserves bytes
may be refused them (`Refusable`): the reservation counts against a limit of the whole
registry, or of the whole extension, so that what other bindings hold decides.

### OwnerRegistry

The extension is not trusted here: any ready, switch or end may arrive at any
time, so the theorems do not depend on `extension.mjs`. `BeginReady`, `BeginEnd`
and `BeginSwitch` take the gate; `Describe` to `Admit` are the critical sections of
`ownerReady`/`ownerSwitch`/`removeBinding`, one action for each stretch under the
lock; `Dial`, `Attach`, `Publish`, `HelloRejected`, `ConnectionLost`, `Detach`,
`Stop` and `LoopExit` are `publicLoop`; `Arrive` and the `Handle...` actions are
the public session's handlers, which look at the binding again after every unlock.
`handling` is the set of kinds of request that handlers have begun to serve: two
handlers of one kind are one, because each looks at the state afresh when it serves,
and the second may as well begin when the first is done.
`Room` is the test of `reserveStateLocked`, `Full` that of `maxOwnerBindings`;
`RefuseRequest` is a request that is refused before it takes the gate, the lane's
`owner.switch` among them, `RefuseAdmission` a refusal of `admit`, for one of the
reasons of `Refused` or because the request's context is done;
`TakeDelivery`, `FinishDelivery` and `Drain` are `deliveryLoop`; `ToolBegin`,
`ToolSend`, `ToolCheck` a tool call, whose binding is checked before and after;
`Close`, `StopBridge` (with the cancellation of the public contexts), `CloseBridge`
and `Closed` the four stages of `Close`.
Bytes are counted in units: one per binding, per queued or staged delivery and per
remembered token.

### Bridge

`ep[s]` is the state of end `s`; both ends run the same protocol and the model has
one set of actions for them. `Call` is `Call` up to the wait (numbering and queueing
are one critical section in Go and one synchronous stretch in JavaScript),
`WriteReturns`, `Consume`, `GiveUpWriting` and `GiveUp` are its ways out; `Read`
accepts one frame (`accept`, `acceptRequest`, `acceptResponse`, `acceptCancel`),
`Answer` and `HandlerReturns` are the two halves of a handler's end, between which
the answer is on its way while the request is still active; `Stop` and `Fail` are
`stop`; `DrainWrites` is the writer's exit; `Join` closes `done`. A handler may
make calls of its own, one at a time, whose context ends with the handler's.

### OmpRpc

`rpc` is the client: `entry` is `pending`, `slot` and `late` the two answers,
`queue` and `inHand` the writer's work, `input` what became of native's stdin.
`Call` is `admitCallMode`, whose entry and queued write are one critical section;
a refused call leaves no trace and stays idle. `TakeResponse`, `WriteReturned` and
`GiveUp` are the ways through `waitNativeRPCAdmission` and the select after it:
all are possible whenever their branch is ready, as in Go. `GiveUp` is
`abandonPending`, with `stop` when the caller does not know its write complete.
`Taken` is `consumeResult`, for a prompt also `completePromptStart`; `Finish` is
`nativePrompt.Finish`. `Answer` is `acceptResponse`, `Accepted` the chunk assembly,
`Logical` the rest of a frame; `OutputEnds` is `awaitOutputEOF`. The reader may go
on with frames it has buffered and the writer may take one more write after
`Stop`, because both look at the context only between two of them. The `Native...`
actions are the OMP process: ready once, each call answered once, a prompt
perhaps failed later, any frame in chunks after negotiation.

### OmpTurn

`turn[r]` is the goroutine of run `r` and its `ompNativeTurn`. `Begin`,
`HandoffInterrupted` and `Submit` are `Run` up to `StartPrompt`, `Response` and
`ResponseGivenUp` the wait for native's first answer, `AdmitLeaves`,
`AdmitPreflight` and `AdmitFails` the select of `startNativeTurn` over the two
channels of the admission; `WaitBegins`, `AbortReturns`, `Complete`, `Finish`,
`Join` and `Snapshot` are `Wait` in its order, `RunReturns` what is left of `Run`.
`IntAsk` and `IntAct` are `Interrupt` before and after it looks the turn up.
`Read` is the observer on one frame (`RecordEvent` is `observe` for a turn),
`Preflight` the registry's record of a preflight report, `OwnerStops`, `OwnerEnds`
and `OutputEnds` the loss of the lane and the end of the process. The `Native...`
actions are OMP: it works on one prompt at a time and says what its events mean;
`nature` is what a prompt turns out to be. A wording is left out: whose text it is
stays (`said`, `seen`, `token`).

### PiOwner

`own` is what `interactiveOwner` keeps under its mutex, `gate` its one-token
channel, `lives[l]` the goroutine of a public lifetime with its connection,
`del[m]` and `app[m]` a delivery's goroutine and the `native.append` it or a drain
has made, `call[c]` the one outstanding call of each kind the extension makes.
`Describe`, `PublishFirst`, `PublishAgain`, `PublishRefused`, `Admitted`,
`NotAdmitted` and `Rehelloed` are the critical sections of `ownerReady`, and `Rehello`
the frame it sends after the mutex is released;
`EndBegins`, `EndJoined` of `session_end`; `TreeBegins` of `before_tree`;
`DrainBegins`, `DrainSends`, `DrainAppended`, `DrainEnds` of the drain; the
`Tool...` actions of a tool call. `Dialled` to `ServeEnds` are the public loop,
`Arrive` and the `Deliver...` actions a delivery, one action for each stretch
between two unlocks; `Supersede` and `SupersedeAcked` the handling of
`session.superseded`; `HostStops`, `OwnerCloses`, `OwnerClosed` the launch's
supervisor. `SessionStart` to `NativeAppend` are the hooks and handlers of the
extension. A response reaches the extension in its handler's last step, except
those of `session_end` and `owner.before_tree`, where the extension has more to do
(`EndAnswered`, `TreeAnswered`).

## 3. Runs

Every run finishes within five minutes on two workers, most within two.

| run | instance | states | what it shows |
|---|---|---|---|
| `omp_delivery` | 2 messages, 2 bindings, two reports in flight, handled in any order | 903,726 | the path never fails itself, Go and native agree when all is quiet, and it implements `DeliveryFifo`: what a binding hands native is in the order the daemon sent it, each message at most once, none after the binding was removed |
| `omp_replace` | 1 message, 3 bindings, every limit 1, lost connections, context resets, bytes refused anywhere, native may die, fair | 148,026 | a receipt claims a queue only while it exists, nothing is resurrected after a reset, every delivery is answered |
| `omp_replacement_launch` | 1 message, 2 bindings, no fault | 61 | finding: see below |
| `owner_registry` | 2 interactive primaries, one tool call, 4 bytes | 2,412,734 | types and limits, one primary, no stale tool result |
| `owner_registry_lane` | a lane's primary and a Task child, 2 attempts, 1 remembered token, 3 bytes, fair | 164,375 | callers, byte accounting, `Close` returns, no handler keeps the gate |
| `bridge` | 2 + 1 calls, 1 active call, 2 writes, 3 retained frames | 957,803 | no protocol failure between two correct ends, cancellation, `RemoteCall` |
| `bridge_stop` | 1 + 1 calls nested in each other, close and loss, fair | 69,083 | what each end retains, every call ends, both ends are joined |
| `omp_rpc` | a command, a prompt and a dialog, 1 pending call, 2 retained frames, late errors, chunks, events, exit, fair | 779,263 | exact accounting, what a correct native may be blamed for, `RemoteCall`, a stopped client is joined |
| `omp_rpc_cancel` | 1 prompt, no fault | 989 | finding: see below |
| `omp_turn` | 2 runs, five natures of a prompt, 2 incidents (interrupt, context, dialog, pause, late error, stray work, an error of the extension, exit), fair | 788,630 | whose answer a run returns, true receipts, what may lose the lane, every run returns |
| `pi_delivery` | 1 session, 2 messages, 1 native event, lost link, refusal, supersession, abort, crash, an unusable message, a full queue | 3,390,727 | receipts, the order of queued messages, the name at the bus, finality of a supersession |
| `pi_session` | 2 sessions, 1 message, lost link and supersession, fair | 251,886 | lifetimes, the queue under a drain, queued messages reach native, every call is answered |

**Why the bounds are enough.** The interesting cases need two of something and no
more: a message overtaken by another, a binding replaced while its predecessor is
being removed (three bindings when the predecessor is itself a replacement), a
report overtaken by a report, a call nested in a call, a request meeting a full
table, a run that inherits what the run before it left behind. Limits are set to 1
or 2 so that each one is hit; `MaxPendingWrites = 2` leaves the refusal of a request
no room beside a call. `Symmetry` permutes messages and is used only with safety
properties. In the bridge the loss of the connection and `Close` are explored with
one call per end, and `Ready` giving up with two: together they multiply the states
without bringing a new order; each action fires in at least one of the two runs.
The fair run of the registry has no tool call; that `Close` does not get stuck
behind one is left to the deadlock check of `owner_registry`. `OmpTurn` draws its
incidents from one budget (`MaxIncidents = 2`, any two of them in any order; safety
was also explored at 3, with 4.07 million states). `PiOwner` has one session with
two messages for what deliveries do to each other, and two sessions with one
message for what lifetimes do. The registry's runs have two tokens, so `MaxBindings = 2` is not
reached in them; `MaxRetained` is, by every operation that reserves. What the bounds
leave out the theorems of section 5
cover: they hold for every value of the constants. `CHECK_DEADLOCK FALSE` stands in
the runs of `Bridge`, `OmpRpc`, `OmpTurn` and `PiOwner` because a connection, a
client, a lane or an owner that has done all it was asked to do, and is not closed,
rests there; the other modules state their quiet end as an action of its own
(`Stopped`).

### Findings

`docs/designs/pi-omp-0.5.0/DESIGN.md:176-178` says that native session replacement
"must preserve the launch binding while replacing the old session context".
`omp_replacement_launch` reaches, in five steps and with no fault, a state in
which the whole owner has failed: a `native.stage` request is on the wire when
native replaces its session; it names the previous binding, `describeState`
(`extension.mjs:322-327`) fails it and shuts native down, and Go answers with
"OMP native stage outcome is uncertain" (`owner_registry.go:1054-1057`). The
delivery itself is safe, it is neither lost silently nor repeated (`ReceiptHonest`,
`EveryDeliveryAnswered`); what is lost is the launch.

`rpc_test.go:719`, `TestNativeRPCAcceptedResponseWinsSimultaneousCancellation`,
states that an accepted response wins over a cancellation at the same moment, and
`waitNativeRPCAdmission` and `callWithAdmission` see to it. `omp_rpc_cancel` shows
that `StartPrompt` does not, once its write has settled: the select at `rpc.go:328`
may take the context although the success is in the channel; a successful prompt
keeps its entry, so `abandonPending` (`rpc.go:1202-1211`) marks it abandoned instead
of returning the result. The property is about that select only: the write is
whole, and the client runs on. In the trace's last state the caller has the
context's error, the success is in the channel, and its bytes are in
`retainedBytes`, where `RetainedExact` finds them. The turn runner hides it: a prompt
that ends with its context fails the turn, and the owner is retired.

### Observations

Behaviour the models reach that is no contradiction to a quoted sentence, or whose
wording leaves room, and that a reader of the code may want to know:

* `pi/interactive_owner.go:712-771`: when a link is lost while a delivery's
  `native.append` is in flight, the append's outcome is unknown and the whole owner
  fails; the queue of the session goes with it.
* `pi/extension.mjs:373-377`: native's abort of a tool call that is under way stops
  the whole extension; the design speaks of cancelling only that call
  (`DESIGN.md:211`).
* `pi/interactive_owner.go:268-300`: `ownerReady` describes the native session before
  it takes the gate. A `session_end` in between lets it publish the ended session.
* `pi/interactive_owner.go:645-649`: the comment there says that a re-hello cannot take
  the identity back after `session.superseded`. What the code ensures is that none is
  decided on (449) and none is believed (469); one that was decided on before is sent
  after the mutex is released (467), and may leave after the classification.
  `SupersededIsFinal` says exactly this.
* `pi/interactive_owner.go:486-516`: a `session_end` that comes before the first
  admission waits, with the gate, for a bus that may be absent.
* `omp/run.go:474-484`: an `Interrupt` that begins between `joinOwnedWork` and the
  snapshot is not joined; `Wait` may read its error or not.
* `omp/run.go:226`: until the response of its own prompt names it, a turn takes any
  `prompt_result` for its own. Only a prompt answered twice (an immediate refusal and
  a `prompt_result`) can make an earlier run's arrive then; `ReceiptHonest` names
  that case.

## 4. Fairness

Fairness is given to what Go's scheduler or the JavaScript event loop runs once it
is ready: the delivery loop's continuations, report handlers, lifecycle handlers
between their critical sections, the public loop, the report worker, the bridge's
reader, writer and join, the steps of a run and of its observer. It is weak fairness
throughout. Nothing is promised by those who owe nothing: the daemon's deliveries
and losses, native's events, a user's call, a cancellation, `Close`: `CloseReturns`,
`StopJoins` and `StopSettles` say what follows once it is called. In `OmpRpc` the
writer, the reader and the callers whose branch is ready are fair, native and the
contexts are not. Some promises are assumptions about code outside the module: in
`Bridge` a handler answers in the end (`Answer`); the handlers are those of the
registry and of the extension, which wait only for joins, contexts and calls of
their own. `OmpRpc` assumes in the same way that `observe` returns. In `OmpTurn`
native works on what it has read, which is what the promise that a run returns
rests on: the code waits for native's terminal without a deadline. In `PiOwner` Pi
finishes the turn, compaction or branch it began, and the bus is back in the end
and answers a hello.

## 5. Proofs

Eight modules prove theorems of `Spec` for every value of the constants that
satisfies the module's assumption: any set of messages, any number of bindings, calls, runs, messages,
sessions, connections, and any limit. What a run checks on a small instance and a
theorem states for all of them:

| module | theorems and the properties they state |
|---|---|
| `OmpDeliveryProofs` | `ImplementsFifoAlways` (`OmpDelivery` implements `DeliveryFifo`), `ReceiptHonestAlways`, `ResetIsFinalAlways`, `TypeCorrect` (`TypeOK`) |
| `OmpOrderProofs` | `NoProtocolFailureAlways`, `QuiescentAgreementAlways`, under `Room` (below) |
| `OwnerRegistryProofs` | `TypeCorrect` (`TypeOK`), `OnePrimaryAlways`, `CallerIsCurrentAlways`, `ReleaseCoveredAlways`, `TotalExactAlways`, `ToolResultCurrentAlways`; without a run of their own: `RetiredStaysOutAlways`, `SupersededFailsAlways`, `RemovalJoinsAlways`, `InitialNameOnceAlways`, `ClosedIsQuietAlways`, `ReadyIsPublishedAlways` |
| `BridgeProofs` | `NoProtocolFailureAlways`, `CancelFollowsAlways`, `ImplementsRemoteCallAlways`, `TypeCorrect` |
| `OmpRpcProofs` | `ImplementsRemoteCallAlways`, `RetainedExactAlways`, `TypeCorrect`, `OnlyLateErrorsSurpriseAlways` |
| `OmpTurnProofs` | `AnswerIsOwnAlways`, `ReceiptHonestAlways`, `OnlyFaultsRetireAlways`, `TypeCorrect` |
| `PiOwnerProofs` | `OneLifetimeAlways`, `QueueStableAlways`, `NoOvertakingAlways`, `SupersededIsFinalAlways` |
| `PiDeliveryProofs` | `ReceiptHonestAlways`, `NamePublishedAlways`, `TypeCorrect` |

Hardly one of these properties is inductive alone. Each module names the invariant
it needs (`IInv`, and what is added to it), proves one lemma per action or group of
actions that leaves the same state alone, and combines them in the theorem
`Invariant` (`Inductive` in the registry's). All of these invariants were checked by
TLC on the instances of the runs before they were proved.

**The delivery path** (`OmpDeliveryProofs`). The extension, the registry and native
each have a belief about a message, and reports, acknowledgements and losses bring
them together in any order. `IInv` is about four things:

* where a message is (`PlaceInv`): not taken from its connection, with its binding's
  loop, in a `native.stage` request, or submitted; it is in one of these places and of
  one binding, its sender has no answer before the last, and a response that says
  queued or full agrees with what native was given. `ReceiptHonest` is part of it;
* what the extension holds (`BatchInv`): batch `b` of a binding is the `b`-th message it
  submitted, in the phase native reached, and what a reset wiped is out of its reach
  while the reset lasts (`ResetInv`), which is `ResetIsFinal`;
* what a report may claim (`PendingInv`): a report in the queue or under way claims no
  phase native has not reached. Native only goes on (`Onward`), so the claim stays
  true however long the report waits and in whatever order it is handled;
* what Go may believe (`EvidenceInv`): while the registry is healthy, a message is held
  once, staged or in one batch of one binding; a staged one is credited with nothing,
  a claimed one with its batch's phase; and the reports held back, which lie ahead of
  the next number, are true. With it `CreditInv`: no credit is ahead of native.

What `DeliveryFifo` says of order and of removal is carried by two more. `LineInv`: a
message arrives once, and the message in a stage request and those in the inbox came
after everything native was given, the inbox in the order of arrival; so what native
accepts next is later than all it has. `EndInv`: a binding the registry has removed, or
is asked to remove by a request that waits or is under way, is `ending` at the extension,
which stages nothing for it any more. It needs `GateInv`, because the binding a switch
removes is found by the gate's holder and not named in the request's own record.

The hard step is a report that fills a gap: it is applied with every report held back
behind it, one after the other, in a fold. What may be believed in the middle of that
fold is `Folded`, each report applied keeps it (`ApplyNext`), and so the fold does.
That is an induction over data, and it is done in first-order steps: the set of places
where the claim fails would have a least element (`LeastIs`), which the claim's own
step excludes (`SetInduction`, `FoldSteps`). The extension's step is shown to be one of
four things before the invariant is asked about: native accepts a message (`Accepts`),
reaches a phase with some (`Carries`), is reset, or neither (`Settled`). The refinement
is then read off: each of those, and each step of the registry, is an `Accept`,
`Observe`, `Answer` or `Credit` of `DeliveryFifo`, or a stutter.

`TypeOK` of the path is about the limits (`maxOwnerTrackedItems`, `maxOwnerWork`, and
the extension's) and about the bytes, which the registry charges and gives back step by
step instead of counting them: a claim is charged for its batch and leaves its messages
charged, a batch that is completed gives back its messages, and its own byte only if a
remembered token is evicted for it. `releaseStateLocked` panics when more is given back
than was charged. `SizeInv` says for every binding that the tables keep their limits and
the bytes of an evidence that has not failed are those of what it retains (`SizeOk`), and
adds what the counts rest on: a message is held once (`EvUnique`), or two places of a
batch would be charged as one; the calls are finitely many, and what is awaited and what
is queued fit together (`QueueInv`). Each operator of `OwnerEvidence` keeps `SizeOk`, and
so does the fold over the reports a report lets through, at each of its steps
(`EnqueueSize`, over the same run `EnqueueRuns` that `IInv` needs).

**No report is refused and none is missing** (`OmpOrderProofs`). `IInv` says that what
is reported is true; that the registry accepts it, and that in the end all of it has
arrived, is a matter of order. `OrderInv` gives each binding a log `L` (`LogInv`): the
reports native made of the binding, in the order in which it made them. Four claims
about `L` carry everything:

* it is well formed (`WellFormed`): it claims the submitted messages in their order,
  takes a batch through its phases in theirs, and never has more batches open than
  the extension retains; and it has said exactly the phases native has reached;
* its tail travels (`Travels`): one report at most is under way, and it is the next the
  registry applies; the worker's queue holds the rest in the order of `L`, each with the
  number it has in `L`; and one is missing only if the binding is ending;
* its head is applied (`Follows`): the registry's evidence is what the first reports of
  `L` make of the messages, so a claim finds its message at the head of the staged
  ones, and a phase finds its batch in the phase before;
* whatever happened to the binding, a message that is reserved and that native has not
  accepted is still staged, so that it can be withdrawn (`SoundInv`), and a binding that
  is not admitted was given nothing (`AbsentInv`).

A report that is in turn is then one the evidence accepts (`TakesOrder`); native's next
step appends to `L` (`BringsOrder`); an acknowledgement, an error or a switch moves the
boundary between the parts. When nothing is on its way, `L` is applied to its end, and
that is `QuiescentAgreement`.

`Room` is what the argument needs of the constants, and the code has both:
`Pipeline = 1`, because `drainReports` awaits the answer to a report before it sends the
next, and `QueueLimit <= Tracked`, because `maxQueuedDeliveries` (`extension.mjs:26`) and
`maxOwnerTrackedItems` (`owner_registry.go:40`) are both 256. `omp_delivery` checks the
two properties with two reports in flight as well, which the theorem leaves out.

**The registry** (`OwnerRegistryProofs`). Each property depends on who holds the
gate and how far that handler is. `IInv` says so in five parts:

* `TypeInv`: types, and that a holder names bindings (`HolderOK`);
* `RegistryInv`: what the registry remembers agrees with the bindings' phases. A
  binding that is being removed is the one the gate's holder removes, and the
  other way round (`RemovedHeld`, `HeldRemoved`); this is what makes `OnePrimary`
  survive the stretch in which `Describe` runs without the lock;
* `BindingInv`: for each binding by itself. A caller implies an attempt in
  progress, supersession implies a failed registry or a handler about to fail it,
  a binding whose bytes are given back has no loop, handler or delivery
  (`QuietOK`, `GoneOK`), and its charge covers what its deliveries still have to
  release (`CoveredOK`);
* `CloseInv`: what each stage of `Close` has already joined;
* `NameInv`: the initial name is taken by one binding at most.

An action of one binding's loop changes nothing of another (`Same`), so
`BindingInv` is proved for the binding that moves and carried over for the rest.

`TotalExactAlways` is about a sum over the bindings, which `FoldFunction` takes in an
order nobody knows. `SumsExist` shows that its recursive function is well defined,
by induction over the size of a set of bindings, and `SumMoves` that the sum moves by
what one binding's bytes move. After that each action is arithmetic: a charge moves
the total with its binding; a removal first remembers the token (`Unmap`) and charges
it when it has joined the loop, less the oldest one's if that is evicted
(`JoinPublic`), and in between the total is one short. That it never passes
`maxOwnerRetainedBytes` follows from the tests before each charge: a removal gives back
at least what it charges for its token, because a bound binding holds its own byte.

**The bridge** (`BridgeProofs`). What one end has written or queued and the other has
not read is one sequence of frames, `Flow`; writing moves a frame inside it, a stop
may cut off its end, a read takes its head. `IInv` says what may stand in it as long
as the other end still reads: the hello first (`HelloInv`); the requests in the order
of their ids and none missing (`RequestInv`, without which a later id would be a
violation); a cancellation behind its request (`CancelInv`); one response to a call,
with the answer of its own work (`ResponseInv`); and a call that has left the other
end's pending table has no second response coming (`PendingInv`). Each is proved once
for each thing a step may do to a flow, and each action is then one of those things.
`NoProtocolFailure` follows, and so does every step of `RemoteCall`. `FollowInv` adds
for `CancelFollows` that a cancellation once on its way or heeded stays so while both
ends are up. `BoundInv` is what the limits need on top: `Exact` (retained bytes = the
requests handled and the answers not taken) and `Entry` (a caller that waits has its
entry in the pending table or its answer in the slot, so that stop reaches it).

**The RPC client** (`OmpRpcProofs`). `IInv` follows a call through the client:
its write is queued once, and until it is with native its work has not begun, and a
call nobody has made leaves no trace (`WriteInv`); a call that waits has heard
nothing or its first answer, and what lies in its slot is what native said
(`CallInv`); every frame native has written answers a performed call, first answers
come before late errors, and an answer that is owed is on its way (`FrameInv`).
From these each step is shown to be a step of `RemoteCall` or a stutter. Accounting
is an invariant of its own on top: `Exact` (retained bytes = the unfinished frame,
the filled slots and the kept late answers) and `Fits` (the limits), carried from
action to action by `Keeps`, what an operation on the client's record may do to
them. `OnlyLateErrorsSurprise` needs `SurpriseInv`: what the phase, an unfinished
chunk, the end of input and a returned caller say of the frames that are still on
their way. It was not inductive until it also said in which order the two answers
of a prompt stand in the pipe (`Once`).

**The turn runner** (`OmpTurnProofs`). No event but a `prompt_result` says whose it
is, so the argument is about what an earlier run may have left behind. A prompt is
submitted only when every earlier run has ended without a failure (`SeqInv`); such
a run leaves no abort under way and has heard native's terminal (`OwnInv`,
`FrameInv`); so native works only on the active run's prompt (`CmdInv`,
`NatureInv`), the preflight at hand is its own (`ReportsInv`), and so is the one
abort that may be on its way (`AbortInv`; a prompt that native has acknowledged and
works on cannot be the one that abort has ended). `StepInv` and `ReportInv` follow
the run's control. It follows that a message, a terminal and a result the observer
reads are the active run's (`EventIsOwn`), except the second answer of an earlier
prompt that was answered twice, which `ReceiptHonest` names.

`OnlyFaultsRetireAlways` is about the lane that nobody disturbs (`Calm`: native is
correct, refuses no prompt and answers each once, and no context ends before the
admission). There no turn fails (`CalmTurn`), so the lane is not lost, but a turn would
fail if a frame found it unprepared. `CalmFrames` therefore looks ahead at every frame
on the wire: an event's turn has not ended, a message or an end comes after its start,
an end that is final after a message, a dialog finds no other, and nothing comes after
native's last word (`CalmOrder`). `CalmWork` says of a prompt native works on that
its start has been read or is on its way, without which native could say a message the
turn cannot take. Reading a frame moves what was ahead to what has been heard
(`Hears`, `HeardCalm`), and native's steps put only such frames on the wire. Nothing of
it would hold once a fault occurs, which is why `CalmInv` is an implication, and why
every step is first shown not to make a disturbed lane calm again (`CalmBefore`).

**The Pi owner** (`PiOwnerProofs`, `PiDeliveryProofs`). Four parts
make `IInv`: types; who is behind the gate holds it, and nobody else (`GateInv`); a
lifetime that has not ended is the published one, or the one `session_end` joins, or
the owner closes (`LifeInv`); a message native has been given is the queue's head in
a drain or found the queue empty (`QueueInv`). With them go `SupInv` (an owner that
is superseded is ending) and, for deliveries, `LinkInv` (the installed connection is
the latest and belongs to the published lifetime; a delivery came over a connection
its lifetime had), `MessageInv` (what native has been told of a message agrees with
its goroutine, its place in the queue and its receipt) and `NameInv` (a hello under
way carries a version no newer than the owner's; if it is as new, its answer
registers the owner's name, and without one the bus has that name). `BoundInv` adds
what is needed for the limits: a call and the gate name lifetimes that exist, a
published lifetime dials for the first time or after a loss the bus had left, and
the deliveries that hold a slot are finitely many.

**Only model-checked.** Liveness (`CloseReturns`, `GateReleased`,
`EveryDeliveryAnswered`, `CallSettles`, `StopJoins`, `StopSettles`, `EveryRunReturns`,
`QueuedIsDelivered`, `CallsAnswered`): the provers do not reason about fairness and
`ENABLED`. Of `OmpDelivery`, `NoProtocolFailure` and `QuiescentAgreement` with more than
one report in flight, which the worker does not have.

## 6. Abstractions

* **Bytes** are units: one per binding, token, name and delivery in `OwnerRegistry`, one
  per frame in `Bridge` and `OmpRpc`, and the limits are compared with those counts
  (`Room`, `HasRoom`, `CanWrite`). In `OmpDelivery` bytes are counted for each binding,
  for `releaseStateLocked`, but the limit is one of the whole registry: there each
  reservation may be refused (`Refusable`, the fault `bytes`).
* **Frames** are well formed. Both ends are the repository's own, so malformed
  frames, unknown methods, and a hello of another version or role do not occur;
  neither does the end of the id space (2^53).
* A Go read error and a closed connection are one thing in `Bridge` (`PeerGone`);
  the code words them differently and treats them alike. The dial that precedes an
  end's existence (`connectBridge`) is left out.
* The JavaScript end reads frames chunk by chunk; a chunk is not a unit in the
  model, which reads frame by frame in both ends.
* In `OmpRpc` each frame, and each part of a chunked one, is one byte, and native is
  correct: malformed frames, unknown ids and wrong commands, each of which stops
  the client in one step, are left out, as is the end of the id space (2^53). One
  negotiation is made; a repeated `Ready` after one that was given up is not.
* The daemon delivers a message id once; its redelivery is not in this repository.
* In `OmpDelivery` a bridge call is a request and its response, with an error to
  every pending call when the bridge ends: what `RemoteCall` promises and `Bridge`
  implements. In `OwnerRegistry` a delivery's work and a tool call end in one step
  each.
* In `OmpTurn` a preflight report is always accepted and the first report is the
  delivery's receipt; a run makes one assistant message per stretch of work, all
  texts are equal, stray work is one `agent_start`, and the closing of the wrapper is
  the loss of the lane. A response with `agentInvoked: true` is the plain success, which it
  equals but for a native that contradicts it; a `prompt_result` with `agentInvoked: true`,
  of which the runner only remembers that it came, is not said. An `extension_error` is
  one of the managed extension, once native has read a prompt; those of others are
  ignored by the code. What `OmpRpc` and `OwnerRegistry` prove of the client and the
  registry is taken from there.
* In `PiOwner` a hello is sent and registered in one step, the retry timer is part of
  the dial, all sessions of a run share one identity, a message that cannot be
  rendered and a queue without bytes for one more are faults of the environment
  (`invalid`, `bytes`), a request of an unknown method, which would take a slot and
  be refused, does not come, and the start of the child and the headless topology of the extension
  are left out. `Fail` only cancels; what follows from the cancellation are steps of
  their own.
* Not modelled: `takePreflight`'s acceptance test and `shutdownPrimary` in
  `OwnerRegistry`; tool registration, the preflight hook and `native.shutdown` in the
  OMP extension; start, readiness and join of the native processes; the Pi RPC client
  and turn runner, twins of those of OMP; process plumbing, arguments, the inherited
  transport, the commands and the packaging.

## 7. Plan

Done: (1) `OwnerEvidence`, `OmpDelivery` and `DeliveryFifo`, the delivery path
first because a lost or doubled message is the worst the system can do;
(2) `OwnerRegistry` and its proofs; (3) `Bridge`, `RemoteCall` and their proofs; (4) `OmpRpc` and
its proofs, the refinement of `RemoteCall` among them; (5) `PiOwner` and its proofs;
(6) `OmpTurn` and the proofs of its receipts and answers.

Left, in this order:

1. `NativeOwner`: start, readiness, exit and forced termination of OMP, over `OmpRpc`.
2. The Pi RPC client and turn runner, twins of `OmpRpc` and `OmpTurn` with other
   events.
3. `takePreflight` and `shutdownPrimary` in `OwnerRegistry`.
