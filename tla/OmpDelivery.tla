----------------------------- MODULE OmpDelivery -----------------------------
(***************************************************************************)
(* The delivery path of an interactive OMP owner, end to end:              *)
(*                                                                         *)
(*   daemon -- public connection --> deliveryLoop (owner_registry.go)      *)
(*          -- native.stage over the private bridge --> extension.mjs      *)
(*          -- sendMessage --> native                                      *)
(*                                                                         *)
(* and the way back: native's message and context events become reports,   *)
(* which one worker of the extension sends to the registry.  The factory   *)
(* replaces its session (session_switch) and ends it (session_shutdown)    *)
(* while all of this runs.                                                 *)
(*                                                                         *)
(* Bindings are numbered in the order the factory mints their tokens.  The *)
(* model starts with binding 1 admitted by both sides and published.       *)
(***************************************************************************)
EXTENDS OwnerEvidence

CONSTANTS
  Msgs,          \* the messages the daemon sends; each is sent once
  NoMsg,
  MaxOwners,     \* how many bindings the factory goes through
  Work,          \* maxOwnerWork: capacity of attempt.deliveries
  QueueLimit,    \* limit.queuedDeliveries of the extension
  ReportLimit,   \* limit.reportWork of the extension
  Pipeline,      \* reports sent without an acknowledgement: drainReports awaits
                 \* each one, so 1; more checks the registry's own reordering
  Faults         \* which of "conn" (the daemon connection is lost), "reset"
                 \* (native resets its context), "exit" (the native process dies)
                 \* and "bytes" (a side refuses to retain more bytes) may happen

ASSUME DeliveryAssumption ==
  /\ NoMsg \notin Msgs
  /\ {MaxOwners, Work, QueueLimit, ReportLimit, Pipeline} \subseteq Nat \ {0}
  /\ Faults \subseteq {"conn", "reset", "exit", "bytes"}

Owners == 1 .. MaxOwners

VARIABLES
  \* the registry
  bound,      \* [Owners -> absent, bound, removed (deleted from the map), retired]
  holder,     \* the lifecycle handler that holds registry.gate
  ev,         \* [Owners -> evidence], see OwnerEvidence
  errs,       \* why the registry failed; {} while it is healthy
  \* the public connection of each binding and its delivery loop
  conn,       \* [Owners -> down, up, canceled]
  inbox,      \* [Owners -> Seq(Msgs)], attempt.deliveries
  loop,       \* [Owners -> Msgs \cup {NoMsg}], the message whose stage call is pending
  \* the private bridge
  stageReq,   \* [Owners -> Msgs \cup {NoMsg}], a native.stage native has not handled
  stageRsp,   \* [Owners -> none, queued, queue_full, error], its response
  calls,      \* reports and lifecycle requests sent to the registry
  \* the extension's factory
  current,    \* factory.current
  described, admitted, ending, failed, ended,   \* flags: sets of bindings
  batches,    \* [Owners -> [token -> [id, phase]]], claimed and not yet in context
  rseq,       \* [Owners -> Nat], state.reportSequence
  reports,    \* factory.reports, waiting for the worker
  reset,      \* native reset its context since the last reset snapshot
  \* history
  arrived,    \* [Owners -> Seq(Msgs)], the order the daemon sent them
  submitted,  \* [Owners -> Seq(Msgs)], the order of sendMessage
  answer,     \* [Msgs -> none, queued, rejected, failed, lost], the daemon's answer
  observed,   \* [Msgs -> 0..4], native's phase
  credited,   \* [Msgs -> 0..4], the phase the registry applied
  wiped       \* messages unconfirmed when native reset its context

goVars     == <<bound, holder, ev, errs>>
publicVars == <<conn, inbox, loop>>
stageVars  == <<stageReq, stageRsp>>
flags      == <<described, admitted, ending, failed, ended>>
extVars    == <<current, flags, batches, rseq, reports, reset>>
histVars   == <<arrived, submitted, answer, observed, credited, wiped>>
vars       == <<goVars, publicVars, stageVars, calls, extVars, histVars>>

NoHolder == [kind |-> "none", owner |-> 0, pc |-> "none"]
NoReport == [batch |-> 0, phase |-> 0, ids |-> <<>>]
Item(kind, o, n, r) == [kind |-> kind, owner |-> o, seq |-> n, rep |-> r]

Sent == UNION {ToSet(arrived[o]) : o \in Owners}
Healthy == errs = {}
Awaited == {c \in calls : c.awaited}

Init ==
  /\ bound  = [o \in Owners |-> IF o = 1 THEN "bound" ELSE "absent"]
  /\ holder = NoHolder
  /\ ev     = [o \in Owners |-> NoEvidence]
  /\ errs   = {}
  /\ conn   = [o \in Owners |-> IF o = 1 THEN "up" ELSE "down"]
  /\ inbox  = [o \in Owners |-> <<>>]
  /\ loop   = [o \in Owners |-> NoMsg]
  /\ stageReq = [o \in Owners |-> NoMsg]
  /\ stageRsp = [o \in Owners |-> "none"]
  /\ calls  = {}
  /\ current = 1
  /\ described = {1} /\ admitted = {1} /\ ending = {} /\ failed = {} /\ ended = {}
  /\ batches = [o \in Owners |-> <<>>]
  /\ rseq    = [o \in Owners |-> 0]
  /\ reports = <<>>
  /\ reset   = FALSE
  /\ arrived   = [o \in Owners |-> <<>>]
  /\ submitted = [o \in Owners |-> <<>>]
  /\ answer    = [m \in Msgs |-> "none"]
  /\ observed  = [m \in Msgs |-> 0]
  /\ credited  = [m \in Msgs |-> 0]
  /\ wiped     = {}

-----------------------------------------------------------------------------
\* The public connection of a binding (connectPublicAttempt, handlePublic).

Tell(S, r) == answer' = [m \in Msgs |-> IF m \in S THEN r ELSE answer[m]]
\* An answer that finds the connection closed is lost.
Told(o, m, r) == IF conn[o] = "up" THEN Tell({m}, r) ELSE UNCHANGED answer
Failing(why) == errs' = errs \cup {why}

\* A reservation of bytes is refused (reserveStateLocked, the extension's reserve): what
\* either side retains for other bindings, names and tokens is not modelled.
Refusable == "bytes" \in Faults

\* handlePublic: message.deliver.  A delivery that is not taken closes the connection,
\* whose context may end before the full queue is reported.
Deliver(o, m) ==
  /\ conn[o] = "up" /\ m \notin Sent
  /\ arrived' = [arrived EXCEPT ![o] = Append(@, m)]
  /\ \/ /\ bound[o] = "bound" /\ Len(inbox[o]) < Work
        /\ inbox' = [inbox EXCEPT ![o] = Append(@, m)]
        /\ UNCHANGED <<conn, errs>>
     \/ /\ conn' = [conn EXCEPT ![o] = "canceled"] /\ UNCHANGED inbox
        /\ \/ (bound[o] # "bound" \/ Len(inbox[o]) = Work) /\ UNCHANGED errs
           \/ bound[o] = "bound" /\ Len(inbox[o]) = Work /\ Failing("inbox")
           \/ bound[o] = "bound" /\ Refusable /\ Failing("bytes")
  /\ UNCHANGED <<bound, holder, ev, loop, stageVars, calls, extVars,
                 submitted, answer, observed, credited, wiped>>

\* The delivery loop takes m and leaves the rest: deliver up to its bridge call, the
\* stage gate, the ownership check and the reservation, which comes before native can
\* see the message.
StageTake(o, m, rest) ==
  /\ loop[o] = NoMsg /\ conn[o] = "up" /\ Healthy
  /\ inbox' = [inbox EXCEPT ![o] = rest]
  /\ \/ /\ bound[o] = "bound" /\ CanReserve(ev[o], m)
        /\ ev' = [ev EXCEPT ![o] = Reserve(@, m)]
        /\ loop' = [loop EXCEPT ![o] = m]
        /\ stageReq' = [stageReq EXCEPT ![o] = m]
        /\ UNCHANGED <<errs, answer>>
     \/ /\ bound[o] = "bound" => ~CanReserve(ev[o], m) \/ Refusable
        /\ Failing(IF bound[o] = "bound" THEN "capacity" ELSE "generation")
        /\ Tell({m}, "failed")
        /\ UNCHANGED <<ev, loop, stageReq>>
  /\ UNCHANGED <<bound, holder, conn, stageRsp, calls, extVars,
                 arrived, submitted, observed, credited, wiped>>

\* Mutation: the loop takes the newest delivery.
StageAdmitNewest(o) ==
  inbox[o] # <<>> /\ StageTake(o, Last(inbox[o]), Front(inbox[o]))

\* deliveryLoop takes the next delivery.
StageAdmit(o) ==
  inbox[o] # <<>> /\ StageTake(o, Head(inbox[o]), Tail(inbox[o]))

\* deliver after its bridge call returned.
StageReturn(o) ==
  /\ loop[o] # NoMsg /\ stageRsp[o] # "none"
  /\ loop' = [loop EXCEPT ![o] = NoMsg]
  /\ stageRsp' = [stageRsp EXCEPT ![o] = "none"]
  /\ LET m == loop[o]
         told(r) == Told(o, m, r)
         withdrawn == Withdraw(ev[o], m)
     IN CASE stageRsp[o] = "error" ->
               Failing("uncertain") /\ told("failed") /\ UNCHANGED ev
          [] stageRsp[o] # "error" /\ bound[o] # "bound" ->
               /\ IF conn[o] = "up" THEN Failing("generation") ELSE UNCHANGED errs
               /\ told("failed") /\ UNCHANGED ev
          [] stageRsp[o] = "queue_full" /\ bound[o] = "bound" ->
               /\ ev' = [ev EXCEPT ![o] = withdrawn]
               /\ IF withdrawn.failed THEN Failing("claimed") /\ told("failed")
                  ELSE UNCHANGED errs /\ told("rejected")
          [] stageRsp[o] = "queued" /\ bound[o] = "bound" ->
               told("queued") /\ UNCHANGED <<ev, errs>>
  /\ UNCHANGED <<bound, holder, conn, inbox, stageReq, calls, extVars,
                 arrived, submitted, observed, credited, wiped>>

\* bridge.Call returns because the delivery's context ended.
StageLost(o) ==
  /\ loop[o] # NoMsg /\ conn[o] = "canceled"
  /\ Failing("uncertain")
  /\ loop' = [loop EXCEPT ![o] = NoMsg]
  /\ UNCHANGED <<bound, holder, ev, conn, inbox, stageVars, calls, extVars,
                 arrived, submitted, observed, credited, wiped>>

\* Mutation: a canceled stage is taken for a rejection.
StageCanceledRejects(o) == Tell({loop[o]}, "rejected") /\ StageLost(o)

\* The outcome of the stage is uncertain: native may still handle it.
StageCanceled(o) == StageLost(o) /\ UNCHANGED answer

\* The connection ends: the daemon is lost, or the registry's context is done.
ConnectionDone(o) ==
  /\ conn[o] = "up" /\ ("conn" \in Faults \/ ~Healthy)
  /\ conn' = [conn EXCEPT ![o] = "canceled"]
  /\ UNCHANGED <<goVars, inbox, loop, stageVars, calls, extVars, histVars>>

\* attempt.stop closed the connection, which is all the senders it has not answered
\* hear, and joined the delivery loop, which drops what it had not taken.
AttemptJoined(o) ==
  /\ conn[o] = "canceled" /\ loop[o] = NoMsg
  /\ conn' = [conn EXCEPT ![o] = "down"]
  /\ Tell({m \in ToSet(arrived[o]) : answer[m] = "none"}, "lost")
  /\ inbox' = [inbox EXCEPT ![o] = <<>>]
  /\ UNCHANGED <<goVars, loop, stageVars, calls, extVars,
                 arrived, submitted, observed, credited, wiped>>

\* publicLoop: the next attempt's hello is accepted.
Connect(o) ==
  /\ conn[o] = "down" /\ bound[o] = "bound" /\ Healthy
  /\ conn' = [conn EXCEPT ![o] = "up"]
  /\ UNCHANGED <<goVars, inbox, loop, stageVars, calls, extVars, histVars>>

-----------------------------------------------------------------------------
\* The registry's bridge handlers (HandleBridge): the report worker's requests.

\* The handler of c is done.  Nobody reads the response of an abandoned call.
Reply(c, r) ==
  calls' = (calls \ {c}) \cup (IF c.awaited THEN {[c EXCEPT !.reply = r]} ELSE {})

\* The phase the evidence gives each message; a message a report completed has
\* left the evidence.
CreditOf(before, after, m) ==
  LET holding == {b \in DOMAIN after.batches : Contains(after.batches[b].ids, m)}
  IN  CASE holding # {} -> after.batches[CHOOSE b \in holding : TRUE].phase
        [] holding = {} /\ m \in Holds(before) \ Holds(after) -> InContext
        [] OTHER -> credited[m]

\* observeDelivery.  What a refused report did to the evidence nobody reads: the registry
\* has failed.
HandleReport(c) ==
  /\ c.kind = "observe" /\ c.reply = "none"
  /\ LET o == c.owner
         after == Enqueue(ev[o], c.seq, c.rep)
     IN \/ /\ ~Healthy \/ bound[o] # "bound"
           /\ Reply(c, "error") /\ UNCHANGED <<ev, errs, credited>>
        \/ /\ Healthy /\ bound[o] = "bound" /\ Refusable
           /\ Failing("bytes") /\ Reply(c, "error") /\ UNCHANGED <<ev, credited>>
        \/ /\ Healthy /\ bound[o] = "bound"
           /\ ev' = [ev EXCEPT ![o] = after]
           /\ IF after.failed
              THEN Failing("report") /\ Reply(c, "error") /\ UNCHANGED credited
              ELSE /\ Reply(c, "ok")
                   /\ credited' = [m \in Msgs |-> CreditOf(ev[o], after, m)]
                   /\ UNCHANGED errs
  /\ UNCHANGED <<bound, holder, publicVars, stageVars, extVars,
                 arrived, submitted, answer, observed, wiped>>

\* A canceled request may be refused before its handler does anything.
CancelOrphan(c) ==
  /\ ~c.awaited /\ ~(holder.kind = c.kind /\ holder.owner = c.owner)
  /\ calls' = calls \ {c}
  /\ UNCHANGED <<goVars, publicVars, stageVars, extVars, histVars>>

\* The request the gate's holder is serving.
Serving == CHOOSE c \in calls : c.kind = holder.kind /\ c.owner = holder.owner
                                 /\ c.reply = "none"
\* The binding a lifecycle request removes.
Removing == IF holder.kind = "switch" THEN holder.owner - 1 ELSE holder.owner

Hold(pc)    == holder' = [holder EXCEPT !.pc = pc]
Finish(r)   == holder' = NoHolder /\ Reply(Serving, r)
Unmap(o)    == bound' = [bound EXCEPT ![o] = "removed"]
lifecycleUnchanged ==
  <<inbox, loop, stageVars, rseq, reports, current, reset, histVars>>

\* ownerSwitch and ownerEnd: take the gate, check the binding named by the
\* request.  A switch goes on to describe its target, an end removes at once.
\* A registry that fails after HandleBridge looked may still hand out its gate.
BeginLifecycle(c) ==
  /\ c.kind \in {"switch", "end"} /\ c.reply = "none" /\ holder = NoHolder
  /\ LET o == IF c.kind = "switch" THEN c.owner - 1 ELSE c.owner IN
     \/ /\ ~Healthy \/ bound[o] # "bound"
        /\ Reply(c, "error") /\ UNCHANGED <<holder, bound>>
     \/ /\ bound[o] = "bound"
        /\ holder' = [kind |-> c.kind, owner |-> c.owner,
                       pc |-> IF c.kind = "switch" THEN "describe" ELSE "unmapped"]
        /\ IF c.kind = "end" THEN Unmap(o) ELSE UNCHANGED bound
        /\ UNCHANGED calls
  /\ UNCHANGED <<ev, errs, conn, flags, batches, lifecycleUnchanged>>

\* removeForSwitch, first critical section; it refuses on a failed registry.
SwitchUnmap ==
  /\ holder.pc = "described"
  /\ \/ Healthy /\ Hold("unmapped") /\ Unmap(Removing) /\ UNCHANGED calls
     \/ (~Healthy \/ ~Serving.awaited) /\ Finish("error") /\ UNCHANGED bound
  /\ UNCHANGED <<ev, errs, conn, flags, batches, lifecycleUnchanged>>

\* The description failed, or the requester gave up while it was pending.
DescribeFailed ==
  /\ \/ holder.pc = "refused"
     \/ holder.pc = "describe" /\ ~Serving.awaited
  /\ Finish("error") /\ Failing("describe")
  /\ UNCHANGED <<bound, ev, conn, flags, batches, lifecycleUnchanged>>

\* removeBinding, publicCancel: a separate step, after the map entry is gone.
PublicCancel ==
  /\ holder.pc = "unmapped"
  /\ Hold("canceled")
  /\ conn' = [conn EXCEPT ![Removing] = IF @ = "up" THEN "canceled" ELSE @]
  /\ UNCHANGED <<bound, ev, errs, calls, flags, batches, lifecycleUnchanged>>

\* publicDone is closed: no attempt of the binding is left.
Joined(o) == conn[o] = "down"

\* removeBinding, second critical section, once the public loop is joined; then
\* admit for a switch.
PublicJoin ==
  /\ holder.pc = "canceled" /\ Joined(Removing)
  /\ ev' = [ev EXCEPT ![Removing] = NoEvidence]
  /\ \/ /\ holder.kind = "end"
        /\ bound' = [bound EXCEPT ![Removing] = "retired"]
        /\ Finish("ok") /\ UNCHANGED errs
     \/ /\ holder.kind = "switch" /\ Healthy
        /\ bound' = [bound EXCEPT ![Removing] = "retired", ![holder.owner] = "bound"]
        /\ Finish("ok") /\ UNCHANGED errs
     \/ /\ holder.kind = "switch" /\ (~Healthy \/ ~Serving.awaited \/ Refusable)
        /\ bound' = [bound EXCEPT ![Removing] = "retired"]
        /\ Finish("error") /\ Failing("admission")
  /\ UNCHANGED <<conn, flags, batches, lifecycleUnchanged>>

-----------------------------------------------------------------------------
\* The extension (extension.mjs).  Its handlers run to completion.

Unconfirmed(o) == {batches[o][b].id : b \in DOMAIN batches[o]}
Queued == Len(reports) + Cardinality(Awaited)      \* reportItems
\* Mutation: the report in flight is not counted.
FitsQueueOnly(n) == Len(reports) + n <= ReportLimit

Fits(n) == Queued + n <= ReportLimit

\* The predecessors failState of S removes: their replacement was still pending.
Abandoned(S) == {o \in Owners : o + 1 \in (S \ failed) \ admitted}
Discard(S)   == batches' = [o \in Owners |-> IF o \in S THEN <<>> ELSE batches[o]]

\* failState for every binding of S; those of E are removed as well.
FailAndEnd(S, E) ==
  /\ failed' = failed \cup S
  /\ ending' = ending \cup S \cup E
  /\ ended'  = ended \cup Abandoned(S) \cup E
  /\ Discard(S \cup E)
  /\ UNCHANGED <<described, admitted>>
FailState(S) == FailAndEnd(S, {})

\* Mutation: a message that already started is not affected by a reset.
ResetBeforeStart(o) == reset /\ \E b \in DOMAIN batches[o] : batches[o][b].phase = Claimed

\* rejectNewResetBoundary
ResetUnderWay(o) == reset /\ Unconfirmed(o) # {}
RefreshReset(o)  == reset' = (reset /\ Unconfirmed(o) # {})

\* The numbers of a finite set, in order.
Ascending(S) ==
  CHOOSE f \in [1 .. Cardinality(S) -> S] : \A i, j \in DOMAIN f : i < j => f[i] < f[j]

\* enqueueReport for the delivery observations rs of binding o, in order.
Report(o, rs) ==
  /\ reports' = reports \o [i \in 1 .. Len(rs) |-> Item("observe", o, rseq[o] + i, rs[i])]
  /\ rseq' = [rseq EXCEPT ![o] = @ + Len(rs)]

\* nativeRequest, native.describe
NativeDescribe ==
  /\ holder.pc = "describe"
  /\ LET o == holder.owner IN
     IF o \in ended
     THEN Hold("refused") /\ UNCHANGED <<flags, batches, reset>>
     ELSE IF current # o \/ ResetUnderWay(o)
     THEN Hold("refused") /\ FailState({o}) /\ UNCHANGED reset
     ELSE /\ Hold("described") /\ described' = described \cup {o}
          /\ RefreshReset(o)
          /\ UNCHANGED <<admitted, ending, failed, ended, batches>>
  /\ UNCHANGED <<bound, ev, errs, conn, inbox, loop, stageVars, calls, rseq, reports,
                 current, histVars>>

Deliverable(o, m) == o \in described /\ o \notin ending /\ m \notin Unconfirmed(o)

\* Mutation: a request for a removed binding gets no answer.
IgnoreEnded(o) == UNCHANGED stageRsp

\* A binding that was removed stages nothing more.
RefuseEnded(o) == stageRsp' = [stageRsp EXCEPT ![o] = "error"]

\* nativeRequest, native.stage: the message is claimed and submitted to native
\* before the handler returns (scheduleDeliveryTurn), so no message waits in
\* state.queued between handlers and every batch holds one message.
NativeStage(o) ==
  /\ stageReq[o] # NoMsg
  /\ stageReq' = [stageReq EXCEPT ![o] = NoMsg]
  /\ LET m == stageReq[o]
         token == Len(submitted[o]) + 1
         respond(r) == stageRsp' = [stageRsp EXCEPT ![o] = r]
         quiet == UNCHANGED <<batches, rseq, reports, submitted, observed>>
     IN \/ /\ o \in ended
           /\ RefuseEnded(o) /\ quiet /\ UNCHANGED <<flags, reset>>
        \/ /\ o \notin ended
           /\ current # o \/ ResetUnderWay(o)
           /\ respond("error") /\ FailState({o})
           /\ UNCHANGED <<rseq, reports, submitted, observed, reset>>
        \/ /\ o \notin ended /\ current = o /\ ~ResetUnderWay(o)
           /\ RefreshReset(o)
           /\ \/ ~Deliverable(o, m) /\ respond("error") /\ quiet /\ UNCHANGED flags
              \/ /\ Deliverable(o, m) /\ (Cardinality(DOMAIN batches[o]) >= QueueLimit \/ Refusable)
                 /\ respond("queue_full") /\ quiet /\ UNCHANGED flags
              \/ /\ Deliverable(o, m) /\ Cardinality(DOMAIN batches[o]) < QueueLimit
                 /\ failed = {} /\ Fits(1)
                 /\ respond("queued")
                 /\ batches' = [batches EXCEPT ![o] =
                                  Extended(@, token, [id |-> m, phase |-> Claimed])]
                 /\ Report(o, <<[batch |-> token, phase |-> Claimed, ids |-> <<m>>]>>)
                 /\ submitted' = [submitted EXCEPT ![o] = Append(@, m)]
                 /\ observed' = [observed EXCEPT ![m] = Claimed]
                 /\ UNCHANGED flags
              \/ /\ Deliverable(o, m) /\ Cardinality(DOMAIN batches[o]) < QueueLimit
                 /\ failed # {} \/ ~Fits(1) \/ Refusable
                 /\ respond("error") /\ FailState({o})
                 /\ UNCHANGED <<rseq, reports, submitted, observed>>
  /\ UNCHANGED <<goVars, publicVars, calls, current, arrived, answer, credited, wiped>>

\* message_start and message_end of one batch (observeMessage): native handles
\* the batches in any order.
NativeMessage(b, phase) ==
  LET o == current IN
  /\ phase \in {Started, Ended} /\ o \notin ending
  /\ b \in DOMAIN batches[o] /\ batches[o][b].phase = phase - 1
  /\ LET m == batches[o][b].id IN
     \/ /\ ResetUnderWay(o) \/ failed # {} \/ ~Fits(1) \/ Refusable
        /\ FailState({o}) /\ UNCHANGED <<rseq, reports, observed>>
     \/ /\ ~ResetUnderWay(o) /\ failed = {} /\ Fits(1)
        /\ batches' = [batches EXCEPT ![o][b].phase = phase]
        /\ Report(o, <<[batch |-> b, phase |-> phase, ids |-> <<m>>]>>)
        /\ observed' = [observed EXCEPT ![m] = phase]
        /\ UNCHANGED flags
  /\ UNCHANGED <<goVars, publicVars, stageVars, calls, current, reset,
                 arrived, submitted, answer, credited, wiped>>

\* The context event (observeContext) completes every batch whose message ended.
NativeContext ==
  LET o    == current
      done == {b \in DOMAIN batches[o] : batches[o][b].phase = Ended}
      rs   == [i \in 1 .. Cardinality(done) |->
                LET b == Ascending(done)[i]
                IN  [batch |-> b, phase |-> InContext, ids |-> <<batches[o][b].id>>]]
  IN
  /\ o \notin ending /\ done # {}
  /\ \/ /\ ResetUnderWay(o) \/ failed # {} \/ ~Fits(Cardinality(done)) \/ Refusable
        /\ FailState({o}) /\ UNCHANGED <<rseq, reports, observed>>
     \/ /\ ~ResetUnderWay(o) /\ failed = {} /\ Fits(Cardinality(done))
        /\ batches' = [batches EXCEPT ![o] = Restrict(@, DOMAIN @ \ done)]
        /\ Report(o, rs)
        /\ observed' = [m \in Msgs |-> IF m \in {batches[o][b].id : b \in done}
                                       THEN InContext ELSE observed[m]]
        /\ UNCHANGED flags
  /\ UNCHANGED <<goVars, publicVars, stageVars, calls, current, reset,
                 arrived, submitted, answer, credited, wiped>>

\* Native resets its context: what it held unconfirmed is gone.
NativeReset ==
  /\ "reset" \in Faults /\ ~reset /\ current \notin ending
  /\ reset' = TRUE
  /\ wiped' = wiped \cup Unconfirmed(current)
  /\ UNCHANGED <<goVars, publicVars, stageVars, calls, current, flags, batches,
                 rseq, reports, arrived, submitted, answer, observed, credited>>

\* Native is inside session_shutdown, waiting for the end to be acknowledged.
Closing == "end" \in {r.kind : r \in ToSet(reports) \cup calls}

\* switchFactory.  Native may switch a binding that failed and was only asked to
\* shut down; its replacement then fails at once.  Without the bytes for a replacement
\* the binding itself fails.
NativeSwitch ==
  LET o == current
      next == o + 1
  IN
  /\ next \in Owners /\ o \notin ended /\ ~Closing
  /\ \/ Refusable /\ FailState({o}) /\ UNCHANGED <<current, reset, reports>>
     \/ /\ current' = next /\ reset' = FALSE
        /\ \/ /\ failed = {} /\ Fits(1)
              /\ reports' = Append(reports, Item("switch", next, 0, NoReport))
              /\ ending' = ending \cup {o} /\ Discard({o})
              /\ UNCHANGED <<described, admitted, failed, ended>>
           \/ /\ failed # {} \/ ~Fits(1) \/ Refusable
              /\ FailAndEnd({next}, {o}) /\ UNCHANGED reports
  /\ UNCHANGED <<goVars, publicVars, stageVars, calls, rseq, histVars>>

\* endFactory: whatever failed before, the end is reported; a report queue that
\* is full, or has no bytes left, loses it.
NativeEnd ==
  LET o == current IN
  /\ o \notin ended /\ ~Closing
  /\ \/ /\ Fits(1)
        /\ reports' = Append(reports, Item("end", o, 0, NoReport))
        /\ ending' = ending \cup {o} /\ Discard({o})
        /\ UNCHANGED <<described, admitted, failed, ended>>
     \/ /\ ~Fits(1) \/ Refusable
        /\ FailAndEnd({o}, {o}) /\ UNCHANGED reports
  /\ UNCHANGED <<goVars, publicVars, stageVars, calls, current, rseq, reset, histVars>>

-----------------------------------------------------------------------------
\* The report worker (drainReports).

\* Its binding failed or was removed, which aborts the call; an end is exempt.
Doomed(r) == r.owner \in failed \cup ended /\ r.kind # "end"

Request(r) == [kind |-> r.kind, owner |-> r.owner, seq |-> r.seq, rep |-> r.rep,
               reply |-> "none", awaited |-> TRUE]

EndReports(rs) ==
  LET kept == Ascending({i \in DOMAIN rs : rs[i].kind = "end"})
  IN  [i \in DOMAIN kept |-> rs[kept[i]]]

\* A report of r's binding could not be delivered: the binding fails, and with
\* it the one that replaced it.  Only end reports survive in the queue.
WorkerFailed(r, rest) ==
  /\ reports' = EndReports(rest)
  /\ FailAndEnd({r.owner, current}, IF r.kind = "end" THEN {r.owner} ELSE {})

WorkerSend ==
  /\ reports # <<>> /\ Cardinality(Awaited) < Pipeline
  /\ LET r == Head(reports) IN
     IF Doomed(r)
     THEN WorkerFailed(r, Tail(reports)) /\ UNCHANGED calls
     ELSE /\ calls' = calls \cup {Request(r)}
          /\ reports' = Tail(reports)
          /\ UNCHANGED <<flags, batches>>
  /\ UNCHANGED <<goVars, publicVars, stageVars, current, rseq, reset, histVars>>

\* An acknowledged switch admits the new binding and removes the old one,
\* unless the new one stopped meanwhile; an acknowledged end removes it.
WorkerAck(c) ==
  /\ c.awaited /\ c.reply = "ok"
  /\ calls' = calls \ {c}
  /\ CASE c.kind = "observe" -> UNCHANGED <<flags, batches, reports>>
       [] c.kind = "end" ->
            /\ ended' = ended \cup {c.owner}
            /\ UNCHANGED <<described, admitted, ending, failed, batches, reports>>
       [] c.kind = "switch" /\ c.owner \in ending -> WorkerFailed(c, reports)
       [] c.kind = "switch" /\ c.owner \notin ending ->
            /\ admitted' = admitted \cup {c.owner}
            /\ ended' = ended \cup {c.owner - 1}
            /\ UNCHANGED <<described, ending, failed, batches, reports>>
  /\ UNCHANGED <<goVars, publicVars, stageVars, current, rseq, reset, histVars>>

\* The call failed, or its binding did and aborted it.
WorkerError(c) ==
  /\ c.awaited /\ (c.reply = "error" \/ Doomed(c))
  /\ calls' = (calls \ {c})
              \cup (IF c.reply = "none" THEN {[c EXCEPT !.awaited = FALSE]} ELSE {})
  /\ WorkerFailed(c, reports)
  /\ UNCHANGED <<goVars, publicVars, stageVars, current, rseq, reset, histVars>>

-----------------------------------------------------------------------------
\* The native process exits after its factory ended, or dies: the bridge closes
\* under every pending call and AssignBridge's watcher fails the registry.  A
\* registry that removed its primary for a session_end takes it as orderly, and
\* nothing it could still answer differs.
Orderly == holder.kind # "switch" /\ \A o \in Owners : bound[o] # "bound"

BridgeEnded ==
  /\ current \in ended \/ "exit" \in Faults
  /\ "bridge" \notin errs /\ ~Orderly
  /\ Failing("bridge")
  /\ stageReq' = [o \in Owners |-> NoMsg]
  /\ stageRsp' = [o \in Owners |->
                    IF loop[o] # NoMsg /\ stageRsp[o] = "none" THEN "error" ELSE stageRsp[o]]
  /\ calls' = {[c EXCEPT !.awaited = FALSE] : c \in {d \in calls : d.reply = "none"}}
  /\ reports' = <<>>
  /\ ending' = ending \cup 1 .. current
  /\ ended' = ended \cup 1 .. current
  /\ Discard(1 .. current)
  /\ UNCHANGED <<bound, holder, ev, publicVars, current, described, admitted, failed,
                 rseq, reset, histVars>>

\* Everything has stopped: the factory ended and both sides are joined.
Stopped ==
  /\ current \in ended /\ reports = <<>> /\ calls = {}
  /\ \A o \in Owners : loop[o] = NoMsg /\ stageReq[o] = NoMsg /\ conn[o] = "down"
  /\ UNCHANGED vars

Public(o) ==
  \/ \E m \in Msgs : Deliver(o, m)
  \/ StageAdmit(o) \/ StageReturn(o) \/ StageCanceled(o)
  \/ ConnectionDone(o) \/ AttemptJoined(o) \/ Connect(o)

Registry ==
  \/ \E c \in calls : HandleReport(c) \/ CancelOrphan(c) \/ BeginLifecycle(c)
  \/ SwitchUnmap \/ DescribeFailed \/ PublicCancel \/ PublicJoin

Extension ==
  \/ NativeDescribe \/ (\E o \in Owners : NativeStage(o))
  \/ (\E b \in 1 .. Cardinality(Msgs), p \in {Started, Ended} : NativeMessage(b, p))
  \/ NativeContext \/ NativeReset \/ NativeSwitch \/ NativeEnd
  \/ WorkerSend \/ (\E c \in calls : WorkerAck(c) \/ WorkerError(c))

Next == (\E o \in Owners : Public(o)) \/ Registry \/ Extension \/ BridgeEnded \/ Stopped

Spec == Init /\ [][Next]_vars

\* What the code itself keeps running: its goroutines and promises.  Deliveries,
\* connection losses, reconnects and native's own events are not promised.
Fairness ==
  /\ \A o \in Owners :
       /\ WF_vars(StageAdmit(o)) /\ WF_vars(StageReturn(o) \/ StageCanceled(o))
       /\ WF_vars(~Healthy /\ ConnectionDone(o)) /\ WF_vars(AttemptJoined(o))
       /\ WF_vars(NativeStage(o))
  /\ WF_vars(Registry) /\ WF_vars(NativeDescribe)
  /\ WF_vars(WorkerSend) /\ WF_vars(\E c \in calls : WorkerAck(c) \/ WorkerError(c))

FairSpec == Spec /\ Fairness

-----------------------------------------------------------------------------
Submitted == UNION {ToSet(submitted[o]) : o \in Owners}
Quiet(o)  == /\ loop[o] = NoMsg /\ stageReq[o] = NoMsg
             /\ reports = <<>> /\ calls = {}

\* Every variable stays in its range and under its limit, and the bytes charged to a
\* healthy binding are those of the items it retains: releaseStateLocked, which panics
\* when they fall short, cannot.
TypeOK ==
  /\ bound \in [Owners -> {"absent", "bound", "removed", "retired"}]
  /\ holder.kind \in {"none", "switch", "end"} /\ holder.owner \in 0 .. MaxOwners
  /\ holder.pc \in {"none", "describe", "refused", "described", "unmapped", "canceled"}
  /\ \A o \in Owners :
       /\ ev[o].staged \in Seq(Msgs) /\ Len(ev[o].staged) <= Tracked
       /\ Cardinality(DOMAIN ev[o].batches) <= Tracked
       /\ \A b \in DOMAIN ev[o].batches : ev[o].batches[b].phase \in {Claimed, Started, Ended}
       /\ Len(ev[o].completed) <= Tracked
       /\ Cardinality(DOMAIN ev[o].reports) <= Tracked
       /\ ~ev[o].failed => ev[o].bytes = Retained(ev[o])
       /\ Len(inbox[o]) <= Work
       /\ Cardinality(DOMAIN batches[o]) <= QueueLimit
       /\ arrived[o] \in Seq(Msgs) /\ submitted[o] \in Seq(Msgs)
  /\ conn \in [Owners -> {"down", "up", "canceled"}]
  /\ loop \in [Owners -> Msgs \cup {NoMsg}]
  /\ stageReq \in [Owners -> Msgs \cup {NoMsg}]
  /\ stageRsp \in [Owners -> {"none", "queued", "queue_full", "error"}]
  /\ Queued <= ReportLimit
  /\ current \in Owners /\ rseq \in [Owners -> Nat] /\ reset \in BOOLEAN
  /\ UNION {described, admitted, ending, failed, ended} \subseteq Owners
  /\ answer \in [Msgs -> {"none", "queued", "rejected", "failed", "lost"}]
  /\ observed \in [Msgs -> 0 .. InContext] /\ credited \in [Msgs -> 0 .. InContext]

\* An honest native owner is never accused: however reports, stage responses
\* and lifecycle requests interleave, no report is out of turn, names a batch
\* the registry cannot place, or contradicts a stage acknowledgement.
NoProtocolFailure == errs \cap {"report", "claimed"} = {}

\* "queued" is said only of a message native was given, "rejected" only of one
\* it never was.
ReceiptHonest ==
  \A m \in Msgs : /\ answer[m] = "queued"   => m \in Submitted
                  /\ answer[m] = "rejected" => m \notin Submitted

\* Once every call and report of a live binding has drained, the registry and
\* the extension hold the same batches in the same phases, and nothing staged.
QuiescentAgreement ==
  \A o \in Owners :
    Healthy /\ bound[o] = "bound" /\ o \notin ending /\ Quiet(o) =>
      /\ ev[o].staged = <<>> /\ DOMAIN ev[o].reports = {}
      /\ ev[o].nextReport = rseq[o]
      /\ DOMAIN ev[o].batches = DOMAIN batches[o]
      /\ \A b \in DOMAIN batches[o] :
           ev[o].batches[b] = [ids |-> <<batches[o][b].id>>, phase |-> batches[o][b].phase]

\* A message native lost by resetting its context is never reported further
\* along; its binding fails instead.
ResetIsFinal == [][\A m \in wiped : observed'[m] = observed[m]]_vars

\* docs/designs/pi-omp-0.5.0/DESIGN.md:175-177 of every replacement: "Extension
\* reload and native session replacement must preserve the launch binding while
\* replacing the old session context."  While the current session has neither
\* failed nor ended, the owner has not failed.
ReplacementPreservesLaunch == current \notin ending => Healthy

Fifo == INSTANCE DeliveryFifo WITH
  accepted <- submitted,
  removed  <- {o \in Owners : bound[o] \in {"removed", "retired"}}
\* A binding hands native the messages in the order the daemon sent them, each at most
\* once and none after the registry removed it, and their senders, native and the
\* registry agree about each: the detailed delivery path keeps DeliveryFifo's promise.
ImplementsFifo == Fifo!Spec

\* The daemon is answered on every delivery, or sees its connection closed by an owner that
\* has nothing more to do with it, even across a session replacement and the failure of
\* the owner.
EveryDeliveryAnswered == \A m \in Msgs : m \in Sent ~> answer[m] # "none"
=============================================================================
