------------------------------- MODULE OmpTurn -------------------------------
(***************************************************************************)
(* The OMP lane: Wrapper.Run submits one prompt at a time to native, joins *)
(* the evidence of its admission, which comes over two channels (the       *)
(* preflight report on the private bridge, events on stdout), waits for    *)
(* native's own terminal, and says on a delivery's receipt what became of  *)
(* it.  An Interrupt may come at any time.  Whatever cannot be attributed  *)
(* to the active run retires the lane.                                     *)
(*                                                                         *)
(* Native is correct but for the faults named, and is modelled from what   *)
(* the events mean; its client and the registry are reduced to what a turn *)
(* sees of them (OmpRpc and OwnerRegistry model them).  Every run is a     *)
(* delivery, all of them have the same text, and a report is accepted.     *)
(***************************************************************************)
EXTENDS Integers, Sequences

CONSTANTS
  MaxRuns,   \* runs, one after the other
  Natures,   \* what native makes of a prompt: "agent" (it works on it), "none"
             \* (a prompt_result without an agent), "silent" (its response says so),
             \* "both", "refused" (an error)
  Faults,    \* which of "late" (a prompt fails after its acknowledgement), "stray"
             \* (work after the terminal), "broken" (the managed extension reports an
             \* error), "exit", "ctx" (a run's context ends) may happen
  MaxIncidents  \* dialogs, agent_ends that are no terminal, interrupts and faults

ASSUME TurnAssumption ==
  /\ MaxRuns \in Nat \ {0} /\ MaxIncidents \in Nat
  /\ Natures \subseteq {"agent", "none", "silent", "both", "refused"}
  /\ Faults \subseteq {"late", "stray", "broken", "exit", "ctx"}

Runs == 1 .. MaxRuns

VARIABLES
  turn,     \* [Runs -> the run's goroutine and its ompNativeTurn, see NewTurn]
  intr,     \* [Runs -> the run's Interrupt: none, found (the turn), cancel (no turn
            \* was found), calls (it has sent the abort), over]
  active,   \* p.active, 0 if none
  lost,     \* p.failure is set and p.ctx canceled
  rpc,      \* the native client: "up" or why it stopped
  cmd,      \* commands native has not read: a run's prompt, 0 for abort
  out,      \* frames of native's stdout that are not read
  wire,     \* preflight reports on the bridge
  pre,      \* preflightOrder of the registry
  nat,      \* native, see NewNative
  incidents \* so far

vars == <<turn, intr, active, lost, rpc, cmd, out, wire, pre, nat, incidents>>

NewTurn == [
  pc        |-> "idle",    \* idle, run, response, admit, wait, aborting, complete,
                           \* finish, join, snapshot, post, done
  ctx       |-> "live",    \* or interrupted (errOMPRunInterrupted), ended
  asked     |-> FALSE,     \* run.Interrupted
  failed    |-> FALSE,     \* failure # nil, or Wait has an error
  canceled  |-> FALSE,     \* that error is the run's own cancellation
  submitted |-> FALSE,
  token     |-> 0,         \* the run whose preflight was recorded, 0 if none
  starts    |-> 0,
  said      |-> 0,         \* the run whose assistant message came last
  seen      |-> 0,         \* promptResultID: the run whose prompt_result came, 0 if none
  verdict   |-> "none",    \* result, once ready: answer, aborted, noagent
  retired   |-> FALSE,     \* retirement # nil
  uiClosed  |-> FALSE,
  ui        |-> "none",    \* none, pending, over: the dialog's cancellation
  abort     |-> "none",    \* interruptOnce: none, sent, ok, failed
  prompt    |-> "none",    \* the client's side: none, waiting, held, late, lost,
                           \* abandoned, over
  response  |-> "none",    \* ok, noagent, error, lost
  admitted  |-> FALSE,     \* nativeAdmitted
  receipt   |-> "none",    \* injected, refused, not_submitted, uncertain
  result    |-> "none"]    \* answer, aborted, noagent, interrupted, error

NewNative == [
  alive   |-> TRUE,
  exited  |-> FALSE,                      \* of its own accord
  phase   |-> [r \in Runs |-> "unread"],  \* unread, acked, preflight, started, over
  nature  |-> [r \in Runs |-> "unknown"],
  dialog  |-> FALSE,      \* one dialog, ever
  paused  |-> FALSE,      \* one agent_end that is not the terminal, ever
  aborts  |-> FALSE,      \* the prompt it works on was aborted
  owes    |-> FALSE,      \* an abort is not answered yet
  faulty  |-> FALSE]      \* a late error, stray work or an extension_error, ever

Init ==
  /\ turn = [r \in Runs |-> NewTurn] /\ intr = [r \in Runs |-> "none"]
  /\ active = 0 /\ lost = FALSE /\ rpc = "up"
  /\ cmd = <<>> /\ out = <<>> /\ wire = <<>> /\ pre = <<>>
  /\ nat = NewNative /\ incidents = 0

Frame(kind, r, what) == [kind |-> kind, run |-> r, what |-> what]

Ready(t) == t.verdict # "none"
NoAgent(t) == t.verdict = "noagent"
HasNative(t) == t.submitted /\ t.response \in {"ok", "noagent"}
Admitted(t) == t.token # 0 /\ t.starts > 0
Failed(t) == [t EXCEPT !.failed = TRUE]
\* A failure whose cause is the context's.
CtxFailed(t) == [Failed(t) EXCEPT !.canceled = t.ctx # "live"]
\* ReportDelivery: the first report is the receipt.
Report(t, x) == IF t.receipt = "none" THEN [t EXCEPT !.receipt = x] ELSE t

\* What the run's goroutine leaves alone in most of its steps.
Elsewhere == UNCHANGED <<intr, rpc, cmd, out, wire, nat>>
Goes(r, t, pc) == turn' = [turn EXCEPT ![r] = [t EXCEPT !.pc = pc]]

-----------------------------------------------------------------------------
\* The native client, as a turn sees it.

\* Mutation: the abort's caller is forgotten.
StoppedKeepsAbort(t) ==
  [t EXCEPT !.response = IF t.prompt = "waiting" /\ @ = "none" THEN "lost" ELSE @,
            !.prompt = CASE @ = "waiting" /\ t.response = "none" -> "over"
                         [] @ \in {"waiting", "held"} -> "lost"
                         [] OTHER -> @]

\* stop: a prompt that waits for its response, or was acknowledged, and an abort that
\* was sent are answered with the connection's error.
Stopped(t) ==
  [t EXCEPT !.response = IF t.prompt = "waiting" /\ @ = "none" THEN "lost" ELSE @,
            !.prompt = CASE @ = "waiting" /\ t.response = "none" -> "over"
                         [] @ \in {"waiting", "held"} -> "lost"
                         [] OTHER -> @,
            !.abort = IF @ = "sent" THEN "failed" ELSE @]

\* Every frame and command that is left is dropped.
StopRpc(T, why) ==
  /\ turn' = [r \in Runs |-> Stopped(T[r])]
  /\ rpc' = why /\ cmd' = <<>> /\ out' = <<>>

\* nativePrompt.Finish: it fails if the prompt had, or its transport was lost.
Released(t) == [t EXCEPT !.prompt = "over"]
FinishFails(t) == t.prompt \in {"late", "lost"}

-----------------------------------------------------------------------------
\* What native's events do to the active turn: the turn they leave, and whether the
\* observer refuses the event, which ends the transport.
Refused(t) == [turn |-> Failed(t), refused |-> TRUE]
Taken(t)   == [turn |-> t, refused |-> FALSE]
Settled(t, verdict) == [t EXCEPT !.verdict = verdict, !.uiClosed = TRUE]

\* Mutation: isTerminal is not read.
AgentEndUnflagged(t, what) ==
  IF t.starts = 0 \/ t.said = 0 THEN Refused(t)
  ELSE Taken(Settled(t, IF what = "continues" THEN "answer" ELSE what))

\* agent_end: only the one that says it is terminal settles the turn, and it needs a message.
AgentEnd(t, what) ==
  IF t.starts = 0 \/ (what # "continues" /\ t.said = 0) THEN Refused(t)
  ELSE Taken(IF what = "continues" THEN t ELSE Settled(t, what))

\* The turn of run r.  An event but a prompt_result does not say whose it is.
RecordEvent(r, t, f) ==
  CASE t.failed -> Refused(t)
    [] ~t.failed /\ f.kind = "dialog" ->
         IF t.uiClosed \/ t.ui # "none" THEN Refused(t) ELSE Taken([t EXCEPT !.ui = "pending"])
    [] ~t.failed /\ f.kind # "dialog" /\ Ready(t) ->
         [turn |-> [t EXCEPT !.retired = TRUE], refused |-> TRUE]
    [] OTHER ->
         CASE f.kind = "start" -> Taken([t EXCEPT !.starts = @ + 1])
           [] f.kind = "message" ->
                IF t.starts = 0 THEN Refused(t) ELSE Taken([t EXCEPT !.said = f.run])
           [] f.kind = "end" -> AgentEnd(t, f.what)
           [] f.kind = "result" ->
                IF \/ t.seen # 0 \/ (HasNative(t) /\ f.run # r)
                   \/ t.starts # 0 \/ t.token # 0
                THEN Refused(t) ELSE Taken([Settled(t, "noagent") EXCEPT !.seen = f.run])
           [] f.kind = "broken" -> Refused(t)

-----------------------------------------------------------------------------
\* The run's goroutine: Wrapper.Run, startNativeTurn, Wait.

Rejected(t) == [Report(t, "not_submitted") EXCEPT !.result = "error"]

Begin(r) ==
  LET t == turn[r] IN
  /\ t.pc = "idle" /\ \A q \in 1 .. r - 1 : turn[q].pc = "done"
  /\ IF t.asked \/ t.ctx # "live" \/ lost
     THEN Goes(r, Rejected(t), "done") ELSE Goes(r, t, "run")
  /\ Elsewhere /\ UNCHANGED <<active, lost, pre>>

\* host.Handoff: a run that is interrupted before its turn starts returns interrupted.
HandoffInterrupted(r) ==
  LET t == turn[r] IN
  /\ t.pc = "run" /\ t.asked
  /\ Goes(r, [Report(t, "not_submitted") EXCEPT !.result = "interrupted"], "post")
  /\ Elsewhere /\ UNCHANGED <<active, lost, pre>>

\* The lane may be lost, the client stopped or the context over: nothing is written.
Submit(r) ==
  LET t == turn[r] IN
  /\ t.pc = "run"
  /\ IF lost \/ active # 0 \/ rpc # "up" \/ t.ctx # "live"
     THEN /\ Goes(r, CtxFailed(t), "post") /\ UNCHANGED <<active, cmd>>
     ELSE /\ Goes(r, [t EXCEPT !.prompt = "waiting"], "response")
          /\ active' = r /\ cmd' = Append(cmd, r)
  /\ UNCHANGED <<intr, lost, rpc, out, wire, pre, nat>>

\* The immediate response, and the verdict it may carry.
Response(r) ==
  LET t == turn[r]
      h == [t EXCEPT !.submitted = TRUE, !.prompt = IF @ = "waiting" THEN "held" ELSE @]
      s == IF HasNative(h) /\ t.seen \notin {0, r} THEN Failed(h) ELSE h IN
  /\ t.pc = "response" /\ t.response # "none"
  /\ CASE t.response = "ok" -> Goes(r, s, "admit")
       [] t.response = "noagent" ->
            Goes(r, CASE s.failed -> s
                      [] ~s.failed /\ (t.starts # 0 \/ t.token # 0) -> Failed(s)
                      [] OTHER -> Settled(s, "noagent"), "wait")
       [] OTHER -> Goes(r, Failed([s EXCEPT !.prompt = "over"]), "wait")
  /\ Elsewhere /\ UNCHANGED <<active, lost, pre>>

\* StartPrompt's context ends first: the prompt is abandoned, and the transport with it
\* if the command's write had not settled.
ResponseGivenUp(r) ==
  LET t == turn[r]
      T == [turn EXCEPT ![r] = [CtxFailed(t) EXCEPT !.submitted = TRUE,
                                   !.prompt = "abandoned", !.response = "lost",
                                   !.pc = "wait"]] IN
  /\ t.pc = "response" /\ t.ctx # "live" /\ t.response \notin {"error", "lost"}
  /\ \/ turn' = T /\ UNCHANGED <<rpc, cmd, out>>
     \/ t.response = "none" /\ rpc = "up" /\ StopRpc(T, "ctx")
  /\ UNCHANGED <<intr, active, lost, wire, pre, nat>>

\* The select of the admission loop takes any of its ready branches.
AdmitLeaves(r) ==
  LET t == turn[r] IN
  /\ t.pc = "admit" /\ (t.failed \/ Admitted(t) \/ NoAgent(t))
  /\ Goes(r, t, "wait")
  /\ Elsewhere /\ UNCHANGED <<active, lost, pre>>

\* recordPreflight: waitPreflight takes the reports in their order.
AdmitPreflight(r) ==
  LET t == turn[r] IN
  /\ t.pc = "admit" /\ pre # <<>> /\ t.token = 0
  /\ pre' = Tail(pre)
  /\ IF t.failed \/ NoAgent(t) THEN Goes(r, Failed(t), "wait")
     ELSE Goes(r, [t EXCEPT !.token = Head(pre)], "admit")
  /\ Elsewhere /\ UNCHANGED <<active, lost>>

AdmitFails(r) ==
  LET t == turn[r] IN
  /\ t.pc = "admit"
  /\ \/ FinishFails(t) /\ Goes(r, Failed(Released(t)), "wait")
     \/ t.ctx # "live" /\ Goes(r, CtxFailed(t), "wait")
     \/ lost /\ Goes(r, Failed(t), "wait")
  /\ Elsewhere /\ UNCHANGED <<active, lost, pre>>

\* turn.Interrupt under its once: nothing is sent after the native terminal.
Aborts(r, t, pc) ==
  IF Ready(t) THEN Goes(r, [t EXCEPT !.abort = "ok"], pc) /\ UNCHANGED cmd
  ELSE IF rpc = "up" THEN Goes(r, [t EXCEPT !.abort = "sent"], pc) /\ cmd' = Append(cmd, 0)
  ELSE Goes(r, [t EXCEPT !.abort = "failed"], pc) /\ UNCHANGED cmd

\* Wait begins: the delivery's receipt, and the abort of a run that is already
\* interrupted.
WaitBegins(r) ==
  LET t == turn[r]
      s == [CASE Admitted(t) -> Report(t, "injected")
              [] ~Admitted(t) /\ NoAgent(t) -> Report(t, "refused")
              [] OTHER -> t EXCEPT !.admitted = Admitted(t)] IN
  /\ t.pc = "wait"
  /\ IF ~(t.asked /\ Admitted(t)) THEN Goes(r, s, "complete") /\ UNCHANGED cmd
     ELSE IF t.abort # "none" THEN Goes(r, s, "aborting") /\ UNCHANGED cmd
     ELSE Aborts(r, s, "aborting")
  /\ UNCHANGED <<intr, active, lost, rpc, out, wire, pre, nat>>

\* The abort's caller has its answer, or its context ends.
AbortReturns(r) ==
  LET t == turn[r] IN
  /\ t.pc = "aborting"
  /\ \/ t.abort # "sent" /\ Goes(r, t, "complete")
     \/ /\ t.abort = "sent" /\ t.ctx # "live" /\ intr[r] # "calls"
        /\ Goes(r, [t EXCEPT !.abort = "failed"], "complete")
  /\ Elsewhere /\ UNCHANGED <<active, lost, pre>>

\* Mutation: a result is complete while its dialog is being canceled.
CompletedWithResult(t) == t.failed \/ Ready(t)

\* completion
Completed(t) == t.failed \/ (Ready(t) /\ t.ui # "pending")

\* awaitCompletion, whose select takes any of its ready branches.
Complete(r) ==
  LET t == turn[r] IN
  /\ t.pc = "complete"
  /\ \/ Completed(t) /\ Goes(r, t, "finish")
     \/ ~t.failed /\ t.ctx # "live" /\ Goes(r, IF Ready(t) THEN t ELSE CtxFailed(t), "finish")
     \/ ~t.failed /\ lost /\ Goes(r, IF Ready(t) THEN t ELSE Failed(t), "finish")
     \/ ~t.failed /\ FinishFails(t)
        /\ Goes(r, IF Ready(t) THEN t ELSE Failed(Released(t)), "finish")
  /\ Elsewhere /\ UNCHANGED <<active, lost, pre>>

\* finishPrompt.  The turn's own retirement of the transport is not its failure.
FinishPrompt(t) ==
  IF FinishFails(t) /\ ~(t.prompt = "lost" /\ Ready(t) /\ t.retired /\ rpc = "observer")
  THEN Failed(Released(t)) ELSE Released(t)

\* finishPrompt and the start of joinOwnedWork, which closes and cancels the dialogs.
Finish(r) ==
  LET t == turn[r] IN
  /\ t.pc = "finish"
  /\ Goes(r, [FinishPrompt(t) EXCEPT !.uiClosed = TRUE], "join")
  /\ Elsewhere /\ UNCHANGED <<active, lost, pre>>

\* joinOwnedWork
Joined(t) == t.ui # "pending" /\ t.abort # "sent"

Join(r) ==
  LET t == turn[r] IN
  /\ t.pc = "join" /\ Joined(t)
  /\ Goes(r, t, "snapshot")
  /\ Elsewhere /\ UNCHANGED <<active, lost, pre>>

\* Mutation: finishNativeTurn is forgotten.
SnapshotKeepsTurn(r) ==
  LET t == turn[r]
      err == t.failed \/ t.abort = "failed" IN
  /\ t.pc = "snapshot"
  /\ Goes(r, IF err THEN Failed(t) ELSE [t EXCEPT !.result = t.verdict], "post")
  /\ lost' = (lost \/ err \/ t.retired)
  /\ Elsewhere /\ UNCHANGED <<active, pre>>

\* Wait's final snapshot, its lose and finishNativeTurn.
Snapshot(r) ==
  LET t == turn[r]
      err == t.failed \/ t.abort = "failed" IN
  /\ t.pc = "snapshot"
  /\ Goes(r, IF err THEN Failed(t) ELSE [t EXCEPT !.result = t.verdict], "post")
  /\ lost' = (lost \/ err \/ t.retired)
  /\ active' = IF active = r THEN 0 ELSE active
  /\ Elsewhere /\ UNCHANGED pre

\* Mutation: a run that was not admitted is taken for one that was not submitted.
EarlyReceiptRejects(t) == "not_submitted"

EarlyReceipt(t) == IF t.submitted THEN "uncertain" ELSE "not_submitted"

\* The rest of Run: an interrupt before the admission, and any error, lose the lane.
RunReturns(r) ==
  LET t == turn[r]
      early == ~t.admitted /\ t.ctx = "interrupted"
      s == IF early THEN Report(t, EarlyReceipt(t)) ELSE t IN
  /\ t.pc = "post"
  /\ CASE early /\ (~t.failed \/ t.canceled) -> Goes(r, [s EXCEPT !.result = "interrupted"], "done")
       [] t.failed /\ ~(early /\ t.canceled) ->
            Goes(r, [Report(s, "uncertain") EXCEPT !.result = "error"], "done")
       [] OTHER -> Goes(r, s, "done")
  /\ lost' = (lost \/ early \/ t.failed)
  /\ Elsewhere /\ UNCHANGED <<active, pre>>

-----------------------------------------------------------------------------
\* The lane's other goroutines.

\* The host marks the run interrupted and calls Interrupt, which reads the lane.
IntAsk(r) ==
  LET t == turn[r] IN
  /\ intr[r] = "none" /\ \A q \in 1 .. r - 1 : turn[q].pc = "done"
  /\ turn' = [turn EXCEPT ![r].asked = TRUE]
  /\ intr' = [intr EXCEPT ![r] = IF active = r THEN "found"
                                 ELSE IF t.pc \in {"idle", "done"} THEN "over" ELSE "cancel"]
  /\ UNCHANGED <<active, lost, rpc, cmd, out, wire, pre, nat>>

\* Before its admission a turn is canceled, after it native is asked to abort.
IntAct(r) ==
  LET t == turn[r]
      Cancel == /\ turn' = IF t.ctx = "live" /\ t.pc # "done"
                            THEN [turn EXCEPT ![r].ctx = "interrupted"] ELSE turn
                /\ UNCHANGED cmd IN
  /\ \/ intr[r] = "found" /\ Admitted(t)
        /\ IF t.abort # "none" THEN UNCHANGED <<turn, cmd>> ELSE Aborts(r, t, t.pc)
     \/ (intr[r] = "cancel" \/ (intr[r] = "found" /\ ~Admitted(t))) /\ Cancel
  /\ intr' = [intr EXCEPT ![r] = IF turn'[r].abort = "sent" /\ t.abort = "none" THEN "calls" ELSE "over"]
  /\ UNCHANGED <<active, lost, rpc, out, wire, pre, nat>>

\* The run's context ends for another reason.
CtxEnds(r) ==
  /\ "ctx" \in Faults /\ turn[r].ctx = "live" /\ turn[r].pc \notin {"idle", "done"}
  /\ turn' = [turn EXCEPT ![r].ctx = "ended"]
  /\ Elsewhere /\ UNCHANGED <<active, lost, pre>>

\* The goroutine of cancelUI.  It may fail once the turn, the lane or the client ends it.
UiSettles(r) ==
  LET t == turn[r]
      s == [t EXCEPT !.ui = "over"] IN
  /\ t.ui = "pending"
  /\ \/ rpc = "up" /\ Goes(r, s, t.pc)
     \/ (rpc # "up" \/ lost \/ t.pc = "join") /\ Goes(r, CtxFailed(s), t.pc)
  /\ Elsewhere /\ UNCHANGED <<active, lost, pre>>

\* A lane that is lost cancels its owner, which kills native and closes its client.
OwnerStops ==
  /\ lost /\ (nat.alive \/ rpc = "up")
  /\ nat' = [nat EXCEPT !.alive = FALSE]
  /\ IF rpc = "up" THEN StopRpc(turn, "closed") ELSE UNCHANGED <<turn, rpc, cmd, out>>
  /\ UNCHANGED <<intr, active, lost, wire, pre>>

\* watchOwner: the owner has ended with its client or its process.
OwnerEnds ==
  /\ ~lost /\ (rpc # "up" \/ ~nat.alive)
  /\ lost' = TRUE
  /\ UNCHANGED <<turn, intr, active, rpc, cmd, out, wire, pre, nat>>

OutputEnds ==
  /\ ~nat.alive /\ out = <<>> /\ rpc = "up"
  /\ StopRpc(turn, "eof")
  /\ UNCHANGED <<intr, active, lost, wire, pre, nat>>

\* run.preflight arrives at the registry, unless that has ended.
Preflight ==
  /\ wire # <<>>
  /\ wire' = Tail(wire) /\ pre' = IF lost THEN pre ELSE Append(pre, Head(wire))
  /\ UNCHANGED <<turn, intr, active, lost, rpc, cmd, out, nat>>

-----------------------------------------------------------------------------
\* The client's reader.

Events == {"start", "message", "end", "result", "dialog", "broken"}

ReadResponse(f) ==
  LET t == turn[f.run] IN
  /\ f.kind = "response"
  /\ turn' = [turn EXCEPT ![f.run] =
       IF t.prompt = "waiting" /\ t.response = "none" THEN [t EXCEPT !.response = f.what]
       ELSE IF t.prompt = "abandoned" THEN Released(t) ELSE t]
  /\ rpc' = rpc /\ out' = Tail(out) /\ cmd' = cmd

\* A late error of a prompt nobody holds is an unknown response.
ReadLate(f) ==
  LET t == turn[f.run] IN
  /\ f.kind = "late"
  /\ CASE t.prompt \in {"waiting", "held"} ->
            /\ turn' = [turn EXCEPT ![f.run].prompt = "late"]
            /\ rpc' = rpc /\ out' = Tail(out) /\ cmd' = cmd
       [] t.prompt = "abandoned" ->
            /\ turn' = [turn EXCEPT ![f.run] = Released(t)]
            /\ rpc' = rpc /\ out' = Tail(out) /\ cmd' = cmd
       [] OTHER -> StopRpc(turn, "protocol")

ReadAbort(f) ==
  /\ f.kind = "abort"
  /\ turn' = [r \in Runs |-> [turn[r] EXCEPT !.abort = IF @ = "sent" THEN "ok" ELSE @]]
  /\ rpc' = rpc /\ out' = Tail(out) /\ cmd' = cmd

\* observeNative and observeNativeUI: an event outside a turn ends the transport.
Observe(f) ==
  /\ f.kind \in Events
  /\ IF active = 0 THEN StopRpc(turn, "observer")
     ELSE LET x == RecordEvent(active, turn[active], f)
              T == [turn EXCEPT ![active] = x.turn] IN
          IF x.refused THEN StopRpc(T, "observer")
          ELSE turn' = T /\ rpc' = rpc /\ out' = Tail(out) /\ cmd' = cmd

Read ==
  /\ rpc = "up" /\ out # <<>>
  /\ LET f == Head(out) IN ReadResponse(f) \/ ReadLate(f) \/ ReadAbort(f) \/ Observe(f)
  /\ UNCHANGED <<intr, active, lost, wire, pre, nat>>

-----------------------------------------------------------------------------
\* Native, from what its frames mean.

Says(frames) == out' = IF rpc = "up" THEN out \o frames ELSE out
Becomes(r, phase) == nat' = [nat EXCEPT !.phase[r] = phase]
NativeElse == UNCHANGED <<turn, intr, active, lost, rpc, pre>>
Busy == \E r \in Runs : nat.phase[r] \in {"acked", "preflight", "started"}

NativeReads(r) ==
  /\ nat.alive /\ cmd # <<>> /\ Head(cmd) = r /\ ~Busy
  /\ \E n \in Natures :
       /\ nat' = [nat EXCEPT !.nature[r] = n,
                  !.phase[r] = IF n \in {"agent", "none"} THEN "acked" ELSE "over"]
       /\ Says(CASE n \in {"agent", "none"} -> <<Frame("response", r, "ok")>>
                 [] n = "refused" -> <<Frame("response", r, "error")>>
                 [] n = "silent" -> <<Frame("response", r, "noagent")>>
                 [] n = "both" -> <<Frame("response", r, "noagent"), Frame("result", r, "none")>>)
  /\ cmd' = Tail(cmd) /\ NativeElse /\ UNCHANGED wire

NativeReadsAbort ==
  /\ nat.alive /\ cmd # <<>> /\ Head(cmd) = 0
  /\ nat' = [nat EXCEPT !.aborts = Busy, !.owes = TRUE]
  /\ cmd' = Tail(cmd) /\ NativeElse /\ UNCHANGED <<out, wire>>

NativeAborted ==
  /\ nat.alive /\ nat.owes
  /\ nat' = [nat EXCEPT !.owes = FALSE] /\ Says(<<Frame("abort", 0, "none")>>)
  /\ NativeElse /\ UNCHANGED <<cmd, wire>>

\* A prompt that needs no agent, or the preflight of one that does.
NativeAdmits(r) ==
  /\ nat.alive /\ nat.phase[r] = "acked"
  /\ IF nat.nature[r] = "none"
     THEN Becomes(r, "over") /\ Says(<<Frame("result", r, "none")>>) /\ UNCHANGED wire
     ELSE Becomes(r, "preflight") /\ wire' = Append(wire, r) /\ UNCHANGED out
  /\ NativeElse /\ UNCHANGED cmd

NativeStarts(r) ==
  /\ nat.alive /\ nat.phase[r] = "preflight"
  /\ Becomes(r, "started") /\ Says(<<Frame("start", r, "none")>>)
  /\ NativeElse /\ UNCHANGED <<cmd, wire>>

NativeAsks(r) ==
  /\ nat.alive /\ nat.phase[r] = "started" /\ ~nat.dialog
  /\ nat' = [nat EXCEPT !.dialog = TRUE] /\ Says(<<Frame("dialog", r, "none")>>)
  /\ NativeElse /\ UNCHANGED <<cmd, wire>>

\* Its message ends, and the agent, to start again.
NativePauses(r) ==
  /\ nat.alive /\ nat.phase[r] = "started" /\ ~nat.paused
  /\ nat' = [nat EXCEPT !.paused = TRUE, !.phase[r] = "preflight"]
  /\ Says(<<Frame("message", r, "none"), Frame("end", r, "continues")>>)
  /\ NativeElse /\ UNCHANGED <<cmd, wire>>

\* Its message ends, and the agent for good: the terminal.
NativeEnds(r) ==
  /\ nat.alive /\ nat.phase[r] = "started"
  /\ nat' = [nat EXCEPT !.phase[r] = "over", !.aborts = FALSE]
  /\ Says(<<Frame("message", r, "none"), Frame("end", r, IF nat.aborts THEN "aborted" ELSE "answer")>>)
  /\ NativeElse /\ UNCHANGED <<cmd, wire>>

\* A prompt that was acknowledged fails: in the middle, or after its terminal.
NativeLate(r) ==
  /\ "late" \in Faults /\ nat.alive /\ ~nat.faulty
  /\ nat.nature[r] = "agent" /\ nat.phase[r] \in {"acked", "started", "over"}
  /\ nat' = [nat EXCEPT !.phase[r] = "over", !.aborts = FALSE, !.faulty = TRUE]
  /\ Says(<<Frame("late", r, "none")>>)
  /\ NativeElse /\ UNCHANGED <<cmd, wire>>

\* The agent starts once more after its terminal.
NativeStrays(r) ==
  /\ "stray" \in Faults /\ nat.alive /\ ~nat.faulty
  /\ nat.nature[r] = "agent" /\ nat.phase[r] = "over"
  /\ nat' = [nat EXCEPT !.faulty = TRUE] /\ Says(<<Frame("start", r, "none")>>)
  /\ NativeElse /\ UNCHANGED <<cmd, wire>>

\* The managed extension reports an error (extension_error).
NativeBreaks(r) ==
  /\ "broken" \in Faults /\ nat.alive /\ ~nat.faulty /\ nat.phase[r] # "unread"
  /\ nat' = [nat EXCEPT !.faulty = TRUE] /\ Says(<<Frame("broken", r, "none")>>)
  /\ NativeElse /\ UNCHANGED <<cmd, wire>>

NativeExits ==
  /\ "exit" \in Faults /\ nat.alive
  /\ nat' = [nat EXCEPT !.alive = FALSE, !.exited = TRUE]
  /\ NativeElse /\ UNCHANGED <<cmd, out, wire>>

-----------------------------------------------------------------------------
RunStep(r) ==
  \/ Begin(r) \/ HandoffInterrupted(r) \/ Submit(r) \/ Response(r) \/ ResponseGivenUp(r)
  \/ AdmitLeaves(r) \/ AdmitPreflight(r) \/ AdmitFails(r) \/ WaitBegins(r) \/ AbortReturns(r)
  \/ Complete(r) \/ Finish(r) \/ Join(r) \/ Snapshot(r) \/ RunReturns(r)

LaneStep == OwnerStops \/ OwnerEnds \/ OutputEnds \/ Preflight \/ Read

NativeStep(r) ==
  NativeReads(r) \/ NativeAdmits(r) \/ NativeStarts(r) \/ NativeEnds(r)

Progress ==
  \/ \E r \in Runs : RunStep(r) \/ IntAct(r) \/ UiSettles(r) \/ NativeStep(r)
  \/ LaneStep \/ NativeReadsAbort \/ NativeAborted

Incident ==
  /\ incidents < MaxIncidents /\ incidents' = incidents + 1
  /\ \/ \E r \in Runs : IntAsk(r) \/ CtxEnds(r) \/ NativeLate(r) \/ NativeStrays(r)
                     \/ NativeBreaks(r) \/ NativeAsks(r) \/ NativePauses(r)
     \/ NativeExits

Next == (Progress /\ UNCHANGED incidents) \/ Incident

Spec == Init /\ [][Next]_vars

\* Every goroutine runs, native works on what it reads; nothing asks for an interrupt
\* or makes a fault happen.
FairSpec == Spec /\ WF_vars(Progress /\ UNCHANGED incidents)

-----------------------------------------------------------------------------
\* The lane has a turn exactly while its run is between the submission and the
\* snapshot, and one goroutine at a time is in a run.
TypeOK ==
  /\ \A r \in Runs :
       /\ active = r <=> turn[r].pc \in {"response", "admit", "wait", "aborting", "complete",
                                         "finish", "join", "snapshot"}
       /\ turn[r].token \in 0 .. MaxRuns /\ turn[r].said \in 0 .. MaxRuns
       /\ turn[r].pc # "done" => turn[r].receipt # "uncertain"
       /\ intr[r] \in {"none", "found", "cancel", "calls", "over"}
       /\ nat.phase[r] \in {"unread", "acked", "preflight", "started", "over"}
  /\ lost \in BOOLEAN /\ rpc \in {"up", "closed", "eof", "observer", "protocol", "ctx"}
  /\ \A i \in DOMAIN cmd : cmd[i] \in 0 .. MaxRuns
  /\ \A i \in DOMAIN pre : pre[i] \in Runs

\* A run that answers answers with what native said to its own prompt, after native's
\* own terminal for it: never with a message of another run or of the middle of the work,
\* and it says aborted only if somebody asked for that.
AnswerIsOwn == \A r \in Runs :
  LET t == turn[r] IN
  /\ t.result \in {"answer", "aborted"} =>
       /\ t.said = r /\ nat.nature[r] = "agent" /\ nat.phase[r] = "over"
       /\ t.result = "aborted" => t.asked
  /\ t.result = "noagent" => nat.nature[r] \in {"none", "silent", "both"}

\* The receipt of a run that returned tells the truth: a prompt that was not submitted
\* is never read by native; an injected one was worked on, on its own preflight; a
\* refused one needed no agent (unless an earlier prompt was answered twice: until the
\* response of its own prompt a turn cannot tell whose prompt_result comes); and an
\* answer is never returned without injected.
ReceiptHonest == \A r \in Runs :
  LET t == turn[r] IN
  /\ t.receipt = "not_submitted" => nat.phase[r] = "unread" /\ r \notin {cmd[i] : i \in DOMAIN cmd}
  /\ t.receipt = "injected" => t.token = r /\ nat.nature[r] = "agent"
  /\ t.receipt = "refused" => \/ nat.nature[r] \in {"none", "silent", "both"}
                              \/ \E q \in 1 .. r - 1 : nat.nature[q] = "both"
  /\ t.pc = "done" => t.receipt # "none"
  /\ t.pc = "done" /\ t.result \in {"answer", "aborted"} => t.receipt = "injected"

\* Whatever native's frames and its preflight report do to each other's order, a turn of
\* a correct native does not lose its lane: only an interrupt or an end of a context
\* before the admission, a refused prompt, an answer given twice, or a fault does.
OnlyFaultsRetire ==
  lost => \/ nat.faulty \/ nat.exited
          \/ \E r \in Runs : turn[r].ctx # "live" \/ nat.nature[r] \in {"refused", "both"}

\* Every run returns, whatever is interrupted, ended or lost on the way.
EveryRunReturns == <>(\A r \in Runs : turn[r].pc = "done")
=============================================================================
