---------------------------- MODULE OmpTurnProofs ----------------------------
(***************************************************************************)
(* Machine-checked proofs about OmpTurn: a run that answers answers with   *)
(* what native said to its own prompt, and the receipt of a run tells the  *)
(* truth.                                                                  *)
(*                                                                         *)
(* No event but a prompt_result says whose it is, so the argument (IInv)   *)
(* is about what an earlier run may have left behind.  A prompt is         *)
(* submitted only when every earlier run ended without a failure           *)
(* (SeqInv), and a run that ends so leaves no abort of its own and has     *)
(* heard native's terminal, which is the last native says of it (OwnInv,   *)
(* FrameInv).  So what native works on is the active run's prompt (CmdInv, *)
(* NatureInv), the preflight report at hand is its own (ReportsInv), and   *)
(* an abort that native still has to read or to answer is its own          *)
(* (AbortInv).  StepInv and ReportInv follow the run's own control.        *)
(***************************************************************************)
EXTENDS OmpTurn, SequenceTheorems, TLAPS

Kinds == {"response", "result", "abort", "start", "dialog", "message", "end", "late",
          "broken"}
Whats == {"none", "ok", "error", "noagent", "continues", "answer", "aborted"}
Phases == {"unread", "acked", "preflight", "started", "over"}

TurnType == [
  pc: {"idle", "run", "response", "admit", "wait", "aborting", "complete", "finish", "join",
       "snapshot", "post", "done"},
  ctx: {"live", "interrupted", "ended"},
  asked: BOOLEAN, failed: BOOLEAN, canceled: BOOLEAN, submitted: BOOLEAN,
  token: 0 .. MaxRuns, starts: Nat, said: 0 .. MaxRuns, seen: 0 .. MaxRuns,
  verdict: {"none", "answer", "aborted", "noagent"},
  retired: BOOLEAN, uiClosed: BOOLEAN, ui: {"none", "pending", "over"},
  abort: {"none", "sent", "ok", "failed"},
  prompt: {"none", "waiting", "held", "late", "lost", "abandoned", "over"},
  response: {"none", "ok", "noagent", "error", "lost"},
  admitted: BOOLEAN,
  receipt: {"none", "injected", "refused", "not_submitted", "uncertain"},
  result: {"none", "answer", "aborted", "noagent", "interrupted", "error"}]

NativeType == [
  alive: BOOLEAN, exited: BOOLEAN, phase: [Runs -> Phases],
  nature: [Runs -> {"unknown", "agent", "none", "silent", "both", "refused"}],
  dialog: BOOLEAN, paused: BOOLEAN, aborts: BOOLEAN, owes: BOOLEAN, faulty: BOOLEAN]

\* Every frame but the answer to an abort is of a run.
FrameType == {f \in [kind: Kinds, run: 0 .. MaxRuns, what: Whats] :
  /\ f.kind # "abort" => f.run # 0
  /\ f.kind = "response" => f.what \in {"ok", "noagent", "error"}
  /\ f.kind = "end" => f.what \in {"continues", "answer", "aborted"}}

TypeInv ==
  /\ turn \in [Runs -> TurnType]
  /\ intr \in [Runs -> {"none", "found", "cancel", "calls", "over"}]
  /\ active \in 0 .. MaxRuns /\ lost \in BOOLEAN
  /\ rpc \in {"up", "closed", "eof", "observer", "protocol", "ctx"}
  /\ cmd \in Seq(0 .. MaxRuns) /\ out \in Seq(FrameType)
  /\ wire \in Seq(Runs) /\ pre \in Seq(Runs)
  /\ nat \in NativeType

\* A run has the lane's turn, its turn has the response, and may be joined.
Now == {"response", "admit", "wait", "aborting", "complete", "finish", "join", "snapshot"}
Past == Now \ {"response"}
Waits == Past \ {"admit", "wait"}
Ends == {"post", "done"}

\* A run that leaves nothing behind: no abort, and native's terminal has come.
Clear(t, r) ==
  /\ t.abort \notin {"sent", "failed"}
  /\ t.prompt # "none" => Ready(t) /\ t.seen \in {0, r} /\ (Admitted(t) \/ NoAgent(t))

\* A turn that has not submitted its prompt.
Fresh(t) ==
  /\ t.verdict = "none" /\ t.token = 0 /\ t.seen = 0 /\ t.said = 0 /\ t.starts = 0
  /\ t.abort = "none" /\ t.ui = "none" /\ ~t.submitted /\ t.response = "none"

\* Where the run is, and what it knows there.
StepInv(t) ==
  /\ t.pc \in {"idle", "run"} => t.prompt = "none" /\ ~t.failed
  /\ t.prompt = "none" => Fresh(t) /\ t.pc \notin Now
  /\ t.pc = "response" => ~t.submitted
  /\ t.pc \in Past \cup Ends /\ t.prompt # "none" => t.submitted
  /\ t.pc \in Past /\ ~t.failed => t.response \in {"ok", "noagent"}
  /\ t.pc \in Past \ {"admit"} /\ ~t.failed => Admitted(t) \/ NoAgent(t)
  /\ t.pc \in {"finish", "join", "snapshot"} /\ ~t.failed => Ready(t)
  /\ t.pc = "snapshot" /\ ~t.failed => t.abort # "sent"
  /\ t.ui = "pending" => t.pc \in Now \ {"snapshot"}
  /\ t.pc \in {"join", "snapshot"} => t.uiClosed

\* What it says of its delivery, and returns.
ReportInv(t) ==
  /\ t.pc \in {"idle", "run", "response", "admit", "wait"} => t.receipt = "none"
  /\ t.pc \in Waits /\ ~t.failed => t.receipt = IF Admitted(t) THEN "injected" ELSE "refused"
  /\ t.pc \in Ends /\ ~t.failed => t.receipt # "none"
  /\ t.pc = "done" => t.receipt # "none"
  /\ t.receipt = "injected" => Admitted(t)
  /\ t.receipt = "refused" => NoAgent(t)
  /\ t.receipt = "not_submitted" => t.prompt = "none" /\ t.pc \in Ends
  /\ t.receipt = "uncertain" => t.pc = "done"
  /\ t.result \in {"answer", "aborted", "noagent"} =>
       /\ t.pc \in Ends /\ t.result = t.verdict /\ ~t.failed
       /\ t.result # "noagent" => t.receipt = "injected"

\* What it took for its own is its own, unless it fails.
OwnInv(t, r) ==
  /\ t.token \in {0, r} /\ t.said \in {0, r}
  /\ t.pc \in Past \cup Ends /\ ~t.failed => t.seen \in {0, r}
  /\ t.pc \in Ends /\ ~t.failed => Clear(t, r)
  /\ t.abort \in {"sent", "failed"} => Admitted(t) /\ t.asked
  /\ t.verdict \in {"answer", "aborted"} => t.said = r /\ t.starts # 0
  /\ t.seen # 0 => NoAgent(t)
  /\ t.verdict = "aborted" => t.asked

\* What native (n) made of its prompt.
NatureInv(t, r, n) ==
  /\ n.phase[r] = "unread" <=> n.nature[r] = "unknown"
  /\ n.phase[r] = "acked" => n.nature[r] \in {"agent", "none"}
  /\ n.phase[r] \in {"preflight", "started"} => n.nature[r] = "agent"
  /\ t.prompt = "none" => n.phase[r] = "unread"
  /\ t.token # 0 => n.nature[r] = "agent" /\ n.phase[r] \notin {"unread", "acked"}
  /\ t.response = "noagent" => n.nature[r] \in {"silent", "both"}
  /\ t.verdict \in {"answer", "aborted"} => n.nature[r] = "agent" /\ n.phase[r] = "over"
  /\ NoAgent(t) => \/ t.seen = 0 /\ n.nature[r] \in {"silent", "both"}
                   \/ t.seen = r /\ n.nature[r] \in {"none", "both"} /\ n.phase[r] = "over"
                   \/ t.seen \in 1 .. r - 1 /\ n.nature[t.seen] = "both"

\* Native works on the prompt of run r.
Works(n, r) == n.phase[r] \in {"acked", "preflight", "started"}
Working(n, r) == n.phase[r] \in {"preflight", "started"}

RunOk(t, r, n) == StepInv(t) /\ ReportInv(t) /\ OwnInv(t, r) /\ NatureInv(t, r, n)
RunInv ==
  /\ \A r \in Runs : RunOk(turn[r], r, nat)
  /\ \A r \in Runs : intr[r] # "none" => turn[r].asked

\* One run at a time, and none is submitted after one that failed.
SeqInv ==
  /\ \A r \in Runs : active = r <=> turn[r].pc \in Now
  /\ \A r \in Runs : turn[r].pc # "idle" => \A q \in 1 .. r - 1 : turn[q].pc = "done"
  /\ \A r \in Runs : turn[r].prompt # "none" => \A q \in 1 .. r - 1 : ~turn[q].failed
  /\ \A r \in Runs : turn[r].pc = "done" /\ turn[r].failed => lost

\* A prompt is written once, and native works on one at a time.
CmdInv ==
  /\ \A i \in DOMAIN cmd : cmd[i] # 0 => nat.phase[cmd[i]] = "unread" /\ turn[cmd[i]].prompt # "none"
  /\ \A i, j \in DOMAIN cmd : cmd[i] = cmd[j] => i = j
  /\ \A q, r \in Runs : Works(nat, q) /\ Works(nat, r) => q = r

\* A preflight is reported once, by a prompt that needs an agent.
Reported(T, n, x) ==
  /\ n.nature[x] = "agent" /\ n.phase[x] \notin {"unread", "acked"} /\ T[x].token = 0
ReportsInv ==
  /\ \A i \in DOMAIN pre : Reported(turn, nat, pre[i])
  /\ \A i \in DOMAIN wire : Reported(turn, nat, wire[i])
  /\ \A i, j \in DOMAIN pre : pre[i] = pre[j] => i = j
  /\ \A i, j \in DOMAIN wire : wire[i] = wire[j] => i = j
  /\ \A i \in DOMAIN pre, j \in DOMAIN wire : pre[i] # wire[j]

\* What native has said is true, and it says nothing after its terminal.
FrameOk(T, n, f) ==
  /\ f.kind # "abort" => n.phase[f.run] # "unread"
  /\ f.kind \in {"message", "end"} =>
        n.nature[f.run] = "agent" /\ T[f.run].verdict \notin {"answer", "aborted"}
  /\ f.kind = "end" /\ f.what # "continues" => n.phase[f.run] = "over"
  /\ f.kind = "end" /\ f.what = "aborted" => T[f.run].asked
  /\ f.kind = "result" => /\ n.nature[f.run] \in {"none", "both"} /\ n.phase[f.run] = "over"
                          /\ T[f.run].seen # f.run
  /\ f.kind = "response" /\ f.what = "noagent" => n.nature[f.run] \in {"silent", "both"}

Follows(f, g) ==
  f.run = g.run =>
    /\ ~(f.kind = "end" /\ f.what # "continues" /\ g.kind \in {"message", "end"})
    /\ ~(f.kind = "result" /\ g.kind = "result")
FrameInv ==
  /\ \A i \in DOMAIN out : FrameOk(turn, nat, out[i])
  /\ \A i, j \in DOMAIN out : i < j => Follows(out[i], out[j])

\* There is one abort at most, and it is of the run that native works on.
AbortWritten == \E i \in DOMAIN cmd : cmd[i] = 0
AbortAnswered == \E i \in DOMAIN out : out[i].kind = "abort"
Aborting(t) == t.abort \in {"sent", "failed"}
AbortInv ==
  /\ AbortWritten => ~nat.owes /\ ~AbortAnswered
  /\ AbortAnswered => ~nat.owes
  /\ \A i, j \in DOMAIN out : out[i].kind = "abort" /\ out[j].kind = "abort" => i = j
  /\ AbortWritten \/ AbortAnswered \/ nat.owes => \E q \in Runs : Aborting(turn[q])
  /\ nat.aborts => \E q \in Runs : Working(nat, q) /\ turn[q].asked

IInv == TypeInv /\ RunInv /\ SeqInv /\ CmdInv /\ ReportsInv /\ FrameInv /\ AbortInv

-----------------------------------------------------------------------------
(* Sequences and steps.                                                    *)

\* The elements of a tail are the later elements.
LEMMA TailAt ==
  ASSUME NEW S, NEW s \in Seq(S), s # <<>>
  PROVE  /\ Tail(s) \in Seq(S) /\ Head(s) \in S /\ 1 \in DOMAIN s /\ Head(s) = s[1]
         /\ \A i \in DOMAIN Tail(s) : i \in Nat /\ i + 1 \in DOMAIN s /\ Tail(s)[i] = s[i + 1]
BY HeadTailProperties, LenProperties

\* The elements of a sequence with one more.
LEMMA AppendAt ==
  ASSUME NEW S, NEW s \in Seq(S), NEW e \in S
  PROVE  /\ Append(s, e) \in Seq(S)
         /\ \A i \in DOMAIN Append(s, e) :
              \/ i \in DOMAIN s /\ Append(s, e)[i] = s[i]
              \/ i = Len(s) + 1 /\ i \notin DOMAIN s /\ Append(s, e)[i] = e
         /\ \A i \in DOMAIN s : i \in DOMAIN Append(s, e) /\ Append(s, e)[i] = s[i] /\ i < Len(s) + 1
         /\ Len(s) + 1 \in DOMAIN Append(s, e) /\ Append(s, e)[Len(s) + 1] = e
BY AppendProperties, LenProperties

\* The empty sequence has no elements.
LEMMA EmptyAt == DOMAIN <<>> = {} /\ \A S : <<>> \in Seq(S)
BY EmptySeq, LenProperties

\* What most steps of the lane keep of a turn, seen from native.
Holds(t, s) ==
  /\ t.asked => s.asked
  /\ t.prompt # "none" => s.prompt # "none"
  /\ s.seen = t.seen
  /\ s.verdict \in {"answer", "aborted"} => t.verdict = s.verdict
Keeps(t, s) == Holds(t, s) /\ s.token = t.token /\ (Aborting(t) => Aborting(s))

\* And of where its run is.
Stands(t, s) ==
  /\ t.pc \in Now <=> s.pc \in Now
  /\ t.pc = "idle" <=> s.pc = "idle"
  /\ t.pc = "done" <=> s.pc = "done"
  /\ t.pc = "done" \/ t.pc = "idle" => s.failed = t.failed
  /\ s.prompt # "none" => t.prompt # "none"

\* Where the runs stand, the sequence of runs does not change.
LEMMA SeqKeeps ==
  ASSUME TypeInv, RunInv, SeqInv, \A x \in Runs : Stands(turn[x], turn'[x]),
         active' = active, lost => lost'
  PROVE  SeqInv'
<1>1. \A r \in Runs : active' = r <=> turn'[r].pc \in Now
  BY DEF SeqInv, Stands
<1>2. \A r \in Runs : turn'[r].pc # "idle" => \A q \in 1 .. r - 1 : turn'[q].pc = "done"
  BY TurnAssumption DEF SeqInv, Stands, Runs
<1>3. \A r \in Runs : turn'[r].prompt # "none" => \A q \in 1 .. r - 1 : ~turn'[q].failed
  <2> SUFFICES ASSUME NEW r \in Runs, turn'[r].prompt # "none", NEW q \in 1 .. r - 1
               PROVE  ~turn'[q].failed
    OBVIOUS
  <2>1. q \in Runs
    BY TurnAssumption DEF Runs
  <2>2. turn[r].prompt # "none"
    BY DEF Stands
  <2>3. turn[r].pc # "idle"
    BY <2>2 DEF RunInv, RunOk, StepInv
  <2>4. turn[q].pc = "done" /\ ~turn[q].failed
    BY <2>2, <2>3 DEF SeqInv
  <2> QED
    BY <2>1, <2>3, <2>4 DEF SeqInv, Stands
<1>4. \A r \in Runs : turn'[r].pc = "done" /\ turn'[r].failed => lost'
  BY DEF SeqInv, Stands
<1> QED
  BY <1>1, <1>2, <1>3, <1>4 DEF SeqInv

\* Native goes on with its prompts.
NatKeeps(n, m) == \A x \in Runs :
  /\ n.phase[x] # "unread" => m.phase[x] # "unread"
  /\ n.phase[x] \notin {"unread", "acked"} => m.phase[x] \notin {"unread", "acked"}
  /\ n.phase[x] = "over" => m.phase[x] = "over"
  /\ n.phase[x] # "unread" => m.nature[x] = n.nature[x]

\* Native does nothing with its prompts.
NatStays(n, m) ==
  m.phase = n.phase /\ m.nature = n.nature /\ m.aborts = n.aborts /\ m.owes = n.owes

\* What is known of a turn and native stays.
LEMMA NatStaysOk ==
  ASSUME NEW n, NEW m, NatStays(n, m)
  PROVE  /\ NatKeeps(n, m)
         /\ \A t : \A r \in Runs : RunOk(t, r, n) => RunOk(t, r, m)
BY DEF NatStays, NatKeeps, RunOk, NatureInv

\* The commands native has not read, if nothing is written.
LEMMA CmdKeeps ==
  ASSUME TypeInv, CmdInv, \A x \in Runs : Holds(turn[x], turn'[x]),
         nat'.phase = nat.phase, cmd' \in {cmd, <<>>}
  PROVE  CmdInv'
<1>1. \A q \in Runs : Works(nat', q) <=> Works(nat, q)
  BY DEF Works
<1>2. \A i \in DOMAIN cmd : cmd[i] # 0 => cmd[i] \in Runs
  BY TurnAssumption DEF TypeInv, Runs
<1>3. CASE cmd' = cmd
  BY <1>1, <1>2, <1>3 DEF CmdInv, Holds
<1>4. CASE cmd' = <<>>
  BY <1>1, <1>4, EmptyAt DEF CmdInv
<1> QED
  BY <1>3, <1>4

\* The preflight reports that are on their way.
LEMMA ReportsKeep ==
  ASSUME TypeInv, ReportsInv, \A x \in Runs : turn'[x].token = turn[x].token,
         NatKeeps(nat, nat'), pre' = pre, wire' = wire
  PROVE  ReportsInv'
<1>1. \A x \in Runs : Reported(turn, nat, x) => Reported(turn', nat', x)
  BY DEF Reported, NatKeeps
<1>2. /\ \A i \in DOMAIN pre : pre[i] \in Runs
      /\ \A i \in DOMAIN wire : wire[i] \in Runs
  BY DEF TypeInv
<1> QED
  BY <1>1, <1>2 DEF ReportsInv

\* A frame is of a run, but for the answer to an abort.
LEMMA FrameRuns ==
  ASSUME NEW f \in FrameType
  PROVE  f.kind # "abort" => f.run \in Runs
BY TurnAssumption DEF FrameType, Runs

\* A frame that was true stays true.
LEMMA FrameKeeps ==
  ASSUME NEW f \in FrameType, FrameOk(turn, nat, f),
         \A x \in Runs : Holds(turn[x], turn'[x]), NatKeeps(nat, nat')
  PROVE  FrameOk(turn', nat', f)
<1>1. CASE f.kind = "abort"
  BY <1>1 DEF FrameOk
<1>2. CASE f.kind # "abort"
  <2>1. f.run \in Runs
    BY <1>2, FrameRuns
  <2>2. Holds(turn[f.run], turn'[f.run])
    BY <2>1
  <2> QED
    BY <1>2, <2>1, <2>2 DEF FrameOk, Holds, NatKeeps
<1> QED
  BY <1>1, <1>2

\* What native has said, when it says nothing.
LEMMA FramesKeep ==
  ASSUME TypeInv, FrameInv, \A x \in Runs : Holds(turn[x], turn'[x]), NatKeeps(nat, nat'),
         out' = out \/ out' = <<>> \/ (out # <<>> /\ out' = Tail(out))
  PROVE  FrameInv'
<1>1. \A f \in FrameType : FrameOk(turn, nat, f) => FrameOk(turn', nat', f)
  BY FrameKeeps
<1>2. \A i \in DOMAIN out : out[i] \in FrameType
  BY DEF TypeInv
<1>3. CASE out' = out
  BY <1>1, <1>2, <1>3 DEF FrameInv
<1>4. CASE out' = <<>>
  BY <1>4, EmptyAt DEF FrameInv
<1>5. CASE out # <<>> /\ out' = Tail(out)
  <2>1. \A i \in DOMAIN out' : i \in Nat /\ i + 1 \in DOMAIN out /\ out'[i] = out[i + 1]
    BY <1>5, TailAt DEF TypeInv
  <2>2. \A i \in DOMAIN out' : FrameOk(turn', nat', out'[i])
    BY <1>1, <1>2, <2>1 DEF FrameInv
  <2>3. ASSUME NEW i \in DOMAIN out', NEW j \in DOMAIN out', i < j
        PROVE  Follows(out'[i], out'[j])
    <3>1. i + 1 < j + 1
      BY <2>1, <2>3
    <3> QED
      BY <2>1, <3>1 DEF FrameInv
  <2> QED
    BY <2>2, <2>3 DEF FrameInv
<1> QED
  BY <1>3, <1>4, <1>5

\* The abort on its way.
LEMMA AbortsLast ==
  ASSUME TypeInv, AbortInv, \A x \in Runs : turn[x].asked => turn'[x].asked,
         \A x \in Runs : Aborting(turn[x]) => Aborting(turn'[x]),
         nat'.owes = nat.owes,
         nat'.aborts => nat.aborts /\ \A x \in Runs : Working(nat, x) => Working(nat', x),
         AbortWritten' => AbortWritten,
         out' = out \/ out' = <<>> \/ (out # <<>> /\ out' = Tail(out))
  PROVE  AbortInv'
<1>1. AbortWritten' => AbortWritten
  OBVIOUS
<1>2. AbortAnswered' => AbortAnswered
  <2>1. CASE out' = out
    BY <2>1 DEF AbortAnswered
  <2>2. CASE out' = <<>>
    BY <2>2, EmptyAt DEF AbortAnswered
  <2>3. CASE out # <<>> /\ out' = Tail(out)
    BY <2>3, TailAt DEF AbortAnswered, TypeInv
  <2> QED
    BY <2>1, <2>2, <2>3
<1>3. \A i, j \in DOMAIN out' : out'[i].kind = "abort" /\ out'[j].kind = "abort" => i = j
  <2>1. CASE out' = out
    BY <2>1 DEF AbortInv
  <2>2. CASE out' = <<>>
    BY <2>2, EmptyAt
  <2>3. CASE out # <<>> /\ out' = Tail(out)
    <3>1. \A i \in DOMAIN out' : i \in Nat /\ i + 1 \in DOMAIN out /\ out'[i] = out[i + 1]
      BY <2>3, TailAt DEF TypeInv
    <3>2. SUFFICES ASSUME NEW i \in DOMAIN out', NEW j \in DOMAIN out',
                          out'[i].kind = "abort", out'[j].kind = "abort"
                   PROVE  i = j
      OBVIOUS
    <3>3. i + 1 = j + 1
      BY <3>1, <3>2 DEF AbortInv
    <3> QED
      BY <3>1, <3>3
  <2> QED
    BY <2>1, <2>2, <2>3
<1>4. AbortWritten \/ AbortAnswered \/ nat.owes => \E q \in Runs : Aborting(turn'[q])
  BY DEF AbortInv
<1>5. nat'.aborts => \E q \in Runs : Working(nat', q) /\ turn'[q].asked
  BY DEF AbortInv
<1> QED
  BY <1>1, <1>2, <1>3, <1>4, <1>5 DEF AbortInv

\* And for a step that holds every turn.
LEMMA AbortsKeep ==
  ASSUME TypeInv, AbortInv, \A x \in Runs : Holds(turn[x], turn'[x]),
         \A x \in Runs : Aborting(turn[x]) => Aborting(turn'[x]),
         nat'.owes = nat.owes,
         nat'.aborts => nat.aborts /\ \A x \in Runs : Working(nat, x) => Working(nat', x),
         AbortWritten' => AbortWritten,
         out' = out \/ out' = <<>> \/ (out # <<>> /\ out' = Tail(out))
  PROVE  AbortInv'
BY AbortsLast DEF Holds

\* A step of the lane of which native hears a command at most.
LEMMA LaneHolds ==
  ASSUME IInv, TypeInv', SeqInv', CmdInv', AbortInv',
         \A x \in Runs : Keeps(turn[x], turn'[x]),
         \A x \in Runs : RunOk(turn'[x], x, nat),
         \A x \in Runs : intr'[x] # "none" => turn'[x].asked,
         NatStays(nat, nat'), wire' = wire, pre' = pre,
         out' = out \/ out' = <<>> \/ (out # <<>> /\ out' = Tail(out))
  PROVE  IInv'
<1>1. NatKeeps(nat, nat')
  BY NatStaysOk
<1>2. RunInv'
  BY NatStaysOk DEF RunInv
<1>3. ReportsInv'
  BY <1>1, ReportsKeep DEF IInv, Keeps, Holds
<1>4. FrameInv'
  BY <1>1, FramesKeep DEF IInv, Keeps
<1> QED
  BY <1>2, <1>3, <1>4 DEF IInv

\* A step of the lane that writes no command, and leaves the runs where they stand.
LEMMA LaneKeeps ==
  ASSUME IInv, TypeInv', \A x \in Runs : Keeps(turn[x], turn'[x]) /\ Stands(turn[x], turn'[x]),
         \A x \in Runs : RunOk(turn'[x], x, nat),
         \A x \in Runs : intr'[x] # "none" => turn'[x].asked,
         active' = active, lost => lost', NatStays(nat, nat'), wire' = wire, pre' = pre,
         cmd' \in {cmd, <<>>},
         out' = out \/ out' = <<>> \/ (out # <<>> /\ out' = Tail(out))
  PROVE  IInv'
<1>1. SeqInv'
  BY SeqKeeps DEF IInv
<1>2. CmdInv'
  BY CmdKeeps DEF IInv, NatStays, Keeps
<1>3. AbortWritten' => AbortWritten
  BY EmptyAt DEF AbortWritten
<1>4. AbortInv'
  BY <1>3, AbortsKeep DEF IInv, NatStays, Working, Keeps
<1> QED
  BY <1>1, <1>2, <1>4, LaneHolds

-----------------------------------------------------------------------------
(* The steps of a run.                                                     *)

\* s differs from t in no field but those of F.
Same(t, s, F) ==
  /\ "pc" \in F \/ s.pc = t.pc
  /\ "ctx" \in F \/ s.ctx = t.ctx
  /\ "asked" \in F \/ s.asked = t.asked
  /\ "failed" \in F \/ s.failed = t.failed
  /\ "canceled" \in F \/ s.canceled = t.canceled
  /\ "submitted" \in F \/ s.submitted = t.submitted
  /\ "token" \in F \/ s.token = t.token
  /\ "starts" \in F \/ s.starts = t.starts
  /\ "said" \in F \/ s.said = t.said
  /\ "seen" \in F \/ s.seen = t.seen
  /\ "verdict" \in F \/ s.verdict = t.verdict
  /\ "retired" \in F \/ s.retired = t.retired
  /\ "uiClosed" \in F \/ s.uiClosed = t.uiClosed
  /\ "ui" \in F \/ s.ui = t.ui
  /\ "abort" \in F \/ s.abort = t.abort
  /\ "prompt" \in F \/ s.prompt = t.prompt
  /\ "response" \in F \/ s.response = t.response
  /\ "admitted" \in F \/ s.admitted = t.admitted
  /\ "receipt" \in F \/ s.receipt = t.receipt
  /\ "result" \in F \/ s.result = t.result

\* A record of a turn in which a run's step leaves the run where it stands.
Moves(r, t, s) == s \in TurnType /\ Keeps(t, s) /\ Stands(t, s) /\ RunOk(s, r, nat)

\* A step of a run that only changes its turn.
LEMMA OneKeeps ==
  ASSUME IInv, NEW r \in Runs, NEW s, Moves(r, turn[r], s), turn' = [turn EXCEPT ![r] = s],
         Elsewhere, UNCHANGED <<active, lost, pre>>
  PROVE  IInv'
<1>1. turn \in [Runs -> TurnType] /\ \A x \in Runs : turn'[x] = IF x = r THEN s ELSE turn[x]
  BY DEF IInv, TypeInv
<1>2. turn' \in [Runs -> TurnType]
  BY <1>1 DEF Moves
<1>3. TypeInv'
  BY <1>2 DEF IInv, TypeInv, Elsewhere
<1>4. \A x \in Runs : Keeps(turn[x], turn'[x]) /\ Stands(turn[x], turn'[x])
  BY <1>1 DEF Moves, Keeps, Holds, Stands
<1>5. \A x \in Runs : RunOk(turn'[x], x, nat)
  BY <1>1 DEF Moves, IInv, RunInv
<1>6. \A x \in Runs : intr'[x] # "none" => turn'[x].asked
  BY <1>1, <1>4 DEF IInv, RunInv, Elsewhere, Keeps, Holds
<1> QED
  BY <1>3, <1>4, <1>5, <1>6, LaneKeeps DEF Elsewhere, NatStays

\* A step of a run that takes it elsewhere.
LEMMA OneHolds ==
  ASSUME IInv, NEW r \in Runs, NEW s \in TurnType, Keeps(turn[r], s), RunOk(s, r, nat),
         turn' = [turn EXCEPT ![r] = s], active' \in 0 .. MaxRuns, lost' \in BOOLEAN, SeqInv',
         Elsewhere, pre' = pre
  PROVE  IInv'
<1>1. turn \in [Runs -> TurnType] /\ \A x \in Runs : turn'[x] = IF x = r THEN s ELSE turn[x]
  BY DEF IInv, TypeInv
<1>2. turn' \in [Runs -> TurnType]
  BY <1>1
<1>3. TypeInv'
  BY <1>2 DEF IInv, TypeInv, Elsewhere
<1>4. \A x \in Runs : Keeps(turn[x], turn'[x])
  BY <1>1 DEF Keeps, Holds
<1>5. \A x \in Runs : RunOk(turn'[x], x, nat)
  BY <1>1 DEF IInv, RunInv
<1>6. \A x \in Runs : intr'[x] # "none" => turn'[x].asked
  BY <1>1, <1>4 DEF IInv, RunInv, Elsewhere, Keeps, Holds
<1>7. CmdInv'
  BY <1>4, CmdKeeps DEF IInv, Elsewhere, Keeps
<1>8. AbortWritten' => AbortWritten
  BY DEF AbortWritten, Elsewhere
<1>9. AbortInv'
  BY <1>4, <1>8, AbortsKeep DEF IInv, Elsewhere, Keeps
<1> QED
  BY <1>3, <1>4, <1>5, <1>6, <1>7, <1>9, LaneHolds DEF Elsewhere, NatStays

\* What is known of a turn.
LEMMA TurnIs ==
  ASSUME IInv, NEW r \in Runs
  PROVE  turn[r] \in TurnType /\ RunOk(turn[r], r, nat)
BY DEF IInv, TypeInv, RunInv

\* A run that is interrupted before its turn begins has submitted nothing.
LEMMA HandoffInterruptedKeeps ==
  ASSUME IInv, NEW r \in Runs, HandoffInterrupted(r)
  PROVE  IInv'
<1> DEFINE t == turn[r]
           s == [[Report(t, "not_submitted") EXCEPT !.result = "interrupted"] EXCEPT !.pc = "post"]
<1>1. t \in TurnType /\ RunOk(t, r, nat) /\ t.pc = "run"
  BY TurnIs DEF HandoffInterrupted
<1>2. turn' = [turn EXCEPT ![r] = s]
  BY DEF HandoffInterrupted, Goes
<1>3. s = [t EXCEPT !.receipt = "not_submitted", !.result = "interrupted", !.pc = "post"]
  BY <1>1 DEF Report, TurnType, RunOk, ReportInv
<1> HIDE DEF s
<1>4. Moves(r, t, s)
  BY ZenonT(60), <1>1, <1>3 DEF Moves, TurnType, Keeps, Holds, Stands, RunOk, StepInv, ReportInv, OwnInv, NatureInv,
     Ready, NoAgent, Admitted, Clear, Fresh, Now, Past, Waits, Ends, Aborting
<1> QED
  BY <1>2, <1>4, OneKeeps DEF HandoffInterrupted

\* The admission loop leaves.
LEMMA AdmitLeavesKeeps ==
  ASSUME IInv, NEW r \in Runs, AdmitLeaves(r)
  PROVE  IInv'
<1> DEFINE t == turn[r]
<1>1. t \in TurnType /\ RunOk(t, r, nat) /\ t.pc = "admit"
  BY TurnIs DEF AdmitLeaves
<1>2. PICK s : /\ turn' = [turn EXCEPT ![r] = s]
               /\ s = [t EXCEPT !.pc = "wait"] /\ (t.failed \/ Admitted(t) \/ NoAgent(t))
  BY DEF AdmitLeaves, Goes
<1>3. ASSUME s = [t EXCEPT !.pc = "wait"] /\ (t.failed \/ Admitted(t) \/ NoAgent(t))
      PROVE  Moves(r, t, s)
  <2>1. s \in TurnType /\ Same(t, s, {"pc"}) /\ s.pc = "wait"
    BY <1>1, <1>3 DEF TurnType, Same
  <2> QED
    BY <1>1, <1>3, <2>1
       DEF Same, Moves, TurnType, Keeps, Holds, Stands, RunOk, StepInv, ReportInv, OwnInv,
       NatureInv, Ready, NoAgent, Admitted, Clear, Fresh, Now, Past, Waits, Ends, Aborting
<1>4. Moves(r, t, s)
  BY <1>2, <1>3
<1> QED
  BY <1>2, <1>4, OneKeeps DEF AdmitLeaves

\* The admission fails.
LEMMA AdmitFailsKeeps ==
  ASSUME IInv, NEW r \in Runs, AdmitFails(r)
  PROVE  IInv'
<1> DEFINE t == turn[r]
<1>1. t \in TurnType /\ RunOk(t, r, nat) /\ t.pc = "admit"
  BY TurnIs DEF AdmitFails
<1>2. PICK s : /\ turn' = [turn EXCEPT ![r] = s]
               /\ \/ s = [Failed(Released(t)) EXCEPT !.pc = "wait"]
                  \/ s = [CtxFailed(t) EXCEPT !.pc = "wait"]
                  \/ s = [Failed(t) EXCEPT !.pc = "wait"]
  BY DEF AdmitFails, Goes
<1>3. ASSUME s = [Failed(Released(t)) EXCEPT !.pc = "wait"]
      PROVE  Moves(r, t, s)
  <2>1. /\ s \in TurnType /\ Same(t, s, {"pc", "failed", "prompt"})
        /\ s.pc = "wait" /\ s.failed = TRUE /\ s.prompt = "over"
    BY ZenonT(60), <1>1, <1>3 DEF Failed, Released, TurnType, Same
  <2> QED
    BY <1>1, <1>3, <2>1
       DEF Same, Moves, TurnType, Keeps, Holds, Stands, RunOk, StepInv, ReportInv, OwnInv,
       NatureInv, Ready, NoAgent, Admitted, Clear, Fresh, Now, Past, Waits, Ends, Aborting
<1>4. ASSUME s = [CtxFailed(t) EXCEPT !.pc = "wait"]
      PROVE  Moves(r, t, s)
  <2>1. /\ s \in TurnType /\ Same(t, s, {"pc", "failed", "canceled"})
        /\ s.pc = "wait" /\ s.failed = TRUE
    BY ZenonT(60), <1>1, <1>4 DEF Failed, CtxFailed, TurnType, Same
  <2> QED
    BY <1>1, <1>4, <2>1
       DEF Same, Moves, TurnType, Keeps, Holds, Stands, RunOk, StepInv, ReportInv, OwnInv,
       NatureInv, Ready, NoAgent, Admitted, Clear, Fresh, Now, Past, Waits, Ends, Aborting
<1>5. ASSUME s = [Failed(t) EXCEPT !.pc = "wait"]
      PROVE  Moves(r, t, s)
  <2>1. s \in TurnType /\ Same(t, s, {"pc", "failed"}) /\ s.pc = "wait" /\ s.failed = TRUE
    BY <1>1, <1>5 DEF Failed, TurnType, Same
  <2> QED
    BY <1>1, <1>5, <2>1
       DEF Same, Moves, TurnType, Keeps, Holds, Stands, RunOk, StepInv, ReportInv, OwnInv,
       NatureInv, Ready, NoAgent, Admitted, Clear, Fresh, Now, Past, Waits, Ends, Aborting
<1>6. Moves(r, t, s)
  BY <1>2, <1>3, <1>4, <1>5
<1> QED
  BY <1>2, <1>6, OneKeeps DEF AdmitFails

\* The wait for the terminal ends.
LEMMA CompleteKeeps ==
  ASSUME IInv, NEW r \in Runs, Complete(r)
  PROVE  IInv'
<1> DEFINE t == turn[r]
<1>1. t \in TurnType /\ RunOk(t, r, nat) /\ t.pc = "complete"
  BY TurnIs DEF Complete
<1>2. PICK s : /\ turn' = [turn EXCEPT ![r] = s]
               /\ \/ s = [t EXCEPT !.pc = "finish"] /\ (t.failed \/ Ready(t))
                  \/ s = [Failed(Released(t)) EXCEPT !.pc = "finish"]
                  \/ s = [CtxFailed(t) EXCEPT !.pc = "finish"]
                  \/ s = [Failed(t) EXCEPT !.pc = "finish"]
  BY DEF Complete, Goes, Completed
<1>3. ASSUME s = [t EXCEPT !.pc = "finish"] /\ (t.failed \/ Ready(t))
      PROVE  Moves(r, t, s)
  <2>1. s \in TurnType /\ Same(t, s, {"pc"}) /\ s.pc = "finish"
    BY <1>1, <1>3 DEF TurnType, Same
  <2> QED
    BY <1>1, <1>3, <2>1
       DEF Same, Moves, TurnType, Keeps, Holds, Stands, RunOk, StepInv, ReportInv, OwnInv,
       NatureInv, Ready, NoAgent, Admitted, Clear, Fresh, Now, Past, Waits, Ends, Aborting
<1>4. ASSUME s = [Failed(Released(t)) EXCEPT !.pc = "finish"]
      PROVE  Moves(r, t, s)
  <2>1. /\ s \in TurnType /\ Same(t, s, {"pc", "failed", "prompt"})
        /\ s.pc = "finish" /\ s.failed = TRUE /\ s.prompt = "over"
    BY ZenonT(60), <1>1, <1>4 DEF Failed, Released, TurnType, Same
  <2> QED
    BY <1>1, <1>4, <2>1
       DEF Same, Moves, TurnType, Keeps, Holds, Stands, RunOk, StepInv, ReportInv, OwnInv,
       NatureInv, Ready, NoAgent, Admitted, Clear, Fresh, Now, Past, Waits, Ends, Aborting
<1>5. ASSUME s = [CtxFailed(t) EXCEPT !.pc = "finish"]
      PROVE  Moves(r, t, s)
  <2>1. /\ s \in TurnType /\ Same(t, s, {"pc", "failed", "canceled"})
        /\ s.pc = "finish" /\ s.failed = TRUE
    BY ZenonT(60), <1>1, <1>5 DEF Failed, CtxFailed, TurnType, Same
  <2> QED
    BY <1>1, <1>5, <2>1
       DEF Same, Moves, TurnType, Keeps, Holds, Stands, RunOk, StepInv, ReportInv, OwnInv,
       NatureInv, Ready, NoAgent, Admitted, Clear, Fresh, Now, Past, Waits, Ends, Aborting
<1>6. ASSUME s = [Failed(t) EXCEPT !.pc = "finish"]
      PROVE  Moves(r, t, s)
  <2>1. s \in TurnType /\ Same(t, s, {"pc", "failed"}) /\ s.pc = "finish" /\ s.failed = TRUE
    BY <1>1, <1>6 DEF Failed, TurnType, Same
  <2> QED
    BY <1>1, <1>6, <2>1
       DEF Same, Moves, TurnType, Keeps, Holds, Stands, RunOk, StepInv, ReportInv, OwnInv,
       NatureInv, Ready, NoAgent, Admitted, Clear, Fresh, Now, Past, Waits, Ends, Aborting
<1>7. Moves(r, t, s)
  BY <1>2, <1>3, <1>4, <1>5, <1>6
<1> QED
  BY <1>2, <1>7, OneKeeps DEF Complete

\* The abort's caller returns.
LEMMA AbortReturnsKeeps ==
  ASSUME IInv, NEW r \in Runs, AbortReturns(r)
  PROVE  IInv'
<1> DEFINE t == turn[r]
<1>1. t \in TurnType /\ RunOk(t, r, nat) /\ t.pc = "aborting"
  BY TurnIs DEF AbortReturns
<1>2. PICK s : /\ turn' = [turn EXCEPT ![r] = s]
               /\ \/ s = [t EXCEPT !.pc = "complete"]
                  \/ s = [[t EXCEPT !.abort = "failed"] EXCEPT !.pc = "complete"] /\ (t.abort = "sent")
  BY DEF AbortReturns, Goes
<1>3. ASSUME s = [t EXCEPT !.pc = "complete"]
      PROVE  Moves(r, t, s)
  <2>1. s \in TurnType /\ Same(t, s, {"pc"}) /\ s.pc = "complete"
    BY <1>1, <1>3 DEF TurnType, Same
  <2> QED
    BY <1>1, <1>3, <2>1
       DEF Same, Moves, TurnType, Keeps, Holds, Stands, RunOk, StepInv, ReportInv, OwnInv,
       NatureInv, Ready, NoAgent, Admitted, Clear, Fresh, Now, Past, Waits, Ends, Aborting
<1>4. ASSUME s = [[t EXCEPT !.abort = "failed"] EXCEPT !.pc = "complete"] /\ (t.abort = "sent")
      PROVE  Moves(r, t, s)
  <2>1. s \in TurnType /\ Same(t, s, {"pc", "abort"}) /\ s.pc = "complete" /\ s.abort = "failed"
    BY <1>1, <1>4 DEF TurnType, Same
  <2> QED
    BY <1>1, <1>4, <2>1
       DEF Same, Moves, TurnType, Keeps, Holds, Stands, RunOk, StepInv, ReportInv, OwnInv,
       NatureInv, Ready, NoAgent, Admitted, Clear, Fresh, Now, Past, Waits, Ends, Aborting
<1>5. Moves(r, t, s)
  BY <1>2, <1>3, <1>4
<1> QED
  BY <1>2, <1>5, OneKeeps DEF AbortReturns

\* The prompt is finished.
LEMMA FinishKeeps ==
  ASSUME IInv, NEW r \in Runs, Finish(r)
  PROVE  IInv'
<1> DEFINE t == turn[r]
<1>1. t \in TurnType /\ RunOk(t, r, nat) /\ t.pc = "finish"
  BY TurnIs DEF Finish
<1>2. PICK s : /\ turn' = [turn EXCEPT ![r] = s]
               /\ \/ s = [[Failed(Released(t)) EXCEPT !.uiClosed = TRUE] EXCEPT !.pc = "join"]
                  \/ s = [[Released(t) EXCEPT !.uiClosed = TRUE] EXCEPT !.pc = "join"]
  BY DEF Finish, Goes, FinishPrompt
<1>3. ASSUME s = [[Failed(Released(t)) EXCEPT !.uiClosed = TRUE] EXCEPT !.pc = "join"]
      PROVE  Moves(r, t, s)
  <2>1. /\ s \in TurnType /\ Same(t, s, {"pc", "uiClosed", "prompt", "failed"})
        /\ s.pc = "join" /\ s.uiClosed = TRUE /\ s.prompt = "over" /\ s.failed = TRUE
    BY ZenonT(60), <1>1, <1>3 DEF Failed, Released, TurnType, Same
  <2> QED
    BY <1>1, <1>3, <2>1
       DEF Same, Moves, TurnType, Keeps, Holds, Stands, RunOk, StepInv, ReportInv, OwnInv,
       NatureInv, Ready, NoAgent, Admitted, Clear, Fresh, Now, Past, Waits, Ends, Aborting
<1>4. ASSUME s = [[Released(t) EXCEPT !.uiClosed = TRUE] EXCEPT !.pc = "join"]
      PROVE  Moves(r, t, s)
  <2>1. /\ s \in TurnType /\ Same(t, s, {"pc", "uiClosed", "prompt"})
        /\ s.pc = "join" /\ s.uiClosed = TRUE /\ s.prompt = "over"
    BY ZenonT(60), <1>1, <1>4 DEF Released, TurnType, Same
  <2> QED
    BY <1>1, <1>4, <2>1
       DEF Same, Moves, TurnType, Keeps, Holds, Stands, RunOk, StepInv, ReportInv, OwnInv,
       NatureInv, Ready, NoAgent, Admitted, Clear, Fresh, Now, Past, Waits, Ends, Aborting
<1>5. Moves(r, t, s)
  BY <1>2, <1>3, <1>4
<1> QED
  BY <1>2, <1>5, OneKeeps DEF Finish

\* The turn is joined.
LEMMA JoinKeeps ==
  ASSUME IInv, NEW r \in Runs, Join(r)
  PROVE  IInv'
<1> DEFINE t == turn[r]
<1>1. t \in TurnType /\ RunOk(t, r, nat) /\ t.pc = "join"
  BY TurnIs DEF Join
<1>2. PICK s : /\ turn' = [turn EXCEPT ![r] = s]
               /\ s = [t EXCEPT !.pc = "snapshot"] /\ (t.ui # "pending" /\ t.abort # "sent")
  BY DEF Join, Goes, Joined
<1>3. ASSUME s = [t EXCEPT !.pc = "snapshot"] /\ (t.ui # "pending" /\ t.abort # "sent")
      PROVE  Moves(r, t, s)
  <2>1. s \in TurnType /\ Same(t, s, {"pc"}) /\ s.pc = "snapshot"
    BY <1>1, <1>3 DEF TurnType, Same
  <2> QED
    BY <1>1, <1>3, <2>1
       DEF Same, Moves, TurnType, Keeps, Holds, Stands, RunOk, StepInv, ReportInv, OwnInv,
       NatureInv, Ready, NoAgent, Admitted, Clear, Fresh, Now, Past, Waits, Ends, Aborting
<1>4. Moves(r, t, s)
  BY <1>2, <1>3
<1> QED
  BY <1>2, <1>4, OneKeeps DEF Join

\* The run's context ends.
LEMMA CtxEndsKeeps ==
  ASSUME IInv, NEW r \in Runs, CtxEnds(r)
  PROVE  IInv'
<1> DEFINE t == turn[r]
<1>1. t \in TurnType /\ RunOk(t, r, nat)
  BY TurnIs DEF CtxEnds
<1>2. PICK s : /\ turn' = [turn EXCEPT ![r] = s]
               /\ s = [t EXCEPT !.ctx = "ended"]
  BY DEF CtxEnds, Goes
<1>3. ASSUME s = [t EXCEPT !.ctx = "ended"]
      PROVE  Moves(r, t, s)
  <2>1. s \in TurnType /\ Same(t, s, {"ctx"}) /\ s.ctx = "ended"
    BY <1>1, <1>3 DEF TurnType, Same
  <2> QED
    BY <1>1, <1>3, <2>1
       DEF Same, Moves, TurnType, Keeps, Holds, Stands, RunOk, StepInv, ReportInv, OwnInv,
       NatureInv, Ready, NoAgent, Admitted, Clear, Fresh, Now, Past, Waits, Ends, Aborting
<1>4. Moves(r, t, s)
  BY <1>2, <1>3
<1> QED
  BY <1>2, <1>4, OneKeeps DEF CtxEnds

\* The dialog's cancellation settles.
LEMMA UiSettlesKeeps ==
  ASSUME IInv, NEW r \in Runs, UiSettles(r)
  PROVE  IInv'
<1> DEFINE t == turn[r]
<1>1. t \in TurnType /\ RunOk(t, r, nat) /\ t.ui = "pending"
  BY TurnIs DEF UiSettles
<1>2. PICK s : /\ turn' = [turn EXCEPT ![r] = s]
               /\ \/ s = [[t EXCEPT !.ui = "over"] EXCEPT !.pc = t.pc]
                  \/ s = [CtxFailed([t EXCEPT !.ui = "over"]) EXCEPT !.pc = t.pc]
  BY DEF UiSettles, Goes
<1>3. ASSUME s = [[t EXCEPT !.ui = "over"] EXCEPT !.pc = t.pc]
      PROVE  Moves(r, t, s)
  <2>1. s \in TurnType /\ Same(t, s, {"ui"}) /\ s.ui = "over"
    BY ZenonT(60), <1>1, <1>3 DEF TurnType, Same
  <2> QED
    BY <1>1, <1>3, <2>1
       DEF Same, Moves, TurnType, Keeps, Holds, Stands, RunOk, StepInv, ReportInv, OwnInv,
       NatureInv, Ready, NoAgent, Admitted, Clear, Fresh, Now, Past, Waits, Ends, Aborting
<1>4. ASSUME s = [CtxFailed([t EXCEPT !.ui = "over"]) EXCEPT !.pc = t.pc]
      PROVE  Moves(r, t, s)
  <2>1. /\ s \in TurnType /\ Same(t, s, {"ui", "failed", "canceled"})
        /\ s.ui = "over" /\ s.failed = TRUE
    <3>1. PICK u \in TurnType : u = [t EXCEPT !.ui = "over"]
      BY <1>1 DEF TurnType
    <3>2. Same(t, u, {"ui"}) /\ u.ui = "over"
      BY <1>1, <3>1 DEF TurnType, Same
    <3>3. s = [CtxFailed(u) EXCEPT !.pc = u.pc]
      BY <1>4, <3>1, <3>2 DEF Same
    <3>8. u \in TurnType
      BY <3>1
    <3> DEFINE w == CtxFailed(u)
    <3>4. /\ w \in TurnType /\ Same(u, w, {"failed", "canceled"})
           /\ w.failed = TRUE
      BY ZenonT(60), <3>8 DEF Failed, CtxFailed, TurnType, Same
    <3>5. PICK v : v = w
      OBVIOUS
    <3>6. s = [v EXCEPT !.pc = v.pc]
      BY <3>3, <3>4, <3>5 DEF Same
    <3>7. s \in TurnType /\ Same(v, s, {})
      BY <3>4, <3>5, <3>6 DEF TurnType, Same
    <3> QED
      BY <3>1, <3>2, <3>4, <3>5, <3>7 DEF Same, TurnType
  <2> QED
    BY SMTT(30), <1>1, <1>4, <2>1
       DEF Same, Moves, TurnType, Keeps, Holds, Stands, RunOk, StepInv, ReportInv, OwnInv,
       NatureInv, Ready, NoAgent, Admitted, Clear, Fresh, Now, Past, Waits, Ends, Aborting
<1>5. Moves(r, t, s)
  BY <1>2, <1>3, <1>4
<1> QED
  BY <1>2, <1>5, OneKeeps DEF UiSettles

\* The response, and the verdict it may carry.
LEMMA ResponseKeeps ==
  ASSUME IInv, NEW r \in Runs, Response(r)
  PROVE  IInv'
<1> DEFINE t == turn[r]
           g == [t EXCEPT !.submitted = TRUE, !.prompt = IF @ = "waiting" THEN "held" ELSE @]
<1>1. t \in TurnType /\ RunOk(t, r, nat) /\ t.pc = "response" /\ t.response # "none"
  BY TurnIs DEF Response
<1>2. PICK h : h = g
  OBVIOUS
<1>3. h \in TurnType /\ Same(t, h, {"submitted", "prompt"}) /\ h.submitted = TRUE /\ h.prompt # "none"
  <2>1. PICK p \in {"none", "waiting", "held", "late", "lost", "abandoned", "over"} :
          p = IF t.prompt = "waiting" THEN "held" ELSE t.prompt
    BY <1>1 DEF TurnType
  <2>2. h = [t EXCEPT !.submitted = TRUE, !.prompt = p]
    BY <1>2, <2>1
  <2>3. p # "none"
    BY <1>1, <2>1 DEF RunOk, StepInv, Now
  <2> QED
    BY ZenonT(60), <1>1, <2>2, <2>3 DEF TurnType, Same
<1>4. PICK s : s = IF HasNative(h) /\ t.seen \notin {0, r} THEN Failed(h) ELSE h
  OBVIOUS
<1>5. /\ s \in TurnType /\ Same(h, s, {"failed"})
      /\ t.response \in {"ok", "noagent"} /\ ~s.failed => t.seen \in {0, r} /\ ~t.failed
      /\ t.failed => s.failed
  <2>1. CASE HasNative(h) /\ t.seen \notin {0, r}
    <3>1. s = Failed(h)
      BY <1>4, <2>1
    <3>2. s \in TurnType /\ Same(h, s, {"failed"}) /\ s.failed = TRUE
      BY <1>3, <3>1 DEF Failed, TurnType, Same
    <3> QED
      BY <3>2
  <2>2. CASE ~(HasNative(h) /\ t.seen \notin {0, r})
    BY <1>3, <1>4, <2>2 DEF HasNative, Same
  <2> QED
    BY <2>1, <2>2
<1>6. PICK u : /\ turn' = [turn EXCEPT ![r] = u]
               /\ \/ t.response = "ok" /\ u = [s EXCEPT !.pc = "admit"]
                  \/ /\ t.response = "noagent" /\ s.failed
                     /\ u = [s EXCEPT !.pc = "wait"]
                  \/ t.response = "noagent" /\ u = [Failed(s) EXCEPT !.pc = "wait"]
                  \/ /\ t.response = "noagent" /\ ~s.failed /\ s.starts = 0 /\ s.token = 0
                     /\ u = [Settled(s, "noagent") EXCEPT !.pc = "wait"]
                  \/ /\ t.response \notin {"ok", "noagent"}
                     /\ u = [Failed([s EXCEPT !.prompt = "over"]) EXCEPT !.pc = "wait"]
  <2> HIDE DEF g
  <2>1. CASE t.response = "ok"
    BY <1>2, <1>4, <2>1 DEF Response, Goes, g
  <2>2. CASE t.response = "noagent"
    <3>1. turn' = [turn EXCEPT ![r] =
                    [CASE s.failed -> s
                       [] ~s.failed /\ (t.starts # 0 \/ t.token # 0) -> Failed(s)
                       [] OTHER -> Settled(s, "noagent") EXCEPT !.pc = "wait"]]
      BY <1>2, <1>4, <2>2 DEF Response, Goes, g
    <3>2. s.starts = t.starts /\ s.token = t.token
      BY <1>3, <1>5 DEF Same
    <3>3. CASE s.failed
      BY <2>2, <3>1, <3>3
    <3>4. CASE ~s.failed /\ (t.starts # 0 \/ t.token # 0)
      BY <2>2, <3>1, <3>4
    <3>5. CASE ~s.failed /\ ~(t.starts # 0 \/ t.token # 0)
      BY <2>2, <3>1, <3>2, <3>5
    <3> QED
      BY <3>3, <3>4, <3>5
  <2>3. CASE t.response \notin {"ok", "noagent"}
    BY <1>2, <1>4, <2>3 DEF Response, Goes, g
  <2> QED
    BY <2>1, <2>2, <2>3
<1> HIDE DEF g
<1>7. Same(t, s, {"submitted", "prompt", "failed"}) /\ s.submitted = TRUE /\ s.prompt # "none"
  BY <1>3, <1>5 DEF Same
<1>8. ASSUME t.response = "ok", u = [s EXCEPT !.pc = "admit"]
       PROVE  Moves(r, t, u)
  <2>1. u \in TurnType /\ Same(s, u, {"pc"}) /\ u.pc = "admit"
    BY <1>5, <1>8 DEF TurnType, Same
  <2> QED
    BY <1>1, <1>5, <1>7, <1>8, <2>1
       DEF Same, Moves, TurnType, Keeps, Holds, Stands, RunOk, StepInv, ReportInv, OwnInv, NatureInv,
       Ready, NoAgent, Admitted, Clear, Fresh, Now, Past, Waits, Ends, Aborting
<1>9. ASSUME t.response = "noagent", s.failed, u = [s EXCEPT !.pc = "wait"]
       PROVE  Moves(r, t, u)
  <2>1. u \in TurnType /\ Same(s, u, {"pc"}) /\ u.pc = "wait"
    BY ZenonT(60), <1>5, <1>9 DEF TurnType, Same
  <2> QED
    BY <1>1, <1>5, <1>7, <1>9, <2>1
       DEF Same, Moves, TurnType, Keeps, Holds, Stands, RunOk, StepInv, ReportInv, OwnInv, NatureInv,
       Ready, NoAgent, Admitted, Clear, Fresh, Now, Past, Waits, Ends, Aborting
<1>10. ASSUME t.response = "noagent", u = [Failed(s) EXCEPT !.pc = "wait"]
       PROVE  Moves(r, t, u)
  <2>1. u \in TurnType /\ Same(s, u, {"pc", "failed"}) /\ u.pc = "wait" /\ u.failed = TRUE
    BY ZenonT(60), <1>5, <1>10 DEF Failed, TurnType, Same
  <2> QED
    BY <1>1, <1>5, <1>7, <1>10, <2>1
       DEF Same, Moves, TurnType, Keeps, Holds, Stands, RunOk, StepInv, ReportInv, OwnInv, NatureInv,
       Ready, NoAgent, Admitted, Clear, Fresh, Now, Past, Waits, Ends, Aborting
<1>11. ASSUME t.response = "noagent", ~s.failed, s.starts = 0, s.token = 0,
              u = [Settled(s, "noagent") EXCEPT !.pc = "wait"]
       PROVE  Moves(r, t, u)
  <2>1. /\ u \in TurnType /\ Same(s, u, {"pc", "verdict", "uiClosed"})
        /\ u.pc = "wait" /\ u.verdict = "noagent" /\ u.uiClosed = TRUE
    <3> DEFINE w == Settled(s, "noagent")
    <3>1. w \in TurnType /\ Same(s, w, {"verdict", "uiClosed"}) /\ w.verdict = "noagent" /\ w.uiClosed = TRUE
      BY <1>5 DEF Settled, TurnType, Same
    <3>2. u = [w EXCEPT !.pc = "wait"]
      BY <1>11
    <3> HIDE DEF w
    <3>3. u \in TurnType /\ Same(w, u, {"pc"}) /\ u.pc = "wait"
      BY <3>1, <3>2 DEF TurnType, Same
    <3> QED
      BY <3>1, <3>3 DEF Same
  <2> QED
    BY <1>1, <1>5, <1>7, <1>11, <2>1
       DEF Same, Moves, TurnType, Keeps, Holds, Stands, RunOk, StepInv, ReportInv, OwnInv, NatureInv,
       Ready, NoAgent, Admitted, Clear, Fresh, Now, Past, Waits, Ends, Aborting
<1>12. ASSUME t.response \notin {"ok", "noagent"},
              u = [Failed([s EXCEPT !.prompt = "over"]) EXCEPT !.pc = "wait"]
       PROVE  Moves(r, t, u)
  <2>1. /\ u \in TurnType /\ Same(s, u, {"pc", "failed", "prompt"})
        /\ u.pc = "wait" /\ u.failed = TRUE /\ u.prompt = "over"
    <3> DEFINE w == [s EXCEPT !.prompt = "over"]
    <3>1. w \in TurnType /\ Same(s, w, {"prompt"}) /\ w.prompt = "over"
      BY <1>5 DEF TurnType, Same
    <3>2. u = [Failed(w) EXCEPT !.pc = "wait"]
      BY <1>12
    <3> HIDE DEF w
    <3>3. u \in TurnType /\ Same(w, u, {"pc", "failed"}) /\ u.pc = "wait" /\ u.failed = TRUE
      BY ZenonT(60), <3>1, <3>2 DEF Failed, TurnType, Same
    <3> QED
      BY <3>1, <3>3 DEF Same
  <2> QED
    BY <1>1, <1>5, <1>7, <1>12, <2>1
       DEF Same, Moves, TurnType, Keeps, Holds, Stands, RunOk, StepInv, ReportInv, OwnInv, NatureInv,
       Ready, NoAgent, Admitted, Clear, Fresh, Now, Past, Waits, Ends, Aborting
<1>13. Moves(r, t, u)
  BY <1>6, <1>8, <1>9, <1>10, <1>11, <1>12
<1> QED
  BY <1>6, <1>13, OneKeeps DEF Response

\* Two moves are a move.
LEMMA MovesAgain ==
  ASSUME NEW r \in Runs, NEW t, NEW s, NEW u, Moves(r, t, s), Moves(r, s, u)
  PROVE  Moves(r, t, u)
BY DEF Moves, Keeps, Holds, Stands

\* A turn that stays as it is moves.
LEMMA MovesSame ==
  ASSUME IInv, NEW r \in Runs
  PROVE  Moves(r, turn[r], turn[r])
BY TurnIs DEF Moves, Keeps, Holds, Stands

\* The end of the client, for a turn.
LEMMA StoppedMoves ==
  ASSUME NEW r \in Runs, NEW t \in TurnType, RunOk(t, r, nat)
  PROVE  Moves(r, t, Stopped(t))
<1>1. PICK a \in {"none", "ok", "noagent", "error", "lost"} :
        a = IF t.prompt = "waiting" /\ t.response = "none" THEN "lost" ELSE t.response
  BY DEF TurnType
<1>2. PICK p \in {"none", "waiting", "held", "late", "lost", "abandoned", "over"} :
        p = CASE t.prompt = "waiting" /\ t.response = "none" -> "over"
              [] t.prompt \in {"waiting", "held"} -> "lost"
              [] OTHER -> t.prompt
  <2>1. CASE t.prompt = "waiting" /\ t.response = "none"
    BY <2>1
  <2>2. CASE t.prompt \in {"waiting", "held"} /\ ~(t.prompt = "waiting" /\ t.response = "none")
    BY <2>2
  <2>3. CASE t.prompt \notin {"waiting", "held"}
    BY <2>3 DEF TurnType
  <2> QED
    BY <2>1, <2>2, <2>3
<1>3. PICK b \in {"none", "sent", "ok", "failed"} :
        b = IF t.abort = "sent" THEN "failed" ELSE t.abort
  BY DEF TurnType
<1>4. PICK s : s = Stopped(t)
  OBVIOUS
<1>5. /\ s \in TurnType /\ Same(t, s, {"response", "prompt", "abort"})
      /\ s.response = a /\ s.prompt = p /\ s.abort = b
  <2>1. s = [t EXCEPT !.response = a, !.prompt = p, !.abort = b]
    BY <1>1, <1>2, <1>3, <1>4 DEF Stopped
  <2>2. /\ a \in {"none", "ok", "noagent", "error", "lost"}
        /\ p \in {"none", "waiting", "held", "late", "lost", "abandoned", "over"}
        /\ b \in {"none", "sent", "ok", "failed"}
    BY <1>1, <1>2, <1>3
  <2> DEFINE u == [t EXCEPT !.response = a]
             v == [u EXCEPT !.prompt = p]
  <2>3. s = [v EXCEPT !.abort = b]
    BY <2>1
  <2>4. u \in TurnType /\ Same(t, u, {"response"}) /\ u.response = a
    BY <2>2 DEF TurnType, Same
  <2> HIDE DEF u
  <2>5. v \in TurnType /\ Same(u, v, {"prompt"}) /\ v.prompt = p
    BY <2>2, <2>4 DEF TurnType, Same
  <2> HIDE DEF v
  <2>6. s \in TurnType /\ Same(v, s, {"abort"}) /\ s.abort = b
    BY <2>2, <2>3, <2>5 DEF TurnType, Same
  <2> QED
    BY <2>4, <2>5, <2>6 DEF Same
<1>6. (p = "none" <=> t.prompt = "none") /\ (p # t.prompt => t.prompt \in {"waiting", "held"})
  BY <1>2
<1>7. Moves(r, t, s)
  BY <1>1, <1>3, <1>5, <1>6
     DEF Same, Moves, TurnType, Keeps, Holds, Stands, RunOk, StepInv, ReportInv, OwnInv, NatureInv,
       Ready, NoAgent, Admitted, Clear, Fresh, Now, Past, Waits, Ends, Aborting
<1> QED
  BY <1>4, <1>7

Rpcs == {"up", "closed", "eof", "observer", "protocol", "ctx"}

\* A step that stops the client.
LEMMA StopKeeps ==
  ASSUME IInv, NEW T \in [Runs -> TurnType], \A x \in Runs : Moves(x, turn[x], T[x]),
         NEW why \in Rpcs, StopRpc(T, why), nat' \in NativeType, NatStays(nat, nat'),
         UNCHANGED <<intr, active, lost, wire, pre>>
  PROVE  IInv'
<1>1. turn' = [x \in Runs |-> Stopped(T[x])] /\ rpc' = why /\ cmd' = <<>> /\ out' = <<>>
  BY DEF StopRpc
<1>2. \A x \in Runs : Moves(x, turn[x], turn'[x])
  <2> SUFFICES ASSUME NEW x \in Runs
               PROVE  Moves(x, turn[x], turn'[x])
    OBVIOUS
  <2>1. turn'[x] = Stopped(T[x])
    BY <1>1
  <2>2. T[x] \in TurnType /\ RunOk(T[x], x, nat) /\ Moves(x, turn[x], T[x])
    BY DEF Moves
  <2> QED
    BY <2>1, <2>2, StoppedMoves, MovesAgain
<1>3. turn' \in [Runs -> TurnType]
  BY <1>1, <1>2 DEF Moves
<1>4. TypeInv'
  BY <1>1, <1>3, EmptyAt DEF IInv, TypeInv, Rpcs
<1>5. \A x \in Runs : intr'[x] # "none" => turn'[x].asked
  BY <1>2 DEF IInv, RunInv, Moves, Keeps, Holds
<1> QED
  BY <1>1, <1>2, <1>4, <1>5, LaneKeeps DEF Moves

\* The submission's context ends first.
LEMMA ResponseGivenUpKeeps ==
  ASSUME IInv, NEW r \in Runs, ResponseGivenUp(r)
  PROVE  IInv'
<1> DEFINE t == turn[r]
           s == [CtxFailed(t) EXCEPT !.submitted = TRUE, !.prompt = "abandoned",
                                     !.response = "lost", !.pc = "wait"]
           T == [turn EXCEPT ![r] = s]
<1>1. t \in TurnType /\ RunOk(t, r, nat) /\ t.pc = "response"
  BY TurnIs DEF ResponseGivenUp
<1>2. \/ turn' = T /\ UNCHANGED <<rpc, cmd, out>>
      \/ StopRpc(T, "ctx")
  BY DEF ResponseGivenUp
<1>3. /\ s \in TurnType /\ Same(t, s, {"failed", "canceled", "submitted", "prompt", "response", "pc"})
      /\ s.failed = TRUE /\ s.submitted = TRUE /\ s.prompt = "abandoned"
      /\ s.response = "lost" /\ s.pc = "wait"
  <2> DEFINE w == CtxFailed(t)
  <2>1. w \in TurnType /\ Same(t, w, {"failed", "canceled"}) /\ w.failed = TRUE
    BY <1>1 DEF CtxFailed, Failed, TurnType, Same
  <2> HIDE DEF w
  <2> DEFINE u == [w EXCEPT !.submitted = TRUE]
             v == [u EXCEPT !.prompt = "abandoned"]
             x == [v EXCEPT !.response = "lost"]
  <2>2. s = [x EXCEPT !.pc = "wait"]
    BY DEF w
  <2> HIDE DEF s
  <2>3. u \in TurnType /\ Same(w, u, {"submitted"}) /\ u.submitted = TRUE
    BY <2>1 DEF TurnType, Same
  <2> HIDE DEF u
  <2>4. v \in TurnType /\ Same(u, v, {"prompt"}) /\ v.prompt = "abandoned"
    BY <2>3 DEF TurnType, Same
  <2> HIDE DEF v
  <2>5. x \in TurnType /\ Same(v, x, {"response"}) /\ x.response = "lost"
    BY <2>4 DEF TurnType, Same
  <2> HIDE DEF x
  <2>6. s \in TurnType /\ Same(x, s, {"pc"}) /\ s.pc = "wait"
    BY <2>2, <2>5 DEF TurnType, Same
  <2> QED
    BY <2>1, <2>3, <2>4, <2>5, <2>6 DEF Same
<1> HIDE DEF s
<1>4. Moves(r, t, s)
  BY <1>1, <1>3
     DEF Same, Moves, TurnType, Keeps, Holds, Stands, RunOk, StepInv, ReportInv, OwnInv, NatureInv,
       Ready, NoAgent, Admitted, Clear, Fresh, Now, Past, Waits, Ends, Aborting
<1>5. T \in [Runs -> TurnType] /\ \A x \in Runs : Moves(x, turn[x], T[x])
  <2>1. turn \in [Runs -> TurnType]
    BY DEF IInv, TypeInv
  <2>2. \A x \in Runs : T[x] = IF x = r THEN s ELSE turn[x]
    BY <2>1
  <2> QED
    BY <1>3, <1>4, <2>1, <2>2, MovesSame
<1>6. CASE turn' = T /\ UNCHANGED <<rpc, cmd, out>>
  BY <1>4, <1>6, OneKeeps DEF ResponseGivenUp, Elsewhere
<1>7. CASE StopRpc(T, "ctx")
  <2>1. nat' \in NativeType /\ NatStays(nat, nat')
    BY DEF ResponseGivenUp, IInv, TypeInv, NatStays
  <2> QED
    BY <1>5, <1>7, <2>1, StopKeeps DEF ResponseGivenUp, Rpcs
<1> QED
  BY <1>2, <1>6, <1>7

\* A run begins, or is rejected: nothing was submitted.
LEMMA BeginKeeps ==
  ASSUME IInv, NEW r \in Runs, Begin(r)
  PROVE  IInv'
<1> DEFINE t == turn[r]
<1>1. /\ t \in TurnType /\ RunOk(t, r, nat) /\ t.pc = "idle"
      /\ \A q \in 1 .. r - 1 : turn[q].pc = "done"
  BY TurnIs DEF Begin
<1>2. PICK s : /\ turn' = [turn EXCEPT ![r] = s]
               /\ \/ s = [Rejected(t) EXCEPT !.pc = "done"]
                  \/ s = [t EXCEPT !.pc = "run"]
  BY DEF Begin, Goes
<1>3. /\ s \in TurnType /\ Keeps(t, s) /\ RunOk(s, r, nat)
      /\ s.pc \in {"run", "done"} /\ ~s.failed /\ s.prompt = "none"
  <2>1. CASE s = [Rejected(t) EXCEPT !.pc = "done"]
    <3>1. t.receipt = "none"
      BY <1>1 DEF RunOk, ReportInv
    <3> DEFINE u == [t EXCEPT !.receipt = "not_submitted"]
               v == [u EXCEPT !.result = "error"]
    <3>2. s = [v EXCEPT !.pc = "done"]
      BY <2>1, <3>1 DEF Rejected, Report
    <3>3. u \in TurnType /\ Same(t, u, {"receipt"}) /\ u.receipt = "not_submitted"
      BY <1>1 DEF TurnType, Same
    <3> HIDE DEF u
    <3>4. v \in TurnType /\ Same(u, v, {"result"}) /\ v.result = "error"
      BY <3>3 DEF TurnType, Same
    <3> HIDE DEF v
    <3>5. s \in TurnType /\ Same(v, s, {"pc"}) /\ s.pc = "done"
      BY <3>2, <3>4 DEF TurnType, Same
    <3>6. Same(t, s, {"receipt", "result", "pc"}) /\ s.receipt = "not_submitted" /\ s.result = "error"
      BY <3>3, <3>4, <3>5 DEF Same
    <3> QED
      BY <1>1, <3>5, <3>6
         DEF Same, TurnType, Keeps, Holds, RunOk, StepInv, ReportInv, OwnInv, NatureInv,
         Ready, NoAgent, Admitted, Clear, Fresh, Now, Past, Waits, Ends, Aborting
  <2>2. CASE s = [t EXCEPT !.pc = "run"]
    <3>1. s \in TurnType /\ Same(t, s, {"pc"}) /\ s.pc = "run"
      BY <1>1, <2>2 DEF TurnType, Same
    <3> QED
      BY <1>1, <3>1
         DEF Same, TurnType, Keeps, Holds, RunOk, StepInv, ReportInv, OwnInv, NatureInv,
         Ready, NoAgent, Admitted, Clear, Fresh, Now, Past, Waits, Ends, Aborting
  <2> QED
    BY <1>2, <2>1, <2>2
<1>4. active' = active /\ lost' = lost /\ pre' = pre
  BY DEF Begin
<1>5. \A x \in Runs : turn'[x] = IF x = r THEN s ELSE turn[x]
  BY <1>2 DEF IInv, TypeInv
<1>6. SeqInv'
  <2>1. \A x \in Runs : active' = x <=> turn'[x].pc \in Now
    BY <1>1, <1>3, <1>4, <1>5 DEF IInv, SeqInv, Now
  <2>2. \A x \in Runs : turn'[x].pc # "idle" => \A q \in 1 .. x - 1 : turn'[q].pc = "done"
    <3> SUFFICES ASSUME NEW x \in Runs, turn'[x].pc # "idle", NEW q \in 1 .. x - 1
                 PROVE  turn'[q].pc = "done"
      OBVIOUS
    <3>1. q \in Runs /\ q # x
      BY TurnAssumption DEF Runs
    <3>2. CASE x = r
      BY <1>1, <1>5, <3>1, <3>2
    <3>3. CASE x # r
      BY <1>1, <1>5, <3>1, <3>3 DEF IInv, SeqInv
    <3> QED
      BY <3>2, <3>3
  <2>3. \A x \in Runs : turn'[x].prompt # "none" => \A q \in 1 .. x - 1 : ~turn'[q].failed
    <3> SUFFICES ASSUME NEW x \in Runs, turn'[x].prompt # "none", NEW q \in 1 .. x - 1
                 PROVE  ~turn'[q].failed
      OBVIOUS
    <3>1. q \in Runs
      BY TurnAssumption DEF Runs
    <3>2. x # r /\ turn[x].prompt # "none"
      BY <1>3, <1>5
    <3>3. ~turn[q].failed
      BY <3>2 DEF IInv, SeqInv
    <3> QED
      BY <1>3, <1>5, <3>1, <3>3
  <2>4. \A x \in Runs : turn'[x].pc = "done" /\ turn'[x].failed => lost'
    BY <1>3, <1>4, <1>5 DEF IInv, SeqInv
  <2> QED
    BY <2>1, <2>2, <2>3, <2>4 DEF SeqInv
<1>7. active' \in 0 .. MaxRuns /\ lost' \in BOOLEAN
  BY <1>4 DEF IInv, TypeInv
<1> QED
  BY <1>2, <1>3, <1>4, <1>6, <1>7, OneHolds DEF Begin

\* The prompt is written, if the lane is there.
LEMMA SubmitKeeps ==
  ASSUME IInv, NEW r \in Runs, Submit(r)
  PROVE  IInv'
<1> DEFINE t == turn[r]
<1>1. t \in TurnType /\ RunOk(t, r, nat) /\ t.pc = "run" /\ t.prompt = "none"
  BY TurnIs DEF Submit, RunOk, StepInv
<1>2. CASE lost \/ active # 0 \/ rpc # "up" \/ t.ctx # "live"
  <2>1. PICK s : s = [CtxFailed(t) EXCEPT !.pc = "post"]
    OBVIOUS
  <2>2. turn' = [turn EXCEPT ![r] = s] /\ UNCHANGED <<active, cmd>>
    BY <1>2, <2>1 DEF Submit, Goes
  <2>3. s \in TurnType /\ Same(t, s, {"failed", "canceled", "pc"}) /\ s.failed = TRUE /\ s.pc = "post"
    BY ZenonT(60), <1>1, <2>1 DEF Failed, CtxFailed, TurnType, Same
  <2>4. Moves(r, t, s)
    BY <1>1, <2>3
       DEF Same, Moves, TurnType, Keeps, Holds, Stands, RunOk, StepInv, ReportInv, OwnInv, NatureInv,
       Ready, NoAgent, Admitted, Clear, Fresh, Now, Past, Waits, Ends, Aborting
  <2> QED
    BY <2>2, <2>4, OneKeeps DEF Submit, Elsewhere
<1>3. CASE ~(lost \/ active # 0 \/ rpc # "up" \/ t.ctx # "live")
  <2> DEFINE u == [t EXCEPT !.prompt = "waiting"]
  <2>1. PICK s : s = [u EXCEPT !.pc = "response"]
    OBVIOUS
  <2>2. /\ turn' = [turn EXCEPT ![r] = s] /\ active' = r /\ cmd' = Append(cmd, r)
        /\ active = 0 /\ ~lost
    BY <1>3, <2>1 DEF Submit, Goes
  <2>3. s \in TurnType /\ Same(t, s, {"prompt", "pc"}) /\ s.prompt = "waiting" /\ s.pc = "response"
    <3>1. u \in TurnType /\ Same(t, u, {"prompt"}) /\ u.prompt = "waiting"
      BY <1>1 DEF TurnType, Same
    <3> HIDE DEF u
    <3>2. s \in TurnType /\ Same(u, s, {"pc"}) /\ s.pc = "response"
      BY <2>1, <3>1 DEF TurnType, Same
    <3> QED
      BY <3>1, <3>2 DEF Same
  <2>4. Keeps(t, s) /\ RunOk(s, r, nat) /\ nat.phase[r] = "unread"
    BY <1>1, <2>3
       DEF Same, TurnType, Keeps, Holds, RunOk, StepInv, ReportInv, OwnInv, NatureInv,
       Ready, NoAgent, Admitted, Clear, Fresh, Now, Past, Waits, Ends, Aborting
  <2>5. turn \in [Runs -> TurnType] /\ \A x \in Runs : turn'[x] = IF x = r THEN s ELSE turn[x]
    BY <2>2 DEF IInv, TypeInv
  <2>6. \A x \in Runs : Keeps(turn[x], turn'[x])
    BY <2>4, <2>5 DEF Keeps, Holds
  <2>7. \A x \in Runs : RunOk(turn'[x], x, nat)
    BY <2>4, <2>5 DEF IInv, RunInv
  <2>8. \A x \in Runs : intr'[x] # "none" => turn'[x].asked
    BY <2>5, <2>6 DEF IInv, RunInv, Submit, Keeps, Holds
  <2>9. SeqInv'
    <3>1. \A x \in Runs : active' = x <=> turn'[x].pc \in Now
      BY <2>2, <2>3, <2>5, TurnAssumption DEF IInv, SeqInv, Now, Runs
    <3>2. \A x \in Runs : turn'[x].pc # "idle" => \A q \in 1 .. x - 1 : turn'[q].pc = "done"
      <4> SUFFICES ASSUME NEW x \in Runs, turn'[x].pc # "idle", NEW q \in 1 .. x - 1
                   PROVE  turn'[q].pc = "done"
        OBVIOUS
      <4>1. q \in Runs /\ q # x
        BY TurnAssumption DEF Runs
      <4>2. turn[x].pc # "idle"
        BY <1>1, <2>5
      <4>3. turn[q].pc = "done"
        BY <4>2 DEF IInv, SeqInv
      <4> QED
        BY <1>1, <2>5, <4>1, <4>3
    <3>3. \A x \in Runs : turn'[x].prompt # "none" => \A q \in 1 .. x - 1 : ~turn'[q].failed
      <4> SUFFICES ASSUME NEW x \in Runs, turn'[x].prompt # "none", NEW q \in 1 .. x - 1
                   PROVE  ~turn'[q].failed
        OBVIOUS
      <4>1. q \in Runs /\ q # x
        BY TurnAssumption DEF Runs
      <4>2. CASE x = r
        <5>1. turn[q].pc = "done"
          BY <1>1, <4>2 DEF IInv, SeqInv
        <5> QED
          BY <2>2, <2>5, <4>1, <4>2, <5>1 DEF IInv, SeqInv
      <4>3. CASE x # r
        <5>1. turn[x].prompt # "none" /\ turn[x].pc # "idle"
          BY <2>5, <4>3, TurnIs DEF RunOk, StepInv
        <5>2. ~turn[q].failed /\ turn[q].pc = "done"
          BY <5>1 DEF IInv, SeqInv
        <5> QED
          BY <1>1, <2>5, <4>1, <5>2
      <4> QED
        BY <4>2, <4>3
    <3>4. \A x \in Runs : turn'[x].pc = "done" /\ turn'[x].failed => lost'
      BY <2>3, <2>5 DEF IInv, SeqInv, Submit
    <3> QED
      BY <3>1, <3>2, <3>3, <3>4 DEF SeqInv
  <2>10. r \in 0 .. MaxRuns /\ r # 0
    BY TurnAssumption DEF Runs
  <2>11. /\ cmd' \in Seq(0 .. MaxRuns)
         /\ \A i \in DOMAIN cmd' : (i \in DOMAIN cmd /\ cmd'[i] = cmd[i]) \/ (i = Len(cmd) + 1 /\ cmd'[i] = r)
    BY <2>2, <2>10, AppendAt DEF IInv, TypeInv
  <2>12. TypeInv'
    <3>1. turn' \in [Runs -> TurnType]
      BY <2>2, <2>3, <2>5
    <3> QED
      BY <2>2, <2>10, <2>11, <3>1 DEF IInv, TypeInv, Submit
  <2>13. CmdInv'
    <3>1. \A i \in DOMAIN cmd : cmd[i] # r
      BY <1>1, <2>10 DEF IInv, CmdInv
    <3>2. \A i \in DOMAIN cmd : cmd[i] # 0 => cmd[i] \in Runs
      BY TurnAssumption DEF IInv, TypeInv, Runs
    <3>3. \A i \in DOMAIN cmd' : cmd'[i] # 0 =>
            nat'.phase[cmd'[i]] = "unread" /\ turn'[cmd'[i]].prompt # "none"
      BY <2>3, <2>4, <2>5, <2>11, <3>1, <3>2 DEF IInv, CmdInv, Submit
    <3>4. \A i, j \in DOMAIN cmd' : cmd'[i] = cmd'[j] => i = j
      BY <2>11, <3>1 DEF IInv, CmdInv
    <3>5. \A q, x \in Runs : Works(nat', q) /\ Works(nat', x) => q = x
      BY DEF IInv, CmdInv, Submit
    <3> QED
      BY <3>3, <3>4, <3>5 DEF CmdInv
  <2>14. AbortInv'
    <3>1. AbortWritten' => AbortWritten
      BY <2>10, <2>11 DEF AbortWritten
    <3> QED
      BY <2>6, <3>1, AbortsKeep DEF IInv, Submit, Keeps
  <2> QED
    BY <2>6, <2>7, <2>8, <2>9, <2>12, <2>13, <2>14, LaneHolds DEF Submit, NatStays
<1> QED
  BY <1>2, <1>3

\* The turn ends: what it answers is what it was told, and the lane is free or lost.
LEMMA SnapshotKeeps ==
  ASSUME IInv, NEW r \in Runs, Snapshot(r)
  PROVE  IInv'
<1> DEFINE t == turn[r]
           err == t.failed \/ t.abort = "failed"
<1>1. t \in TurnType /\ RunOk(t, r, nat) /\ t.pc = "snapshot" /\ active = r
  BY TurnIs DEF Snapshot, IInv, SeqInv, Now
<1>2. PICK s : /\ turn' = [turn EXCEPT ![r] = s]
               /\ \/ s = [Failed(t) EXCEPT !.pc = "post"]
                  \/ ~err /\ s = [[t EXCEPT !.result = t.verdict] EXCEPT !.pc = "post"]
  <2>1. CASE err
    BY <2>1 DEF Snapshot, Goes
  <2>2. CASE ~err
    BY <2>2 DEF Snapshot, Goes
  <2> QED
    BY <2>1, <2>2
<1>3. /\ s \in TurnType /\ Keeps(t, s) /\ RunOk(s, r, nat)
      /\ s.pc = "post" /\ s.prompt = t.prompt
  <2>1. CASE s = [Failed(t) EXCEPT !.pc = "post"]
    <3>1. s \in TurnType /\ Same(t, s, {"failed", "pc"}) /\ s.failed = TRUE /\ s.pc = "post"
      BY <1>1, <2>1 DEF Failed, TurnType, Same
    <3> QED
      BY <1>1, <3>1
         DEF Same, TurnType, Keeps, Holds, RunOk, StepInv, ReportInv, OwnInv, NatureInv,
         Ready, NoAgent, Admitted, Clear, Fresh, Now, Past, Waits, Ends, Aborting
  <2>2. CASE ~err /\ s = [[t EXCEPT !.result = t.verdict] EXCEPT !.pc = "post"]
    <3> DEFINE u == [t EXCEPT !.result = t.verdict]
    <3>1. u \in TurnType /\ Same(t, u, {"result"}) /\ u.result = t.verdict
      BY <1>1 DEF TurnType, Same
    <3>4. s = [u EXCEPT !.pc = "post"]
      BY <2>2
    <3> HIDE DEF u
    <3>2. s \in TurnType /\ Same(u, s, {"pc"}) /\ s.pc = "post"
      BY <3>1, <3>4 DEF TurnType, Same
    <3>3. Same(t, s, {"result", "pc"}) /\ s.result = t.verdict
      BY <3>1, <3>2 DEF Same
    <3> QED
      BY <1>1, <2>2, <3>2, <3>3
         DEF Same, TurnType, Keeps, Holds, RunOk, StepInv, ReportInv, OwnInv, NatureInv,
         Ready, NoAgent, Admitted, Clear, Fresh, Now, Past, Waits, Ends, Aborting
  <2> QED
    BY <1>2, <2>1, <2>2
<1>4. active' = 0 /\ (lost => lost') /\ lost' \in BOOLEAN /\ pre' = pre
  BY <1>1 DEF Snapshot, IInv, TypeInv
<1>5. \A x \in Runs : turn'[x] = IF x = r THEN s ELSE turn[x]
  BY <1>2 DEF IInv, TypeInv
<1>6. SeqInv'
  <2>1. \A x \in Runs : active' = x <=> turn'[x].pc \in Now
    BY <1>1, <1>3, <1>4, <1>5, TurnAssumption DEF IInv, SeqInv, Now, Runs
  <2>2. ASSUME NEW x \in Runs, turn'[x].pc # "idle", NEW q \in 1 .. x - 1
        PROVE  turn'[q].pc = "done"
    <3>1. q \in Runs /\ turn[x].pc # "idle"
      BY <1>1, <1>5, <2>2, TurnAssumption DEF Runs
    <3>2. turn[q].pc = "done"
      BY <3>1 DEF IInv, SeqInv
    <3> QED
      BY <1>1, <1>5, <3>1, <3>2
  <2>3. ASSUME NEW x \in Runs, turn'[x].prompt # "none", NEW q \in 1 .. x - 1
        PROVE  ~turn'[q].failed
    <3>1. q \in Runs /\ turn[x].prompt # "none"
      BY <1>3, <1>5, <2>3, TurnAssumption DEF Runs
    <3>2. turn[x].pc # "idle"
      BY <3>1, TurnIs DEF RunOk, StepInv
    <3>3. turn[q].pc = "done" /\ ~turn[q].failed
      BY <3>1, <3>2 DEF IInv, SeqInv
    <3> QED
      BY <1>1, <1>5, <3>1, <3>3
  <2>4. \A x \in Runs : turn'[x].pc = "done" /\ turn'[x].failed => lost'
    BY <1>3, <1>4, <1>5 DEF IInv, SeqInv
  <2> QED
    BY <2>1, <2>2, <2>3, <2>4 DEF SeqInv
<1>7. active' \in 0 .. MaxRuns
  BY <1>4, TurnAssumption
<1> QED
  BY <1>2, <1>3, <1>4, <1>6, <1>7, OneHolds DEF Snapshot

\* The run returns, and loses the lane if it failed or was interrupted before its admission.
LEMMA RunReturnsKeeps ==
  ASSUME IInv, NEW r \in Runs, RunReturns(r)
  PROVE  IInv'
<1> DEFINE t == turn[r]
           early == ~t.admitted /\ t.ctx = "interrupted"
           e == IF early THEN Report(t, EarlyReceipt(t)) ELSE t
<1>1. t \in TurnType /\ RunOk(t, r, nat) /\ t.pc = "post"
  BY TurnIs DEF RunReturns
<1>2. PICK y : y = e
  OBVIOUS
<1>3. /\ y \in TurnType /\ Same(t, y, {"receipt"}) /\ y.receipt \in {t.receipt, EarlyReceipt(t)}
      /\ t.receipt # "none" => y.receipt = t.receipt
      /\ early => y.receipt # "none"
      /\ EarlyReceipt(t) = "uncertain" \/ (EarlyReceipt(t) = "not_submitted" /\ ~t.submitted)
  <2>1. EarlyReceipt(t) = "uncertain" \/ (EarlyReceipt(t) = "not_submitted" /\ ~t.submitted)
    BY DEF EarlyReceipt
  <2>2. CASE early /\ t.receipt = "none"
    <3>1. y = [t EXCEPT !.receipt = EarlyReceipt(t)]
      BY <1>2, <2>2 DEF Report
    <3>2. y \in TurnType /\ Same(t, y, {"receipt"}) /\ y.receipt = EarlyReceipt(t)
      BY <1>1, <2>1, <3>1 DEF TurnType, Same
    <3> QED
      BY <2>1, <2>2, <3>2
  <2>3. CASE ~(early /\ t.receipt = "none")
    <3>1. y = t
      BY <1>2, <2>3 DEF Report
    <3> QED
      BY <1>1, <2>1, <2>3, <3>1 DEF Same
  <2> QED
    BY <2>2, <2>3
<1>4. PICK s : /\ turn' = [turn EXCEPT ![r] = s]
               /\ \/ early /\ s = [[y EXCEPT !.result = "interrupted"] EXCEPT !.pc = "done"]
                  \/ /\ t.failed
                     /\ s = [[Report(y, "uncertain") EXCEPT !.result = "error"] EXCEPT !.pc = "done"]
                  \/ ~early /\ ~t.failed /\ s = [y EXCEPT !.pc = "done"]
  <2> HIDE DEF e
  <2>1. CASE early /\ (~t.failed \/ t.canceled)
    <3>1. turn' = [turn EXCEPT ![r] = [[e EXCEPT !.result = "interrupted"] EXCEPT !.pc = "done"]]
      BY <2>1 DEF RunReturns, Goes, e
    <3> QED
      BY <1>2, <2>1, <3>1
  <2>2. CASE t.failed /\ ~(early /\ t.canceled)
    <3>1. turn' = [turn EXCEPT ![r] =
                    [[Report(e, "uncertain") EXCEPT !.result = "error"] EXCEPT !.pc = "done"]]
      BY <2>2 DEF RunReturns, Goes, e
    <3> QED
      BY <1>2, <2>2, <3>1
  <2>3. CASE ~(early /\ (~t.failed \/ t.canceled)) /\ ~(t.failed /\ ~(early /\ t.canceled))
    <3>1. turn' = [turn EXCEPT ![r] = [e EXCEPT !.pc = "done"]]
      BY <2>3 DEF RunReturns, Goes, e
    <3>2. ~early /\ ~t.failed
      BY <2>3
    <3> QED
      BY <1>2, <3>1, <3>2
  <2> QED
    BY <2>1, <2>2, <2>3
<1> HIDE DEF e
<1>5. /\ s \in TurnType /\ Same(y, s, {"receipt", "result", "pc"}) /\ s.pc = "done"
      /\ \/ s.result \in {"interrupted", "error"} \/ (s.result = t.result /\ ~t.failed)
      /\ s.receipt = y.receipt \/ (y.receipt = "none" /\ s.receipt = "uncertain")
      /\ s.receipt # "none"
  <2>1. CASE early /\ s = [[y EXCEPT !.result = "interrupted"] EXCEPT !.pc = "done"]
    <3> DEFINE u == [y EXCEPT !.result = "interrupted"]
    <3>1. u \in TurnType /\ Same(y, u, {"result"}) /\ u.result = "interrupted"
      BY <1>3 DEF TurnType, Same
    <3> HIDE DEF u
    <3>2. s \in TurnType /\ Same(u, s, {"pc"}) /\ s.pc = "done"
      BY ZenonT(60), <2>1, <3>1 DEF TurnType, Same, u
    <3> QED
      BY <1>3, <2>1, <3>1, <3>2 DEF Same
  <2>2. CASE s = [[Report(y, "uncertain") EXCEPT !.result = "error"] EXCEPT !.pc = "done"]
    <3> DEFINE w == Report(y, "uncertain")
               u == [w EXCEPT !.result = "error"]
    <3>1. /\ w \in TurnType /\ Same(y, w, {"receipt"}) /\ w.receipt # "none"
          /\ w.receipt = y.receipt \/ (y.receipt = "none" /\ w.receipt = "uncertain")
      <4>1. CASE y.receipt = "none"
        BY <1>3, <4>1 DEF Report, TurnType, Same
      <4>2. CASE y.receipt # "none"
        BY <1>3, <4>2 DEF Report, TurnType, Same
      <4> QED
        BY <4>1, <4>2
    <3> HIDE DEF w
    <3>2. u \in TurnType /\ Same(w, u, {"result"}) /\ u.result = "error"
      BY <3>1 DEF TurnType, Same
    <3> HIDE DEF u
    <3>3. s \in TurnType /\ Same(u, s, {"pc"}) /\ s.pc = "done"
      BY ZenonT(60), <2>2, <3>2 DEF TurnType, Same, u, w
    <3> QED
      BY <3>1, <3>2, <3>3 DEF Same
  <2>3. CASE ~early /\ ~t.failed /\ s = [y EXCEPT !.pc = "done"]
    <3>1. s \in TurnType /\ Same(y, s, {"pc"}) /\ s.pc = "done"
      BY <1>3, <2>3 DEF TurnType, Same
    <3>2. t.receipt # "none"
      BY <1>1, <2>3 DEF RunOk, ReportInv, Ends
    <3> QED
      BY <1>3, <2>3, <3>1, <3>2 DEF Same
  <2> QED
    BY <1>4, <2>1, <2>2, <2>3
<1>6. Keeps(t, s) /\ RunOk(s, r, nat) /\ s.failed = t.failed /\ s.prompt = t.prompt
  BY <1>1, <1>3, <1>5
     DEF Same, TurnType, Keeps, Holds, RunOk, StepInv, ReportInv, OwnInv, NatureInv,
     Ready, NoAgent, Admitted, Clear, Fresh, Now, Past, Waits, Ends, Aborting
<1>7. active' = active /\ (lost => lost') /\ lost' \in BOOLEAN /\ (t.failed => lost')
  BY DEF RunReturns, IInv, TypeInv
<1>8. \A x \in Runs : turn'[x] = IF x = r THEN s ELSE turn[x]
  BY <1>4 DEF IInv, TypeInv
<1>9. SeqInv'
  <2>1. \A x \in Runs : active' = x <=> turn'[x].pc \in Now
    BY <1>1, <1>5, <1>7, <1>8 DEF IInv, SeqInv, Now
  <2>2. ASSUME NEW x \in Runs, turn'[x].pc # "idle", NEW q \in 1 .. x - 1
        PROVE  turn'[q].pc = "done"
    <3>1. q \in Runs /\ turn[x].pc # "idle"
      BY <1>1, <1>8, <2>2, TurnAssumption DEF Runs
    <3>2. turn[q].pc = "done"
      BY <3>1 DEF IInv, SeqInv
    <3> QED
      BY <1>5, <1>8, <3>1, <3>2
  <2>3. ASSUME NEW x \in Runs, turn'[x].prompt # "none", NEW q \in 1 .. x - 1
        PROVE  ~turn'[q].failed
    <3>1. q \in Runs /\ turn[x].prompt # "none"
      BY <1>6, <1>8, <2>3, TurnAssumption DEF Runs
    <3>2. ~turn[q].failed
      BY <3>1 DEF IInv, SeqInv
    <3> QED
      BY <1>6, <1>8, <3>1, <3>2
  <2>4. \A x \in Runs : turn'[x].pc = "done" /\ turn'[x].failed => lost'
    BY <1>6, <1>7, <1>8 DEF IInv, SeqInv
  <2> QED
    BY <2>1, <2>2, <2>3, <2>4 DEF SeqInv
<1>10. active' \in 0 .. MaxRuns /\ pre' = pre
  BY <1>7 DEF IInv, TypeInv, RunReturns
<1> QED
  BY <1>4, <1>5, <1>6, <1>7, <1>9, <1>10, OneHolds DEF RunReturns

-----------------------------------------------------------------------------
(* Interrupts and aborts.                                                  *)

\* A run whose terminal has not come and that was admitted is the only one that may have an
\* abort on its way.
LEMMA AbortIsNow ==
  ASSUME IInv, NEW r \in Runs, Admitted(turn[r]), ~Ready(turn[r]), NEW q \in Runs, q # r
  PROVE  ~Aborting(turn[q])
<1>1. turn[r].prompt # "none" /\ turn[r].pc # "idle"
  BY TurnIs DEF RunOk, StepInv, Fresh, Admitted
<1>2. CASE q < r
  <2>1. q \in 1 .. r - 1
    BY <1>2, TurnAssumption DEF Runs
  <2>2. turn[q].pc = "done" /\ ~turn[q].failed
    BY <1>1, <2>1 DEF IInv, SeqInv
  <2> QED
    BY <2>2, TurnIs DEF RunOk, OwnInv, Clear, Ends, Aborting
<1>3. CASE r < q
  <2>1. r \in 1 .. q - 1
    BY <1>3, TurnAssumption DEF Runs
  <2>2. SUFFICES ASSUME Aborting(turn[q])
                 PROVE  FALSE
    OBVIOUS
  <2>3. turn[q].prompt # "none" /\ turn[q].pc # "idle"
    BY <2>2, TurnIs DEF RunOk, StepInv, OwnInv, Fresh, Admitted, Aborting
  <2>4. turn[r].pc = "done" /\ ~turn[r].failed
    BY <2>1, <2>3 DEF IInv, SeqInv
  <2> QED
    BY <1>1, <2>4, TurnIs DEF RunOk, OwnInv, Clear, Ends
<1> QED
  BY <1>2, <1>3, TurnAssumption DEF Runs

\* turn.Interrupt: the turn it leaves, and the command it may write.
LEMMA AbortsKeeps ==
  ASSUME IInv, NEW r \in Runs, Admitted(turn[r]), turn[r].abort = "none",
         NEW s \in TurnType, Keeps(turn[r], s), Stands(turn[r], s), RunOk(s, r, nat),
         turn' = [turn EXCEPT ![r] = s],
         \/ cmd' = cmd
         \/ ~Ready(turn[r]) /\ s.abort = "sent" /\ cmd' = Append(cmd, 0),
         intr' \in [Runs -> {"none", "found", "cancel", "calls", "over"}],
         \A x \in Runs : intr'[x] # "none" => intr[x] # "none" \/ turn'[x].asked,
         UNCHANGED <<active, lost, rpc, out, wire, pre, nat>>
  PROVE  IInv'
<1>1. turn \in [Runs -> TurnType] /\ \A x \in Runs : turn'[x] = IF x = r THEN s ELSE turn[x]
  BY DEF IInv, TypeInv
<1>2. turn' \in [Runs -> TurnType]
  BY <1>1
<1>3. \A x \in Runs : Keeps(turn[x], turn'[x]) /\ Stands(turn[x], turn'[x])
  BY <1>1 DEF Keeps, Holds, Stands
<1>4. \A x \in Runs : RunOk(turn'[x], x, nat)
  BY <1>1 DEF IInv, RunInv
<1>5. \A x \in Runs : intr'[x] # "none" => turn'[x].asked
  BY <1>1, <1>3 DEF IInv, RunInv, Keeps, Holds
<1>6. CASE cmd' = cmd
  <2>1. TypeInv'
    BY <1>2, <1>6 DEF IInv, TypeInv
  <2> QED
    BY <1>3, <1>4, <1>5, <1>6, <2>1, LaneKeeps DEF NatStays
<1>7. CASE ~Ready(turn[r]) /\ s.abort = "sent" /\ cmd' = Append(cmd, 0)
  <2>1. \A q \in Runs : ~Aborting(turn[q])
    BY <1>7, AbortIsNow DEF Aborting
  <2>2. ~AbortWritten /\ ~AbortAnswered /\ ~nat.owes
    BY <2>1 DEF IInv, AbortInv
  <2>3. /\ cmd' \in Seq(0 .. MaxRuns)
        /\ \A i \in DOMAIN cmd' : (i \in DOMAIN cmd /\ cmd'[i] = cmd[i]) \/ (i = Len(cmd) + 1 /\ cmd'[i] = 0)
    BY SMTT(30), <1>7, AppendAt, TurnAssumption DEF IInv, TypeInv
  <2>4. TypeInv'
    BY <1>2, <2>3 DEF IInv, TypeInv
  <2>5. SeqInv'
    BY <1>3, SeqKeeps DEF IInv
  <2>6. CmdInv'
    <3>1. \A i \in DOMAIN cmd : cmd[i] # 0
      BY <2>2 DEF AbortWritten
    <3>2. \A i \in DOMAIN cmd : cmd[i] \in Runs
      BY <3>1, TurnAssumption DEF IInv, TypeInv, Runs
    <3>3. \A i \in DOMAIN cmd' : cmd'[i] # 0 =>
            nat'.phase[cmd'[i]] = "unread" /\ turn'[cmd'[i]].prompt # "none"
      BY <1>3, <2>3, <3>1, <3>2 DEF IInv, CmdInv, Keeps, Holds
    <3>4. \A i, j \in DOMAIN cmd' : cmd'[i] = cmd'[j] => i = j
      BY <2>3, <3>1 DEF IInv, CmdInv
    <3>5. \A q, x \in Runs : Works(nat', q) /\ Works(nat', x) => q = x
      BY DEF IInv, CmdInv
    <3> QED
      BY <3>3, <3>4, <3>5 DEF CmdInv
  <2>7. AbortInv'
    <3>1. Aborting(turn'[r])
      BY <1>1, <1>7 DEF Aborting
    <3>2. ~AbortAnswered' /\ ~nat'.owes
      BY <2>2 DEF AbortAnswered
    <3>3. \A i, j \in DOMAIN out' : out'[i].kind = "abort" /\ out'[j].kind = "abort" => i = j
      BY DEF IInv, AbortInv
    <3>4. nat'.aborts => \E q \in Runs : Working(nat', q) /\ turn'[q].asked
      BY <1>3 DEF IInv, AbortInv, Keeps, Holds
    <3> QED
      BY <3>1, <3>2, <3>3, <3>4 DEF AbortInv
  <2> QED
    BY <1>3, <1>4, <1>5, <2>4, <2>5, <2>6, <2>7, LaneHolds DEF NatStays
<1> QED
  BY <1>6, <1>7

\* Wait begins: the receipt, and the abort of a run that is already interrupted.
LEMMA WaitBeginsKeeps ==
  ASSUME IInv, NEW r \in Runs, WaitBegins(r)
  PROVE  IInv'
<1> DEFINE t == turn[r]
           y == CASE Admitted(t) -> Report(t, "injected")
                  [] ~Admitted(t) /\ NoAgent(t) -> Report(t, "refused")
                  [] OTHER -> t
           e == [y EXCEPT !.admitted = Admitted(t)]
<1>1. t \in TurnType /\ RunOk(t, r, nat) /\ t.pc = "wait" /\ t.receipt = "none"
  BY TurnIs DEF WaitBegins, RunOk, ReportInv
<1>2. /\ y \in TurnType /\ Same(t, y, {"receipt"})
      /\ Admitted(t) => y.receipt = "injected"
      /\ ~Admitted(t) /\ NoAgent(t) => y.receipt = "refused"
      /\ ~Admitted(t) /\ ~NoAgent(t) => y.receipt = "none"
  <2>1. CASE Admitted(t)
    <3>1. y = [t EXCEPT !.receipt = "injected"]
      BY <1>1, <2>1 DEF Report
    <3> QED
      BY <1>1, <2>1, <3>1 DEF TurnType, Same
  <2>2. CASE ~Admitted(t) /\ NoAgent(t)
    <3>1. y = [t EXCEPT !.receipt = "refused"]
      BY <1>1, <2>2 DEF Report
    <3> QED
      BY <1>1, <2>2, <3>1 DEF TurnType, Same
  <2>3. CASE ~Admitted(t) /\ ~NoAgent(t)
    <3>1. y = t
      BY <2>3
    <3> QED
      BY <1>1, <2>3, <3>1 DEF Same
  <2> QED
    BY <2>1, <2>2, <2>3
<1>3. PICK s : s = e
  OBVIOUS
<1>4. s \in TurnType /\ Same(t, s, {"receipt", "admitted"}) /\ s.receipt = y.receipt
  <2>1. PICK b \in BOOLEAN : b = Admitted(t)
    BY DEF Admitted
  <2>2. s = [y EXCEPT !.admitted = b]
    BY <1>3, <2>1
  <2>3. y \in TurnType /\ b \in BOOLEAN
    BY <1>2, <2>1
  <2> HIDE DEF y
  <2>4. s \in TurnType /\ Same(y, s, {"admitted"})
    BY <2>2, <2>3 DEF TurnType, Same
  <2> QED
    BY <1>2, <2>4 DEF Same
<1>5. \/ turn' = [turn EXCEPT ![r] = [s EXCEPT !.pc = "complete"]] /\ UNCHANGED cmd
      \/ /\ t.asked /\ Admitted(t)
         /\ \/ turn' = [turn EXCEPT ![r] = [s EXCEPT !.pc = "aborting"]] /\ UNCHANGED cmd
            \/ t.abort = "none" /\ Aborts(r, s, "aborting")
  <2> HIDE DEF y, e
  <2>1. CASE ~(t.asked /\ Admitted(t))
    BY <1>3, <2>1 DEF WaitBegins, Goes, y, e
  <2>2. CASE t.asked /\ Admitted(t) /\ t.abort # "none"
    BY <1>3, <2>2 DEF WaitBegins, Goes, y, e
  <2>3. CASE t.asked /\ Admitted(t) /\ t.abort = "none"
    BY <1>3, <2>3 DEF WaitBegins, y, e
  <2> QED
    BY <2>1, <2>2, <2>3
<1>6. t.failed \/ Admitted(t) \/ NoAgent(t)
  BY <1>1 DEF RunOk, StepInv, Past, Now
<1>7. ASSUME NEW u \in TurnType, Same(s, u, {"pc", "abort"}),
             \/ u.pc = "complete" /\ u.abort = t.abort
             \/ u.pc = "aborting" /\ u.abort = t.abort
             \/ u.pc = "aborting" /\ t.abort = "none" /\ t.asked /\ Admitted(t)
      PROVE  Moves(r, t, u)
  BY SMTT(30), <1>1, <1>2, <1>4, <1>6, <1>7
     DEF Same, Moves, TurnType, Keeps, Holds, Stands, RunOk, StepInv, ReportInv, OwnInv, NatureInv,
     Ready, NoAgent, Admitted, Clear, Fresh, Now, Past, Waits, Ends, Aborting
<1> HIDE DEF y, e
<1>8. ASSUME NEW p \in {"complete", "aborting"}, cmd' = cmd,
             turn' = [turn EXCEPT ![r] = [s EXCEPT !.pc = p]]
      PROVE  IInv'
  <2>1. PICK u : u = [s EXCEPT !.pc = p]
    OBVIOUS
  <2>2. u \in TurnType /\ Same(s, u, {"pc"}) /\ u.pc = p
    BY <1>4, <1>8, <2>1 DEF TurnType, Same
  <2>3. u.abort = t.abort /\ Same(s, u, {"pc", "abort"})
    BY <1>4, <2>2 DEF Same
  <2>4. Moves(r, t, u)
    BY <1>7, <1>8, <2>2, <2>3
  <2> QED
    BY <1>8, <2>1, <2>4, OneKeeps DEF WaitBegins, Elsewhere
<1>9. CASE t.asked /\ Admitted(t) /\ t.abort = "none" /\ Aborts(r, s, "aborting")
  <2>0. PICK a \in {"ok", "sent", "failed"} :
          /\ turn' = [turn EXCEPT ![r] = [[s EXCEPT !.abort = a] EXCEPT !.pc = "aborting"]]
          /\ cmd' = cmd \/ (~Ready(s) /\ a = "sent" /\ cmd' = Append(cmd, 0))
    BY <1>9 DEF Aborts, Goes
  <2>1. PICK u :
          /\ u = [[s EXCEPT !.abort = a] EXCEPT !.pc = "aborting"]
          /\ turn' = [turn EXCEPT ![r] = u]
          /\ cmd' = cmd \/ (~Ready(s) /\ a = "sent" /\ cmd' = Append(cmd, 0))
          /\ a \in {"ok", "sent", "failed"}
    BY <2>0
  <2> DEFINE w == [s EXCEPT !.abort = a]
  <2>2. w \in TurnType /\ Same(s, w, {"abort"}) /\ w.abort = a
    BY <1>4, <2>1 DEF TurnType, Same
  <2>3. u = [w EXCEPT !.pc = "aborting"]
    BY <2>1
  <2> HIDE DEF w
  <2>4. u \in TurnType /\ Same(w, u, {"pc"}) /\ u.pc = "aborting"
    BY <2>2, <2>3 DEF TurnType, Same
  <2>5. Same(s, u, {"pc", "abort"}) /\ u.abort = a
    BY <2>2, <2>4 DEF Same
  <2>6. Moves(r, t, u)
    BY <1>7, <1>9, <2>4, <2>5
  <2>7. Ready(s) <=> Ready(t)
    BY <1>4 DEF Same, Ready
  <2>8. intr' \in [Runs -> {"none", "found", "cancel", "calls", "over"}] /\ intr' = intr
    BY DEF WaitBegins, IInv, TypeInv
  <2> QED
    BY <1>9, <2>1, <2>5, <2>6, <2>7, <2>8, AbortsKeeps DEF WaitBegins, Moves
<1> QED
  BY <1>5, <1>8, <1>9

\* The host asks for the interrupt.
LEMMA IntAskKeeps ==
  ASSUME IInv, NEW r \in Runs, IntAsk(r)
  PROVE  IInv'
<1> DEFINE t == turn[r]
<1>1. t \in TurnType /\ RunOk(t, r, nat)
  BY TurnIs
<1>2. PICK s : s = [t EXCEPT !.asked = TRUE]
  OBVIOUS
<1>3. turn' = [turn EXCEPT ![r] = s]
  BY <1>2 DEF IntAsk
<1>4. s \in TurnType /\ Same(t, s, {"asked"}) /\ s.asked = TRUE
  BY <1>1, <1>2 DEF TurnType, Same
<1>5. Moves(r, t, s)
  BY <1>1, <1>4
     DEF Same, Moves, TurnType, Keeps, Holds, Stands, RunOk, StepInv, ReportInv, OwnInv, NatureInv,
     Ready, NoAgent, Admitted, Clear, Fresh, Now, Past, Waits, Ends, Aborting
<1>6. turn \in [Runs -> TurnType] /\ \A x \in Runs : turn'[x] = IF x = r THEN s ELSE turn[x]
  BY <1>3 DEF IInv, TypeInv
<1>7. /\ intr' \in [Runs -> {"none", "found", "cancel", "calls", "over"}]
      /\ \A x \in Runs : x # r => intr'[x] = intr[x]
  BY DEF IntAsk, IInv, TypeInv
<1>8. TypeInv'
  <2>1. turn' \in [Runs -> TurnType]
    BY <1>3, <1>4, <1>6
  <2> QED
    BY <1>7, <2>1 DEF IInv, TypeInv, IntAsk
<1>9. \A x \in Runs : Keeps(turn[x], turn'[x]) /\ Stands(turn[x], turn'[x])
  BY <1>5, <1>6 DEF Moves, Keeps, Holds, Stands
<1>10. \A x \in Runs : RunOk(turn'[x], x, nat)
  BY <1>5, <1>6 DEF Moves, IInv, RunInv
<1>11. \A x \in Runs : intr'[x] # "none" => turn'[x].asked
  BY <1>4, <1>6, <1>7 DEF IInv, RunInv
<1> QED
  BY <1>8, <1>9, <1>10, <1>11, LaneKeeps DEF IntAsk, NatStays

\* The interrupt cancels a turn that is not admitted, and asks native to abort one that is.
LEMMA IntActKeeps ==
  ASSUME IInv, NEW r \in Runs, IntAct(r)
  PROVE  IInv'
<1> DEFINE t == turn[r]
<1>1. t \in TurnType /\ RunOk(t, r, nat)
  BY TurnIs
<1>2. intr[r] # "none" /\ t.asked
  BY DEF IntAct, IInv, RunInv
<1>3. /\ intr' \in [Runs -> {"none", "found", "cancel", "calls", "over"}]
      /\ \A x \in Runs : intr'[x] # "none" => intr[x] # "none"
  <2>1. PICK y \in {"calls", "over"} : intr' = [intr EXCEPT ![r] = y]
    BY DEF IntAct
  <2> QED
    BY <1>2, <2>1 DEF IInv, TypeInv
<1>4. UNCHANGED <<active, lost, rpc, out, wire, pre, nat>>
  BY DEF IntAct
<1>5. ASSUME NEW s, Moves(r, t, s), turn' = [turn EXCEPT ![r] = s], cmd' = cmd
      PROVE  IInv'
  <2>1. turn \in [Runs -> TurnType] /\ \A x \in Runs : turn'[x] = IF x = r THEN s ELSE turn[x]
    BY <1>5 DEF IInv, TypeInv
  <2>2. turn' \in [Runs -> TurnType]
    BY <1>5, <2>1 DEF Moves
  <2>3. TypeInv'
    BY <1>3, <1>4, <1>5, <2>2 DEF IInv, TypeInv
  <2>4. \A x \in Runs : Keeps(turn[x], turn'[x]) /\ Stands(turn[x], turn'[x])
    BY <1>5, <2>1 DEF Moves, Keeps, Holds, Stands
  <2>5. \A x \in Runs : RunOk(turn'[x], x, nat)
    BY <1>5, <2>1 DEF Moves, IInv, RunInv
  <2>6. \A x \in Runs : intr'[x] # "none" => turn'[x].asked
    BY <1>3, <2>1, <2>4 DEF IInv, RunInv, Keeps, Holds
  <2> QED
    BY <1>4, <1>5, <2>3, <2>4, <2>5, <2>6, LaneKeeps DEF NatStays
<1>6. CASE UNCHANGED <<turn, cmd>>
  <2>1. turn' = [turn EXCEPT ![r] = t]
    BY <1>6 DEF IInv, TypeInv
  <2> QED
    BY <1>5, <1>6, <2>1, MovesSame
<1>7. CASE turn' = [turn EXCEPT ![r].ctx = "interrupted"] /\ UNCHANGED cmd
  <2>1. PICK s : s = [t EXCEPT !.ctx = "interrupted"]
    OBVIOUS
  <2>2. s \in TurnType /\ Same(t, s, {"ctx"})
    BY <1>1, <2>1 DEF TurnType, Same
  <2>3. Moves(r, t, s)
    BY <1>1, <2>2
       DEF Same, Moves, TurnType, Keeps, Holds, Stands, RunOk, StepInv, ReportInv, OwnInv,
       NatureInv, Ready, NoAgent, Admitted, Clear, Fresh, Now, Past, Waits, Ends, Aborting
  <2> QED
    BY <1>5, <1>7, <2>1, <2>3
<1>8. CASE Admitted(t) /\ t.abort = "none" /\ Aborts(r, t, t.pc)
  <2>0. PICK a \in {"ok", "sent", "failed"} :
          /\ turn' = [turn EXCEPT ![r] = [[t EXCEPT !.abort = a] EXCEPT !.pc = t.pc]]
          /\ Ready(t) => a = "ok"
          /\ cmd' = cmd \/ (~Ready(t) /\ a = "sent" /\ cmd' = Append(cmd, 0))
    BY <1>8 DEF Aborts, Goes
  <2>1. PICK s :
          /\ s = [[t EXCEPT !.abort = a] EXCEPT !.pc = t.pc]
          /\ turn' = [turn EXCEPT ![r] = s]
          /\ Ready(t) => a = "ok"
          /\ cmd' = cmd \/ (~Ready(t) /\ a = "sent" /\ cmd' = Append(cmd, 0))
          /\ a \in {"ok", "sent", "failed"}
    BY <2>0
  <2> DEFINE w == [t EXCEPT !.abort = a]
  <2>2. w \in TurnType /\ Same(t, w, {"abort"}) /\ w.abort = a
    BY <1>1, <2>1 DEF TurnType, Same
  <2>3. s = [w EXCEPT !.pc = w.pc]
    BY <2>1, <2>2 DEF Same
  <2> HIDE DEF w
  <2>4. s \in TurnType /\ Same(w, s, {})
    BY <2>2, <2>3 DEF TurnType, Same
  <2>5. Same(t, s, {"abort"}) /\ s.abort = a
    BY <2>2, <2>4 DEF Same
  <2>6. Moves(r, t, s)
    BY <1>1, <1>2, <1>8, <2>1, <2>4, <2>5
       DEF Same, Moves, TurnType, Keeps, Holds, Stands, RunOk, StepInv, ReportInv, OwnInv,
       NatureInv, Ready, NoAgent, Admitted, Clear, Fresh, Now, Past, Waits, Ends, Aborting
  <2> QED
    BY <1>3, <1>4, <1>8, <2>1, <2>5, <2>6, AbortsKeeps DEF Moves
<1> QED
  BY <1>6, <1>7, <1>8 DEF IntAct

-----------------------------------------------------------------------------
(* The lane's reports and its end.                                         *)

\* While a run has the turn, every other prompt that native knows of is an earlier run's,
\* which has heard native's terminal.
LEMMA PastIs ==
  ASSUME IInv, NEW r \in Runs, turn[r].pc \in Now, NEW x \in Runs, x # r,
         nat.phase[x] # "unread"
  PROVE  /\ x \in 1 .. r - 1
         /\ \/ /\ turn[x].verdict \in {"answer", "aborted"} /\ turn[x].token # 0
               /\ nat.nature[x] = "agent" /\ nat.phase[x] = "over"
            \/ /\ nat.phase[x] = "over" /\ nat.nature[x] \in {"none", "silent", "both"}
               /\ turn[x].seen = 0 => nat.nature[x] \in {"silent", "both"}
               /\ turn[x].seen \in {0, x}
<1>1. turn[x].prompt # "none" /\ turn[x].pc # "idle"
  BY TurnIs DEF RunOk, NatureInv, StepInv
<1>2. turn[r].prompt # "none" /\ turn[r].pc # "idle" /\ turn[r].pc # "done"
  BY TurnIs DEF RunOk, StepInv, Now
<1>3. x < r
  <2>1. ~(r \in 1 .. x - 1)
    BY <1>1, <1>2 DEF IInv, SeqInv
  <2> QED
    BY <2>1, TurnAssumption DEF Runs
<1>4. x \in 1 .. r - 1
  BY <1>3, TurnAssumption DEF Runs
<1>5. turn[x].pc = "done" /\ ~turn[x].failed
  BY <1>2, <1>4 DEF IInv, SeqInv
<1>6. /\ Ready(turn[x]) /\ turn[x].seen \in {0, x}
      /\ Admitted(turn[x]) \/ NoAgent(turn[x])
  BY <1>1, <1>5, TurnIs DEF RunOk, OwnInv, Clear, Ends
<1>7. CASE NoAgent(turn[x])
  <2>1. \/ turn[x].seen = 0 /\ nat.nature[x] \in {"silent", "both"}
        \/ turn[x].seen = x /\ nat.nature[x] \in {"none", "both"} /\ nat.phase[x] = "over"
    BY <1>4, <1>6, <1>7, TurnIs, TurnAssumption DEF RunOk, NatureInv, Runs
  <2>2. nat.phase[x] \in Phases
    BY DEF IInv, TypeInv, NativeType
  <2>3. nat.nature[x] \in {"silent", "both"} => nat.phase[x] = "over"
    BY <2>2, TurnIs DEF RunOk, NatureInv, Phases
  <2>4. x # 0
    BY TurnAssumption DEF Runs
  <2> QED
    BY <1>4, <2>1, <2>3, <2>4
<1>8. CASE ~NoAgent(turn[x])
  <2>1. turn[x].verdict \in {"answer", "aborted"}
    BY <1>6, <1>8, TurnIs DEF Ready, NoAgent, TurnType
  <2> QED
    BY <1>4, <1>6, <1>8, <2>1, TurnIs DEF RunOk, NatureInv, Admitted
<1> QED
  BY <1>7, <1>8

\* The reports that are left when the first is taken, whose run alone may have its token.
LEMMA ReportTaken ==
  ASSUME TypeInv, ReportsInv, pre # <<>>, pre' = Tail(pre), wire' = wire, nat' = nat,
         \A x \in Runs : x # Head(pre) => turn'[x].token = turn[x].token
  PROVE  ReportsInv'
<1>1. /\ \A i \in DOMAIN pre' : i \in Nat /\ i + 1 \in DOMAIN pre /\ pre'[i] = pre[i + 1]
      /\ 1 \in DOMAIN pre /\ Head(pre) = pre[1]
  BY TailAt DEF TypeInv
<1>2. /\ \A i \in DOMAIN pre : pre[i] \in Runs
      /\ \A i \in DOMAIN wire : wire[i] \in Runs
  BY DEF TypeInv
<1>3. \A i \in DOMAIN pre' : Reported(turn', nat', pre'[i])
  <2> SUFFICES ASSUME NEW i \in DOMAIN pre'
               PROVE  Reported(turn', nat', pre'[i])
    OBVIOUS
  <2>1. i + 1 # 1
    BY <1>1, LenProperties DEF TypeInv
  <2>2. pre[i + 1] # Head(pre)
    BY <1>1, <2>1 DEF ReportsInv
  <2> QED
    BY <1>1, <1>2, <2>2 DEF ReportsInv, Reported
<1>4. \A i \in DOMAIN wire' : Reported(turn', nat', wire'[i])
  <2> SUFFICES ASSUME NEW i \in DOMAIN wire'
               PROVE  Reported(turn', nat', wire'[i])
    OBVIOUS
  <2>1. wire[i] # Head(pre)
    BY <1>1 DEF ReportsInv
  <2> QED
    BY <1>2, <2>1 DEF ReportsInv, Reported
<1>5. \A i, j \in DOMAIN pre' : pre'[i] = pre'[j] => i = j
  <2> SUFFICES ASSUME NEW i \in DOMAIN pre', NEW j \in DOMAIN pre', pre'[i] = pre'[j]
               PROVE  i = j
    OBVIOUS
  <2>1. i + 1 = j + 1
    BY <1>1 DEF ReportsInv
  <2> QED
    BY <1>1, <2>1
<1>6. /\ \A i, j \in DOMAIN wire' : wire'[i] = wire'[j] => i = j
      /\ \A i \in DOMAIN pre', j \in DOMAIN wire' : pre'[i] # wire'[j]
  BY <1>1 DEF ReportsInv
<1> QED
  BY <1>3, <1>4, <1>5, <1>6 DEF ReportsInv

\* The run takes the first report, which is its own.
LEMMA AdmitPreflightKeeps ==
  ASSUME IInv, NEW r \in Runs, AdmitPreflight(r)
  PROVE  IInv'
<1> DEFINE t == turn[r]
<1>1. /\ t \in TurnType /\ RunOk(t, r, nat) /\ t.pc = "admit" /\ t.token = 0
      /\ pre # <<>> /\ pre' = Tail(pre)
  BY TurnIs DEF AdmitPreflight
<1>2. Head(pre) = r /\ Reported(turn, nat, r)
  <2>1. PICK x \in Runs : x = Head(pre)
    BY <1>1, TailAt DEF IInv, TypeInv
  <2>2. Reported(turn, nat, x)
    BY <1>1, <2>1, TailAt DEF IInv, TypeInv, ReportsInv
  <2>3. SUFFICES ASSUME x # r
                 PROVE  FALSE
    BY <2>1, <2>2
  <2> QED
    BY <1>1, <2>2, <2>3, PastIs DEF Reported, Now
<1>3. PICK s : /\ turn' = [turn EXCEPT ![r] = s]
               /\ \/ s = [Failed(t) EXCEPT !.pc = "wait"]
                  \/ s = [[t EXCEPT !.token = r] EXCEPT !.pc = "admit"]
  BY <1>2 DEF AdmitPreflight, Goes
<1>4. /\ s \in TurnType /\ Holds(t, s) /\ Stands(t, s) /\ RunOk(s, r, nat)
      /\ Aborting(t) => Aborting(s)
  <2>1. CASE s = [Failed(t) EXCEPT !.pc = "wait"]
    <3>5. PICK v \in TurnType : v = t
      BY <1>1
    <3> DEFINE u == Failed(v)
    <3>6. v \in TurnType
      BY <3>5
    <3>2. u \in TurnType /\ Same(v, u, {"failed"}) /\ u.failed = TRUE
      BY <3>6 DEF Failed, TurnType, Same
    <3>3. s = [u EXCEPT !.pc = "wait"]
      BY <2>1, <3>5
    <3> HIDE DEF u
    <3>4. s \in TurnType /\ Same(u, s, {"pc"}) /\ s.pc = "wait"
      BY <3>2, <3>3 DEF TurnType, Same
    <3>1. Same(t, s, {"failed", "pc"}) /\ s.failed = TRUE
      BY <3>2, <3>4, <3>5 DEF Same
    <3> QED
      BY <1>1, <3>1, <3>4
         DEF Same, TurnType, Holds, Stands, RunOk, StepInv, ReportInv, OwnInv, NatureInv,
         Ready, NoAgent, Admitted, Clear, Fresh, Now, Past, Waits, Ends, Aborting
  <2>2. CASE s = [[t EXCEPT !.token = r] EXCEPT !.pc = "admit"]
    <3> DEFINE u == [t EXCEPT !.token = r]
    <3>1. r \in 0 .. MaxRuns
      BY TurnAssumption DEF Runs
    <3>2. u \in TurnType /\ Same(t, u, {"token"}) /\ u.token = r
      BY <1>1, <3>1 DEF TurnType, Same
    <3>3. s = [u EXCEPT !.pc = "admit"]
      BY <2>2
    <3> HIDE DEF u
    <3>4. s \in TurnType /\ Same(u, s, {"pc"}) /\ s.pc = "admit"
      BY <3>2, <3>3 DEF TurnType, Same
    <3>5. Same(t, s, {"token", "pc"}) /\ s.token = r
      BY <3>2, <3>4 DEF Same
    <3> QED
      BY <1>1, <1>2, <3>4, <3>5
         DEF Same, TurnType, Holds, Stands, RunOk, StepInv, ReportInv, OwnInv, NatureInv,
         Ready, NoAgent, Admitted, Clear, Fresh, Now, Past, Waits, Ends, Aborting, Reported
  <2> QED
    BY <1>3, <2>1, <2>2
<1>5. turn \in [Runs -> TurnType] /\ \A x \in Runs : turn'[x] = IF x = r THEN s ELSE turn[x]
  BY <1>3 DEF IInv, TypeInv
<1>6. \A x \in Runs : /\ Holds(turn[x], turn'[x]) /\ Stands(turn[x], turn'[x])
                      /\ Aborting(turn[x]) => Aborting(turn'[x])
  BY <1>4, <1>5 DEF Holds, Stands
<1>7. TypeInv'
  <2>1. turn' \in [Runs -> TurnType]
    BY <1>3, <1>4, <1>5
  <2>2. pre' \in Seq(Runs)
    BY <1>1, TailAt DEF IInv, TypeInv
  <2> QED
    BY <2>1, <2>2 DEF IInv, TypeInv, AdmitPreflight, Elsewhere
<1>8. RunInv'
  <2>1. \A x \in Runs : RunOk(turn'[x], x, nat')
    BY <1>4, <1>5 DEF IInv, RunInv, AdmitPreflight, Elsewhere
  <2>2. \A x \in Runs : intr'[x] # "none" => turn'[x].asked
    BY <1>6 DEF IInv, RunInv, AdmitPreflight, Elsewhere, Holds
  <2> QED
    BY <2>1, <2>2 DEF RunInv
<1>9. SeqInv'
  BY <1>6, SeqKeeps DEF IInv, AdmitPreflight
<1>10. CmdInv'
  BY <1>6, CmdKeeps DEF IInv, AdmitPreflight, Elsewhere
<1>11. ReportsInv'
  BY <1>1, <1>2, <1>5, ReportTaken DEF IInv, AdmitPreflight, Elsewhere
<1>12. FrameInv'
  <2>1. NatKeeps(nat, nat')
    BY DEF AdmitPreflight, Elsewhere, NatKeeps
  <2> QED
    BY <1>6, <2>1, FramesKeep DEF IInv, AdmitPreflight, Elsewhere
<1>13. AbortInv'
  <2>1. AbortWritten' => AbortWritten
    BY DEF AdmitPreflight, Elsewhere, AbortWritten
  <2> QED
    BY <1>6, <2>1, AbortsKeep DEF IInv, AdmitPreflight, Elsewhere
<1> QED
  BY <1>7, <1>8, <1>9, <1>10, <1>11, <1>12, <1>13 DEF IInv

\* A report arrives, or is dropped.
LEMMA PreflightKeeps ==
  ASSUME IInv, Preflight
  PROVE  IInv'
<1>1. UNCHANGED <<turn, intr, active, lost, rpc, cmd, out, nat>>
  BY DEF Preflight
<1>2. PICK x \in Runs : x = Head(wire)
  BY TailAt DEF IInv, TypeInv, Preflight
<1>3. /\ wire' \in Seq(Runs) /\ 1 \in DOMAIN wire /\ x = wire[1]
      /\ \A i \in DOMAIN wire' : i \in Nat /\ i + 1 \in DOMAIN wire /\ wire'[i] = wire[i + 1]
  BY <1>2, TailAt DEF IInv, TypeInv, Preflight
<1>4. /\ pre' \in Seq(Runs)
      /\ \A i \in DOMAIN pre' : \/ i \in DOMAIN pre /\ pre'[i] = pre[i]
                                \/ i = Len(pre) + 1 /\ pre'[i] = x
  <2>1. CASE lost
    BY <2>1 DEF IInv, TypeInv, Preflight
  <2>2. CASE ~lost
    BY <1>2, <2>2, AppendAt DEF IInv, TypeInv, Preflight
  <2> QED
    BY <2>1, <2>2
<1>5. TypeInv'
  BY <1>1, <1>3, <1>4 DEF IInv, TypeInv
<1>6. RunInv' /\ SeqInv' /\ CmdInv' /\ FrameInv' /\ AbortInv'
  BY <1>1 DEF IInv, RunInv, SeqInv, CmdInv, FrameInv, AbortInv, AbortWritten, AbortAnswered
<1>7. ReportsInv'
  <2>1. Reported(turn, nat, x) /\ \A i \in DOMAIN pre : pre[i] # x
    BY <1>3 DEF IInv, ReportsInv
  <2>2. \A i \in DOMAIN pre' : Reported(turn', nat', pre'[i])
    BY <1>1, <1>4, <2>1 DEF IInv, ReportsInv
  <2>3. \A i \in DOMAIN wire' : Reported(turn', nat', wire'[i])
    BY <1>1, <1>3 DEF IInv, ReportsInv
  <2>4. \A i, j \in DOMAIN pre' : pre'[i] = pre'[j] => i = j
    BY <1>4, <2>1 DEF IInv, ReportsInv
  <2>5. ASSUME NEW i \in DOMAIN wire', NEW j \in DOMAIN wire', wire'[i] = wire'[j]
        PROVE  i = j
    <3>1. i + 1 = j + 1
      BY <1>3, <2>5 DEF IInv, ReportsInv
    <3> QED
      BY <1>3, <3>1
  <2>6. ASSUME NEW i \in DOMAIN pre', NEW j \in DOMAIN wire'
        PROVE  pre'[i] # wire'[j]
    <3>1. j + 1 # 1 /\ j + 1 \in DOMAIN wire
      BY <1>3, LenProperties DEF IInv, TypeInv
    <3>2. wire[j + 1] # x
      BY <1>3, <3>1 DEF IInv, ReportsInv
    <3> QED
      BY <1>3, <1>4, <3>1, <3>2 DEF IInv, ReportsInv
  <2> QED
    BY <2>2, <2>3, <2>4, <2>5, <2>6 DEF ReportsInv
<1> QED
  BY <1>5, <1>6, <1>7 DEF IInv

\* The owner stops, and closes its client.
LEMMA OwnerStopsKeeps ==
  ASSUME IInv, OwnerStops
  PROVE  IInv'
<1>1. nat' \in NativeType /\ NatStays(nat, nat')
  BY DEF OwnerStops, IInv, TypeInv, NativeType, NatStays
<1>2. turn \in [Runs -> TurnType] /\ \A x \in Runs : Moves(x, turn[x], turn[x])
  BY MovesSame DEF IInv, TypeInv
<1>3. CASE rpc = "up"
  <2>1. StopRpc(turn, "closed") /\ UNCHANGED <<intr, active, lost, wire, pre>>
    BY <1>3 DEF OwnerStops
  <2> QED
    BY <1>1, <1>2, <2>1, StopKeeps DEF Rpcs
<1>4. CASE rpc # "up"
  <2>1. UNCHANGED <<turn, rpc, cmd, out, intr, active, lost, wire, pre>>
    BY <1>4 DEF OwnerStops
  <2>2. TypeInv'
    BY <1>1, <2>1 DEF IInv, TypeInv
  <2>3. \A x \in Runs : Keeps(turn[x], turn'[x]) /\ Stands(turn[x], turn'[x]) /\ RunOk(turn'[x], x, nat)
    BY <1>2, <2>1 DEF Moves
  <2>4. \A x \in Runs : intr'[x] # "none" => turn'[x].asked
    BY <2>1 DEF IInv, RunInv
  <2> QED
    BY <1>1, <2>1, <2>2, <2>3, <2>4, LaneKeeps
<1> QED
  BY <1>3, <1>4

\* The lane learns that its owner has ended.
LEMMA OwnerEndsKeeps ==
  ASSUME IInv, OwnerEnds
  PROVE  IInv'
<1>1. UNCHANGED <<turn, intr, active, rpc, cmd, out, wire, pre, nat>> /\ lost' = TRUE
  BY DEF OwnerEnds
<1>2. TypeInv'
  BY <1>1 DEF IInv, TypeInv
<1>3. \A x \in Runs : Keeps(turn[x], turn'[x]) /\ Stands(turn[x], turn'[x]) /\ RunOk(turn'[x], x, nat)
  BY <1>1, MovesSame DEF Moves
<1>4. \A x \in Runs : intr'[x] # "none" => turn'[x].asked
  BY <1>1 DEF IInv, RunInv
<1> QED
  BY <1>1, <1>2, <1>3, <1>4, LaneKeeps DEF NatStays

\* Native's stdout ends.
LEMMA OutputEndsKeeps ==
  ASSUME IInv, OutputEnds
  PROVE  IInv'
<1>1. nat' = nat /\ nat' \in NativeType
  BY DEF OutputEnds, IInv, TypeInv, StopRpc
<1>2. turn \in [Runs -> TurnType] /\ \A x \in Runs : Moves(x, turn[x], turn[x])
  BY MovesSame DEF IInv, TypeInv
<1> QED
  BY <1>1, <1>2, StopKeeps DEF OutputEnds, Rpcs, NatStays

-----------------------------------------------------------------------------
(* The client's reader.                                                    *)

\* A frame that only changes the turn of its run is read.
LEMMA ReadOne ==
  ASSUME IInv, NEW r \in Runs, NEW s, Moves(r, turn[r], s), turn' = [turn EXCEPT ![r] = s],
         out # <<>>, out' = Tail(out), rpc' = rpc, cmd' = cmd,
         UNCHANGED <<intr, active, lost, wire, pre, nat>>
  PROVE  IInv'
<1>1. turn \in [Runs -> TurnType] /\ \A x \in Runs : turn'[x] = IF x = r THEN s ELSE turn[x]
  BY DEF IInv, TypeInv
<1>2. turn' \in [Runs -> TurnType] /\ out' \in Seq(FrameType)
  BY <1>1, TailAt DEF Moves, IInv, TypeInv
<1>3. TypeInv'
  BY <1>2 DEF IInv, TypeInv
<1>4. \A x \in Runs : Keeps(turn[x], turn'[x]) /\ Stands(turn[x], turn'[x])
  BY <1>1 DEF Moves, Keeps, Holds, Stands
<1>5. \A x \in Runs : RunOk(turn'[x], x, nat)
  BY <1>1 DEF Moves, IInv, RunInv
<1>6. \A x \in Runs : intr'[x] # "none" => turn'[x].asked
  BY <1>1, <1>4 DEF IInv, RunInv, Keeps, Holds
<1> QED
  BY <1>3, <1>4, <1>5, <1>6, LaneKeeps DEF NatStays

\* The frame at hand is true, and what follows it may follow it.
LEMMA HeadIs ==
  ASSUME IInv, out # <<>>
  PROVE  /\ Head(out) \in FrameType /\ FrameOk(turn, nat, Head(out))
         /\ \A i \in DOMAIN Tail(out) :
              /\ Tail(out)[i] \in FrameType /\ FrameOk(turn, nat, Tail(out)[i])
              /\ Follows(Head(out), Tail(out)[i])
<1>1. /\ Tail(out) \in Seq(FrameType) /\ Head(out) \in FrameType /\ 1 \in DOMAIN out
      /\ Head(out) = out[1]
      /\ \A i \in DOMAIN Tail(out) : i \in Nat /\ i + 1 \in DOMAIN out /\ Tail(out)[i] = out[i + 1]
  BY TailAt DEF IInv, TypeInv
<1>2. \A i \in DOMAIN Tail(out) : 1 < i + 1 /\ Tail(out)[i] \in FrameType
  BY <1>1, LenProperties
<1> QED
  BY <1>1, <1>2 DEF IInv, FrameInv

\* A prompt's released handle.
LEMMA ReleasedMoves ==
  ASSUME NEW r \in Runs, NEW t \in TurnType, RunOk(t, r, nat), t.prompt # "none"
  PROVE  Moves(r, t, Released(t))
<1>1. PICK s : s = Released(t)
  OBVIOUS
<1>2. s \in TurnType /\ Same(t, s, {"prompt"}) /\ s.prompt = "over"
  BY <1>1 DEF Released, TurnType, Same
<1>3. Moves(r, t, s)
  BY <1>2
     DEF Same, Moves, TurnType, Keeps, Holds, Stands, RunOk, StepInv, ReportInv, OwnInv, NatureInv,
     Ready, NoAgent, Admitted, Clear, Fresh, Now, Past, Waits, Ends, Aborting
<1> QED
  BY <1>1, <1>3

\* The response to a prompt.
LEMMA ReadResponseKeeps ==
  ASSUME IInv, Read, ReadResponse(Head(out))
  PROVE  IInv'
<1>1. PICK f \in FrameType : f = Head(out) /\ FrameOk(turn, nat, f)
  BY HeadIs DEF Read
<1>2. f.run \in Runs /\ f.kind = "response" /\ f.what \in {"ok", "noagent", "error"}
  BY <1>1, FrameRuns DEF ReadResponse, FrameType
<1>3. PICK r \in Runs : r = f.run
  BY <1>2
<1> DEFINE t == turn[r]
<1>4. t \in TurnType /\ RunOk(t, r, nat)
  BY TurnIs
<1>5. PICK s : /\ turn' = [turn EXCEPT ![r] = s]
               /\ \/ /\ t.prompt = "waiting" /\ t.response = "none"
                     /\ s = [t EXCEPT !.response = f.what]
                  \/ t.prompt = "abandoned" /\ s = Released(t)
                  \/ s = t
  BY <1>1, <1>3 DEF ReadResponse
<1>6. Moves(r, t, s)
  <2>1. CASE /\ t.prompt = "waiting" /\ t.response = "none"
             /\ s = [t EXCEPT !.response = f.what]
    <3>1. PICK y \in {"ok", "noagent", "error"} : y = f.what
      BY <1>2
    <3>2. y \in {"ok", "noagent", "error"} /\ s = [t EXCEPT !.response = y]
      BY <2>1, <3>1
    <3>3. s \in TurnType /\ Same(t, s, {"response"}) /\ s.response = y
      BY <1>4, <3>2 DEF TurnType, Same
    <3>4. y = "noagent" => nat.nature[r] \in {"silent", "both"}
      BY <1>1, <1>2, <1>3, <3>1 DEF FrameOk
    <3> QED
      BY <1>4, <2>1, <3>2, <3>3, <3>4
         DEF Same, Moves, TurnType, Keeps, Holds, Stands, RunOk, StepInv, ReportInv, OwnInv,
         NatureInv, Ready, NoAgent, Admitted, Clear, Fresh, Now, Past, Waits, Ends, Aborting
  <2>2. CASE t.prompt = "abandoned" /\ s = Released(t)
    BY <1>4, <2>2, ReleasedMoves
  <2>3. CASE s = t
    BY <2>3, MovesSame
  <2> QED
    BY <1>5, <2>1, <2>2, <2>3
<1> QED
  BY <1>5, <1>6, ReadOne DEF ReadResponse, Read

\* A late error of a prompt.
LEMMA ReadLateKeeps ==
  ASSUME IInv, Read, ReadLate(Head(out))
  PROVE  IInv'
<1>1. PICK f \in FrameType : f = Head(out)
  BY HeadIs DEF Read
<1>2. f.run \in Runs
  BY <1>1, FrameRuns DEF ReadLate
<1>3. PICK r \in Runs : r = f.run
  BY <1>2
<1> DEFINE t == turn[r]
<1>4. t \in TurnType /\ RunOk(t, r, nat)
  BY TurnIs
<1>5. CASE t.prompt \in {"waiting", "held"}
  <2>1. PICK s : s = [t EXCEPT !.prompt = "late"]
    OBVIOUS
  <2>2. /\ turn' = [turn EXCEPT ![r] = s]
        /\ rpc' = rpc /\ out' = Tail(out) /\ cmd' = cmd
    BY <1>1, <1>3, <1>5, <2>1 DEF ReadLate
  <2>3. s \in TurnType /\ Same(t, s, {"prompt"}) /\ s.prompt = "late"
    BY <1>4, <2>1 DEF TurnType, Same
  <2>4. Moves(r, t, s)
    BY <1>4, <1>5, <2>3
       DEF Same, Moves, TurnType, Keeps, Holds, Stands, RunOk, StepInv, ReportInv, OwnInv,
       NatureInv, Ready, NoAgent, Admitted, Clear, Fresh, Now, Past, Waits, Ends, Aborting
  <2> QED
    BY <2>2, <2>4, ReadOne DEF Read
<1>6. CASE t.prompt = "abandoned"
  <2>1. /\ turn' = [turn EXCEPT ![r] = Released(t)]
        /\ rpc' = rpc /\ out' = Tail(out) /\ cmd' = cmd
    BY <1>1, <1>3, <1>6 DEF ReadLate
  <2>2. Moves(r, t, Released(t))
    BY <1>4, <1>6, ReleasedMoves
  <2> QED
    BY <2>1, <2>2, ReadOne DEF Read
<1>7. CASE t.prompt \notin {"waiting", "held", "abandoned"}
  <2>1. StopRpc(turn, "protocol")
    BY <1>1, <1>3, <1>7 DEF ReadLate
  <2>2. turn \in [Runs -> TurnType] /\ \A x \in Runs : Moves(x, turn[x], turn[x])
    BY MovesSame DEF IInv, TypeInv
  <2>3. nat' \in NativeType /\ NatStays(nat, nat')
    BY DEF Read, IInv, TypeInv, NatStays
  <2> QED
    BY <2>1, <2>2, <2>3, StopKeeps DEF Read, Rpcs
<1> QED
  BY <1>5, <1>6, <1>7

\* The answer to the abort, after which there is none on its way.
LEMMA ReadAbortKeeps ==
  ASSUME IInv, Read, ReadAbort(Head(out))
  PROVE  IInv'
<1>1. /\ turn' = [x \in Runs |-> [turn[x] EXCEPT !.abort = IF @ = "sent" THEN "ok" ELSE @]]
      /\ rpc' = rpc /\ out' = Tail(out) /\ cmd' = cmd /\ out # <<>>
      /\ UNCHANGED <<intr, active, lost, wire, pre, nat>> /\ Head(out).kind = "abort"
  BY DEF ReadAbort, Read
<1>2. \A x \in Runs : /\ turn'[x] \in TurnType /\ Holds(turn[x], turn'[x])
                      /\ Stands(turn[x], turn'[x]) /\ RunOk(turn'[x], x, nat)
                      /\ turn'[x].token = turn[x].token
  <2> SUFFICES ASSUME NEW x \in Runs
               PROVE  /\ turn'[x] \in TurnType /\ Holds(turn[x], turn'[x])
                      /\ Stands(turn[x], turn'[x]) /\ RunOk(turn'[x], x, nat)
                      /\ turn'[x].token = turn[x].token
    OBVIOUS
  <2> DEFINE t == turn[x]
  <2>1. t \in TurnType /\ RunOk(t, x, nat)
    BY TurnIs
  <2>2. PICK b \in {"none", "sent", "ok", "failed"} : b = IF t.abort = "sent" THEN "ok" ELSE t.abort
    BY <2>1 DEF TurnType
  <2>3. PICK s : s = turn'[x]
    OBVIOUS
  <2>4. s = [t EXCEPT !.abort = b] /\ b \in {"none", "sent", "ok", "failed"}
    BY <1>1, <2>2, <2>3
  <2>5. s \in TurnType /\ Same(t, s, {"abort"}) /\ s.abort = b
    BY <2>1, <2>4 DEF TurnType, Same
  <2>6. Holds(t, s) /\ Stands(t, s) /\ RunOk(s, x, nat)
    BY <2>1, <2>2, <2>5
       DEF Same, TurnType, Holds, Stands, RunOk, StepInv, ReportInv, OwnInv, NatureInv,
       Ready, NoAgent, Admitted, Clear, Fresh, Now, Past, Waits, Ends, Aborting
  <2> QED
    BY <2>3, <2>5, <2>6 DEF Same
<1>3. TypeInv'
  <2>1. turn' \in [Runs -> TurnType] /\ out' \in Seq(FrameType)
    BY <1>1, <1>2, TailAt DEF IInv, TypeInv
  <2> QED
    BY <1>1, <2>1 DEF IInv, TypeInv
<1>4. RunInv'
  <2>1. \A x \in Runs : intr'[x] # "none" => turn'[x].asked
    BY <1>1, <1>2 DEF IInv, RunInv, Holds
  <2> QED
    BY <1>1, <1>2, <2>1 DEF RunInv
<1>5. SeqInv'
  BY <1>1, <1>2, SeqKeeps DEF IInv
<1>6. CmdInv'
  BY <1>1, <1>2, CmdKeeps DEF IInv
<1>7. NatKeeps(nat, nat')
  BY <1>1 DEF NatKeeps
<1>8. ReportsInv'
  BY <1>1, <1>2, <1>7, ReportsKeep DEF IInv
<1>9. FrameInv'
  BY <1>1, <1>2, <1>7, FramesKeep DEF IInv
<1>10. AbortInv'
  <2>1. /\ \A i \in DOMAIN out' : i \in Nat /\ i + 1 \in DOMAIN out /\ out'[i] = out[i + 1] /\ i # 0
        /\ 1 \in DOMAIN out /\ out[1].kind = "abort"
    BY <1>1, TailAt, LenProperties DEF IInv, TypeInv
  <2>2. ~AbortAnswered'
    <3>1. SUFFICES ASSUME NEW i \in DOMAIN out', out'[i].kind = "abort"
                   PROVE  FALSE
      BY DEF AbortAnswered
    <3>2. i + 1 = 1
      BY <2>1, <3>1 DEF IInv, AbortInv
    <3> QED
      BY <2>1, <3>2
  <2>3. ~AbortWritten' /\ ~nat'.owes
    BY <1>1, <2>1 DEF IInv, AbortInv, AbortAnswered, AbortWritten
  <2>4. \A i, j \in DOMAIN out' : out'[i].kind = "abort" /\ out'[j].kind = "abort" => i = j
    BY <2>2 DEF AbortAnswered
  <2>5. nat'.aborts => \E q \in Runs : Working(nat', q) /\ turn'[q].asked
    BY <1>1, <1>2 DEF IInv, AbortInv, Holds
  <2> QED
    BY <2>2, <2>3, <2>4, <2>5 DEF AbortInv
<1> QED
  BY <1>3, <1>4, <1>5, <1>6, <1>8, <1>9, <1>10 DEF IInv

\* A frame settles the turn of a run, or gives it a result.
LEMMA SettleKeeps ==
  ASSUME IInv, NEW r \in Runs, NEW s \in TurnType, Stands(turn[r], s), RunOk(s, r, nat),
         Same(turn[r], s, {"verdict", "uiClosed", "seen"}), turn' = [turn EXCEPT ![r] = s],
         \A i \in DOMAIN Tail(out) : FrameOk(turn', nat, Tail(out)[i]),
         out # <<>>, out' = Tail(out), rpc' = rpc, cmd' = cmd,
         UNCHANGED <<intr, active, lost, wire, pre, nat>>
  PROVE  IInv'
<1>1. turn \in [Runs -> TurnType] /\ \A x \in Runs : turn'[x] = IF x = r THEN s ELSE turn[x]
  BY DEF IInv, TypeInv
<1>2. TypeInv'
  <2>1. turn' \in [Runs -> TurnType] /\ out' \in Seq(FrameType)
    BY <1>1, TailAt DEF IInv, TypeInv
  <2> QED
    BY <2>1 DEF IInv, TypeInv
<1>3. \A x \in Runs : /\ turn'[x].asked = turn[x].asked /\ turn'[x].prompt = turn[x].prompt
                      /\ turn'[x].token = turn[x].token /\ turn'[x].abort = turn[x].abort
                      /\ Stands(turn[x], turn'[x]) /\ RunOk(turn'[x], x, nat)
  BY <1>1 DEF Same, Stands, IInv, RunInv
<1>4. RunInv'
  BY <1>3 DEF IInv, RunInv
<1>5. SeqInv'
  BY <1>3, SeqKeeps DEF IInv
<1>6. CmdInv'
  <2>1. \A i \in DOMAIN cmd : cmd[i] # 0 => cmd[i] \in Runs
    BY TurnAssumption DEF IInv, TypeInv, Runs
  <2> QED
    BY <1>3, <2>1 DEF IInv, CmdInv, Works
<1>7. NatKeeps(nat, nat')
  BY DEF NatKeeps
<1>8. ReportsInv'
  BY <1>3, <1>7, ReportsKeep DEF IInv
<1>9. FrameInv'
  <2>1. \A i \in DOMAIN out' : i \in Nat /\ i + 1 \in DOMAIN out /\ out'[i] = out[i + 1]
    BY TailAt DEF IInv, TypeInv
  <2>2. ASSUME NEW i \in DOMAIN out', NEW j \in DOMAIN out', i < j
        PROVE  Follows(out'[i], out'[j])
    <3>1. i + 1 < j + 1
      BY <2>1, <2>2
    <3> QED
      BY <2>1, <3>1 DEF IInv, FrameInv
  <2> QED
    BY <2>2 DEF FrameInv
<1>10. AbortInv'
  <2>1. AbortWritten' => AbortWritten
    BY DEF AbortWritten
  <2>2. \A x \in Runs : Aborting(turn[x]) => Aborting(turn'[x])
    BY <1>3 DEF Aborting
  <2> QED
    BY <1>3, <2>1, <2>2, AbortsLast DEF IInv
<1> QED
  BY <1>2, <1>4, <1>5, <1>6, <1>8, <1>9, <1>10 DEF IInv

\* A prompt_result of run q.
Resulted(t, q) == [Settled(t, "noagent") EXCEPT !.seen = q]

\* What an event does to the turn of run r.
LEMMA RecordIs ==
  ASSUME NEW r, NEW t, NEW f, f.kind \in Events, NEW x, x = RecordEvent(r, t, f)
  PROVE  \/ /\ x.refused
            /\ \/ x.turn = Failed(t)
               \/ x.turn = [t EXCEPT !.retired = TRUE]
         \/ /\ ~x.refused /\ ~t.failed
            /\ \/ f.kind = "dialog" /\ ~t.uiClosed /\ t.ui = "none" /\ x.turn = [t EXCEPT !.ui = "pending"]
               \/ f.kind = "start" /\ ~Ready(t) /\ x.turn = [t EXCEPT !.starts = @ + 1]
               \/ f.kind = "message" /\ ~Ready(t) /\ x.turn = [t EXCEPT !.said = f.run]
               \/ f.kind = "end" /\ x.turn = t
               \/ /\ f.kind = "end" /\ f.what # "continues" /\ ~Ready(t)
                  /\ t.starts # 0 /\ t.said # 0 /\ x.turn = Settled(t, f.what)
               \/ /\ f.kind = "result" /\ ~Ready(t) /\ t.seen = 0 /\ t.starts = 0 /\ t.token = 0
                  /\ HasNative(t) => f.run = r
                  /\ x.turn = Resulted(t, f.run)
<1>1. CASE t.failed
  BY <1>1 DEF RecordEvent, Refused
<1>2. CASE ~t.failed /\ f.kind = "dialog"
  BY <1>2 DEF RecordEvent, Refused, Taken
<1>3. CASE ~t.failed /\ f.kind # "dialog" /\ Ready(t)
  BY <1>3 DEF RecordEvent
<1>4. CASE ~t.failed /\ f.kind # "dialog" /\ ~Ready(t)
  <2>1. CASE f.kind = "start"
    BY <1>4, <2>1 DEF RecordEvent, Taken
  <2>2. CASE f.kind = "message"
    BY <1>4, <2>2 DEF RecordEvent, Refused, Taken
  <2>3. CASE f.kind = "end"
    BY <1>4, <2>3 DEF RecordEvent, AgentEnd, Refused, Taken
  <2>4. CASE f.kind = "result"
    BY <1>4, <2>4 DEF RecordEvent, Refused, Taken, Resulted
  <2>5. CASE f.kind = "broken"
    BY <1>4, <2>5 DEF RecordEvent, Refused
  <2> QED
    BY <1>4, <2>1, <2>2, <2>3, <2>4, <2>5 DEF Events
<1> QED
  BY <1>1, <1>2, <1>3, <1>4

\* An event that is refused leaves the run where it stands.
LEMMA RefusedMoves ==
  ASSUME NEW r \in Runs, NEW t \in TurnType, RunOk(t, r, nat), t.pc \in Now,
         NEW s, s = Failed(t) \/ s = [t EXCEPT !.retired = TRUE]
  PROVE  Moves(r, t, s)
<1>1. CASE s = Failed(t)
  <2>1. s \in TurnType /\ Same(t, s, {"failed"}) /\ s.failed = TRUE
    BY <1>1 DEF Failed, TurnType, Same
  <2> QED
    BY <2>1
       DEF Same, Moves, TurnType, Keeps, Holds, Stands, RunOk, StepInv, ReportInv, OwnInv,
       NatureInv, Ready, NoAgent, Admitted, Clear, Fresh, Now, Past, Waits, Ends, Aborting
<1>2. CASE s = [t EXCEPT !.retired = TRUE]
  <2>1. s \in TurnType /\ Same(t, s, {"retired"})
    BY <1>2 DEF TurnType, Same
  <2> QED
    BY <2>1
       DEF Same, Moves, TurnType, Keeps, Holds, Stands, RunOk, StepInv, ReportInv, OwnInv,
       NatureInv, Ready, NoAgent, Admitted, Clear, Fresh, Now, Past, Waits, Ends, Aborting
<1> QED
  BY <1>1, <1>2

\* A dialog begins.
LEMMA DialogMoves ==
  ASSUME NEW r \in Runs, NEW t \in TurnType, RunOk(t, r, nat), t.pc \in Now,
         NEW s, s = [t EXCEPT !.ui = "pending"], ~t.uiClosed
  PROVE  Moves(r, t, s)
<1>1. s \in TurnType /\ Same(t, s, {"ui"}) /\ s.ui = "pending"
  BY DEF TurnType, Same
<1>2. t.pc # "snapshot"
  BY DEF RunOk, StepInv
<1> QED
  BY <1>1, <1>2
     DEF Same, Moves, TurnType, Keeps, Holds, Stands, RunOk, StepInv, ReportInv, OwnInv,
     NatureInv, Ready, NoAgent, Admitted, Clear, Fresh, Now, Past, Waits, Ends, Aborting

\* The agent starts.
LEMMA StartMoves ==
  ASSUME NEW r \in Runs, NEW t \in TurnType, RunOk(t, r, nat), t.pc \in Now,
         NEW s, s = [t EXCEPT !.starts = @ + 1], ~Ready(t), ~t.failed
  PROVE  Moves(r, t, s)
<1>1. PICK n \in Nat : n = t.starts
  BY DEF TurnType
<1>2. n + 1 \in Nat /\ n + 1 # 0 /\ n + 1 > 0 /\ s = [t EXCEPT !.starts = n + 1]
  BY <1>1
<1>3. PICK m \in Nat : m = n + 1
  BY <1>2
<1>4. m # 0 /\ m > 0 /\ s = [t EXCEPT !.starts = m]
  BY <1>2, <1>3
<1>5. s \in TurnType /\ Same(t, s, {"starts"}) /\ s.starts = m
  BY <1>4 DEF TurnType, Same
<1>6. t.pc \in Waits => Admitted(t)
  BY DEF RunOk, StepInv, Ready, NoAgent, Waits, Past, Now
<1>7. t.token # 0 <=> Admitted(s)
  BY <1>4, <1>5 DEF Same, Admitted
<1>8. Admitted(t) => Admitted(s)
  BY <1>7 DEF Admitted
<1> QED
  BY <1>4, <1>5, <1>6, <1>8
     DEF Same, Moves, TurnType, Keeps, Holds, Stands, RunOk, StepInv, ReportInv, OwnInv,
     NatureInv, Ready, NoAgent, Clear, Fresh, Now, Past, Waits, Ends, Aborting

\* Its own message.
LEMMA MessageMoves ==
  ASSUME NEW r \in Runs, NEW t \in TurnType, RunOk(t, r, nat), t.pc \in Now,
         NEW s, s = [t EXCEPT !.said = r]
  PROVE  Moves(r, t, s)
<1>1. r \in 0 .. MaxRuns
  BY TurnAssumption DEF Runs
<1>2. s \in TurnType /\ Same(t, s, {"said"}) /\ s.said = r
  BY <1>1 DEF TurnType, Same
<1> QED
  BY <1>2
     DEF Same, Moves, TurnType, Keeps, Holds, Stands, RunOk, StepInv, ReportInv, OwnInv,
     NatureInv, Ready, NoAgent, Admitted, Clear, Fresh, Now, Past, Waits, Ends, Aborting

\* Its own terminal.
LEMMA TerminalIs ==
  ASSUME NEW r \in Runs, NEW t \in TurnType, RunOk(t, r, nat), t.pc \in Now,
         ~t.failed, ~Ready(t), t.starts # 0, t.said # 0,
         nat.nature[r] = "agent", nat.phase[r] = "over",
         NEW w \in {"answer", "aborted"}, w = "aborted" => t.asked,
         NEW s, s = Settled(t, w)
  PROVE  /\ s \in TurnType /\ Stands(t, s) /\ RunOk(s, r, nat)
         /\ Same(t, s, {"verdict", "uiClosed", "seen"}) /\ s.seen = t.seen
<1> DEFINE u == [t EXCEPT !.verdict = w]
           v == [u EXCEPT !.uiClosed = TRUE]
<1>1. u \in TurnType /\ Same(t, u, {"verdict"}) /\ u.verdict = w
  BY DEF TurnType, Same
<1>2. s = v
  BY DEF Settled
<1> HIDE DEF u
<1>3. v \in TurnType /\ Same(u, v, {"uiClosed"}) /\ v.uiClosed = TRUE
  BY <1>1 DEF TurnType, Same
<1> HIDE DEF v
<1>4. s \in TurnType /\ Same(t, s, {"verdict", "uiClosed"}) /\ s.verdict = w /\ s.uiClosed = TRUE
  BY <1>1, <1>2, <1>3 DEF Same
<1>5. t.verdict = "none" /\ t.seen = 0
  BY DEF Ready, RunOk, OwnInv, NoAgent
<1>6. Stands(t, s) /\ RunOk(s, r, nat)
  BY <1>4, <1>5
     DEF Same, TurnType, Stands, RunOk, StepInv, ReportInv, OwnInv,
     NatureInv, Ready, NoAgent, Admitted, Clear, Fresh, Now, Past, Waits, Ends
<1> QED
  BY <1>4, <1>6 DEF Same

\* A prompt_result, which may be of an earlier prompt only before the response.
LEMMA ResultIs ==
  ASSUME NEW r \in Runs, NEW t \in TurnType, RunOk(t, r, nat), t.pc \in Now,
         ~t.failed, ~Ready(t), t.seen = 0, t.starts = 0, t.token = 0,
         NEW q \in Runs, HasNative(t) => q = r,
         \/ q = r /\ nat.nature[r] \in {"none", "both"} /\ nat.phase[r] = "over"
         \/ q \in 1 .. r - 1 /\ nat.nature[q] = "both",
         NEW s, s = Resulted(t, q)
  PROVE  /\ s \in TurnType /\ Stands(t, s) /\ RunOk(s, r, nat)
         /\ Same(t, s, {"verdict", "uiClosed", "seen"}) /\ s.seen = q /\ s.verdict = "noagent"
<1> DEFINE u == [t EXCEPT !.verdict = "noagent"]
           v == [u EXCEPT !.uiClosed = TRUE]
<1>1. u \in TurnType /\ Same(t, u, {"verdict"}) /\ u.verdict = "noagent"
  BY DEF TurnType, Same
<1>2. s = [v EXCEPT !.seen = q]
  BY DEF Settled, Resulted
<1> HIDE DEF u
<1>3. v \in TurnType /\ Same(u, v, {"uiClosed"}) /\ v.uiClosed = TRUE
  BY <1>1 DEF TurnType, Same
<1> HIDE DEF v
<1>4. q \in 0 .. MaxRuns /\ q # 0
  BY TurnAssumption DEF Runs
<1>5. s \in TurnType /\ Same(v, s, {"seen"}) /\ s.seen = q
  BY <1>2, <1>3, <1>4 DEF TurnType, Same
<1>6. /\ Same(t, s, {"verdict", "uiClosed", "seen"})
      /\ s.seen = q /\ s.verdict = "noagent" /\ s.uiClosed = TRUE
  BY <1>1, <1>3, <1>5 DEF Same
<1>7. t.verdict = "none" /\ ~Admitted(t) /\ t.pc \notin Waits \cup {"wait"}
  BY DEF Ready, Admitted, NoAgent, RunOk, StepInv, Waits, Past, Now
<1>8. t.pc \in Past => q = r
  BY DEF RunOk, StepInv, HasNative
<1>9. Stands(t, s) /\ RunOk(s, r, nat)
  BY <1>4, <1>5, <1>6, <1>7, <1>8
     DEF Same, TurnType, Stands, RunOk, StepInv, ReportInv, OwnInv,
     NatureInv, Ready, NoAgent, Admitted, Clear, Fresh, Now, Past, Waits, Ends
<1> QED
  BY <1>5, <1>6, <1>9

\* Native says a message, a terminal or a result of the active run, but for the result
\* of an earlier prompt that it answers twice.
LEMMA EventIsOwn ==
  ASSUME IInv, NEW r \in Runs, turn[r].pc \in Now, NEW f \in FrameType, FrameOk(turn, nat, f)
  PROVE  /\ f.kind \in {"message", "end"} => f.run = r
         /\ f.kind = "result" /\ f.run # r => f.run \in 1 .. r - 1 /\ nat.nature[f.run] = "both"
<1>1. SUFFICES ASSUME f.kind \in {"message", "end", "result"}, f.run # r
               PROVE  /\ f.kind = "result" /\ f.run \in 1 .. r - 1 /\ nat.nature[f.run] = "both"
  OBVIOUS
<1>2. PICK x \in Runs : x = f.run
  BY <1>1, FrameRuns
<1>3. /\ nat.phase[x] # "unread"
      /\ f.kind \in {"message", "end"} =>
           nat.nature[x] = "agent" /\ turn[x].verdict \notin {"answer", "aborted"}
      /\ f.kind = "result" => nat.nature[x] \in {"none", "both"} /\ turn[x].seen # x
  BY <1>1, <1>2 DEF FrameOk
<1>4. x # r
  BY <1>1, <1>2
<1> QED
  BY <1>1, <1>2, <1>3, <1>4, PastIs

\* An event is taken for the active run's, or ends the client.
LEMMA ObserveKeeps ==
  ASSUME IInv, Read, Observe(Head(out))
  PROVE  IInv'
<1>1. PICK f \in FrameType : f = Head(out) /\ FrameOk(turn, nat, f) /\ f.kind \in Events
  BY HeadIs DEF Read, Observe
<1>2. /\ out # <<>> /\ UNCHANGED <<intr, active, lost, wire, pre, nat>>
      /\ nat' \in NativeType /\ NatStays(nat, nat')
  BY DEF Read, IInv, TypeInv, NatStays
<1>3. turn \in [Runs -> TurnType] /\ \A y \in Runs : Moves(y, turn[y], turn[y])
  BY MovesSame DEF IInv, TypeInv
<1>4. CASE active = 0
  BY <1>2, <1>3, <1>4, StopKeeps DEF Observe, Rpcs
<1>5. CASE active # 0
  <2>1. PICK r \in Runs : r = active
    BY <1>5, TurnAssumption DEF IInv, TypeInv, Runs
  <2>2. turn[r].pc \in Now
    BY <2>1 DEF IInv, SeqInv
  <2>3. PICK t \in TurnType : t = turn[r] /\ RunOk(t, r, nat)
    BY TurnIs
  <2>4. PICK x : x = RecordEvent(r, t, f)
    OBVIOUS
  <2>5. IF x.refused THEN StopRpc([turn EXCEPT ![r] = x.turn], "observer")
        ELSE turn' = [turn EXCEPT ![r] = x.turn] /\ rpc' = rpc /\ out' = Tail(out) /\ cmd' = cmd
    BY <1>1, <1>5, <2>1, <2>3, <2>4 DEF Observe
  <2>6. \/ /\ x.refused
           /\ \/ x.turn = Failed(t)
              \/ x.turn = [t EXCEPT !.retired = TRUE]
        \/ /\ ~x.refused /\ ~t.failed
           /\ \/ f.kind = "dialog" /\ ~t.uiClosed /\ t.ui = "none" /\ x.turn = [t EXCEPT !.ui = "pending"]
              \/ f.kind = "start" /\ ~Ready(t) /\ x.turn = [t EXCEPT !.starts = @ + 1]
              \/ f.kind = "message" /\ ~Ready(t) /\ x.turn = [t EXCEPT !.said = f.run]
              \/ f.kind = "end" /\ x.turn = t
              \/ /\ f.kind = "end" /\ f.what # "continues" /\ ~Ready(t)
                 /\ t.starts # 0 /\ t.said # 0 /\ x.turn = Settled(t, f.what)
              \/ /\ f.kind = "result" /\ ~Ready(t) /\ t.seen = 0 /\ t.starts = 0 /\ t.token = 0
                 /\ HasNative(t) => f.run = r
                 /\ x.turn = Resulted(t, f.run)
    BY <1>1, <2>4, RecordIs
  <2>7. PICK s : s = x.turn
    OBVIOUS
  <2>8. CASE x.refused
    <3>1. Moves(r, t, s)
      BY <2>2, <2>3, <2>6, <2>7, <2>8, RefusedMoves
    <3> DEFINE T == [turn EXCEPT ![r] = s]
    <3>2. T \in [Runs -> TurnType] /\ \A y \in Runs : Moves(y, turn[y], T[y])
      BY <1>3, <2>3, <3>1 DEF Moves
    <3>3. StopRpc(T, "observer")
      BY <2>5, <2>7, <2>8
    <3> HIDE DEF T
    <3> QED
      BY <1>2, <3>2, <3>3, StopKeeps DEF Rpcs
  <2>9. CASE ~x.refused
    <3>1. turn' = [turn EXCEPT ![r] = s] /\ rpc' = rpc /\ out' = Tail(out) /\ cmd' = cmd
      BY <2>5, <2>7, <2>9
    <3>2. ASSUME Moves(r, t, s)
          PROVE  IInv'
      BY <1>2, <2>3, <3>1, <3>2, ReadOne
    <3>3. ~t.failed
      BY <2>6, <2>9
    <3>4. CASE f.kind = "dialog" /\ ~t.uiClosed /\ s = [t EXCEPT !.ui = "pending"]
      BY <2>2, <2>3, <3>2, <3>4, DialogMoves
    <3>5. CASE f.kind = "start" /\ ~Ready(t) /\ s = [t EXCEPT !.starts = @ + 1]
      BY <2>2, <2>3, <3>2, <3>3, <3>5, StartMoves
    <3>6. CASE f.kind = "message" /\ s = [t EXCEPT !.said = f.run]
      <4>1. f.run = r
        BY <1>1, <2>2, <3>6, EventIsOwn
      <4> QED
        BY <2>2, <2>3, <3>2, <3>6, <4>1, MessageMoves
    <3>7. CASE s = t
      BY <2>3, <3>2, <3>7, MovesSame
    <3>8. CASE /\ f.kind = "end" /\ f.what # "continues" /\ ~Ready(t)
               /\ t.starts # 0 /\ t.said # 0 /\ s = Settled(t, f.what)
      <4>1. f.run = r
        BY <1>1, <2>2, <3>8, EventIsOwn
      <4>2. PICK w \in {"answer", "aborted"} : w = f.what
        BY <3>8 DEF FrameType
      <4>3. nat.nature[r] = "agent" /\ nat.phase[r] = "over" /\ (w = "aborted" => t.asked)
        BY <1>1, <2>3, <3>8, <4>1, <4>2 DEF FrameOk
      <4>4. /\ s \in TurnType /\ Stands(t, s) /\ RunOk(s, r, nat)
            /\ Same(t, s, {"verdict", "uiClosed", "seen"}) /\ s.seen = t.seen
        BY <2>2, <2>3, <3>3, <3>8, <4>2, <4>3, TerminalIs
      <4>5. ASSUME NEW i \in DOMAIN Tail(out)
            PROVE  FrameOk(turn', nat, Tail(out)[i])
        <5>1. PICK g \in FrameType : /\ g = Tail(out)[i] /\ FrameOk(turn, nat, g)
                                     /\ Follows(f, g)
          BY <1>1, <1>2, HeadIs
        <5>2. CASE g.kind = "abort"
          BY <5>1, <5>2 DEF FrameOk
        <5>3. CASE g.kind # "abort" /\ g.run # r
          <6>1. g.run \in Runs
            BY <5>3, FrameRuns
          <6>2. turn'[g.run] = turn[g.run]
            BY <1>3, <3>1, <5>3, <6>1
          <6> QED
            BY <5>1, <6>2 DEF FrameOk
        <5>4. CASE g.kind # "abort" /\ g.run = r
          <6>1. g.kind \notin {"message", "end"}
            BY <3>8, <4>1, <5>1, <5>4 DEF Follows
          <6>2. turn'[r].seen = turn[r].seen /\ turn'[r] = s
            BY <1>3, <2>3, <3>1, <4>4
          <6> QED
            BY <5>1, <5>4, <6>1, <6>2 DEF FrameOk
        <5> QED
          BY <5>2, <5>3, <5>4
      <4> QED
        BY <1>2, <2>3, <3>1, <4>4, <4>5, SettleKeeps
    <3>9. CASE /\ f.kind = "result" /\ ~Ready(t) /\ t.seen = 0 /\ t.starts = 0 /\ t.token = 0
               /\ HasNative(t) => f.run = r
               /\ s = Resulted(t, f.run)
      <4>1. PICK q \in Runs : q = f.run
        BY <3>9, FrameRuns
      <4>2. \/ q = r /\ nat.nature[r] \in {"none", "both"} /\ nat.phase[r] = "over"
            \/ q \in 1 .. r - 1 /\ nat.nature[q] = "both"
        BY <1>1, <2>2, <3>9, <4>1, EventIsOwn DEF FrameOk
      <4>3. /\ s \in TurnType /\ Stands(t, s) /\ RunOk(s, r, nat)
            /\ Same(t, s, {"verdict", "uiClosed", "seen"}) /\ s.seen = q /\ s.verdict = "noagent"
        <5>1. HasNative(t) => q = r
          BY <3>9, <4>1
        <5>2. s = Resulted(t, q)
          BY <3>9, <4>1
        <5>3. t.pc \in Now /\ ~t.failed /\ ~Ready(t) /\ t.seen = 0 /\ t.starts = 0 /\ t.token = 0
          BY <2>2, <2>3, <3>3, <3>9
        <5> QED
          BY <2>3, <4>1, <4>2, <5>1, <5>2, <5>3, ResultIs
      <4>4. ASSUME NEW i \in DOMAIN Tail(out)
            PROVE  FrameOk(turn', nat, Tail(out)[i])
        <5>1. PICK g \in FrameType : /\ g = Tail(out)[i] /\ FrameOk(turn, nat, g)
                                     /\ Follows(f, g)
          BY <1>1, <1>2, HeadIs
        <5>2. CASE g.kind = "abort"
          BY <5>1, <5>2 DEF FrameOk
        <5>3. CASE g.kind # "abort" /\ g.run # r
          <6>1. g.run \in Runs
            BY <5>3, FrameRuns
          <6>2. turn'[g.run] = turn[g.run]
            BY <1>3, <3>1, <5>3, <6>1
          <6> QED
            BY <5>1, <6>2 DEF FrameOk
        <5>4. CASE g.kind # "abort" /\ g.run = r
          <6>1. turn'[r] = s
            BY <1>3, <3>1
          <6>2. g.kind = "result" => q # r
            BY <3>9, <4>1, <5>1, <5>4 DEF Follows
          <6>3. s.asked = t.asked
            BY <4>3 DEF Same
          <6> QED
            BY <2>3, <4>3, <5>1, <5>4, <6>1, <6>2, <6>3 DEF FrameOk
        <5> QED
          BY <5>2, <5>3, <5>4
      <4> QED
        BY <1>2, <2>3, <3>1, <4>3, <4>4, SettleKeeps
    <3> QED
      BY <2>6, <2>7, <2>9, <3>4, <3>5, <3>6, <3>7, <3>8, <3>9
  <2> QED
    BY <2>8, <2>9
<1> QED
  BY <1>4, <1>5

\* The client's reader.
LEMMA ReadKeeps ==
  ASSUME IInv, Read
  PROVE  IInv'
BY ReadResponseKeeps, ReadLateKeeps, ReadAbortKeeps, ObserveKeeps DEF Read

-----------------------------------------------------------------------------
(* Native.                                                                 *)

\* A step of native, which changes nothing of the lane.
LEMMA NativeHolds ==
  ASSUME IInv, NativeElse, nat' \in NativeType, cmd' \in Seq(0 .. MaxRuns),
         out' \in Seq(FrameType), wire' \in Seq(Runs),
         \A x \in Runs : NatureInv(turn[x], x, nat'),
         CmdInv', ReportsInv', FrameInv', AbortInv'
  PROVE  IInv'
<1>1. TypeInv'
  BY DEF IInv, TypeInv, NativeElse
<1>2. RunInv'
  BY DEF IInv, RunInv, RunOk, NativeElse
<1>3. SeqInv'
  BY DEF IInv, SeqInv, NativeElse
<1> QED
  BY <1>1, <1>2, <1>3 DEF IInv

\* What native says comes after what it has said, if the client is there.
LEMMA SaysIs ==
  ASSUME out \in Seq(FrameType), NEW fs \in Seq(FrameType), Says(fs)
  PROVE  /\ out' \in Seq(FrameType)
         /\ \A i \in DOMAIN out' : i \in Nat
         /\ \A i \in DOMAIN out' :
              \/ i \in DOMAIN out /\ out'[i] = out[i]
              \/ \E k \in DOMAIN fs : i = Len(out) + k /\ i \notin DOMAIN out /\ out'[i] = fs[k]
         /\ \A i \in DOMAIN out : i \in Nat /\ i <= Len(out)
         /\ \A k \in DOMAIN fs : k \in Nat /\ k > 0
         /\ Len(out) \in Nat
<1>1. /\ Len(out) \in Nat /\ DOMAIN out = 1 .. Len(out)
      /\ Len(fs) \in Nat /\ DOMAIN fs = 1 .. Len(fs)
  BY LenProperties
<1>2. CASE rpc = "up"
  <2>1. PICK s : s = out \o fs
    OBVIOUS
  <2>2. /\ s \in Seq(FrameType) /\ Len(s) = Len(out) + Len(fs)
        /\ \A i \in 1 .. Len(out) + Len(fs) :
             s[i] = IF i <= Len(out) THEN out[i] ELSE fs[i - Len(out)]
    BY <2>1, ConcatProperties
  <2>3. DOMAIN s = 1 .. Len(out) + Len(fs)
    BY <2>2, LenProperties
  <2>4. out' = s
    BY <1>2, <2>1 DEF Says
  <2>5. ASSUME NEW i \in DOMAIN s
        PROVE  \/ i \in DOMAIN out /\ s[i] = out[i]
               \/ \E k \in DOMAIN fs : i = Len(out) + k /\ i \notin DOMAIN out /\ s[i] = fs[k]
    <3>1. CASE i <= Len(out)
      BY <1>1, <2>2, <2>3, <3>1
    <3>2. CASE ~(i <= Len(out))
      <4>1. i - Len(out) \in DOMAIN fs /\ i = Len(out) + (i - Len(out)) /\ i \notin DOMAIN out
        BY <1>1, <2>3, <3>2
      <4> QED
        BY <2>2, <2>3, <3>2, <4>1
    <3> QED
      BY <3>1, <3>2
  <2> QED
    BY <1>1, <2>2, <2>3, <2>4, <2>5
<1>3. CASE rpc # "up"
  BY <1>1, <1>3 DEF Says
<1> QED
  BY <1>2, <1>3

\* Native adds true frames to true frames, in their order.
LEMMA FramesGrow ==
  ASSUME TypeInv, FrameInv, turn' = turn, NatKeeps(nat, nat'),
         NEW fs \in Seq(FrameType), Says(fs),
         \A k \in DOMAIN fs : FrameOk(turn, nat', fs[k]),
         \A k \in DOMAIN fs : fs[k].kind \in {"message", "end", "result"} =>
           nat.phase[fs[k].run] # "over",
         \A k, l \in DOMAIN fs : k < l => Follows(fs[k], fs[l])
  PROVE  FrameInv'
<1>1. /\ \A i \in DOMAIN out' : i \in Nat
      /\ \A i \in DOMAIN out' :
           \/ i \in DOMAIN out /\ out'[i] = out[i]
           \/ \E k \in DOMAIN fs : i = Len(out) + k /\ i \notin DOMAIN out /\ out'[i] = fs[k]
      /\ \A i \in DOMAIN out : i \in Nat /\ i <= Len(out)
      /\ \A k \in DOMAIN fs : k \in Nat /\ k > 0
      /\ Len(out) \in Nat
  BY SaysIs DEF TypeInv
<1>2. \A x \in Runs : Holds(turn[x], turn'[x])
  BY DEF Holds
<1>3. \A i \in DOMAIN out : out[i] \in FrameType /\ FrameOk(turn, nat, out[i])
  BY DEF TypeInv, FrameInv
<1>4. \A i \in DOMAIN out : FrameOk(turn', nat', out[i])
  BY <1>2, <1>3, FrameKeeps
<1>5. \A i \in DOMAIN out' : FrameOk(turn', nat', out'[i])
  BY <1>1, <1>4
<1>6. \A i \in DOMAIN out, k \in DOMAIN fs : Follows(out[i], fs[k])
  <2> SUFFICES ASSUME NEW i \in DOMAIN out, NEW k \in DOMAIN fs
               PROVE  Follows(out[i], fs[k])
    OBVIOUS
  <2>1. FrameOk(turn, nat, out[i])
    BY <1>3
  <2>2. fs[k].kind \in {"message", "end", "result"} => nat.phase[fs[k].run] # "over"
    OBVIOUS
  <2> QED
    BY <2>1, <2>2 DEF FrameOk, Follows
<1>7. ASSUME NEW i \in DOMAIN out', NEW j \in DOMAIN out', i < j
      PROVE  Follows(out'[i], out'[j])
  <2>1. CASE i \in DOMAIN out /\ out'[i] = out[i]
    <3>1. CASE j \in DOMAIN out /\ out'[j] = out[j]
      BY <1>7, <2>1, <3>1 DEF FrameInv
    <3>2. CASE \E k \in DOMAIN fs : out'[j] = fs[k]
      BY <1>6, <2>1, <3>2
    <3> QED
      BY <1>1, <3>1, <3>2
  <2>2. CASE \E k \in DOMAIN fs : i = Len(out) + k /\ i \notin DOMAIN out /\ out'[i] = fs[k]
    <3>1. PICK k \in DOMAIN fs : i = Len(out) + k /\ out'[i] = fs[k]
      BY <2>2
    <3>2. CASE j \in DOMAIN out
      BY <1>1, <1>7, <3>1, <3>2
    <3>3. CASE j \notin DOMAIN out
      <4>1. PICK l \in DOMAIN fs : j = Len(out) + l /\ out'[j] = fs[l]
        BY <1>1, <3>3
      <4>2. k < l
        BY <1>1, <1>7, <3>1, <4>1
      <4> QED
        BY <3>1, <4>1, <4>2
    <3> QED
      BY <3>2, <3>3
  <2> QED
    BY <1>1, <2>1, <2>2
<1> QED
  BY <1>5, <1>7 DEF FrameInv

\* What native says is no answer to an abort.
LEMMA AbortsGrow ==
  ASSUME TypeInv, AbortInv, turn' = turn, nat'.owes = nat.owes, AbortWritten' => AbortWritten,
         NEW fs \in Seq(FrameType), Says(fs), \A k \in DOMAIN fs : fs[k].kind # "abort",
         nat'.aborts => \E q \in Runs : Working(nat', q) /\ turn[q].asked
  PROVE  AbortInv'
<1>1. /\ \A i \in DOMAIN out' :
           \/ i \in DOMAIN out /\ out'[i] = out[i]
           \/ \E k \in DOMAIN fs : i = Len(out) + k /\ i \notin DOMAIN out /\ out'[i] = fs[k]
  BY SaysIs DEF TypeInv
<1>2. \A i \in DOMAIN out' : out'[i].kind = "abort" => i \in DOMAIN out /\ out'[i] = out[i]
  BY <1>1
<1>3. AbortAnswered' => AbortAnswered
  BY <1>2 DEF AbortAnswered
<1>4. \A i, j \in DOMAIN out' : out'[i].kind = "abort" /\ out'[j].kind = "abort" => i = j
  BY <1>2 DEF AbortInv
<1>5. AbortWritten \/ AbortAnswered \/ nat.owes => \E q \in Runs : Aborting(turn'[q])
  BY DEF AbortInv
<1> QED
  BY <1>3, <1>4, <1>5 DEF AbortInv

\* What is known of a turn whose prompt native leaves alone.
LEMMA NatureKeeps ==
  ASSUME IInv, NatKeeps(nat, nat'), NEW x \in Runs,
         nat'.phase[x] = nat.phase[x], nat'.nature[x] = nat.nature[x]
  PROVE  NatureInv(turn[x], x, nat')
<1>1. NatureInv(turn[x], x, nat)
  BY TurnIs DEF RunOk
<1>2. ASSUME turn[x].seen \in 1 .. x - 1, nat.nature[turn[x].seen] = "both"
      PROVE  nat'.nature[turn[x].seen] = "both"
  <2>1. PICK q \in Runs : q = turn[x].seen
    BY <1>2, TurnAssumption DEF Runs
  <2>2. nat.nature[q] = "both" => nat.phase[q] # "unread"
    BY TurnIs DEF RunOk, NatureInv
  <2> QED
    BY <1>2, <2>1, <2>2 DEF NatKeeps
<1> QED
  BY <1>1, <1>2 DEF NatureInv

\* Native says one thing.
LEMMA OneFrame ==
  ASSUME NEW f \in FrameType
  PROVE  <<f>> \in Seq(FrameType) /\ \A k \in DOMAIN <<f>> : k = 1 /\ <<f>>[k] = f
OBVIOUS

\* Native says two things.
LEMMA TwoFrames ==
  ASSUME NEW f \in FrameType, NEW g \in FrameType
  PROVE  /\ <<f, g>> \in Seq(FrameType)
         /\ \A k \in DOMAIN <<f, g>> : (k = 1 /\ <<f, g>>[k] = f) \/ (k = 2 /\ <<f, g>>[k] = g)
OBVIOUS

\* The next phase of a prompt that native has read.
GoesOn(r, p) ==
  /\ NativeElse /\ cmd' = cmd /\ nat' \in NativeType
  /\ nat'.phase = [nat.phase EXCEPT ![r] = p] /\ nat'.nature = nat.nature /\ nat'.owes = nat.owes
  /\ nat.phase[r] # "unread" /\ (nat.phase[r] = "over" => p = "over")
  /\ p # "over" => nat.nature[r] = "agent"
  /\ nat'.aborts => nat.aborts /\ (p = "over" => ~Working(nat, r))

\* What native may say of it.
MaySay(r, f) ==
  /\ f.kind # "abort" /\ f.run = r /\ FrameOk(turn, nat', f)
  /\ f.kind \in {"message", "end", "result"} => nat.phase[r] # "over"

\* Native goes on with a prompt that it has read.
LEMMA NativeGoes ==
  ASSUME IInv, NEW r \in Runs, NEW p \in {"preflight", "started", "over"}, GoesOn(r, p),
         wire' \in Seq(Runs), NatKeeps(nat, nat') => ReportsInv',
         NEW fs \in Seq(FrameType), Says(fs), \A k \in DOMAIN fs : MaySay(r, fs[k]),
         \A k, l \in DOMAIN fs : k < l => Follows(fs[k], fs[l])
  PROVE  IInv'
<1>0. /\ NativeElse /\ cmd' = cmd /\ nat' \in NativeType
      /\ nat'.phase = [nat.phase EXCEPT ![r] = p] /\ nat'.nature = nat.nature /\ nat'.owes = nat.owes
      /\ nat.phase[r] # "unread" /\ (nat.phase[r] = "over" => p = "over")
      /\ p # "over" => nat.nature[r] = "agent"
      /\ nat'.aborts => nat.aborts /\ (p = "over" => ~Working(nat, r))
  BY DEF GoesOn
<1>1. nat.phase \in [Runs -> Phases] /\ \A x \in Runs : nat'.phase[x] = IF x = r THEN p ELSE nat.phase[x]
  BY <1>0 DEF IInv, TypeInv, NativeType
<1>2. NatKeeps(nat, nat')
  BY <1>0, <1>1 DEF NatKeeps
<1>3. turn' = turn /\ pre' = pre
  BY <1>0 DEF NativeElse
<1>4. ASSUME NEW x \in Runs
      PROVE  NatureInv(turn[x], x, nat')
  <2>1. CASE x # r
    BY <1>0, <1>1, <1>2, <2>1, NatureKeeps
  <2>2. CASE x = r
    <3>1. NatureInv(turn[r], r, nat)
      BY TurnIs DEF RunOk
    <3> QED
      BY <1>0, <1>1, <2>2, <3>1 DEF NatureInv
  <2> QED
    BY <2>1, <2>2
<1>5. CmdInv'
  <2>1. \A i \in DOMAIN cmd : cmd[i] # 0 => cmd[i] \in Runs
    BY TurnAssumption DEF IInv, TypeInv, Runs
  <2>2. \A i \in DOMAIN cmd : cmd[i] # 0 => nat'.phase[cmd[i]] = "unread" /\ turn'[cmd[i]].prompt # "none"
    BY <1>0, <1>1, <1>3, <2>1 DEF IInv, CmdInv
  <2>3. \A x \in Runs : Works(nat', x) => Works(nat, x)
    BY <1>0, <1>1 DEF Works, Phases
  <2> QED
    BY <1>0, <2>2, <2>3 DEF IInv, CmdInv
<1>6. FrameInv'
  BY <1>2, <1>3, FramesGrow DEF IInv, MaySay
<1>7. AbortInv'
  <2>1. AbortWritten' => AbortWritten
    BY <1>0 DEF AbortWritten
  <2>2. nat'.aborts => \E q \in Runs : Working(nat', q) /\ turn[q].asked
    <3>1. SUFFICES ASSUME nat'.aborts
                   PROVE  \E q \in Runs : Working(nat', q) /\ turn[q].asked
      OBVIOUS
    <3>2. PICK q \in Runs : Working(nat, q) /\ turn[q].asked
      BY <1>0, <3>1 DEF IInv, AbortInv
    <3>3. Working(nat', q)
      BY <1>0, <1>1, <3>1, <3>2 DEF Working
    <3> QED
      BY <3>2, <3>3
  <2> QED
    BY <1>0, <1>3, <2>1, <2>2, AbortsGrow DEF IInv, MaySay
<1>8. out' \in Seq(FrameType) /\ cmd' \in Seq(0 .. MaxRuns)
  BY <1>0, SaysIs DEF IInv, TypeInv
<1> QED
  BY <1>0, <1>2, <1>4, <1>5, <1>6, <1>7, <1>8, NativeHolds

\* The preflight reports, when native reports none.
LEMMA NoReport ==
  ASSUME IInv, NativeElse, wire' = wire, NatKeeps(nat, nat')
  PROVE  ReportsInv'
BY ReportsKeep DEF IInv, NativeElse

\* A run's phase.
LEMMA PhaseIs ==
  ASSUME IInv, NEW r \in Runs
  PROVE  /\ nat.phase \in [Runs -> Phases]
         /\ nat.nature[r] \in {"unknown", "agent", "none", "silent", "both", "refused"}
         /\ nat \in NativeType /\ NatureInv(turn[r], r, nat)
BY TurnIs DEF IInv, TypeInv, NativeType, RunOk

\* A frame of a run.
LEMMA FrameIs ==
  ASSUME NEW r \in Runs, NEW kind \in Kinds, NEW what \in Whats, kind \notin {"response", "end"}
  PROVE  /\ Frame(kind, r, what) \in FrameType /\ Frame(kind, r, what).kind = kind
         /\ Frame(kind, r, what).run = r /\ Frame(kind, r, what).what = what
BY TurnAssumption DEF Frame, FrameType, Runs

\* Native says one thing of a prompt that it has read.
LEMMA NativeSaysOne ==
  ASSUME IInv, NEW r \in Runs, NEW p \in {"preflight", "started", "over"}, GoesOn(r, p), wire' = wire,
         NEW f \in FrameType, Says(<<f>>), MaySay(r, f)
  PROVE  IInv'
<1>1. PICK fs \in Seq(FrameType) : fs = <<f>> /\ \A k \in DOMAIN fs : k = 1 /\ fs[k] = f
  BY OneFrame
<1>2. wire' \in Seq(Runs)
  BY DEF IInv, TypeInv
<1>3. NatKeeps(nat, nat') => ReportsInv'
  BY NoReport DEF GoesOn
<1>4. \A k \in DOMAIN fs : MaySay(r, fs[k])
  BY <1>1
<1>5. \A k, l \in DOMAIN fs : k < l => Follows(fs[k], fs[l])
  BY <1>1
<1>6. Says(fs)
  BY <1>1
<1> QED
  BY <1>2, <1>3, <1>4, <1>5, <1>6, NativeGoes

\* Native says two things of a prompt that it works on.
LEMMA NativeSaysTwo ==
  ASSUME IInv, NEW r \in Runs, NEW p \in {"preflight", "started", "over"}, GoesOn(r, p), wire' = wire,
         NEW f \in FrameType, NEW g \in FrameType, Says(<<f, g>>),
         MaySay(r, f), MaySay(r, g), Follows(f, g)
  PROVE  IInv'
<1>0. /\ <<f, g>> \in Seq(FrameType)
      /\ \A k \in DOMAIN <<f, g>> : (k = 1 /\ <<f, g>>[k] = f) \/ (k = 2 /\ <<f, g>>[k] = g)
  BY TwoFrames
<1>1. PICK fs : /\ fs = <<f, g>> /\ fs \in Seq(FrameType)
                /\ \A k \in DOMAIN fs : (k = 1 /\ fs[k] = f) \/ (k = 2 /\ fs[k] = g)
  BY <1>0
<1>2. wire' \in Seq(Runs)
  BY DEF IInv, TypeInv
<1>3. NatKeeps(nat, nat') => ReportsInv'
  BY NoReport DEF GoesOn
<1>4. \A k \in DOMAIN fs : MaySay(r, fs[k])
  BY <1>1
<1>5. \A k, l \in DOMAIN fs : k < l => Follows(fs[k], fs[l])
  BY <1>1
<1>6. Says(fs)
  BY <1>1
<1> QED
  BY <1>1, <1>2, <1>3, <1>4, <1>5, <1>6, NativeGoes

\* A response.
LEMMA ResponseFrame ==
  ASSUME NEW r \in Runs, NEW w \in {"ok", "error", "noagent"}
  PROVE  /\ Frame("response", r, w) \in FrameType /\ Frame("response", r, w).kind = "response"
         /\ Frame("response", r, w).run = r /\ Frame("response", r, w).what = w
BY TurnAssumption DEF Frame, FrameType, Kinds, Whats, Runs

\* The agent starts.
LEMMA NativeStartsKeeps ==
  ASSUME IInv, NEW r \in Runs, NativeStarts(r)
  PROVE  IInv'
<1>1. PICK f \in FrameType : /\ f = Frame("start", r, "none") /\ f.kind = "start" /\ f.run = r
  BY FrameIs DEF Kinds, Whats
<1>2. /\ nat.phase[r] = "preflight" /\ nat' = [nat EXCEPT !.phase[r] = "started"]
      /\ NativeElse /\ cmd' = cmd /\ wire' = wire /\ Says(<<f>>)
  BY <1>1 DEF NativeStarts, Becomes
<1>3. /\ nat' \in NativeType /\ nat'.phase = [nat.phase EXCEPT ![r] = "started"]
      /\ nat'.nature = nat.nature /\ nat'.owes = nat.owes /\ nat'.aborts = nat.aborts
  BY <1>2, PhaseIs DEF NativeType, Phases
<1>4. nat'.phase[r] = "started" /\ nat.nature[r] = "agent"
  BY <1>2, <1>3, PhaseIs DEF NatureInv
<1>5. FrameOk(turn, nat', f)
  BY <1>1, <1>4 DEF FrameOk
<1>6. GoesOn(r, "started")
  BY <1>1, <1>2, <1>3, <1>4, <1>5 DEF GoesOn
<1>7. MaySay(r, f)
  BY <1>1, <1>2, <1>3, <1>4, <1>5 DEF MaySay
<1> QED
  BY <1>1, <1>2, <1>6, <1>7, NativeSaysOne

\* The agent asks something.
LEMMA NativeAsksKeeps ==
  ASSUME IInv, NEW r \in Runs, NativeAsks(r)
  PROVE  IInv'
<1>1. PICK f \in FrameType : /\ f = Frame("dialog", r, "none") /\ f.kind = "dialog" /\ f.run = r
  BY FrameIs DEF Kinds, Whats
<1>2. /\ nat.phase[r] = "started" /\ nat' = [nat EXCEPT !.dialog = TRUE]
      /\ NativeElse /\ cmd' = cmd /\ wire' = wire /\ Says(<<f>>)
  BY <1>1 DEF NativeAsks
<1>3. /\ nat' \in NativeType /\ nat'.phase = nat.phase
      /\ nat'.nature = nat.nature /\ nat'.owes = nat.owes /\ nat'.aborts = nat.aborts
  BY <1>2, PhaseIs DEF NativeType
<1>4. nat'.phase = [nat.phase EXCEPT ![r] = "started"]
  BY <1>2, <1>3, PhaseIs
<1>5. nat'.phase[r] = "started" /\ nat.nature[r] = "agent"
  BY <1>2, <1>3, PhaseIs DEF NatureInv
<1>6. FrameOk(turn, nat', f)
  BY <1>1, <1>5 DEF FrameOk
<1>7. GoesOn(r, "started")
  BY <1>1, <1>2, <1>3, <1>4, <1>5, <1>6 DEF GoesOn
<1>8. MaySay(r, f)
  BY <1>1, <1>2, <1>3, <1>4, <1>5, <1>6 DEF MaySay
<1> QED
  BY <1>1, <1>2, <1>7, <1>8, NativeSaysOne

\* The message and the end of an agent.
LEMMA EndFrames ==
  ASSUME NEW r \in Runs, NEW what \in {"continues", "answer", "aborted"}
  PROVE  /\ Frame("message", r, "none") \in FrameType /\ Frame("message", r, "none").kind = "message"
         /\ Frame("message", r, "none").run = r
         /\ Frame("end", r, what) \in FrameType /\ Frame("end", r, what).kind = "end"
         /\ Frame("end", r, what).run = r /\ Frame("end", r, what).what = what
         /\ Follows(Frame("message", r, "none"), Frame("end", r, what))
BY TurnAssumption DEF Frame, FrameType, Runs, Kinds, Whats, Follows

\* The agent pauses.
LEMMA NativePausesKeeps ==
  ASSUME IInv, NEW r \in Runs, NativePauses(r)
  PROVE  IInv'
<1>1. PICK f \in FrameType : f = Frame("message", r, "none") /\ f.kind = "message" /\ f.run = r
  BY EndFrames
<1>2. PICK g \in FrameType : /\ g = Frame("end", r, "continues") /\ g.kind = "end" /\ g.run = r
                             /\ g.what = "continues" /\ Follows(f, g)
  BY <1>1, EndFrames
<1>3. /\ nat.phase[r] = "started" /\ nat' = [nat EXCEPT !.paused = TRUE, !.phase[r] = "preflight"]
      /\ NativeElse /\ cmd' = cmd /\ wire' = wire /\ Says(<<f, g>>)
  BY <1>1, <1>2 DEF NativePauses
<1>4. /\ nat' \in NativeType /\ nat'.phase = [nat.phase EXCEPT ![r] = "preflight"]
      /\ nat'.nature = nat.nature /\ nat'.owes = nat.owes /\ nat'.aborts = nat.aborts
  BY <1>3, PhaseIs DEF NativeType, Phases
<1>5. /\ nat'.phase[r] = "preflight" /\ nat.nature[r] = "agent"
      /\ turn[r].verdict \notin {"answer", "aborted"}
  BY <1>3, <1>4, PhaseIs DEF NatureInv
<1>6. FrameOk(turn, nat', f) /\ FrameOk(turn, nat', g)
  BY <1>1, <1>2, <1>4, <1>5 DEF FrameOk
<1>7. GoesOn(r, "preflight")
  BY <1>1, <1>2, <1>3, <1>4, <1>5, <1>6 DEF GoesOn
<1>8. MaySay(r, f) /\ MaySay(r, g)
  BY <1>1, <1>2, <1>3, <1>4, <1>5, <1>6 DEF MaySay
<1> QED
  BY <1>2, <1>3, <1>7, <1>8, NativeSaysTwo

\* The agent ends for good, aborted only if somebody asked for that.
LEMMA NativeEndsKeeps ==
  ASSUME IInv, NEW r \in Runs, NativeEnds(r)
  PROVE  IInv'
<1>1. PICK f \in FrameType : f = Frame("message", r, "none") /\ f.kind = "message" /\ f.run = r
  BY EndFrames
<1>2. PICK w \in {"answer", "aborted"} : w = IF nat.aborts THEN "aborted" ELSE "answer"
  OBVIOUS
<1>3. PICK g \in FrameType : /\ g = Frame("end", r, w) /\ g.kind = "end" /\ g.run = r
                             /\ g.what = w /\ Follows(f, g)
  BY <1>1, EndFrames
<1>4. /\ nat.phase[r] = "started" /\ nat' = [nat EXCEPT !.phase[r] = "over", !.aborts = FALSE]
      /\ NativeElse /\ cmd' = cmd /\ wire' = wire /\ Says(<<f, g>>)
  BY <1>1, <1>2, <1>3 DEF NativeEnds
<1>5. /\ nat' \in NativeType /\ nat'.phase = [nat.phase EXCEPT ![r] = "over"]
      /\ nat'.nature = nat.nature /\ nat'.owes = nat.owes /\ ~nat'.aborts
  BY <1>4, PhaseIs DEF NativeType, Phases
<1>6. /\ nat'.phase[r] = "over" /\ nat.nature[r] = "agent"
      /\ turn[r].verdict \notin {"answer", "aborted"}
  BY <1>4, <1>5, PhaseIs DEF NatureInv
<1>7. w = "aborted" => turn[r].asked
  <2>1. SUFFICES ASSUME nat.aborts
                 PROVE  turn[r].asked
    BY <1>2
  <2>2. PICK q \in Runs : Working(nat, q) /\ turn[q].asked
    BY <2>1 DEF IInv, AbortInv
  <2>3. q = r
    BY <1>4, <2>2 DEF Working, Works, IInv, CmdInv
  <2> QED
    BY <2>2, <2>3
<1>8. FrameOk(turn, nat', f) /\ FrameOk(turn, nat', g)
  BY <1>1, <1>2, <1>3, <1>5, <1>6, <1>7 DEF FrameOk
<1>9. GoesOn(r, "over")
  BY <1>1, <1>3, <1>4, <1>5, <1>6, <1>8 DEF GoesOn
<1>10. MaySay(r, f) /\ MaySay(r, g)
  BY <1>1, <1>3, <1>4, <1>5, <1>6, <1>8 DEF MaySay
<1> QED
  BY <1>3, <1>4, <1>9, <1>10, NativeSaysTwo

\* A prompt fails late.
LEMMA NativeLateKeeps ==
  ASSUME IInv, NEW r \in Runs, NativeLate(r)
  PROVE  IInv'
<1>1. PICK f \in FrameType : f = Frame("late", r, "none") /\ f.kind = "late" /\ f.run = r
  BY FrameIs DEF Kinds, Whats
<1>2. /\ nat.phase[r] \in {"acked", "started", "over"} /\ nat.nature[r] = "agent"
      /\ nat' = [nat EXCEPT !.phase[r] = "over", !.aborts = FALSE, !.faulty = TRUE]
      /\ NativeElse /\ cmd' = cmd /\ wire' = wire /\ Says(<<f>>)
  BY <1>1 DEF NativeLate
<1>3. /\ nat' \in NativeType /\ nat'.phase = [nat.phase EXCEPT ![r] = "over"]
      /\ nat'.nature = nat.nature /\ nat'.owes = nat.owes /\ ~nat'.aborts
  BY <1>2, PhaseIs DEF NativeType, Phases
<1>4. nat'.phase[r] = "over"
  BY <1>3, PhaseIs
<1>5. FrameOk(turn, nat', f)
  BY <1>1, <1>4 DEF FrameOk
<1>6. GoesOn(r, "over")
  BY <1>1, <1>2, <1>3, <1>4, <1>5 DEF GoesOn
<1>7. MaySay(r, f)
  BY <1>1, <1>2, <1>3, <1>4, <1>5 DEF MaySay
<1> QED
  BY <1>1, <1>2, <1>6, <1>7, NativeSaysOne

\* The agent starts once more.
LEMMA NativeStraysKeeps ==
  ASSUME IInv, NEW r \in Runs, NativeStrays(r)
  PROVE  IInv'
<1>1. PICK f \in FrameType : f = Frame("start", r, "none") /\ f.kind = "start" /\ f.run = r
  BY FrameIs DEF Kinds, Whats
<1>2. /\ nat.phase[r] = "over" /\ nat' = [nat EXCEPT !.faulty = TRUE]
      /\ NativeElse /\ cmd' = cmd /\ wire' = wire /\ Says(<<f>>)
  BY <1>1 DEF NativeStrays
<1>3. /\ nat' \in NativeType /\ nat'.phase = nat.phase
      /\ nat'.nature = nat.nature /\ nat'.owes = nat.owes /\ nat'.aborts = nat.aborts
  BY <1>2, PhaseIs DEF NativeType
<1>4. nat'.phase = [nat.phase EXCEPT ![r] = "over"] /\ nat'.phase[r] = "over"
  BY <1>2, <1>3, PhaseIs
<1>5. FrameOk(turn, nat', f)
  BY <1>1, <1>4 DEF FrameOk
<1>6. ~Working(nat, r)
  BY <1>2 DEF Working
<1>7. GoesOn(r, "over")
  BY <1>1, <1>2, <1>3, <1>4, <1>5, <1>6 DEF GoesOn
<1>8. MaySay(r, f)
  BY <1>1, <1>2, <1>3, <1>4, <1>5, <1>6 DEF MaySay
<1> QED
  BY <1>1, <1>2, <1>7, <1>8, NativeSaysOne

\* A prompt that needs no agent is over; one that does is preflighted.
LEMMA NativeAdmitsKeeps ==
  ASSUME IInv, NEW r \in Runs, NativeAdmits(r)
  PROVE  IInv'
<1>1. /\ nat.phase[r] = "acked" /\ nat.nature[r] \in {"agent", "none"}
      /\ NativeElse /\ cmd' = cmd /\ ~Working(nat, r)
  BY PhaseIs DEF NativeAdmits, NatureInv, Working
<1>2. CASE nat.nature[r] = "none"
  <2>1. PICK f \in FrameType : /\ f = Frame("result", r, "none") /\ f.kind = "result" /\ f.run = r
    BY FrameIs DEF Kinds, Whats
  <2>2. /\ nat' = [nat EXCEPT !.phase[r] = "over"] /\ wire' = wire /\ Says(<<f>>)
    BY <1>2, <2>1 DEF NativeAdmits, Becomes
  <2>3. /\ nat' \in NativeType /\ nat'.phase = [nat.phase EXCEPT ![r] = "over"]
        /\ nat'.nature = nat.nature /\ nat'.owes = nat.owes /\ nat'.aborts = nat.aborts
    BY <2>2, PhaseIs DEF NativeType, Phases
  <2>4. nat'.phase[r] = "over"
    BY <2>3, PhaseIs
  <2>5. turn[r].seen # r
    <3>1. NatureInv(turn[r], r, nat) /\ OwnInv(turn[r], r) /\ r # 0
      BY PhaseIs, TurnIs, TurnAssumption DEF RunOk, Runs
    <3> QED
      BY <1>1, <1>2, <3>1, TurnAssumption DEF NatureInv, OwnInv, Runs
  <2>6. FrameOk(turn, nat', f)
    BY <1>2, <2>1, <2>3, <2>4, <2>5 DEF FrameOk
  <2>7. GoesOn(r, "over")
    BY <1>1, <2>3 DEF GoesOn
  <2>8. MaySay(r, f)
    BY <1>1, <2>1, <2>6 DEF MaySay
  <2> QED
    BY <2>1, <2>2, <2>7, <2>8, NativeSaysOne
<1>3. CASE nat.nature[r] # "none"
  <2>1. /\ nat' = [nat EXCEPT !.phase[r] = "preflight"] /\ wire' = Append(wire, r) /\ out' = out
    BY <1>3 DEF NativeAdmits, Becomes
  <2>2. /\ nat' \in NativeType /\ nat'.phase = [nat.phase EXCEPT ![r] = "preflight"]
        /\ nat'.nature = nat.nature /\ nat'.owes = nat.owes /\ nat'.aborts = nat.aborts
    BY <2>1, PhaseIs DEF NativeType, Phases
  <2>3. nat'.phase[r] = "preflight" /\ nat.nature[r] = "agent"
    BY <1>1, <1>3, <2>2, PhaseIs
  <2>4. GoesOn(r, "preflight")
    BY <1>1, <2>2, <2>3 DEF GoesOn
  <2>5. PICK fs : fs = <<>> /\ fs \in Seq(FrameType) /\ DOMAIN fs = {}
    BY EmptyAt
  <2>6. Says(fs)
    BY <2>1, <2>5, ConcatEmptySeq DEF Says, IInv, TypeInv
  <2>7. /\ wire' \in Seq(Runs)
        /\ \A i \in DOMAIN wire' : \/ i \in DOMAIN wire /\ wire'[i] = wire[i]
                                   \/ i = Len(wire) + 1 /\ wire'[i] = r
    BY <2>1, AppendAt DEF IInv, TypeInv
  <2>8. ASSUME NatKeeps(nat, nat')
        PROVE  ReportsInv'
    <3>1. turn' = turn /\ pre' = pre
      BY <1>1 DEF NativeElse
    <3>2. \A x \in Runs : Reported(turn, nat, x) => Reported(turn', nat', x)
      BY <2>8, <3>1 DEF Reported, NatKeeps
    <3>3. /\ \A i \in DOMAIN pre : pre[i] \in Runs
          /\ \A i \in DOMAIN wire : wire[i] \in Runs
      BY DEF IInv, TypeInv
    <3>4. ~Reported(turn, nat, r)
      BY <1>1 DEF Reported
    <3>5. (\A i \in DOMAIN pre : pre[i] # r) /\ (\A i \in DOMAIN wire : wire[i] # r)
      BY <3>3, <3>4 DEF IInv, ReportsInv
    <3>6. turn[r].token = 0
      BY <1>1, PhaseIs DEF NatureInv
    <3>7. Reported(turn', nat', r)
      BY <2>2, <2>3, <3>1, <3>6 DEF Reported
    <3>8. /\ \A i \in DOMAIN pre : Reported(turn', nat', pre[i])
          /\ \A i \in DOMAIN wire' : Reported(turn', nat', wire'[i])
      BY <2>7, <3>2, <3>3, <3>7 DEF IInv, ReportsInv
    <3>9. /\ \A i, j \in DOMAIN wire' : wire'[i] = wire'[j] => i = j
          /\ \A i \in DOMAIN pre, j \in DOMAIN wire' : pre[i] # wire'[j]
      BY <2>7, <3>5 DEF IInv, ReportsInv
    <3>10. \A i, j \in DOMAIN pre : pre[i] = pre[j] => i = j
      BY DEF IInv, ReportsInv
    <3> QED
      BY <3>1, <3>8, <3>9, <3>10 DEF ReportsInv
  <2>9. /\ \A k \in DOMAIN fs : MaySay(r, fs[k])
        /\ \A k, l \in DOMAIN fs : k < l => Follows(fs[k], fs[l])
    BY <2>5
  <2> QED
    BY <2>4, <2>5, <2>6, <2>7, <2>8, <2>9, NativeGoes
<1> QED
  BY <1>2, <1>3

\* Native reads a prompt when it works on none.
LEMMA NativeReadsKeeps ==
  ASSUME IInv, NEW r \in Runs, NativeReads(r)
  PROVE  IInv'
<1>1. PICK n \in Natures :
       /\ nat' = [nat EXCEPT !.nature[r] = n,
                  !.phase[r] = IF n \in {"agent", "none"} THEN "acked" ELSE "over"]
       /\ Says(CASE n \in {"agent", "none"} -> <<Frame("response", r, "ok")>>
                 [] n = "refused" -> <<Frame("response", r, "error")>>
                 [] n = "silent" -> <<Frame("response", r, "noagent")>>
                 [] n = "both" -> <<Frame("response", r, "noagent"), Frame("result", r, "none")>>)
  BY DEF NativeReads
<1>2. /\ cmd # <<>> /\ Head(cmd) = r /\ ~Busy /\ cmd' = Tail(cmd) /\ wire' = wire
      /\ turn' = turn /\ pre' = pre /\ rpc' = rpc /\ NativeElse
  BY DEF NativeReads, NativeElse
<1>3. n \in {"agent", "none", "silent", "both", "refused"}
  BY TurnAssumption
<1>4. PICK p \in {"acked", "over"} : p = IF n \in {"agent", "none"} THEN "acked" ELSE "over"
  OBVIOUS
<1>5. /\ nat' \in NativeType /\ nat'.phase = [nat.phase EXCEPT ![r] = p]
      /\ nat'.nature = [nat.nature EXCEPT ![r] = n]
      /\ nat'.owes = nat.owes /\ nat'.aborts = nat.aborts
  <2>1. nat' = [nat EXCEPT !.nature[r] = n, !.phase[r] = p] /\ nat \in NativeType
    BY <1>1, <1>4, PhaseIs
  <2> QED
    BY <1>3, <2>1 DEF NativeType, Phases
<1>6. /\ \A x \in Runs : nat'.phase[x] = IF x = r THEN p ELSE nat.phase[x]
      /\ \A x \in Runs : nat'.nature[x] = IF x = r THEN n ELSE nat.nature[x]
  BY <1>5 DEF IInv, TypeInv, NativeType
<1>7. /\ cmd' \in Seq(0 .. MaxRuns) /\ 1 \in DOMAIN cmd /\ cmd[1] = r
      /\ \A i \in DOMAIN cmd' : i \in Nat /\ i + 1 \in DOMAIN cmd /\ cmd'[i] = cmd[i + 1]
  BY <1>2, TailAt DEF IInv, TypeInv
<1>8. nat.phase[r] = "unread" /\ nat.nature[r] = "unknown" /\ turn[r].prompt # "none"
  <2>1. r # 0
    BY TurnAssumption DEF Runs
  <2> QED
    BY <1>7, <2>1, PhaseIs DEF IInv, CmdInv, NatureInv
<1>9. NatKeeps(nat, nat')
  BY <1>6, <1>8 DEF NatKeeps
<1>10. ASSUME NEW x \in Runs
       PROVE  NatureInv(turn[x], x, nat')
  <2>1. CASE x # r
    BY <1>6, <1>9, <2>1, NatureKeeps
  <2>2. CASE x = r
    <3>1. NatureInv(turn[r], r, nat)
      BY PhaseIs
    <3>2. ~(turn[r].seen \in 1 .. r - 1 /\ nat.nature[turn[r].seen] = "both") => ~NoAgent(turn[r])
      BY <1>8, <3>1 DEF NatureInv
    <3>3. ASSUME turn[r].seen \in 1 .. r - 1, nat.nature[turn[r].seen] = "both"
          PROVE  nat'.nature[turn[r].seen] = "both"
      <4>1. turn[r].seen \in Runs /\ turn[r].seen # r
        BY <3>3, TurnAssumption DEF Runs
      <4> QED
        BY <1>6, <3>3, <4>1
    <3>4. /\ turn[r].token = 0 /\ turn[r].response # "noagent"
          /\ turn[r].verdict \notin {"answer", "aborted"}
      BY <1>8, <3>1 DEF NatureInv
    <3>5. /\ nat'.phase[r] = p /\ nat'.nature[r] = n
          /\ p = "acked" <=> n \in {"agent", "none"}
      BY <1>4, <1>6
    <3> QED
      BY <1>3, <1>8, <2>2, <3>2, <3>3, <3>4, <3>5 DEF NatureInv
  <2> QED
    BY <2>1, <2>2
<1>11. CmdInv'
  <2>1. \A i \in DOMAIN cmd' : i + 1 # 1 /\ cmd'[i] # r
    <3>1. \A i \in DOMAIN cmd' : i + 1 # 1
      BY <1>7, LenProperties
    <3> QED
      BY <1>7, <3>1 DEF IInv, CmdInv
  <2>2. \A i \in DOMAIN cmd' : cmd'[i] # 0 => cmd'[i] \in Runs
    BY SMTT(30), <1>7, TurnAssumption DEF IInv, TypeInv, Runs
  <2>3. \A i \in DOMAIN cmd' : cmd'[i] # 0 =>
          nat'.phase[cmd'[i]] = "unread" /\ turn'[cmd'[i]].prompt # "none"
    BY <1>2, <1>6, <1>7, <2>1, <2>2 DEF IInv, CmdInv
  <2>4. ASSUME NEW i \in DOMAIN cmd', NEW j \in DOMAIN cmd', cmd'[i] = cmd'[j]
        PROVE  i = j
    <3>1. i + 1 = j + 1
      BY <1>7, <2>4 DEF IInv, CmdInv
    <3> QED
      BY <1>7, <3>1
  <2>5. \A x \in Runs : ~Works(nat, x)
    BY <1>2 DEF Busy, Works
  <2>6. \A x, y \in Runs : Works(nat', x) /\ Works(nat', y) => x = y
    BY <1>6, <2>5 DEF Works
  <2> QED
    BY <2>3, <2>4, <2>6 DEF CmdInv
<1>12. ReportsInv'
  BY <1>2, <1>9, NoReport
<1>13. PICK fs \in Seq(FrameType) :
         /\ Says(fs)
         /\ \A k \in DOMAIN fs :
              /\ fs[k].run = r /\ fs[k].kind \in {"response", "result"}
              /\ fs[k].kind = "result" => n = "both"
              /\ fs[k].kind = "response" /\ fs[k].what = "noagent" => n \in {"silent", "both"}
         /\ \A k, l \in DOMAIN fs : k < l => fs[k].kind = "response"
  <2>1. ASSUME NEW w \in {"ok", "error", "noagent"}, Says(<<Frame("response", r, w)>>),
               w = "noagent" => n \in {"silent", "both"}
        PROVE  \E fs \in Seq(FrameType) :
         /\ Says(fs)
         /\ \A k \in DOMAIN fs :
              /\ fs[k].run = r /\ fs[k].kind \in {"response", "result"}
              /\ fs[k].kind = "result" => n = "both"
              /\ fs[k].kind = "response" /\ fs[k].what = "noagent" => n \in {"silent", "both"}
         /\ \A k, l \in DOMAIN fs : k < l => fs[k].kind = "response"
    <3>1. PICK f \in FrameType : /\ f = Frame("response", r, w) /\ f.kind = "response" /\ f.run = r
                                 /\ f.what = w
      BY ResponseFrame
    <3>2. <<f>> \in Seq(FrameType) /\ \A k \in DOMAIN <<f>> : k = 1 /\ <<f>>[k] = f
      BY OneFrame
    <3>3. PICK fs : /\ fs = <<f>> /\ fs \in Seq(FrameType) /\ \A k \in DOMAIN fs : k = 1 /\ fs[k] = f
      BY <3>2
    <3>4. Says(fs)
      BY <2>1, <3>1, <3>3
    <3> QED
      BY <2>1, <3>1, <3>3, <3>4
  <2>2. CASE n \in {"agent", "none"}
    BY <1>1, <2>1, <2>2
  <2>3. CASE n = "refused"
    BY <1>1, <2>1, <2>3
  <2>4. CASE n = "silent"
    BY <1>1, <2>1, <2>4
  <2>5. CASE n = "both"
    <3>1. PICK f \in FrameType : /\ f = Frame("response", r, "noagent") /\ f.kind = "response" /\ f.run = r
      BY ResponseFrame
    <3>2. PICK g \in FrameType : /\ g = Frame("result", r, "none") /\ g.kind = "result" /\ g.run = r
      BY FrameIs DEF Kinds, Whats
    <3>3. /\ <<f, g>> \in Seq(FrameType)
          /\ \A k \in DOMAIN <<f, g>> : (k = 1 /\ <<f, g>>[k] = f) \/ (k = 2 /\ <<f, g>>[k] = g)
      BY TwoFrames
    <3>4. PICK fs : /\ fs = <<f, g>> /\ fs \in Seq(FrameType)
                    /\ \A k \in DOMAIN fs : (k = 1 /\ fs[k] = f) \/ (k = 2 /\ fs[k] = g)
      BY <3>3
    <3>5. Says(fs)
      BY <1>1, <2>5, <3>1, <3>2, <3>4
    <3>6. \A k \in DOMAIN fs :
            /\ fs[k].run = r /\ fs[k].kind \in {"response", "result"}
            /\ fs[k].kind = "result" => n = "both"
            /\ fs[k].kind = "response" /\ fs[k].what = "noagent" => n \in {"silent", "both"}
      BY <2>5, <3>1, <3>2, <3>4
    <3>7. \A k, l \in DOMAIN fs : k < l => fs[k].kind = "response"
      BY <3>1, <3>4
    <3> QED
      BY <3>4, <3>5, <3>6, <3>7
  <2> QED
    BY <1>3, <2>2, <2>3, <2>4, <2>5
<1>14. ASSUME NEW k \in DOMAIN fs
       PROVE  FrameOk(turn, nat', fs[k])
  <2>1. nat'.phase[r] = p /\ nat'.nature[r] = n /\ (n = "both" => p = "over")
    BY <1>4, <1>6
  <2>2. turn[r].seen # r
    <3>1. NatureInv(turn[r], r, nat) /\ OwnInv(turn[r], r) /\ r # 0
      BY PhaseIs, TurnIs, TurnAssumption DEF RunOk, Runs
    <3> QED
      BY <1>8, <3>1, TurnAssumption DEF NatureInv, OwnInv, Runs
  <2> QED
    BY <1>13, <2>1, <2>2 DEF FrameOk
<1>15. FrameInv'
  <2>1. \A k \in DOMAIN fs : fs[k].kind \in {"message", "end", "result"} => nat.phase[fs[k].run] # "over"
    BY <1>8, <1>13
  <2>2. \A k, l \in DOMAIN fs : k < l => Follows(fs[k], fs[l])
    BY <1>13 DEF Follows
  <2> QED
    BY <1>2, <1>9, <1>13, <1>14, <2>1, <2>2, FramesGrow DEF IInv
<1>16. AbortInv'
  <2>1. AbortWritten' => AbortWritten
    BY <1>7 DEF AbortWritten
  <2>2. ~nat'.aborts
    BY <1>2, <1>5 DEF IInv, AbortInv, Busy, Working
  <2>3. \A k \in DOMAIN fs : fs[k].kind # "abort"
    BY <1>13
  <2> QED
    BY <1>2, <1>5, <1>13, <2>1, <2>2, <2>3, AbortsGrow DEF IInv
<1>17. out' \in Seq(FrameType) /\ wire' \in Seq(Runs)
  BY <1>2, <1>13, SaysIs DEF IInv, TypeInv
<1> QED
  BY <1>2, <1>5, <1>7, <1>10, <1>11, <1>12, <1>15, <1>16, <1>17, NativeHolds

\* Whoever has an abort on its way is the run whose prompt native works on, if it works.
LEMMA AborterIs ==
  ASSUME IInv, NEW p \in Runs, Aborting(turn[p]), NEW q \in Runs, Works(nat, q)
  PROVE  Working(nat, q) /\ turn[q].asked
<1>1. Admitted(turn[p]) /\ turn[p].asked /\ turn[p].pc \in Now \cup Ends /\ turn[p].prompt # "none"
  BY TurnIs DEF RunOk, OwnInv, StepInv, Aborting, Fresh, Admitted, TurnType, Now, Ends
<1>2. nat.phase[p] \notin {"unread", "acked"}
  BY <1>1, PhaseIs DEF NatureInv, Admitted
<1>3. CASE p = q
  BY <1>1, <1>2, <1>3 DEF Works, Working
<1>4. CASE p # q /\ turn[p].pc \in Now
  BY <1>4, PastIs DEF Works
<1>5. CASE p # q /\ turn[p].pc \in Ends
  <2>1. turn[p].failed
    BY <1>5, TurnIs DEF RunOk, OwnInv, Clear, Aborting
  <2>2. turn[q].prompt # "none" /\ turn[q].pc # "idle"
    BY TurnIs DEF RunOk, NatureInv, StepInv, Works
  <2>3. ~(p \in 1 .. q - 1)
    BY <2>1, <2>2 DEF IInv, SeqInv
  <2>4. q \in 1 .. p - 1
    BY <1>5, <2>3, TurnAssumption DEF Runs
  <2>5. turn[p].pc # "idle"
    BY <1>5 DEF Ends
  <2>6. turn[q].pc = "done" /\ ~turn[q].failed
    BY <1>1, <2>4, <2>5 DEF IInv, SeqInv
  <2>7. Ready(turn[q]) /\ turn[q].seen \in {0, q} /\ (Admitted(turn[q]) \/ NoAgent(turn[q]))
    BY <2>2, <2>6, TurnIs DEF RunOk, OwnInv, Clear, Ends
  <2>8. nat.phase[q] = "over"
    <3>1. CASE NoAgent(turn[q])
      <4>1. q \notin 1 .. q - 1 /\ 0 \notin 1 .. q - 1
        BY TurnAssumption DEF Runs
      <4> QED
        BY <2>7, <3>1, <4>1, PhaseIs DEF NatureInv, Works
    <3>2. CASE ~NoAgent(turn[q])
      <4>1. turn[q].verdict \in {"answer", "aborted"}
        BY <2>7, <3>2, TurnIs DEF Ready, NoAgent, TurnType
      <4> QED
        BY <4>1, PhaseIs DEF NatureInv
    <3> QED
      BY <3>1, <3>2
  <2> QED
    BY <2>8 DEF Works
<1> QED
  BY <1>1, <1>3, <1>4, <1>5

\* Native reads the abort: what it works on is aborted.
LEMMA NativeReadsAbortKeeps ==
  ASSUME IInv, NativeReadsAbort
  PROVE  IInv'
<1>1. /\ cmd # <<>> /\ Head(cmd) = 0 /\ cmd' = Tail(cmd) /\ NativeElse /\ out' = out /\ wire' = wire
      /\ turn' = turn /\ pre' = pre
  BY DEF NativeReadsAbort, NativeElse
<1>2. /\ nat' \in NativeType /\ nat'.phase = nat.phase /\ nat'.nature = nat.nature
      /\ nat'.owes = TRUE /\ (nat'.aborts => Busy)
  <2>1. PICK b \in BOOLEAN : b = Busy
    BY DEF Busy
  <2>2. nat' = [nat EXCEPT !.aborts = b, !.owes = TRUE] /\ nat \in NativeType
    BY <2>1 DEF NativeReadsAbort, IInv, TypeInv
  <2> QED
    BY <2>1, <2>2 DEF NativeType
<1>3. /\ cmd' \in Seq(0 .. MaxRuns) /\ 1 \in DOMAIN cmd /\ cmd[1] = 0
      /\ \A i \in DOMAIN cmd' : i \in Nat /\ i + 1 \in DOMAIN cmd /\ cmd'[i] = cmd[i + 1]
  BY <1>1, TailAt DEF IInv, TypeInv
<1>4. \A i \in DOMAIN cmd' : i + 1 # 1 /\ cmd'[i] # 0
  <2>1. \A i \in DOMAIN cmd' : i + 1 # 1
    BY <1>3, LenProperties
  <2> QED
    BY <1>3, <2>1 DEF IInv, CmdInv
<1>5. NatKeeps(nat, nat')
  BY <1>2 DEF NatKeeps
<1>6. \A x \in Runs : NatureInv(turn[x], x, nat')
  BY <1>2, <1>5, NatureKeeps
<1>7. CmdInv'
  <2>1. \A i \in DOMAIN cmd' : cmd'[i] # 0 =>
          nat'.phase[cmd'[i]] = "unread" /\ turn'[cmd'[i]].prompt # "none"
    BY <1>1, <1>2, <1>3 DEF IInv, CmdInv
  <2>2. ASSUME NEW i \in DOMAIN cmd', NEW j \in DOMAIN cmd', cmd'[i] = cmd'[j]
        PROVE  i = j
    <3>1. i + 1 = j + 1
      BY <1>3, <2>2 DEF IInv, CmdInv
    <3> QED
      BY <1>3, <3>1
  <2>3. \A x, y \in Runs : Works(nat', x) /\ Works(nat', y) => x = y
    BY <1>2 DEF IInv, CmdInv, Works
  <2> QED
    BY <2>1, <2>2, <2>3 DEF CmdInv
<1>8. ReportsInv'
  BY <1>1, <1>5, NoReport
<1>9. FrameInv'
  <2>1. \A x \in Runs : Holds(turn[x], turn'[x])
    BY <1>1 DEF Holds
  <2> QED
    BY <1>1, <1>5, <2>1, FramesKeep DEF IInv
<1>10. AbortInv'
  <2>1. AbortWritten /\ ~AbortAnswered
    BY <1>3 DEF IInv, AbortInv, AbortWritten
  <2>2. PICK p \in Runs : Aborting(turn[p])
    BY <2>1 DEF IInv, AbortInv
  <2>3. ~AbortWritten' /\ ~AbortAnswered'
    BY <1>1, <1>4, <2>1 DEF AbortWritten, AbortAnswered
  <2>4. \A i, j \in DOMAIN out' : out'[i].kind = "abort" /\ out'[j].kind = "abort" => i = j
    BY <1>1 DEF IInv, AbortInv
  <2>5. nat'.aborts => \E q \in Runs : Working(nat', q) /\ turn'[q].asked
    <3>1. SUFFICES ASSUME Busy
                   PROVE  \E q \in Runs : Working(nat', q) /\ turn'[q].asked
      BY <1>2
    <3>2. PICK q \in Runs : Works(nat, q)
      BY <3>1 DEF Busy, Works
    <3>3. Working(nat, q) /\ turn[q].asked
      BY <2>2, <3>2, AborterIs
    <3> QED
      BY <1>1, <1>2, <3>3 DEF Working
  <2>6. Aborting(turn'[p])
    BY <1>1, <2>2
  <2> QED
    BY <2>3, <2>4, <2>5, <2>6 DEF AbortInv
<1>11. out' \in Seq(FrameType) /\ wire' \in Seq(Runs)
  BY <1>1 DEF IInv, TypeInv
<1> QED
  BY <1>1, <1>2, <1>3, <1>6, <1>7, <1>8, <1>9, <1>10, <1>11, NativeHolds

\* The managed extension reports an error.
LEMMA NativeBreaksKeeps ==
  ASSUME IInv, NEW r \in Runs, NativeBreaks(r)
  PROVE  IInv'
<1>1. PICK f \in FrameType : f = Frame("broken", r, "none") /\ f.kind = "broken" /\ f.run = r
  BY FrameIs DEF Kinds, Whats
<1>2. PICK fs : fs = <<f>> /\ fs \in Seq(FrameType) /\ \A k \in DOMAIN fs : k = 1 /\ fs[k] = f
  <2>1. <<f>> \in Seq(FrameType) /\ \A k \in DOMAIN <<f>> : k = 1 /\ <<f>>[k] = f
    BY OneFrame
  <2> QED
    BY <2>1
<1>3. /\ NativeElse /\ turn' = turn /\ pre' = pre /\ cmd' = cmd /\ wire' = wire
      /\ nat.phase[r] # "unread" /\ nat' = [nat EXCEPT !.faulty = TRUE] /\ Says(fs)
  BY <1>1, <1>2 DEF NativeBreaks, NativeElse
<1>4. /\ nat' \in NativeType /\ nat'.phase = nat.phase /\ nat'.nature = nat.nature
      /\ nat'.aborts = nat.aborts /\ nat'.owes = nat.owes
  BY <1>3 DEF IInv, TypeInv, NativeType
<1>5. NatKeeps(nat, nat')
  BY <1>4 DEF NatKeeps
<1>6. \A x \in Runs : NatureInv(turn[x], x, nat')
  BY <1>4, <1>5, NatureKeeps
<1>7. CmdInv'
  BY <1>3, <1>4 DEF IInv, CmdInv, Works
<1>8. ReportsInv'
  BY <1>3, <1>5, NoReport
<1>9. FrameInv'
  <2>1. \A k \in DOMAIN fs : FrameOk(turn, nat', fs[k])
    BY <1>1, <1>2, <1>3, <1>4 DEF FrameOk
  <2>2. \A k, l \in DOMAIN fs : k < l => Follows(fs[k], fs[l])
    BY <1>2
  <2>3. \A k \in DOMAIN fs : fs[k].kind \in {"message", "end", "result"} =>
           nat.phase[fs[k].run] # "over"
    BY <1>1, <1>2
  <2> QED
    BY <1>2, <1>3, <1>5, <2>1, <2>2, <2>3, FramesGrow DEF IInv
<1>10. AbortInv'
  <2>1. AbortWritten' => AbortWritten
    BY <1>3 DEF AbortWritten
  <2>2. nat'.aborts => \E x \in Runs : Working(nat', x) /\ turn[x].asked
    BY <1>4 DEF IInv, AbortInv, Working
  <2>3. \A k \in DOMAIN fs : fs[k].kind # "abort"
    BY <1>1, <1>2
  <2> QED
    BY <1>2, <1>3, <1>4, <2>1, <2>2, <2>3, AbortsGrow DEF IInv
<1>11. out' \in Seq(FrameType) /\ wire' \in Seq(Runs) /\ cmd' \in Seq(0 .. MaxRuns)
  BY <1>2, <1>3, SaysIs DEF IInv, TypeInv
<1> QED
  BY <1>3, <1>4, <1>6, <1>7, <1>8, <1>9, <1>10, <1>11, NativeHolds

\* Native answers the abort.
LEMMA NativeAbortedKeeps ==
  ASSUME IInv, NativeAborted
  PROVE  IInv'
<1>1. PICK f \in FrameType : f = Frame("abort", 0, "none") /\ f.kind = "abort"
  <2>1. Frame("abort", 0, "none") \in FrameType /\ Frame("abort", 0, "none").kind = "abort"
    BY TurnAssumption DEF Frame, FrameType, Kinds, Whats
  <2> QED
    BY <2>1
<1>2. PICK fs : fs = <<f>> /\ fs \in Seq(FrameType) /\ \A k \in DOMAIN fs : k = 1 /\ fs[k] = f
  <2>1. <<f>> \in Seq(FrameType) /\ \A k \in DOMAIN <<f>> : k = 1 /\ <<f>>[k] = f
    BY OneFrame
  <2> QED
    BY <2>1
<1>3. /\ NativeElse /\ turn' = turn /\ pre' = pre /\ cmd' = cmd /\ wire' = wire
      /\ nat.owes /\ nat' = [nat EXCEPT !.owes = FALSE] /\ Says(fs)
  BY <1>1, <1>2 DEF NativeAborted, NativeElse
<1>4. /\ nat' \in NativeType /\ nat'.phase = nat.phase /\ nat'.nature = nat.nature
      /\ nat'.aborts = nat.aborts /\ ~nat'.owes
  BY <1>3 DEF IInv, TypeInv, NativeType
<1>5. NatKeeps(nat, nat')
  BY <1>4 DEF NatKeeps
<1>6. \A x \in Runs : NatureInv(turn[x], x, nat')
  BY <1>4, <1>5, NatureKeeps
<1>7. CmdInv'
  BY <1>3, <1>4 DEF IInv, CmdInv, Works
<1>8. ReportsInv'
  BY <1>3, <1>5, NoReport
<1>9. FrameInv'
  <2>1. \A k \in DOMAIN fs : FrameOk(turn, nat', fs[k])
    BY <1>1, <1>2 DEF FrameOk
  <2>2. \A k, l \in DOMAIN fs : k < l => Follows(fs[k], fs[l])
    BY <1>2
  <2>3. \A k \in DOMAIN fs : fs[k].kind \in {"message", "end", "result"} =>
           nat.phase[fs[k].run] # "over"
    BY <1>1, <1>2
  <2> QED
    BY <1>2, <1>3, <1>5, <2>1, <2>2, <2>3, FramesGrow DEF IInv
<1>10. AbortInv'
  <2>1. ~AbortWritten /\ ~AbortAnswered
    BY <1>3 DEF IInv, AbortInv
  <2>2. ~AbortWritten'
    BY <1>3, <2>1 DEF AbortWritten
  <2>3. \A i \in DOMAIN out' : \/ i \in DOMAIN out /\ out'[i] = out[i]
                               \/ \E k \in DOMAIN fs : i = Len(out) + k /\ out'[i] = fs[k]
    BY <1>2, <1>3, SaysIs DEF IInv, TypeInv
  <2>4. \A i \in DOMAIN out' : out'[i].kind = "abort" => i = Len(out) + 1
    BY <1>2, <2>1, <2>3 DEF AbortAnswered
  <2>5. PICK q \in Runs : Aborting(turn[q])
    BY <1>3 DEF IInv, AbortInv
  <2>6. nat'.aborts => \E x \in Runs : Working(nat', x) /\ turn'[x].asked
    BY <1>3, <1>4 DEF IInv, AbortInv, Working
  <2>7. Aborting(turn'[q])
    BY <1>3, <2>5
  <2>8. \A i, j \in DOMAIN out' : out'[i].kind = "abort" /\ out'[j].kind = "abort" => i = j
    BY <2>4
  <2> QED
    BY <1>4, <2>2, <2>6, <2>7, <2>8 DEF AbortInv
<1>11. out' \in Seq(FrameType) /\ wire' \in Seq(Runs) /\ cmd' \in Seq(0 .. MaxRuns)
  BY <1>2, <1>3, SaysIs DEF IInv, TypeInv
<1> QED
  BY <1>3, <1>4, <1>6, <1>7, <1>8, <1>9, <1>10, <1>11, NativeHolds

\* Native exits.
LEMMA NativeExitsKeeps ==
  ASSUME IInv, NativeExits
  PROVE  IInv'
<1>1. /\ NativeElse /\ turn' = turn /\ pre' = pre /\ cmd' = cmd /\ wire' = wire /\ out' = out
      /\ nat' = [nat EXCEPT !.alive = FALSE, !.exited = TRUE]
  BY DEF NativeExits, NativeElse
<1>2. /\ nat' \in NativeType /\ nat'.phase = nat.phase /\ nat'.nature = nat.nature
      /\ nat'.aborts = nat.aborts /\ nat'.owes = nat.owes
  BY <1>1 DEF IInv, TypeInv, NativeType
<1>3. TypeInv' /\ SeqInv'
  BY <1>1, <1>2 DEF IInv, TypeInv, SeqInv, NativeElse
<1>4. RunInv'
  BY <1>1, <1>2 DEF IInv, RunInv, RunOk, NatureInv, NativeElse
<1>5. CmdInv' /\ ReportsInv'
  BY <1>1, <1>2 DEF IInv, CmdInv, ReportsInv, Reported, Works
<1>6. FrameInv'
  BY <1>1, <1>2 DEF IInv, FrameInv, FrameOk
<1>7. AbortInv'
  BY <1>1, <1>2 DEF IInv, AbortInv, AbortWritten, AbortAnswered, Working
<1> QED
  BY <1>3, <1>4, <1>5, <1>6, <1>7 DEF IInv

-----------------------------------------------------------------------------
(* The specification.                                                      *)

\* Nothing has happened.
LEMMA Initial == Init => IInv
<1> SUFFICES ASSUME Init
             PROVE  IInv
  OBVIOUS
<1>1. NewTurn \in TurnType /\ NewNative \in NativeType
  BY TurnAssumption DEF NewTurn, TurnType, NewNative, NativeType, Phases
<1>2. TypeInv
  <2>1. turn \in [Runs -> TurnType] /\ nat \in NativeType
    BY <1>1 DEF Init
  <2>2. cmd \in Seq(0 .. MaxRuns) /\ out \in Seq(FrameType) /\ wire \in Seq(Runs) /\ pre \in Seq(Runs)
    BY EmptyAt DEF Init
  <2>3. intr \in [Runs -> {"none", "found", "cancel", "calls", "over"}]
    BY DEF Init
  <2>4. active \in 0 .. MaxRuns
    BY TurnAssumption DEF Init
  <2>5. lost \in BOOLEAN /\ rpc \in {"up", "closed", "eof", "observer", "protocol", "ctx"}
    BY DEF Init
  <2> QED
    BY <2>1, <2>2, <2>3, <2>4, <2>5 DEF TypeInv
<1>3. \A r \in Runs : RunOk(NewTurn, r, NewNative)
  BY DEF NewTurn, NewNative, RunOk, StepInv, ReportInv, OwnInv, NatureInv, Fresh, Ready, NoAgent,
     Admitted, Clear, Now, Past, Waits, Ends
<1>4. RunInv
  BY <1>3 DEF Init, RunInv
<1>5. SeqInv
  BY TurnAssumption DEF Init, SeqInv, NewTurn, Now, Runs
<1>6. CmdInv /\ ReportsInv /\ FrameInv
  BY EmptyAt DEF Init, CmdInv, ReportsInv, FrameInv, Works, NewNative
<1>7. AbortInv
  BY EmptyAt DEF Init, AbortInv, AbortWritten, AbortAnswered, NewNative
<1> QED
  BY <1>2, <1>4, <1>5, <1>6, <1>7 DEF IInv

\* Every step preserves the invariant.
LEMMA Inductive == IInv /\ [Next]_vars => IInv'
<1> SUFFICES ASSUME IInv, [Next]_vars
             PROVE  IInv'
  OBVIOUS
<1>1. ASSUME NEW r \in Runs, RunStep(r)
      PROVE  IInv'
  BY <1>1, BeginKeeps, HandoffInterruptedKeeps, SubmitKeeps, ResponseKeeps, ResponseGivenUpKeeps,
     AdmitLeavesKeeps, AdmitPreflightKeeps, AdmitFailsKeeps, WaitBeginsKeeps, AbortReturnsKeeps,
     CompleteKeeps, FinishKeeps, JoinKeeps, SnapshotKeeps, RunReturnsKeeps DEF RunStep
<1>2. ASSUME NEW r \in Runs, IntAct(r) \/ UiSettles(r) \/ IntAsk(r) \/ CtxEnds(r)
      PROVE  IInv'
  BY <1>2, IntActKeeps, UiSettlesKeeps, IntAskKeeps, CtxEndsKeeps
<1>3. ASSUME NEW r \in Runs, NativeStep(r)
      PROVE  IInv'
  BY <1>3, NativeReadsKeeps, NativeAdmitsKeeps, NativeStartsKeeps, NativeEndsKeeps DEF NativeStep
<1>4. ASSUME LaneStep
      PROVE  IInv'
  BY <1>4, OwnerStopsKeeps, OwnerEndsKeeps, OutputEndsKeeps, PreflightKeeps, ReadKeeps DEF LaneStep
<1>5. CASE Progress
  BY <1>1, <1>2, <1>3, <1>4, <1>5, NativeReadsAbortKeeps, NativeAbortedKeeps DEF Progress
<1>6. CASE Incident
  BY <1>2, <1>6, NativeLateKeeps, NativeStraysKeeps, NativeBreaksKeeps, NativeAsksKeeps,
     NativePausesKeeps, NativeExitsKeeps DEF Incident
<1>7. CASE UNCHANGED vars
  <2>1. UNCHANGED <<turn, intr, active, lost, rpc, cmd, out, wire, pre, nat>>
    BY <1>7 DEF vars
  <2>2. TypeInv' /\ RunInv' /\ SeqInv' /\ CmdInv'
    BY <2>1 DEF IInv, TypeInv, RunInv, SeqInv, CmdInv
  <2>3. ReportsInv'
    BY <2>1 DEF IInv, ReportsInv
  <2>4. FrameInv'
    BY <2>1 DEF IInv, FrameInv
  <2>5. AbortInv'
    BY <2>1 DEF IInv, AbortInv, AbortWritten, AbortAnswered
  <2> QED
    BY <2>2, <2>3, <2>4, <2>5 DEF IInv
<1> QED
  BY <1>5, <1>6, <1>7 DEF Next

\* What an earlier run leaves behind never reaches the active one, for any number of runs
\* and whatever native, interrupts and faults do: IInv holds in every reachable state.
THEOREM Invariant == Spec => []IInv
BY Initial, Inductive, PTL DEF Spec

\* The lane has a turn exactly while its run is between the submission and the snapshot.
THEOREM TypeCorrect == Spec => []TypeOK
<1>1. IInv => TypeOK
  <2> SUFFICES ASSUME IInv
               PROVE  TypeOK
    OBVIOUS
  <2>1. ASSUME NEW r \in Runs
        PROVE  /\ active = r <=> turn[r].pc \in {"response", "admit", "wait", "aborting", "complete",
                                                 "finish", "join", "snapshot"}
               /\ turn[r].token \in 0 .. MaxRuns /\ turn[r].said \in 0 .. MaxRuns
               /\ turn[r].pc # "done" => turn[r].receipt # "uncertain"
               /\ intr[r] \in {"none", "found", "cancel", "calls", "over"}
               /\ nat.phase[r] \in {"unread", "acked", "preflight", "started", "over"}
    <3>1. turn[r] \in TurnType /\ ReportInv(turn[r])
      BY TurnIs DEF RunOk
    <3>2. active = r <=> turn[r].pc \in Now
      BY DEF IInv, SeqInv
    <3>3. nat.phase[r] \in Phases
      BY PhaseIs
    <3>4. intr[r] \in {"none", "found", "cancel", "calls", "over"}
      BY DEF IInv, TypeInv
    <3> QED
      BY <3>1, <3>2, <3>3, <3>4 DEF TurnType, ReportInv, Now, Phases
  <2>2. lost \in BOOLEAN /\ rpc \in {"up", "closed", "eof", "observer", "protocol", "ctx"}
    BY DEF IInv, TypeInv
  <2>3. (\A i \in DOMAIN cmd : cmd[i] \in 0 .. MaxRuns) /\ (\A i \in DOMAIN pre : pre[i] \in Runs)
    <3>1. cmd \in Seq(0 .. MaxRuns) /\ pre \in Seq(Runs)
      BY DEF IInv, TypeInv
    <3>2. \A i \in DOMAIN cmd : cmd[i] \in 0 .. MaxRuns
      BY <3>1, TurnAssumption
    <3>3. \A i \in DOMAIN pre : pre[i] \in Runs
      BY <3>1
    <3> QED
      BY <3>2, <3>3
  <2> QED
    BY <2>1, <2>2, <2>3 DEF TypeOK
<1> QED
  BY <1>1, Invariant, PTL

\* A run that answers answers with what native said to its own prompt, after native's own
\* terminal for it, and says aborted only if somebody asked for that.
THEOREM AnswerIsOwnAlways == Spec => []AnswerIsOwn
<1>1. IInv => AnswerIsOwn
  <2> SUFFICES ASSUME IInv, NEW r \in Runs
               PROVE  /\ turn[r].result \in {"answer", "aborted"} =>
                           /\ turn[r].said = r /\ nat.nature[r] = "agent" /\ nat.phase[r] = "over"
                           /\ turn[r].result = "aborted" => turn[r].asked
                      /\ turn[r].result = "noagent" => nat.nature[r] \in {"none", "silent", "both"}
    BY DEF AnswerIsOwn
  <2>1. RunOk(turn[r], r, nat)
    BY TurnIs
  <2>2. turn[r].result \in {"answer", "aborted", "noagent"} =>
          turn[r].result = turn[r].verdict /\ ~turn[r].failed /\ turn[r].pc \in Ends
    BY <2>1 DEF RunOk, ReportInv
  <2>3. turn[r].seen \in {0, r} => turn[r].seen \notin 1 .. r - 1
    BY TurnAssumption DEF Runs
  <2> QED
    BY <2>1, <2>2, <2>3 DEF RunOk, OwnInv, NatureInv, NoAgent
<1> QED
  BY <1>1, Invariant, PTL

\* The receipt of a run tells the truth about its prompt.
THEOREM ReceiptHonestAlways == Spec => []ReceiptHonest
<1>1. IInv => ReceiptHonest
  <2> SUFFICES ASSUME IInv, NEW r \in Runs
               PROVE  /\ turn[r].receipt = "not_submitted" =>
                           nat.phase[r] = "unread" /\ r \notin {cmd[i] : i \in DOMAIN cmd}
                      /\ turn[r].receipt = "injected" => turn[r].token = r /\ nat.nature[r] = "agent"
                      /\ turn[r].receipt = "refused" =>
                           \/ nat.nature[r] \in {"none", "silent", "both"}
                           \/ \E q \in 1 .. r - 1 : nat.nature[q] = "both"
                      /\ turn[r].pc = "done" => turn[r].receipt # "none"
                      /\ turn[r].pc = "done" /\ turn[r].result \in {"answer", "aborted"} =>
                           turn[r].receipt = "injected"
    BY DEF ReceiptHonest
  <2>1. RunOk(turn[r], r, nat) /\ r # 0
    BY TurnIs, TurnAssumption DEF Runs
  <2>2. turn[r].receipt = "not_submitted" =>
          nat.phase[r] = "unread" /\ r \notin {cmd[i] : i \in DOMAIN cmd}
    BY <2>1 DEF RunOk, ReportInv, NatureInv, IInv, CmdInv
  <2>3. turn[r].receipt = "injected" => turn[r].token = r /\ nat.nature[r] = "agent"
    BY <2>1 DEF RunOk, ReportInv, NatureInv, OwnInv, Admitted
  <2>4. turn[r].receipt = "refused" => \/ nat.nature[r] \in {"none", "silent", "both"}
                                       \/ \E q \in 1 .. r - 1 : nat.nature[q] = "both"
    BY <2>1 DEF RunOk, ReportInv, NatureInv
  <2> QED
    BY <2>1, <2>2, <2>3, <2>4 DEF RunOk, ReportInv
<1> QED
  BY <1>1, Invariant, PTL

-----------------------------------------------------------------------------
(* A lane that nobody disturbs is not lost.                                *)

\* Native is correct and answers every prompt once, and no context ends.
Calm ==
  /\ ~nat.faulty /\ ~nat.exited
  /\ \A r \in Runs : turn[r].ctx = "live" /\ nat.nature[r] \notin {"refused", "both"}

\* A turn nothing went wrong in.
CalmTurn(t, r, n) ==
  /\ ~t.failed /\ ~t.retired /\ t.abort # "failed"
  /\ t.prompt \notin {"late", "lost", "abandoned"} /\ t.response \notin {"error", "lost"}
  /\ t.uiClosed => Ready(t)
  /\ t.starts # 0 => n.nature[r] = "agent"
  /\ t.ui # "none" => n.dialog
  /\ t.ui = "pending" => t.pc \notin {"finish", "join"}

\* A frame that belongs to a prompt's work.
IsEvent(f) == f.kind \in Events
\* Native's last word of a prompt.
Terminal(f) == f.kind = "result" \/ (f.kind = "end" /\ f.what # "continues")

\* What a frame at place i finds when it is read.
CalmFrame(T, n, o, i) ==
  LET f == o[i] IN
  /\ f.kind \notin {"late", "broken"} /\ ~(f.kind = "response" /\ f.what = "error")
  /\ IsEvent(f) => ~Ready(T[f.run])
  /\ f.kind \in {"start", "dialog"} => n.nature[f.run] = "agent"
  /\ f.kind \in {"message", "end"} => T[f.run].starts # 0 \/ \E j \in DOMAIN o : j < i /\ o[j].kind = "start"
  /\ f.kind = "end" /\ f.what # "continues" =>
       T[f.run].said # 0 \/ \E j \in DOMAIN o : j < i /\ o[j].kind = "message"
  /\ f.kind = "dialog" => n.dialog /\ \A r \in Runs : T[r].ui = "none"

\* After native's last word of a prompt nothing is heard of it, and one dialog is asked.
CalmOrder(f, g) ==
  /\ Terminal(f) => ~IsEvent(g)
  /\ ~(f.kind = "dialog" /\ g.kind = "dialog")

\* The frames still to be read, in the order they were written.
CalmFrames(T, n, o) ==
  /\ \A i \in DOMAIN o : CalmFrame(T, n, o, i)
  /\ \A i, j \in DOMAIN o : i < j => CalmOrder(o[i], o[j])

\* A prompt native works on has been started to be worked on.
CalmWork(T, n, o) ==
  \A r \in Runs : n.phase[r] = "started" =>
    T[r].starts # 0 \/ \E j \in DOMAIN o : o[j].kind = "start"

\* What the lane nobody disturbs keeps: it is up, no turn failed, and the frames on the wire
\* find the turns as they expect them.
CalmInv ==
  Calm =>
    /\ ~lost /\ rpc = "up" /\ nat.alive
    /\ \A r \in Runs : CalmTurn(turn[r], r, nat)
    /\ CalmFrames(turn, nat, out) /\ CalmWork(turn, nat, out)


\* A prompt native has read is the active run's until its turn is ready.
LEMMA CalmActive ==
  ASSUME IInv, CalmInv, Calm, NEW r \in Runs, nat.phase[r] # "unread", ~Ready(turn[r])
  PROVE  active = r
<1>1. turn[r] \in TurnType /\ RunOk(turn[r], r, nat) /\ ~turn[r].failed
  BY TurnIs DEF CalmInv, CalmTurn
<1>2. turn[r].prompt # "none"
  BY <1>1 DEF RunOk, NatureInv
<1>3. turn[r].pc \notin Ends /\ turn[r].pc \notin {"idle", "run"}
  BY <1>1, <1>2 DEF RunOk, OwnInv, Clear, StepInv
<1>4. turn[r].pc \in Now
  BY <1>1, <1>3 DEF TurnType, Ends, Now
<1> QED
  BY <1>4 DEF IInv, SeqInv

\* An event on its way is the active run's.
LEMMA CalmEvent ==
  ASSUME IInv, CalmInv, Calm, NEW i \in DOMAIN out, IsEvent(out[i])
  PROVE  out[i].run \in Runs /\ active = out[i].run /\ ~Ready(turn[out[i].run])
<1>1. out[i] \in FrameType /\ FrameOk(turn, nat, out[i]) /\ out[i].kind # "abort"
  BY DEF IInv, TypeInv, FrameInv, IsEvent, Events
<1>2. PICK x \in Runs : x = out[i].run
  BY <1>1, FrameRuns
<1>3. nat.phase[x] # "unread"
  BY <1>1, <1>2 DEF FrameOk
<1>4. ~Ready(turn[x])
  BY <1>2 DEF CalmInv, CalmFrames, CalmFrame
<1> QED
  BY <1>2, <1>3, <1>4, CalmActive

\* The prompt native works on is the active run's, and native has not had its last word.
LEMMA CalmWorks ==
  ASSUME IInv, CalmInv, Calm, NEW r \in Runs, Works(nat, r)
  PROVE  /\ active = r /\ ~Ready(turn[r])
         /\ \A i \in DOMAIN out : ~Terminal(out[i])
         /\ \A i \in DOMAIN out : IsEvent(out[i]) => out[i].run = r
<1>1. RunOk(turn[r], r, nat) /\ turn[r] \in TurnType
  BY TurnIs
<1>2. \A q \in Runs : nat.nature[q] \notin {"refused", "both"}
  BY DEF Calm
<1>3. \A q \in 1 .. r - 1 : q \in Runs
  BY TurnAssumption DEF Runs
<1>4. nat.nature[r] \in {"agent", "none"} /\ nat.phase[r] \notin {"unread", "over"}
  BY <1>1 DEF Works, RunOk, NatureInv
<1>5. ~NoAgent(turn[r]) /\ turn[r].verdict \notin {"answer", "aborted"}
  BY <1>1, <1>2, <1>3, <1>4 DEF RunOk, NatureInv
<1>6. ~Ready(turn[r])
  BY <1>1, <1>5 DEF Ready, NoAgent, TurnType
<1>7. active = r
  BY <1>4, <1>6, CalmActive
<1>8. \A i \in DOMAIN out : IsEvent(out[i]) => out[i].run = r
  BY <1>7, CalmEvent
<1>9. ASSUME NEW i \in DOMAIN out, Terminal(out[i]) PROVE FALSE
  <2>1. IsEvent(out[i])
    BY <1>9 DEF Terminal, IsEvent, Events
  <2>2. FrameOk(turn, nat, out[i]) /\ out[i].run = r
    BY <1>8, <2>1 DEF IInv, FrameInv
  <2> QED
    BY <1>4, <1>9, <2>2 DEF FrameOk, Terminal
<1> QED
  BY <1>6, <1>7, <1>8, <1>9

\* What a step does to a turn nothing went wrong in, if it tells native nothing new.
CalmMove(t, s, r) ==
  /\ CalmTurn(s, r, nat) /\ s.starts = t.starts /\ s.said = t.said
  /\ t.ui = "none" => s.ui = "none"
  /\ Ready(s) => Ready(t) \/ \A i \in DOMAIN out : ~IsEvent(out[i])

\* The frames stay what they are for turns that move so.
LEMMA CalmFramesKeep ==
  ASSUME IInv, CalmFrames(turn, nat, out), CalmWork(turn, nat, out), out' = out, nat' = nat,
         \A x \in Runs : CalmMove(turn[x], turn'[x], x)
  PROVE  CalmFrames(turn', nat', out') /\ CalmWork(turn', nat', out')
<1>1. ASSUME NEW i \in DOMAIN out
      PROVE  CalmFrame(turn', nat, out, i)
  <2>1. CalmFrame(turn, nat, out, i)
    BY DEF CalmFrames
  <2>2. out[i] \in FrameType
    BY DEF IInv, TypeInv
  <2>3. CASE out[i].kind = "abort"
    BY <2>1, <2>3 DEF CalmFrame, IsEvent, Events
  <2>4. CASE out[i].kind # "abort"
    <3>1. out[i].run \in Runs
      BY <2>2, <2>4, FrameRuns
    <3> QED
      BY <2>1, <3>1 DEF CalmFrame, CalmMove
  <2> QED
    BY <2>3, <2>4
<1>2. CalmFrames(turn', nat', out')
  BY <1>1 DEF CalmFrames
<1>3. CalmWork(turn', nat', out')
  BY DEF CalmWork, CalmMove
<1> QED
  BY <1>2, <1>3

\* A step of one run, which nothing disturbs.
LEMMA CalmOne ==
  ASSUME IInv, CalmInv, NEW r \in Runs, NEW s, turn' = [turn EXCEPT ![r] = s],
         s.ctx = "live" => turn[r].ctx = "live", nat' = nat,
         Calm => CalmMove(turn[r], s, r) /\ ~lost' /\ rpc' = rpc /\ out' = out
  PROVE  CalmInv'
<1> SUFFICES ASSUME Calm'
             PROVE  /\ ~lost' /\ rpc' = "up" /\ nat'.alive
                    /\ \A x \in Runs : CalmTurn(turn'[x], x, nat')
                    /\ CalmFrames(turn', nat', out') /\ CalmWork(turn', nat', out')
  BY DEF CalmInv
<1>1. \A x \in Runs : turn'[x] = IF x = r THEN s ELSE turn[x]
  BY DEF IInv, TypeInv
<1>2. Calm
  BY <1>1 DEF Calm
<1>3. \A x \in Runs : CalmMove(turn[x], turn'[x], x)
  BY <1>1, <1>2 DEF CalmInv, CalmMove
<1>4. CalmFrames(turn', nat', out') /\ CalmWork(turn', nat', out')
  BY <1>2, <1>3, CalmFramesKeep DEF CalmInv
<1> QED
  BY <1>2, <1>3, <1>4 DEF CalmInv, CalmMove

\* A step that none of this is about.
LEMMA CalmSame ==
  ASSUME IInv, CalmInv, UNCHANGED <<turn, lost, rpc, out, nat>>
  PROVE  CalmInv'
<1>1. Calm' <=> Calm
  BY DEF Calm
<1> QED
  BY <1>1 DEF CalmInv, CalmFrames, CalmFrame, CalmWork


\* What is known of a run that nothing disturbs.
LEMMA CalmIs ==
  ASSUME IInv, CalmInv, Calm, NEW r \in Runs
  PROVE  /\ turn[r] \in TurnType /\ RunOk(turn[r], r, nat) /\ CalmTurn(turn[r], r, nat)
         /\ turn[r].ctx = "live" /\ ~lost /\ rpc = "up" /\ nat.alive
         /\ nat.nature[r] \in {"unknown", "agent", "none", "silent"}
         /\ turn[r].seen \in {0, r}
         /\ NoAgent(turn[r]) => nat.nature[r] \in {"silent", "none"}
<1>1. turn[r] \in TurnType /\ RunOk(turn[r], r, nat)
  BY TurnIs
<1>2. \A q \in Runs : nat.nature[q] \notin {"refused", "both"}
  BY DEF Calm
<1>3. \A q \in 1 .. r - 1 : q \in Runs
  BY TurnAssumption DEF Runs
<1>4. NoAgent(turn[r]) => /\ turn[r].seen \in {0, r} /\ nat.nature[r] \in {"silent", "none"}
  BY <1>1, <1>2, <1>3 DEF RunOk, NatureInv
<1>5. turn[r].seen \in {0, r}
  BY <1>1, <1>4 DEF RunOk, OwnInv
<1>6. nat.nature[r] \in {"unknown", "agent", "none", "silent"}
  BY <1>2, PhaseIs
<1> QED
  BY <1>1, <1>4, <1>5, <1>6 DEF Calm, CalmInv

\* A run begins, or has been interrupted before.
LEMMA BeginCalm ==
  ASSUME IInv, CalmInv, NEW r \in Runs, Begin(r)
  PROVE  CalmInv'
<1>1. PICK s : /\ turn' = [turn EXCEPT ![r] = s]
               /\ \/ s = [Rejected(turn[r]) EXCEPT !.pc = "done"]
                  \/ s = [turn[r] EXCEPT !.pc = "run"]
  BY DEF Begin, Goes
<1>2. turn[r] \in TurnType
  BY TurnIs
<1>3. s.ctx = turn[r].ctx /\ (CalmTurn(turn[r], r, nat) => CalmMove(turn[r], s, r))
  <2>1. CASE s = [Rejected(turn[r]) EXCEPT !.pc = "done"]
    <3>1. PICK x \in {"none", "injected", "refused", "not_submitted", "uncertain"} :
            s = [turn[r] EXCEPT !.receipt = x, !.result = "error", !.pc = "done"]
      BY <1>2, <2>1 DEF Rejected, Report, TurnType
    <3> QED
      BY <1>2, <3>1 DEF TurnType, CalmMove, CalmTurn, Ready
  <2>2. CASE s = [turn[r] EXCEPT !.pc = "run"]
    BY <1>2, <2>2 DEF TurnType, CalmMove, CalmTurn, Ready
  <2> QED
    BY <1>1, <2>1, <2>2
<1> QED
  BY <1>1, <1>3, CalmIs, CalmOne DEF Begin, Elsewhere

\* A run is interrupted before its turn begins.
LEMMA HandoffInterruptedCalm ==
  ASSUME IInv, CalmInv, NEW r \in Runs, HandoffInterrupted(r)
  PROVE  CalmInv'
<1>1. PICK s : /\ turn' = [turn EXCEPT ![r] = s]
               /\ s = [[Report(turn[r], "not_submitted") EXCEPT !.result = "interrupted"]
                         EXCEPT !.pc = "post"]
  BY DEF HandoffInterrupted, Goes
<1>2. turn[r] \in TurnType
  BY TurnIs
<1>3. s.ctx = turn[r].ctx
  BY <1>1, <1>2 DEF Report, TurnType
<1>4. CalmTurn(turn[r], r, nat) => CalmMove(turn[r], s, r)
  BY <1>1, <1>2 DEF Report, TurnType, CalmMove, CalmTurn, Ready
<1> QED
  BY <1>1, <1>3, <1>4, CalmIs, CalmOne DEF HandoffInterrupted, Elsewhere

\* No other run has the lane's turn when one submits its prompt.
LEMMA SubmitCalm ==
  ASSUME IInv, CalmInv, NEW r \in Runs, Submit(r)
  PROVE  CalmInv'
<1>1. active = 0
  <2>1. SUFFICES ASSUME active # 0 PROVE FALSE
    OBVIOUS
  <2>2. PICK q \in Runs : q = active
    BY <2>1, TurnAssumption DEF IInv, TypeInv, Runs
  <2>3. turn[q].pc \in Now /\ turn[r].pc = "run"
    BY <2>2 DEF IInv, SeqInv, Submit
  <2>4. q # r /\ turn[q].pc \notin {"idle", "done"} /\ turn[r].pc \notin {"idle", "done"}
    BY <2>3 DEF Now
  <2>5. q \notin 1 .. r - 1 /\ r \notin 1 .. q - 1
    BY <2>4 DEF IInv, SeqInv
  <2> QED
    BY <2>4, <2>5, TurnAssumption DEF Runs
<1>2. PICK s : /\ turn' = [turn EXCEPT ![r] = s]
               /\ IF lost \/ rpc # "up" \/ turn[r].ctx # "live"
                  THEN s = [CtxFailed(turn[r]) EXCEPT !.pc = "post"]
                  ELSE s = [[turn[r] EXCEPT !.prompt = "waiting"] EXCEPT !.pc = "response"]
  BY <1>1 DEF Submit, Goes
<1>3. turn[r] \in TurnType
  BY TurnIs
<1>4. s.ctx = turn[r].ctx
  BY <1>2, <1>3 DEF CtxFailed, Failed, TurnType
<1>5. Calm => CalmMove(turn[r], s, r)
  <2>1. SUFFICES ASSUME Calm PROVE CalmMove(turn[r], s, r)
    OBVIOUS
  <2>2. s = [[turn[r] EXCEPT !.prompt = "waiting"] EXCEPT !.pc = "response"] /\ CalmTurn(turn[r], r, nat)
    BY <1>2, <2>1, CalmIs
  <2> QED
    BY <1>3, <2>2 DEF TurnType, CalmMove, CalmTurn, Ready
<1> QED
  BY <1>2, <1>4, <1>5, CalmIs, CalmOne DEF Submit

\* A turn whose native said its prompt needs no agent has no event to come.
LEMMA SilentCalm ==
  ASSUME IInv, CalmInv, Calm, NEW r \in Runs, active = r, nat.nature[r] = "silent"
  PROVE  \A i \in DOMAIN out : ~IsEvent(out[i])
<1> SUFFICES ASSUME NEW i \in DOMAIN out, IsEvent(out[i]) PROVE FALSE
  OBVIOUS
<1>1. out[i].run = r /\ FrameOk(turn, nat, out[i]) /\ CalmFrame(turn, nat, out, i)
  BY CalmEvent DEF IInv, FrameInv, CalmInv, CalmFrames
<1> QED
  BY <1>1 DEF FrameOk, CalmFrame, IsEvent, Events

\* What the prompt's response makes of the turn of run r.
Answers(t, s, r) ==
  /\ s \in TurnType /\ s.prompt \in {t.prompt, "held", "over"} /\ s.pc \in {"admit", "wait"}
  /\ Same(t, s, {"submitted", "prompt", "failed", "pc", "verdict", "uiClosed"})
  /\ \/ ~s.failed /\ t.response = "ok" /\ s.verdict = t.verdict /\ s.uiClosed = t.uiClosed
     \/ ~s.failed /\ t.response = "noagent" /\ s.verdict = "noagent"
     \/ t.failed \/ t.seen \notin {0, r} \/ t.response \notin {"ok", "noagent"}
     \/ t.response = "noagent" /\ (t.starts # 0 \/ t.token # 0)

\* The response leaves the turn so.
LEMMA ResponseIs ==
  ASSUME IInv, NEW r \in Runs, Response(r)
  PROVE  \E s : turn' = [turn EXCEPT ![r] = s] /\ Answers(turn[r], s, r)
<1>1. PICK t \in TurnType : t = turn[r] /\ t.response # "none"
  BY TurnIs DEF Response
<1>2. PICK p \in {"none", "waiting", "held", "late", "lost", "abandoned", "over"} :
        p = IF t.prompt = "waiting" THEN "held" ELSE t.prompt
  BY DEF TurnType
<1>3. PICK h : h = [t EXCEPT !.submitted = TRUE, !.prompt = p]
  OBVIOUS
<1>4. h \in TurnType /\ Same(t, h, {"submitted", "prompt"}) /\ h.prompt = p
  BY ZenonT(60), <1>2, <1>3 DEF TurnType, Same
<1>5. PICK u : u = IF HasNative(h) /\ t.seen \notin {0, r} THEN Failed(h) ELSE h
  OBVIOUS
<1>6. /\ u \in TurnType /\ Same(h, u, {"failed"})
      /\ t.seen \in {0, r} => u = h
  <2>1. CASE HasNative(h) /\ t.seen \notin {0, r}
    <3>1. u = Failed(h)
      BY <1>5, <2>1
    <3>2. u \in TurnType /\ Same(h, u, {"failed"})
      BY <1>4, <3>1 DEF Failed, TurnType, Same
    <3> QED
      BY <2>1, <3>2
  <2>2. CASE ~(HasNative(h) /\ t.seen \notin {0, r})
    <3>1. u = h
      BY <1>5, <2>2
    <3> QED
      BY <1>4, <3>1 DEF Same
  <2> QED
    BY <2>1, <2>2
<1>7. /\ Same(t, u, {"submitted", "prompt", "failed"}) /\ u.prompt = p
      /\ p \in {t.prompt, "held"} /\ (t.seen \in {0, r} /\ ~t.failed => ~u.failed)
  BY <1>2, <1>4, <1>6 DEF Same
<1>8. PICK s : /\ turn' = [turn EXCEPT ![r] = s]
               /\ \/ t.response = "ok" /\ s = [u EXCEPT !.pc = "admit"]
                  \/ /\ t.response = "noagent" /\ ~u.failed /\ t.starts = 0 /\ t.token = 0
                     /\ s = [Settled(u, "noagent") EXCEPT !.pc = "wait"]
                  \/ /\ t.response = "noagent" /\ (u.failed \/ t.starts # 0 \/ t.token # 0)
                     /\ s = [u EXCEPT !.pc = "wait"] \/ s = [Failed(u) EXCEPT !.pc = "wait"]
                  \/ /\ t.response \notin {"ok", "noagent"}
                     /\ s = [Failed([u EXCEPT !.prompt = "over"]) EXCEPT !.pc = "wait"]
  <2>1. CASE t.response = "ok"
    BY <1>1, <1>2, <1>3, <1>5, <2>1 DEF Response, Goes
  <2>2. CASE t.response = "noagent"
    <3>1. turn' = [turn EXCEPT ![r] =
                    [CASE u.failed -> u
                       [] ~u.failed /\ (t.starts # 0 \/ t.token # 0) -> Failed(u)
                       [] OTHER -> Settled(u, "noagent") EXCEPT !.pc = "wait"]]
      BY <1>1, <1>2, <1>3, <1>5, <2>2 DEF Response, Goes
    <3>2. CASE u.failed
      BY <2>2, <3>1, <3>2
    <3>3. CASE ~u.failed /\ (t.starts # 0 \/ t.token # 0)
      BY <2>2, <3>1, <3>3
    <3>4. CASE ~u.failed /\ ~(t.starts # 0 \/ t.token # 0)
      BY <2>2, <3>1, <3>4
    <3> QED
      BY <3>2, <3>3, <3>4
  <2>3. CASE t.response \notin {"ok", "noagent"}
    BY <1>1, <1>2, <1>3, <1>5, <2>3 DEF Response, Goes
  <2> QED
    BY <2>1, <2>2, <2>3
<1>9. Answers(t, s, r)
  <2>0. u \in TurnType
    BY <1>6
  <2>1. ASSUME NEW pc \in {"admit", "wait"}, s = [u EXCEPT !.pc = pc]
        PROVE  s \in TurnType /\ Same(u, s, {"pc"}) /\ s.pc = pc
    BY <2>0, <2>1 DEF TurnType, Same
  <2>2. CASE t.response = "ok" /\ s = [u EXCEPT !.pc = "admit"]
    <3>1. s \in TurnType /\ Same(u, s, {"pc"}) /\ s.pc = "admit"
      BY <2>1, <2>2
    <3> QED
      BY <1>7, <2>2, <3>1 DEF Same, Answers
  <2>3. CASE /\ t.response = "noagent" /\ ~u.failed /\ t.starts = 0 /\ t.token = 0
             /\ s = [Settled(u, "noagent") EXCEPT !.pc = "wait"]
    <3> DEFINE w == Settled(u, "noagent")
    <3>1. w \in TurnType /\ Same(u, w, {"verdict", "uiClosed"}) /\ w.verdict = "noagent"
      BY ZenonT(60), <2>0 DEF Settled, TurnType, Same
    <3>2. s = [w EXCEPT !.pc = "wait"]
      BY <2>3
    <3> HIDE DEF w
    <3>3. s \in TurnType /\ Same(w, s, {"pc"}) /\ s.pc = "wait"
      BY <3>1, <3>2 DEF TurnType, Same
    <3> QED
      BY <1>7, <2>3, <3>1, <3>3 DEF Same, Answers
  <2>4. CASE /\ t.response = "noagent" /\ (u.failed \/ t.starts # 0 \/ t.token # 0)
             /\ s = [u EXCEPT !.pc = "wait"] \/ s = [Failed(u) EXCEPT !.pc = "wait"]
    <3>1. s \in TurnType /\ Same(u, s, {"pc", "failed"}) /\ s.pc = "wait"
      <4>1. CASE s = [u EXCEPT !.pc = "wait"]
        BY <2>1, <4>1 DEF Same
      <4>2. CASE s = [Failed(u) EXCEPT !.pc = "wait"]
        BY ZenonT(60), <2>0, <4>2 DEF Failed, TurnType, Same
      <4> QED
        BY <2>4, <4>1, <4>2
    <3> QED
      BY <1>7, <2>4, <3>1 DEF Same, Answers
  <2>5. CASE /\ t.response \notin {"ok", "noagent"}
             /\ s = [Failed([u EXCEPT !.prompt = "over"]) EXCEPT !.pc = "wait"]
    <3> DEFINE w == [u EXCEPT !.prompt = "over"]
    <3>1. w \in TurnType /\ Same(u, w, {"prompt"}) /\ w.prompt = "over"
      BY <2>0 DEF TurnType, Same
    <3>2. s = [Failed(w) EXCEPT !.pc = "wait"]
      BY <2>5
    <3> HIDE DEF w
    <3>3. s \in TurnType /\ Same(w, s, {"pc", "failed"}) /\ s.pc = "wait"
      BY ZenonT(60), <3>1, <3>2 DEF Failed, TurnType, Same
    <3> QED
      BY <1>7, <2>5, <3>1, <3>3 DEF Same, Answers
  <2> QED
    BY <1>8, <2>2, <2>3, <2>4, <2>5
<1> QED
  BY <1>1, <1>8, <1>9

\* The prompt's response, which may settle the turn.
LEMMA ResponseCalm ==
  ASSUME IInv, CalmInv, NEW r \in Runs, Response(r)
  PROVE  CalmInv'
<1>1. PICK t \in TurnType : t = turn[r] /\ RunOk(t, r, nat) /\ t.pc = "response" /\ t.response # "none"
  BY TurnIs DEF Response
<1>2. PICK s : turn' = [turn EXCEPT ![r] = s] /\ Answers(t, s, r)
  BY <1>1, ResponseIs
<1>3. s.ctx = t.ctx
  BY <1>2 DEF Answers, Same
<1>4. ASSUME Calm
      PROVE  CalmMove(t, s, r)
  <2>1. CalmTurn(t, r, nat) /\ t.seen \in {0, r} /\ t.response \in {"ok", "noagent"} /\ ~t.failed
    BY <1>1, <1>4, CalmIs DEF CalmTurn, TurnType
  <2>2. t.response = "noagent" => nat.nature[r] = "silent"
    BY <1>1, <1>4 DEF RunOk, NatureInv, Calm
  <2>3. t.response = "noagent" => t.starts = 0 /\ t.token = 0
    BY <1>1, <2>1, <2>2 DEF CalmTurn, RunOk, NatureInv
  <2>4. active = r
    BY <1>1 DEF IInv, SeqInv, Now
  <2>5. CASE t.response = "ok"
    <3>1. ~s.failed /\ s.verdict = t.verdict /\ s.uiClosed = t.uiClosed
      BY <1>2, <2>1, <2>5 DEF Answers
    <3> QED
      BY <1>2, <2>1, <3>1 DEF Answers, Same, CalmMove, CalmTurn, Ready
  <2>6. CASE t.response = "noagent"
    <3>1. ~s.failed /\ s.verdict = "noagent"
      BY <1>2, <2>1, <2>3, <2>6 DEF Answers
    <3>2. \A i \in DOMAIN out : ~IsEvent(out[i])
      BY <1>4, <2>2, <2>4, <2>6, SilentCalm
    <3> QED
      BY <1>2, <2>1, <2>6, <3>1, <3>2 DEF Answers, Same, CalmMove, CalmTurn, Ready
  <2> QED
    BY <2>1, <2>5, <2>6
<1> QED
  BY <1>1, <1>2, <1>3, <1>4, CalmIs, CalmOne DEF Response, Elsewhere

\* What a step may change of a turn nothing went wrong in, and to what.
Quiet == {"pc", "ctx", "asked", "canceled", "submitted", "token", "seen", "abort", "prompt", "uiClosed",
          "admitted", "receipt", "result"}
Calmly(t, s) ==
  /\ Same(t, s, Quiet) /\ s.abort # "failed" /\ s.prompt \notin {"late", "lost", "abandoned"}
  /\ (s.uiClosed => Ready(t)) /\ (t.ui = "pending" => s.pc \notin {"finish", "join"})

\* A step of one run that changes no more than that.
LEMMA StepCalm ==
  ASSUME IInv, CalmInv, NEW r \in Runs, NEW s, turn' = [turn EXCEPT ![r] = s],
         rpc' = rpc, out' = out, nat' = nat, s.ctx = "live" => turn[r].ctx = "live",
         Calm => ~lost' /\ Calmly(turn[r], s)
  PROVE  CalmInv'
<1>1. ASSUME Calm
      PROVE  CalmMove(turn[r], s, r)
  <2>1. CalmTurn(turn[r], r, nat)
    BY <1>1, CalmIs
  <2> QED
    BY <1>1, <2>1 DEF Same, Quiet, Calmly, CalmMove, CalmTurn, Ready
<1> QED
  BY <1>1, CalmIs, CalmOne

\* A failure leaves the context alone.
LEMMA FailedCtx ==
  ASSUME NEW t \in TurnType,
         NEW p \in {"wait", "finish", "post"},
         NEW s, \/ s = [Failed(Released(t)) EXCEPT !.pc = p]
                \/ s = [CtxFailed(t) EXCEPT !.pc = p]
                \/ s = [Failed(t) EXCEPT !.pc = p]
  PROVE  s.ctx = t.ctx
<1>1. CASE s = [Failed(Released(t)) EXCEPT !.pc = p]
  BY ZenonT(60), <1>1 DEF Failed, Released, TurnType
<1>2. CASE s = [CtxFailed(t) EXCEPT !.pc = p]
  BY ZenonT(60), <1>2 DEF Failed, CtxFailed, TurnType
<1>3. CASE s = [Failed(t) EXCEPT !.pc = p]
  BY ZenonT(60), <1>3 DEF Failed, TurnType
<1> QED
  BY <1>1, <1>2, <1>3

\* A context that has ended.
LEMMA GivenUpCalm ==
  ASSUME IInv, NEW r \in Runs, turn'[r].ctx # "live"
  PROVE  CalmInv'
BY DEF CalmInv, Calm

\* A stopped client leaves the contexts alone.
LEMMA StoppedCtx ==
  ASSUME NEW t \in TurnType
  PROVE  Stopped(t).ctx = t.ctx
BY DEF Stopped, TurnType

\* The prompt's response is given up.
LEMMA ResponseGivenUpCalm ==
  ASSUME IInv, NEW r \in Runs, ResponseGivenUp(r)
  PROVE  CalmInv'
<1> DEFINE t == turn[r]
           w == CtxFailed(t)
           x == [w EXCEPT !.submitted = TRUE]
           y == [x EXCEPT !.prompt = "abandoned"]
           z == [y EXCEPT !.response = "lost"]
           s == [z EXCEPT !.pc = "wait"]
<1>1. t \in TurnType /\ t.ctx # "live" /\ turn \in [Runs -> TurnType]
  BY TurnIs DEF ResponseGivenUp, IInv, TypeInv
<1>2. turn' = [turn EXCEPT ![r] = s] \/ turn' = [q \in Runs |-> Stopped([turn EXCEPT ![r] = s][q])]
  BY DEF ResponseGivenUp, StopRpc
<1> HIDE DEF t
<1>3. w \in TurnType /\ w.ctx = t.ctx
  BY <1>1 DEF CtxFailed, Failed, TurnType
<1> HIDE DEF w
<1>4. x \in TurnType /\ x.ctx = t.ctx
  BY <1>3 DEF TurnType
<1> HIDE DEF x
<1>5. y \in TurnType /\ y.ctx = t.ctx
  BY <1>4 DEF TurnType
<1> HIDE DEF y
<1>6. z \in TurnType /\ z.ctx = t.ctx
  BY <1>5 DEF TurnType
<1> HIDE DEF z
<1>7. s \in TurnType /\ s.ctx = t.ctx
  BY <1>6 DEF TurnType
<1> HIDE DEF s
<1>8. Stopped(s).ctx = s.ctx
  BY <1>7, StoppedCtx
<1>9. turn'[r] = s \/ turn'[r] = Stopped(s)
  BY <1>1, <1>2
<1> QED
  BY <1>1, <1>7, <1>8, <1>9, GivenUpCalm

\* A step of the run's control alone.
LEMMA GoesCalm ==
  ASSUME IInv, CalmInv, NEW r \in Runs,
         NEW p \in {"wait", "complete", "finish", "join", "snapshot", "done"},
         turn' = [turn EXCEPT ![r] = [turn[r] EXCEPT !.pc = p]], Elsewhere, lost' = lost,
         Calm => (turn[r].ui = "pending" => p \notin {"finish", "join"})
  PROVE  CalmInv'
<1>1. PICK s : turn' = [turn EXCEPT ![r] = s] /\ s = [turn[r] EXCEPT !.pc = p]
  OBVIOUS
<1>2. turn[r] \in TurnType
  BY TurnIs
<1>3. Same(turn[r], s, {"pc"}) /\ s.pc = p
  BY ZenonT(60), <1>1, <1>2 DEF TurnType, Same
<1>4. Calm => ~lost' /\ Calmly(turn[r], s)
  <2>1. SUFFICES ASSUME Calm PROVE ~lost' /\ Calmly(turn[r], s)
    OBVIOUS
  <2>2. CalmTurn(turn[r], r, nat) /\ ~lost
    BY <2>1, CalmIs
  <2> QED
    BY <1>3, <2>1, <2>2 DEF Same, Quiet, Calmly, CalmTurn
<1>5. s.ctx = turn[r].ctx /\ rpc' = rpc /\ out' = out /\ nat' = nat
  BY <1>3 DEF Same, Elsewhere
<1> QED
  BY <1>1, <1>4, <1>5, StepCalm

\* The admission loop leaves.
LEMMA AdmitLeavesCalm ==
  ASSUME IInv, CalmInv, NEW r \in Runs, AdmitLeaves(r)
  PROVE  CalmInv'
BY GoesCalm DEF AdmitLeaves, Goes

\* The run takes its report; its turn has not settled without an agent.
LEMMA AdmitPreflightCalm ==
  ASSUME IInv, CalmInv, NEW r \in Runs, AdmitPreflight(r)
  PROVE  CalmInv'
<1>1. PICK t \in TurnType : /\ t = turn[r] /\ RunOk(t, r, nat) /\ t.pc = "admit" /\ t.token = 0
                           /\ pre # <<>> /\ pre' = Tail(pre)
  BY TurnIs DEF AdmitPreflight
<1>2. PICK x \in Runs : x = Head(pre) /\ Reported(turn, nat, x)
  <2>1. Head(pre) \in Runs /\ 1 \in DOMAIN pre /\ Head(pre) = pre[1]
    BY <1>1, TailAt DEF IInv, TypeInv
  <2> QED
    BY <2>1 DEF IInv, ReportsInv
<1>3. x = r
  BY <1>1, <1>2, PastIs DEF Reported, Now
<1>4. PICK s : /\ turn' = [turn EXCEPT ![r] = s]
               /\ \/ (t.failed \/ NoAgent(t)) /\ s = [Failed(t) EXCEPT !.pc = "wait"]
                  \/ s = [[t EXCEPT !.token = x] EXCEPT !.pc = "admit"]
  BY <1>1, <1>2 DEF AdmitPreflight, Goes
<1>5. s.ctx = t.ctx
  BY <1>1, <1>4 DEF Failed, TurnType
<1>6. ASSUME Calm
      PROVE  CalmMove(t, s, r)
  <2>1. CalmTurn(t, r, nat) /\ ~t.failed
    BY <1>1, <1>6, CalmIs DEF CalmTurn, TurnType
  <2>2. ~NoAgent(t)
    BY <1>1, <1>2, <1>3, <1>6, CalmIs DEF Reported
  <2>3. s = [[t EXCEPT !.token = x] EXCEPT !.pc = "admit"]
    BY <1>4, <2>1, <2>2
  <2>4. x \in 0 .. MaxRuns
    BY <1>2, TurnAssumption DEF Runs
  <2>5. Same(t, s, {"pc", "token"}) /\ s.pc = "admit"
    BY <1>1, <2>3, <2>4 DEF TurnType, Same
  <2> QED
    BY <2>1, <2>5 DEF Same, CalmMove, CalmTurn, Ready
<1> QED
  BY <1>1, <1>4, <1>5, <1>6, CalmIs, CalmOne DEF AdmitPreflight, Elsewhere

\* The admission fails.
LEMMA AdmitFailsCalm ==
  ASSUME IInv, CalmInv, NEW r \in Runs, AdmitFails(r)
  PROVE  CalmInv'
<1>1. PICK t \in TurnType : t = turn[r]
  BY TurnIs
<1>2. PICK s : /\ turn' = [turn EXCEPT ![r] = s]
               /\ \/ FinishFails(t) /\ s = [Failed(Released(t)) EXCEPT !.pc = "wait"]
                  \/ t.ctx # "live" /\ s = [CtxFailed(t) EXCEPT !.pc = "wait"]
                  \/ lost /\ s = [Failed(t) EXCEPT !.pc = "wait"]
  BY <1>1 DEF AdmitFails, Goes
<1>3. s.ctx = t.ctx
  BY <1>2, FailedCtx
<1>4. ~Calm
  BY <1>1, <1>2, CalmIs DEF CalmTurn, FinishFails
<1> QED
  BY <1>1, <1>2, <1>3, <1>4, CalmOne DEF AdmitFails, Elsewhere

\* Wait begins, with an abort perhaps.
LEMMA WaitBeginsCalm ==
  ASSUME IInv, CalmInv, NEW r \in Runs, WaitBegins(r)
  PROVE  CalmInv'
<1>1. PICK t \in TurnType : t = turn[r]
  BY TurnIs
<1>2. PICK y : y = CASE Admitted(t) -> Report(t, "injected")
                     [] ~Admitted(t) /\ NoAgent(t) -> Report(t, "refused")
                     [] OTHER -> t
  OBVIOUS
<1>3. y \in TurnType /\ Same(t, y, {"receipt"})
  <2>1. PICK x \in {"none", "injected", "refused", "not_submitted", "uncertain"} :
          y = [t EXCEPT !.receipt = x]
    BY <1>2 DEF Report, TurnType
  <2> QED
    BY <2>1 DEF TurnType, Same
<1>4. PICK b \in BOOLEAN : b = Admitted(t)
  BY DEF Admitted
<1>5. PICK s : s = [y EXCEPT !.admitted = b]
  OBVIOUS
<1>6. s \in TurnType /\ Same(t, s, {"receipt", "admitted"})
  <2>1. s \in TurnType /\ Same(y, s, {"admitted"})
    BY <1>3, <1>5 DEF TurnType, Same
  <2> QED
    BY <1>3, <2>1 DEF Same
<1>7. PICK u : /\ turn' = [turn EXCEPT ![r] = u]
               /\ \/ u = [s EXCEPT !.pc = "complete"] \/ u = [s EXCEPT !.pc = "aborting"]
                  \/ \E a \in {"ok", "sent", "failed"} :
                       /\ u = [[s EXCEPT !.abort = a] EXCEPT !.pc = "aborting"]
                       /\ rpc = "up" => a # "failed"
  <2>1. CASE ~(t.asked /\ Admitted(t))
    BY <1>1, <1>2, <1>4, <1>5, <2>1 DEF WaitBegins, Goes
  <2>2. CASE t.asked /\ Admitted(t) /\ t.abort # "none"
    BY <1>1, <1>2, <1>4, <1>5, <2>2 DEF WaitBegins, Goes
  <2>3. CASE t.asked /\ Admitted(t) /\ t.abort = "none"
    <3>1. Aborts(r, s, "aborting")
      BY <1>1, <1>2, <1>4, <1>5, <2>3 DEF WaitBegins
    <3> QED
      BY <3>1 DEF Aborts, Goes
  <2> QED
    BY <2>1, <2>2, <2>3
<1>8. /\ Same(t, u, {"receipt", "admitted", "pc", "abort"}) /\ u.pc \in {"complete", "aborting"}
      /\ u.abort = t.abort \/ (rpc = "up" => u.abort # "failed")
  <2>1. ASSUME NEW w \in TurnType, NEW p \in {"complete", "aborting"}, u = [w EXCEPT !.pc = p]
        PROVE  Same(w, u, {"pc"}) /\ u.pc = p
    BY <2>1 DEF TurnType, Same
  <2>2. CASE u = [s EXCEPT !.pc = "complete"] \/ u = [s EXCEPT !.pc = "aborting"]
    <3>1. Same(s, u, {"pc"}) /\ u.pc \in {"complete", "aborting"}
      BY <1>6, <2>1, <2>2
    <3> QED
      BY <1>6, <3>1 DEF Same
  <2>3. ASSUME NEW a \in {"ok", "sent", "failed"}, rpc = "up" => a # "failed",
               u = [[s EXCEPT !.abort = a] EXCEPT !.pc = "aborting"]
        PROVE  /\ Same(s, u, {"pc", "abort"}) /\ u.pc \in {"complete", "aborting"}
               /\ (rpc = "up" => u.abort # "failed")
    <3>1. PICK w : w = [s EXCEPT !.abort = a]
      OBVIOUS
    <3>2. w \in TurnType /\ Same(s, w, {"abort"}) /\ w.abort = a
      BY <1>6, <3>1 DEF TurnType, Same
    <3>3. Same(w, u, {"pc"}) /\ u.pc = "aborting"
      BY <2>1, <2>3, <3>1, <3>2
    <3> QED
      BY <2>3, <3>2, <3>3 DEF Same
  <2> QED
    BY <1>6, <1>7, <2>2, <2>3 DEF Same
<1>9. Calm => ~lost' /\ Calmly(t, u)
  <2>1. SUFFICES ASSUME Calm PROVE ~lost' /\ Calmly(t, u)
    OBVIOUS
  <2>2. CalmTurn(t, r, nat) /\ ~lost /\ rpc = "up"
    BY <1>1, <2>1, CalmIs
  <2>3. lost' = lost
    BY DEF WaitBegins
  <2> QED
    BY <1>8, <2>2, <2>3 DEF Same, Quiet, Calmly, CalmTurn
<1>10. UNCHANGED <<rpc, out, nat>>
  BY DEF WaitBegins
<1> QED
  BY <1>1, <1>7, <1>8, <1>9, <1>10, StepCalm DEF Same

\* The abort's caller returns.
LEMMA AbortReturnsCalm ==
  ASSUME IInv, CalmInv, NEW r \in Runs, AbortReturns(r)
  PROVE  CalmInv'
<1>1. PICK t \in TurnType : t = turn[r] /\ turn' \in {[turn EXCEPT ![r] = [t EXCEPT !.pc = "complete"]],
                              [turn EXCEPT ![r] = [[t EXCEPT !.abort = "failed"] EXCEPT !.pc = "complete"]]}
  BY TurnIs DEF AbortReturns, Goes
<1>2. CASE turn' = [turn EXCEPT ![r] = [t EXCEPT !.pc = "complete"]]
  BY <1>1, <1>2, GoesCalm DEF AbortReturns
<1>3. CASE turn' # [turn EXCEPT ![r] = [t EXCEPT !.pc = "complete"]]
  <2>1. PICK s : turn' = [turn EXCEPT ![r] = s] /\ s = [[t EXCEPT !.abort = "failed"] EXCEPT !.pc = "complete"]
    BY <1>1, <1>3
  <2>2. s.ctx = t.ctx
    BY <2>1 DEF TurnType
  <2>3. ~Calm
    BY <1>1, <1>3 DEF AbortReturns, Goes, Calm
  <2> QED
    BY <1>1, <2>1, <2>2, <2>3, CalmOne DEF AbortReturns, Elsewhere
<1> QED
  BY <1>2, <1>3

\* The wait for the terminal ends.
LEMMA CompleteCalm ==
  ASSUME IInv, CalmInv, NEW r \in Runs, Complete(r)
  PROVE  CalmInv'
<1>1. PICK t \in TurnType : t = turn[r]
  BY TurnIs
<1>2. CASE turn' = [turn EXCEPT ![r] = [t EXCEPT !.pc = "finish"]] /\ (Calm => t.ui # "pending")
  BY <1>1, <1>2, GoesCalm DEF Complete
<1>3. CASE ~Calm /\ \E s : /\ turn' = [turn EXCEPT ![r] = s]
                           /\ \/ s = [t EXCEPT !.pc = "finish"]
                              \/ s = [Failed(Released(t)) EXCEPT !.pc = "finish"]
                              \/ s = [CtxFailed(t) EXCEPT !.pc = "finish"]
                              \/ s = [Failed(t) EXCEPT !.pc = "finish"]
  <2>1. PICK s : /\ turn' = [turn EXCEPT ![r] = s]
                 /\ \/ s = [t EXCEPT !.pc = "finish"]
                    \/ s = [Failed(Released(t)) EXCEPT !.pc = "finish"]
                    \/ s = [CtxFailed(t) EXCEPT !.pc = "finish"]
                    \/ s = [Failed(t) EXCEPT !.pc = "finish"]
    BY <1>3
  <2>2. [t EXCEPT !.pc = "finish"].ctx = t.ctx
    BY DEF TurnType
  <2>3. s.ctx = t.ctx
    BY <2>1, <2>2, FailedCtx
  <2> QED
    BY <1>1, <1>3, <2>1, <2>3, CalmOne DEF Complete, Elsewhere
<1>4. CASE Completed(t) /\ Goes(r, t, "finish")
  <2>1. Calm => t.ui # "pending"
    BY <1>1, <1>4, CalmIs DEF Completed, CalmTurn
  <2> QED
    BY <1>2, <1>4, <2>1 DEF Goes
<1>5. CASE ~t.failed /\ t.ctx # "live" /\ Goes(r, IF Ready(t) THEN t ELSE CtxFailed(t), "finish")
  <2>1. ~Calm
    BY <1>1, <1>5 DEF Calm
  <2> QED
    BY <1>3, <1>5, <2>1 DEF Goes
<1>6. CASE ~t.failed /\ lost /\ Goes(r, IF Ready(t) THEN t ELSE Failed(t), "finish")
  <2>1. ~Calm
    BY <1>6 DEF CalmInv
  <2> QED
    BY <1>3, <1>6, <2>1 DEF Goes
<1>7. CASE ~t.failed /\ FinishFails(t)
           /\ Goes(r, IF Ready(t) THEN t ELSE Failed(Released(t)), "finish")
  <2>1. ~Calm
    BY <1>1, <1>7, CalmIs DEF CalmTurn, FinishFails
  <2> QED
    BY <1>3, <1>7, <2>1 DEF Goes
<1> QED
  BY <1>1, <1>4, <1>5, <1>6, <1>7 DEF Complete

\* The prompt is finished.
LEMMA FinishCalm ==
  ASSUME IInv, CalmInv, NEW r \in Runs, Finish(r)
  PROVE  CalmInv'
<1>1. PICK t \in TurnType : t = turn[r] /\ RunOk(t, r, nat) /\ t.pc = "finish"
  BY TurnIs DEF Finish
<1>2. PICK s : /\ turn' = [turn EXCEPT ![r] = s]
               /\ \/ FinishFails(t) /\ s = [[Failed(Released(t)) EXCEPT !.uiClosed = TRUE] EXCEPT !.pc = "join"]
                  \/ s = [[Released(t) EXCEPT !.uiClosed = TRUE] EXCEPT !.pc = "join"]
  BY <1>1 DEF Finish, Goes, FinishPrompt
<1>3. s.ctx = t.ctx
  <2>1. CASE s = [[Failed(Released(t)) EXCEPT !.uiClosed = TRUE] EXCEPT !.pc = "join"]
    BY ZenonT(60), <2>1 DEF Failed, Released, TurnType
  <2>2. CASE s = [[Released(t) EXCEPT !.uiClosed = TRUE] EXCEPT !.pc = "join"]
    BY ZenonT(60), <2>2 DEF Released, TurnType
  <2> QED
    BY <1>2, <2>1, <2>2
<1>4. Calm => ~lost' /\ Calmly(t, s)
  <2>1. SUFFICES ASSUME Calm PROVE ~lost' /\ Calmly(t, s)
    OBVIOUS
  <2>2. CalmTurn(t, r, nat) /\ ~lost /\ ~FinishFails(t)
    BY <1>1, <2>1, CalmIs DEF CalmTurn, FinishFails
  <2>3. s = [[Released(t) EXCEPT !.uiClosed = TRUE] EXCEPT !.pc = "join"]
    BY <1>2, <2>2
  <2>4. Same(t, s, {"pc", "uiClosed", "prompt"}) /\ s.pc = "join" /\ s.prompt = "over"
    BY ZenonT(60), <2>3 DEF Released, TurnType, Same
  <2>5. Ready(t) /\ t.ui # "pending"
    BY <1>1, <2>2 DEF CalmTurn, RunOk, StepInv
  <2>6. lost' = lost
    BY DEF Finish
  <2> QED
    BY <2>2, <2>4, <2>5, <2>6 DEF Same, Quiet, Calmly, CalmTurn
<1> QED
  BY <1>1, <1>2, <1>3, <1>4, StepCalm DEF Finish, Elsewhere

\* The turn is joined.
LEMMA JoinCalm ==
  ASSUME IInv, CalmInv, NEW r \in Runs, Join(r)
  PROVE  CalmInv'
BY GoesCalm DEF Join, Goes

\* Wait's last step: nothing failed and nothing retired the turn, so the lane is kept.
LEMMA SnapshotCalm ==
  ASSUME IInv, CalmInv, NEW r \in Runs, Snapshot(r)
  PROVE  CalmInv'
<1>1. PICK t \in TurnType : t = turn[r]
  BY TurnIs
<1>2. PICK s : /\ turn' = [turn EXCEPT ![r] = s]
               /\ \/ (t.failed \/ t.abort = "failed") /\ s = [Failed(t) EXCEPT !.pc = "post"]
                  \/ s = [[t EXCEPT !.result = t.verdict] EXCEPT !.pc = "post"]
  <2>1. CASE t.failed \/ t.abort = "failed"
    BY <1>1, <2>1 DEF Snapshot, Goes
  <2>2. CASE ~(t.failed \/ t.abort = "failed")
    BY <1>1, <2>2 DEF Snapshot, Goes
  <2> QED
    BY <2>1, <2>2
<1>3. PICK v \in {"none", "answer", "aborted", "noagent"} : v = t.verdict
  BY DEF TurnType
<1>4. s = [[t EXCEPT !.result = v] EXCEPT !.pc = "post"] => Same(t, s, {"pc", "result"}) /\ s.pc = "post"
  <2>1. SUFFICES ASSUME s = [[t EXCEPT !.result = v] EXCEPT !.pc = "post"]
                 PROVE  Same(t, s, {"pc", "result"}) /\ s.pc = "post"
    OBVIOUS
  <2>2. PICK w : w = [t EXCEPT !.result = v]
    OBVIOUS
  <2>3. w \in TurnType /\ Same(t, w, {"result"})
    BY <1>3, <2>2 DEF TurnType, Same
  <2>4. Same(w, s, {"pc"}) /\ s.pc = "post"
    BY <2>1, <2>2, <2>3 DEF TurnType, Same
  <2> QED
    BY <2>3, <2>4 DEF Same
<1>5. s.ctx = t.ctx
  <2>1. CASE s = [Failed(t) EXCEPT !.pc = "post"]
    BY <2>1, FailedCtx
  <2>2. CASE s = [[t EXCEPT !.result = t.verdict] EXCEPT !.pc = "post"]
    BY <1>3, <1>4, <2>2 DEF Same
  <2> QED
    BY <1>2, <2>1, <2>2
<1>6. Calm => ~lost' /\ Calmly(t, s)
  <2>1. SUFFICES ASSUME Calm PROVE ~lost' /\ Calmly(t, s)
    OBVIOUS
  <2>2. CalmTurn(t, r, nat) /\ ~lost /\ ~t.failed /\ t.abort # "failed" /\ ~t.retired
    BY <1>1, <2>1, CalmIs DEF CalmTurn
  <2>3. Same(t, s, {"pc", "result"}) /\ s.pc = "post"
    BY <1>2, <1>3, <1>4, <2>2
  <2>4. ~lost'
    BY <1>1, <2>2 DEF Snapshot
  <2> QED
    BY <2>2, <2>3, <2>4 DEF Same, Quiet, Calmly, CalmTurn
<1> QED
  BY <1>1, <1>2, <1>5, <1>6, StepCalm DEF Snapshot, Elsewhere

\* Run returns, and keeps the lane.
LEMMA RunReturnsCalm ==
  ASSUME IInv, CalmInv, NEW r \in Runs, RunReturns(r)
  PROVE  CalmInv'
<1>1. PICK t \in TurnType : t = turn[r]
  BY TurnIs
<1> DEFINE early == ~t.admitted /\ t.ctx = "interrupted"
<1>2. PICK y : y = IF early THEN Report(t, EarlyReceipt(t)) ELSE t
  OBVIOUS
<1>3. y \in TurnType /\ Same(t, y, {"receipt"})
  <2>1. PICK x \in {"none", "injected", "refused", "not_submitted", "uncertain"} : y = [t EXCEPT !.receipt = x]
    <3>1. CASE early /\ t.receipt = "none"
      BY <1>2, <3>1 DEF Report, EarlyReceipt
    <3>2. CASE ~(early /\ t.receipt = "none")
      <4>1. y = t
        BY <1>2, <3>2 DEF Report
      <4>2. y = [t EXCEPT !.receipt = t.receipt]
        BY <4>1 DEF TurnType
      <4> QED
        BY <4>2 DEF TurnType
    <3> QED
      BY <3>1, <3>2
  <2> QED
    BY <2>1 DEF TurnType, Same
<1>4. PICK s : /\ turn' = [turn EXCEPT ![r] = s]
               /\ \/ early /\ s = [[y EXCEPT !.result = "interrupted"] EXCEPT !.pc = "done"]
                  \/ /\ t.failed
                     /\ s = [[Report(y, "uncertain") EXCEPT !.result = "error"] EXCEPT !.pc = "done"]
                  \/ s = [y EXCEPT !.pc = "done"]
  <2>1. CASE early /\ (~t.failed \/ t.canceled)
    BY <1>1, <1>2, <2>1 DEF RunReturns, Goes
  <2>2. CASE t.failed /\ ~(early /\ t.canceled)
    BY <1>1, <1>2, <2>2 DEF RunReturns, Goes
  <2>3. CASE ~(early /\ (~t.failed \/ t.canceled)) /\ ~(t.failed /\ ~(early /\ t.canceled))
    BY <1>1, <1>2, <2>3 DEF RunReturns, Goes
  <2> QED
    BY <2>1, <2>2, <2>3
<1>5. Same(t, s, {"receipt", "result", "pc"}) /\ s.pc = "done"
  <2>1. CASE s = [[y EXCEPT !.result = "interrupted"] EXCEPT !.pc = "done"]
    <3>1. Same(y, s, {"result", "pc"}) /\ s.pc = "done"
      BY <1>3, <2>1 DEF TurnType, Same
    <3> QED
      BY <1>3, <3>1 DEF Same
  <2>2. CASE s = [[Report(y, "uncertain") EXCEPT !.result = "error"] EXCEPT !.pc = "done"]
    <3>1. PICK z : z = Report(y, "uncertain")
      OBVIOUS
    <3>2. z \in TurnType /\ Same(y, z, {"receipt"})
      <4>1. PICK x \in {"none", "injected", "refused", "not_submitted", "uncertain"} : z = [y EXCEPT !.receipt = x]
        BY <1>3, <3>1 DEF Report, TurnType
      <4> QED
        BY <1>3, <4>1 DEF TurnType, Same
    <3>3. Same(z, s, {"result", "pc"}) /\ s.pc = "done"
      BY <2>2, <3>1, <3>2 DEF TurnType, Same
    <3> QED
      BY <1>3, <3>2, <3>3 DEF Same
  <2>3. CASE s = [y EXCEPT !.pc = "done"]
    <3>1. Same(y, s, {"pc"}) /\ s.pc = "done"
      BY <1>3, <2>3 DEF TurnType, Same
    <3> QED
      BY <1>3, <3>1 DEF Same
  <2> QED
    BY <1>4, <2>1, <2>2, <2>3
<1>6. Calm => ~lost' /\ Calmly(t, s)
  <2>1. SUFFICES ASSUME Calm PROVE ~lost' /\ Calmly(t, s)
    OBVIOUS
  <2>2. CalmTurn(t, r, nat) /\ ~lost /\ ~t.failed /\ ~early
    BY <1>1, <2>1, CalmIs DEF CalmTurn
  <2>3. ~lost'
    BY <1>1, <2>2 DEF RunReturns
  <2> QED
    BY <1>5, <2>2, <2>3 DEF Same, Quiet, Calmly, CalmTurn
<1>7. s.ctx = t.ctx /\ rpc' = rpc /\ out' = out /\ nat' = nat
  BY <1>5 DEF Same, RunReturns, Elsewhere
<1> QED
  BY <1>1, <1>4, <1>6, <1>7, StepCalm

\* The host asks for the interrupt.
LEMMA IntAskCalm ==
  ASSUME IInv, CalmInv, NEW r \in Runs, IntAsk(r)
  PROVE  CalmInv'
<1>1. PICK s : turn' = [turn EXCEPT ![r] = s] /\ s = [turn[r] EXCEPT !.asked = TRUE]
  BY DEF IntAsk
<1>2. turn[r] \in TurnType
  BY TurnIs
<1>3. Same(turn[r], s, {"asked"})
  BY ZenonT(60), <1>1, <1>2 DEF TurnType, Same
<1>4. Calm => ~lost' /\ Calmly(turn[r], s)
  <2>1. SUFFICES ASSUME Calm PROVE ~lost' /\ Calmly(turn[r], s)
    OBVIOUS
  <2>2. CalmTurn(turn[r], r, nat) /\ ~lost
    BY <2>1, CalmIs
  <2>3. lost' = lost
    BY DEF IntAsk
  <2> QED
    BY <1>3, <2>2, <2>3 DEF Same, Quiet, Calmly, CalmTurn
<1>5. s.ctx = turn[r].ctx /\ rpc' = rpc /\ out' = out /\ nat' = nat
  BY <1>3 DEF Same, IntAsk
<1> QED
  BY <1>1, <1>4, <1>5, StepCalm

\* The interrupt cancels the turn's context, or asks native to abort.
LEMMA IntActCalm ==
  ASSUME IInv, CalmInv, NEW r \in Runs, IntAct(r)
  PROVE  CalmInv'
<1>1. turn[r] \in TurnType /\ turn \in [Runs -> TurnType]
  BY TurnIs DEF IInv, TypeInv
<1>2. UNCHANGED <<lost, rpc, out, nat>>
  BY DEF IntAct
<1>3. CASE UNCHANGED turn
  BY <1>2, <1>3, CalmSame
<1>4. CASE turn' = [turn EXCEPT ![r].ctx = "interrupted"]
  <2>1. turn'[r].ctx # "live"
    BY <1>1, <1>4 DEF TurnType
  <2> QED
    BY <2>1, GivenUpCalm
<1>5. CASE Aborts(r, turn[r], turn[r].pc)
  <2>1. PICK a \in {"ok", "sent", "failed"} :
          /\ turn' = [turn EXCEPT ![r] = [[turn[r] EXCEPT !.abort = a] EXCEPT !.pc = turn[r].pc]]
          /\ rpc = "up" => a # "failed"
    BY <1>5 DEF Aborts, Goes
  <2>2. PICK s : /\ turn' = [turn EXCEPT ![r] = s]
                 /\ s = [[turn[r] EXCEPT !.abort = a] EXCEPT !.pc = turn[r].pc]
    BY <2>1
  <2>3. PICK w : w = [turn[r] EXCEPT !.abort = a]
    OBVIOUS
  <2>4. w \in TurnType /\ Same(turn[r], w, {"abort"}) /\ w.abort = a
    BY <1>1, <2>1, <2>3 DEF TurnType, Same
  <2>5. s = [w EXCEPT !.pc = w.pc]
    BY <2>2, <2>3, <2>4 DEF Same
  <2>6. Same(w, s, {})
    BY <2>4, <2>5 DEF TurnType, Same
  <2>7. Same(turn[r], s, {"abort"}) /\ s.abort = a
    BY <2>4, <2>6 DEF Same
  <2>8. Calm => ~lost' /\ Calmly(turn[r], s)
    <3>1. SUFFICES ASSUME Calm PROVE ~lost' /\ Calmly(turn[r], s)
      OBVIOUS
    <3>2. CalmTurn(turn[r], r, nat) /\ ~lost /\ rpc = "up"
      BY <3>1, CalmIs
    <3> QED
      BY <1>2, <2>1, <2>7, <3>2 DEF Same, Quiet, Calmly, CalmTurn
  <2>9. s.ctx = turn[r].ctx
    BY <2>7 DEF Same
  <2> QED
    BY <1>2, <2>2, <2>8, <2>9, StepCalm
<1> QED
  BY <1>3, <1>4, <1>5 DEF IntAct

\* The run's context ends.
LEMMA CtxEndsCalm ==
  ASSUME IInv, NEW r \in Runs, CtxEnds(r)
  PROVE  CalmInv'
<1>1. turn'[r].ctx # "live"
  BY TurnIs DEF CtxEnds, TurnType, IInv, TypeInv
<1> QED
  BY <1>1, GivenUpCalm

\* The dialog's cancellation settles, as nothing stops it.
LEMMA UiSettlesCalm ==
  ASSUME IInv, CalmInv, NEW r \in Runs, UiSettles(r)
  PROVE  CalmInv'
<1>1. PICK t \in TurnType : t = turn[r] /\ t.ui = "pending"
  BY TurnIs DEF UiSettles
<1>2. PICK u : u = [t EXCEPT !.ui = "over"]
  OBVIOUS
<1>3. u \in TurnType /\ Same(t, u, {"ui"}) /\ u.ui = "over"
  BY <1>2 DEF TurnType, Same
<1>4. PICK s : /\ turn' = [turn EXCEPT ![r] = s]
               /\ \/ s = [u EXCEPT !.pc = t.pc]
                  \/ (rpc # "up" \/ lost \/ t.pc = "join") /\ s = [CtxFailed(u) EXCEPT !.pc = t.pc]
  BY <1>1, <1>2 DEF UiSettles, Goes
<1>5. PICK p : p = t.pc
  OBVIOUS
<1>6. s.ctx = t.ctx
  <2>1. CASE s = [u EXCEPT !.pc = t.pc]
    BY ZenonT(60), <1>3, <2>1 DEF TurnType, Same
  <2>2. CASE s = [CtxFailed(u) EXCEPT !.pc = t.pc]
    BY ZenonT(60), <1>3, <2>2 DEF CtxFailed, Failed, TurnType, Same
  <2> QED
    BY <1>4, <2>1, <2>2
<1>7. ASSUME Calm
      PROVE  CalmMove(t, s, r)
  <2>1. CalmTurn(t, r, nat) /\ ~lost /\ rpc = "up" /\ t.pc # "join"
    BY <1>1, <1>7, CalmIs DEF CalmTurn
  <2>2. s = [u EXCEPT !.pc = u.pc]
    BY <1>3, <1>4, <2>1 DEF Same
  <2>3. Same(u, s, {})
    BY <1>3, <2>2 DEF TurnType, Same
  <2>4. Same(t, s, {"ui"}) /\ s.ui = "over"
    BY <1>3, <2>3 DEF Same
  <2> QED
    BY <1>1, <2>1, <2>4 DEF Same, CalmMove, CalmTurn, Ready
<1> QED
  BY <1>1, <1>4, <1>6, <1>7, CalmIs, CalmOne DEF UiSettles, Elsewhere

\* What is calm was calm.
LEMMA CalmBefore ==
  ASSUME \A x \in Runs : turn'[x].ctx = "live" => turn[x].ctx = "live",
         nat'.faulty = nat.faulty, nat'.exited = nat.exited, nat'.nature = nat.nature, Calm'
  PROVE  Calm
BY DEF Calm

\* The owner of a lane that nobody disturbs is not stopped.
LEMMA OwnerStopsCalm ==
  ASSUME IInv, CalmInv, OwnerStops
  PROVE  CalmInv'
<1>1. nat'.faulty = nat.faulty /\ nat'.exited = nat.exited /\ nat'.nature = nat.nature
  BY DEF OwnerStops, IInv, TypeInv, NativeType
<1>2. \A x \in Runs : turn'[x].ctx = turn[x].ctx
  BY StoppedCtx, TurnIs DEF OwnerStops, StopRpc
<1>3. Calm' => Calm
  BY <1>1, <1>2, CalmBefore
<1> QED
  BY <1>3 DEF CalmInv, OwnerStops

\* Its end is not seen.
LEMMA OwnerEndsCalm ==
  ASSUME IInv, CalmInv, OwnerEnds
  PROVE  CalmInv'
<1>1. Calm' => Calm
  BY DEF OwnerEnds, Calm
<1> QED
  BY <1>1 DEF CalmInv, OwnerEnds

\* Native's output does not end.
LEMMA OutputEndsCalm ==
  ASSUME IInv, CalmInv, OutputEnds
  PROVE  CalmInv'
<1>1. \A x \in Runs : turn'[x].ctx = turn[x].ctx
  BY StoppedCtx, TurnIs DEF OutputEnds, StopRpc
<1>2. Calm' => Calm
  BY <1>1, CalmBefore DEF OutputEnds
<1> QED
  BY <1>2 DEF CalmInv, OutputEnds

\* A preflight report arrives.
LEMMA PreflightCalm ==
  ASSUME IInv, CalmInv, Preflight
  PROVE  CalmInv'
BY CalmSame DEF Preflight

\* What a turn hears of the frame that is read.
Hears(f, t, s, r) ==
  /\ CalmTurn(s, r, nat)
  /\ t.starts # 0 \/ (f.kind = "start" /\ r = active) => s.starts # 0
  /\ t.said # 0 \/ (f.kind = "message" /\ r = active) => s.said # 0
  /\ f.kind = "dialog" \/ s.ui = t.ui
  /\ Ready(s) => Ready(t) \/ Terminal(f)

\* The frames that are left when the first has been heard.
LEMMA HeardCalm ==
  ASSUME IInv, CalmInv, Calm, out # <<>>, out' = Tail(out), nat' = nat, rpc' = rpc, lost' = lost,
         \A x \in Runs : Hears(Head(out), turn[x], turn'[x], x)
  PROVE  CalmInv'
<1>1. /\ \A i \in DOMAIN out' : i \in Nat /\ i + 1 \in DOMAIN out /\ out'[i] = out[i + 1]
      /\ 1 \in DOMAIN out /\ Head(out) = out[1]
  BY TailAt DEF IInv, TypeInv
<1>2. \A j \in DOMAIN out : j = 1 \/ (j - 1 \in DOMAIN out' /\ out'[j - 1] = out[j] /\ j \in Nat)
  <2> SUFFICES ASSUME NEW j \in DOMAIN out, j # 1
               PROVE  j - 1 \in DOMAIN out' /\ out'[j - 1] = out[j] /\ j \in Nat
    OBVIOUS
  <2>1. out \in Seq(FrameType)
    BY DEF IInv, TypeInv
  <2>2. Len(out) \in Nat /\ DOMAIN out = 1 .. Len(out) /\ Len(out') = Len(out) - 1 /\ out' \in Seq(FrameType)
    BY <2>1, HeadTailProperties, LenProperties
  <2>3. j - 1 \in 1 .. Len(out') /\ j \in Nat
    BY <2>2
  <2>4. j - 1 \in DOMAIN out'
    BY <2>2, <2>3, LenProperties
  <2> QED
    BY <1>1, <2>3, <2>4
<1>3. \A i \in DOMAIN out : CalmFrame(turn, nat, out, i)
  BY DEF CalmInv, CalmFrames
<1>4. \A i, j \in DOMAIN out : i < j => CalmOrder(out[i], out[j])
  BY DEF CalmInv, CalmFrames
<1>5. ASSUME NEW i \in DOMAIN out'
      PROVE  CalmFrame(turn', nat', out', i)
  <2>1. PICK k \in DOMAIN out : k = i + 1 /\ out'[i] = out[k] /\ 1 < k /\ i \in Nat
    <3>1. i \in Nat /\ i + 1 \in DOMAIN out /\ i # 0
      BY <1>1, TailAt, LenProperties DEF IInv, TypeInv
    <3> QED
      BY <1>1, <3>1
  <2>2. PICK f : f = out[k]
    OBVIOUS
  <2>3. CalmFrame(turn, nat, out, k) /\ CalmOrder(out[1], f)
    BY <1>1, <1>3, <1>4, <2>1, <2>2
  <2>4. IsEvent(f) => f.run \in Runs /\ active = f.run
    BY <2>2, CalmEvent
  <2>5. IsEvent(f) => ~Ready(turn'[f.run])
    <3>1. SUFFICES ASSUME IsEvent(f) PROVE ~Ready(turn'[f.run])
      OBVIOUS
    <3>2. ~Ready(turn[f.run]) /\ ~Terminal(out[1])
      BY <2>2, <2>3, <3>1 DEF CalmFrame, CalmOrder
    <3> QED
      BY <1>1, <2>4, <3>1, <3>2 DEF Hears
  <2>6. f.kind \in {"message", "end"} =>
          turn'[f.run].starts # 0 \/ \E j \in DOMAIN out' : j < i /\ out'[j].kind = "start"
    <3>1. SUFFICES ASSUME f.kind \in {"message", "end"}
                   PROVE  turn'[f.run].starts # 0 \/ \E j \in DOMAIN out' : j < i /\ out'[j].kind = "start"
      OBVIOUS
    <3>2. f.run \in Runs /\ active = f.run
      BY <2>4, <3>1 DEF IsEvent, Events
    <3>3. CASE turn[f.run].starts # 0
      BY <3>2, <3>3 DEF Hears
    <3>4. CASE \E j \in DOMAIN out : j < k /\ out[j].kind = "start"
      <4>1. PICK j \in DOMAIN out : j < k /\ out[j].kind = "start"
        BY <3>4
      <4>2. CASE j = 1
        BY <1>1, <3>2, <4>1, <4>2 DEF Hears
      <4>3. CASE j # 1
        <5>1. j - 1 \in DOMAIN out' /\ out'[j - 1] = out[j] /\ j - 1 < i
          BY <1>2, <2>1, <4>1, <4>3
        <5> QED
          BY <4>1, <5>1
      <4> QED
        BY <4>2, <4>3
    <3> QED
      BY <2>2, <2>3, <3>1, <3>3, <3>4 DEF CalmFrame
  <2>7. f.kind = "end" /\ f.what # "continues" =>
          turn'[f.run].said # 0 \/ \E j \in DOMAIN out' : j < i /\ out'[j].kind = "message"
    <3>1. SUFFICES ASSUME f.kind = "end", f.what # "continues"
                   PROVE  turn'[f.run].said # 0 \/ \E j \in DOMAIN out' : j < i /\ out'[j].kind = "message"
      OBVIOUS
    <3>2. f.run \in Runs /\ active = f.run
      BY <2>4, <3>1 DEF IsEvent, Events
    <3>3. CASE turn[f.run].said # 0
      BY <3>2, <3>3 DEF Hears
    <3>4. CASE \E j \in DOMAIN out : j < k /\ out[j].kind = "message"
      <4>1. PICK j \in DOMAIN out : j < k /\ out[j].kind = "message"
        BY <3>4
      <4>2. CASE j = 1
        BY <1>1, <3>2, <4>1, <4>2 DEF Hears
      <4>3. CASE j # 1
        <5>1. j - 1 \in DOMAIN out' /\ out'[j - 1] = out[j] /\ j - 1 < i
          BY <1>2, <2>1, <4>1, <4>3
        <5> QED
          BY <4>1, <5>1
      <4> QED
        BY <4>2, <4>3
    <3> QED
      BY <2>2, <2>3, <3>1, <3>3, <3>4 DEF CalmFrame
  <2>8. f.kind = "dialog" => nat.dialog /\ \A x \in Runs : turn'[x].ui = "none"
    <3>1. SUFFICES ASSUME f.kind = "dialog"
                   PROVE  nat.dialog /\ \A x \in Runs : turn'[x].ui = "none"
      OBVIOUS
    <3>2. nat.dialog /\ (\A x \in Runs : turn[x].ui = "none") /\ Head(out).kind # "dialog"
      BY <1>1, <2>2, <2>3, <3>1 DEF CalmFrame, CalmOrder
    <3> QED
      BY <3>2 DEF Hears
  <2>9. /\ f.kind \notin {"late", "broken"} /\ ~(f.kind = "response" /\ f.what = "error")
        /\ f.kind \in {"start", "dialog"} => nat.nature[f.run] = "agent"
    BY <2>2, <2>3 DEF CalmFrame
  <2> QED
    BY <2>1, <2>2, <2>5, <2>6, <2>7, <2>8, <2>9 DEF CalmFrame
<1>6. ASSUME NEW i \in DOMAIN out', NEW j \in DOMAIN out', i < j
      PROVE  CalmOrder(out'[i], out'[j])
  <2>1. i + 1 < j + 1
    BY <1>1, <1>6
  <2> QED
    BY <1>1, <1>4, <2>1
<1>7. CalmFrames(turn', nat', out')
  BY <1>5, <1>6 DEF CalmFrames
<1>8. CalmWork(turn', nat', out')
  <2> SUFFICES ASSUME NEW x \in Runs, nat.phase[x] = "started"
               PROVE  turn'[x].starts # 0 \/ \E j \in DOMAIN out' : out'[j].kind = "start"
    BY DEF CalmWork
  <2>1. active = x
    BY CalmWorks DEF Works
  <2>2. CASE turn[x].starts # 0
    BY <2>2 DEF Hears
  <2>3. CASE \E j \in DOMAIN out : out[j].kind = "start"
    <3>1. PICK j \in DOMAIN out : out[j].kind = "start"
      BY <2>3
    <3>2. CASE j = 1
      BY <1>1, <2>1, <3>1, <3>2 DEF Hears
    <3>3. CASE j # 1
      BY <1>2, <3>1, <3>3
    <3> QED
      BY <3>2, <3>3
  <2> QED
    BY <2>2, <2>3 DEF CalmInv, CalmWork
<1> QED
  BY <1>7, <1>8 DEF CalmInv, Hears

\* An event leaves the context of a turn alone.
LEMMA RecordCtx ==
  ASSUME NEW r \in Runs, NEW t \in TurnType, NEW f, f.kind \in Events
  PROVE  RecordEvent(r, t, f).turn.ctx = t.ctx
<1>1. PICK x : x = RecordEvent(r, t, f)
  OBVIOUS
<1>2. PICK q : q = f.run
  OBVIOUS
<1>3. PICK w : w = f.what
  OBVIOUS
<1>4. PICK n : n = t.starts + 1
  OBVIOUS
<1>5. \/ x.turn = Failed(t) \/ x.turn = [t EXCEPT !.retired = TRUE]
      \/ x.turn = [t EXCEPT !.ui = "pending"] \/ x.turn = [t EXCEPT !.starts = n]
      \/ x.turn = [t EXCEPT !.said = q] \/ x.turn = t
      \/ x.turn = Settled(t, w) \/ x.turn = Resulted(t, q)
  BY <1>1, <1>2, <1>3, <1>4, RecordIs
<1>6. /\ Failed(t).ctx = t.ctx /\ [t EXCEPT !.retired = TRUE].ctx = t.ctx
      /\ [t EXCEPT !.ui = "pending"].ctx = t.ctx /\ [t EXCEPT !.starts = n].ctx = t.ctx
      /\ [t EXCEPT !.said = q].ctx = t.ctx
  BY DEF Failed, TurnType
<1>7. Settled(t, w).ctx = t.ctx
  BY DEF Settled, TurnType
<1>8. Resulted(t, q).ctx = t.ctx
  BY DEF Resulted, Settled, TurnType
<1> QED
  BY <1>1, <1>5, <1>6, <1>7, <1>8

\* So does whatever is read.
LEMMA ReadCtx ==
  ASSUME IInv, Read, NEW x \in Runs
  PROVE  turn'[x].ctx = turn[x].ctx
<1>1. turn \in [Runs -> TurnType] /\ out # <<>>
  BY DEF Read, IInv, TypeInv
<1>2. PICK f \in FrameType : f = Head(out)
  BY <1>1, HeadIs
<1>3. ASSUME NEW T, NEW why, StopRpc(T, why)
      PROVE  turn'[x] = Stopped(T[x])
  BY <1>3 DEF StopRpc
<1>4. CASE ReadResponse(f)
  <2>1. PICK r \in Runs : r = f.run
    BY <1>2, <1>4, FrameRuns DEF ReadResponse
  <2>2. PICK w : w = f.what
    OBVIOUS
  <2>3. turn'[r] = turn[r] \/ turn'[r] = Released(turn[r]) \/ turn'[r] = [turn[r] EXCEPT !.response = w]
    BY <1>1, <1>4, <2>1, <2>2 DEF ReadResponse
  <2>4. Released(turn[r]).ctx = turn[r].ctx /\ [turn[r] EXCEPT !.response = w].ctx = turn[r].ctx
    BY <1>1 DEF Released, TurnType
  <2>5. x # r => turn'[x] = turn[x]
    BY <1>1, <1>4, <2>1 DEF ReadResponse
  <2> QED
    BY <2>3, <2>4, <2>5
<1>5. CASE ReadLate(f)
  <2>1. PICK r \in Runs : r = f.run
    BY <1>2, <1>5, FrameRuns DEF ReadLate
  <2>2. CASE StopRpc(turn, "protocol")
    BY <1>1, <1>3, <2>2, StoppedCtx
  <2>3. CASE turn' = [turn EXCEPT ![r] = Released(turn[r])]
    <3>1. Released(turn[r]).ctx = turn[r].ctx
      BY <1>1 DEF Released, TurnType
    <3> QED
      BY <1>1, <2>3, <3>1
  <2>4. CASE turn' = [turn EXCEPT ![r].prompt = "late"]
    <3>1. [turn[r] EXCEPT !.prompt = "late"].ctx = turn[r].ctx
      BY <1>1 DEF TurnType
    <3> QED
      BY <1>1, <2>4, <3>1
  <2> QED
    BY <1>5, <2>1, <2>2, <2>3, <2>4 DEF ReadLate
<1>6. CASE ReadAbort(f)
  <2>1. PICK a : a = IF turn[x].abort = "sent" THEN "ok" ELSE turn[x].abort
    OBVIOUS
  <2>2. turn'[x] = [turn[x] EXCEPT !.abort = a]
    BY <1>6, <2>1 DEF ReadAbort
  <2>3. turn[x] \in TurnType
    BY <1>1
  <2> QED
    BY <2>2, <2>3 DEF TurnType
<1>7. CASE Observe(f)
  <2>1. CASE active = 0
    BY <1>1, <1>3, <1>7, <2>1, StoppedCtx DEF Observe
  <2>2. CASE active # 0
    <3>1. PICK r \in Runs : r = active
      BY <2>2, TurnAssumption DEF IInv, TypeInv, Runs
    <3>2. PICK e : e = RecordEvent(r, turn[r], f)
      OBVIOUS
    <3>3. e.turn.ctx = turn[r].ctx
      BY <1>1, <1>7, <3>2, RecordCtx DEF Observe
    <3>4. PICK T : T = [turn EXCEPT ![r] = e.turn]
      OBVIOUS
    <3>5. \A y \in Runs : T[y].ctx = turn[y].ctx
      BY <1>1, <3>3, <3>4
    <3>6. IF e.refused THEN StopRpc(T, "observer") ELSE turn' = T
      BY <1>7, <2>2, <3>1, <3>2, <3>4 DEF Observe
    <3>7. CASE e.refused
      <4>1. e.turn = Failed(turn[r]) \/ e.turn = [turn[r] EXCEPT !.retired = TRUE]
        BY <1>7, <3>2, <3>7, RecordIs DEF Observe
      <4>2. e.turn \in TurnType
        <5>1. PICK t \in TurnType : t = turn[r]
          BY <1>1
        <5>2. Failed(t) \in TurnType
          BY DEF Failed, TurnType
        <5>3. [t EXCEPT !.retired = TRUE] \in TurnType
          BY DEF TurnType
        <5> QED
          BY <4>1, <5>1, <5>2, <5>3
      <4>3. T[x] \in TurnType
        BY <1>1, <3>4, <4>2
      <4>4. turn'[x] = Stopped(T[x])
        BY <1>3, <3>6, <3>7
      <4> QED
        BY <3>5, <4>3, <4>4, StoppedCtx
    <3> QED
      BY <3>5, <3>6, <3>7
  <2> QED
    BY <2>1, <2>2
<1> QED
  BY <1>2, <1>4, <1>5, <1>6, <1>7 DEF Read

\* The response to a prompt is no error.
LEMMA ReadResponseCalm ==
  ASSUME IInv, CalmInv, Calm, Read, ReadResponse(Head(out))
  PROVE  CalmInv'
<1>1. PICK f \in FrameType : f = Head(out) /\ FrameOk(turn, nat, f)
  BY HeadIs DEF Read
<1>2. f.kind = "response" /\ f.what \in {"ok", "noagent"} /\ f.kind \notin Events
  <2>1. 1 \in DOMAIN out /\ f = out[1]
    BY <1>1, TailAt DEF Read, IInv, TypeInv
  <2>2. f.kind = "response"
    BY <1>1 DEF ReadResponse
  <2> QED
    BY <2>1, <2>2 DEF CalmInv, CalmFrames, CalmFrame, FrameType, Events
<1>3. PICK r \in Runs : r = f.run
  BY <1>1, <1>2, FrameRuns
<1>4. PICK w \in {"ok", "noagent"} : w = f.what
  BY <1>2
<1>5. PICK t \in TurnType : t = turn[r] /\ CalmTurn(t, r, nat)
  BY CalmIs
<1>6. PICK s : /\ turn' = [turn EXCEPT ![r] = s]
               /\ \/ s = [t EXCEPT !.response = w]
                  \/ s = Released(t)
                  \/ s = t
  BY <1>1, <1>3, <1>4, <1>5 DEF ReadResponse
<1>7. Hears(f, t, s, r)
  <2>1. CASE s = [t EXCEPT !.response = w]
    <3>1. Same(t, s, {"response"}) /\ s.response = w
      BY <2>1 DEF TurnType, Same
    <3> QED
      BY <1>2, <1>5, <3>1 DEF Same, Hears, CalmTurn, Ready
  <2>2. CASE s = Released(t)
    <3>1. Same(t, s, {"prompt"}) /\ s.prompt = "over"
      BY <2>2 DEF Released, TurnType, Same
    <3> QED
      BY <1>2, <1>5, <3>1 DEF Same, Hears, CalmTurn, Ready
  <2>3. CASE s = t
    BY <1>2, <1>5, <2>3 DEF Hears, Ready
  <2> QED
    BY <1>6, <2>1, <2>2, <2>3
<1>8. ASSUME NEW x \in Runs
      PROVE  Hears(f, turn[x], turn'[x], x)
  <2>1. turn'[x] = IF x = r THEN s ELSE turn[x]
    BY <1>6 DEF IInv, TypeInv
  <2>2. CalmTurn(turn[x], x, nat)
    BY CalmIs
  <2>3. CASE x = r
    BY <1>5, <1>7, <2>1, <2>3
  <2>4. CASE x # r
    BY <1>2, <2>1, <2>2, <2>4 DEF Hears, Ready
  <2> QED
    BY <2>3, <2>4
<1> QED
  BY <1>1, <1>8, HeardCalm DEF Read, ReadResponse

\* An abort is answered.
LEMMA ReadAbortCalm ==
  ASSUME IInv, CalmInv, Calm, Read, ReadAbort(Head(out))
  PROVE  CalmInv'
<1>1. Head(out).kind = "abort"
  BY DEF ReadAbort
<1>2. ASSUME NEW x \in Runs
      PROVE  Hears(Head(out), turn[x], turn'[x], x)
  <2>1. PICK t \in TurnType : t = turn[x] /\ CalmTurn(t, x, nat)
    BY CalmIs
  <2>2. PICK a \in {"none", "sent", "ok", "failed"} : a = IF t.abort = "sent" THEN "ok" ELSE t.abort
    BY DEF TurnType
  <2>3. PICK s : s = turn'[x] /\ s = [t EXCEPT !.abort = a]
    BY <2>1, <2>2 DEF ReadAbort
  <2>4. Same(t, s, {"abort"}) /\ s.abort = a
    BY <2>2, <2>3 DEF TurnType, Same
  <2> QED
    BY <1>1, <2>1, <2>2, <2>3, <2>4 DEF Same, Hears, CalmTurn, Ready
<1> QED
  BY <1>2, HeardCalm DEF Read, ReadAbort

\* What is known of the active turn when an event of it is read.
EventIs(r, t, f) ==
  /\ active = r /\ t = turn[r] /\ f = Head(out) /\ f.run = r /\ ~Ready(t)
  /\ CalmFrame(turn, nat, out, 1) /\ out[1] = f /\ FrameOk(turn, nat, f) /\ f.kind \in Events
  /\ t \in TurnType /\ RunOk(t, r, nat) /\ CalmTurn(t, r, nat) /\ t.pc \in Now
  /\ nat.nature[r] \in {"unknown", "agent", "none", "silent"} /\ t.seen \in {0, r}

\* An event that is read is the active run's, whose turn can still hear it.
LEMMA EventHolds ==
  ASSUME IInv, CalmInv, Calm, out # <<>>, Head(out).kind \in Events
  PROVE  \E r \in Runs : EventIs(r, turn[r], Head(out))
<1>1. 1 \in DOMAIN out /\ Head(out) = out[1]
  BY TailAt DEF IInv, TypeInv
<1>2. CalmFrame(turn, nat, out, 1) /\ FrameOk(turn, nat, out[1])
  BY <1>1 DEF CalmInv, CalmFrames, IInv, FrameInv
<1>3. PICK r \in Runs : r = out[1].run /\ active = r /\ ~Ready(turn[r])
  BY <1>1, CalmEvent DEF IsEvent
<1>4. turn[r].pc \in Now
  BY <1>3 DEF IInv, SeqInv
<1> QED
  BY <1>1, <1>2, <1>3, <1>4, CalmIs DEF EventIs

\* A dialog, the start of an agent, its message, its end and a prompt's result are taken.
LEMMA DialogHeard ==
  ASSUME NEW r \in Runs, NEW t, NEW f, EventIs(r, t, f), f.kind = "dialog"
  PROVE  \E s : RecordEvent(r, t, f) = Taken(s) /\ Hears(f, t, s, r)
<1>1. ~t.failed /\ ~t.uiClosed /\ t.ui = "none" /\ nat.dialog
  BY DEF EventIs, CalmTurn, CalmFrame
<1>2. PICK s : s = [t EXCEPT !.ui = "pending"]
  OBVIOUS
<1>3. RecordEvent(r, t, f) = Taken(s)
  BY <1>1, <1>2 DEF RecordEvent
<1>4. t \in TurnType
  BY DEF EventIs
<1>5. Same(t, s, {"ui"}) /\ s.ui = "pending"
  BY <1>2, <1>4 DEF TurnType, Same
<1>6. t.pc \notin {"finish", "join"}
  BY <1>1 DEF EventIs, RunOk, StepInv
<1>7. CalmTurn(t, r, nat)
  BY DEF EventIs
<1>8. Hears(f, t, s, r)
  BY <1>1, <1>5, <1>6, <1>7 DEF Same, Hears, CalmTurn, Ready
<1> QED
  BY <1>3, <1>8

\* The agent starts.
LEMMA StartHeard ==
  ASSUME NEW r \in Runs, NEW t, NEW f, EventIs(r, t, f), f.kind = "start"
  PROVE  \E s : RecordEvent(r, t, f) = Taken(s) /\ Hears(f, t, s, r)
<1>1. ~t.failed /\ ~Ready(t) /\ nat.nature[r] = "agent" /\ CalmTurn(t, r, nat) /\ t \in TurnType
  BY DEF EventIs, CalmTurn, CalmFrame
<1>2. PICK n \in Nat : n = t.starts + 1 /\ n # 0
  BY <1>1 DEF TurnType
<1>3. PICK s : s = [t EXCEPT !.starts = n]
  OBVIOUS
<1>4. RecordEvent(r, t, f) = Taken(s)
  BY <1>1, <1>2, <1>3 DEF RecordEvent
<1>5. Same(t, s, {"starts"}) /\ s.starts = n
  BY <1>1, <1>3 DEF TurnType, Same
<1>6. Hears(f, t, s, r)
  BY <1>1, <1>2, <1>5 DEF Same, Hears, CalmTurn, Ready
<1> QED
  BY <1>4, <1>6

\* Its message ends.
LEMMA MessageHeard ==
  ASSUME NEW r \in Runs, NEW t, NEW f, EventIs(r, t, f), f.kind = "message", out \in Seq(FrameType)
  PROVE  \E s : RecordEvent(r, t, f) = Taken(s) /\ Hears(f, t, s, r)
<1>1. /\ ~t.failed /\ ~Ready(t) /\ CalmTurn(t, r, nat) /\ t \in TurnType
      /\ f.run = r /\ CalmFrame(turn, nat, out, 1) /\ out[1] = f /\ t = turn[r]
  BY DEF EventIs, CalmTurn
<1>2. \A j \in DOMAIN out : ~(j < 1)
  BY LenProperties
<1>3. t.starts # 0
  BY <1>1, <1>2 DEF CalmFrame
<1>4. PICK s : s = [t EXCEPT !.said = r]
  OBVIOUS
<1>5. RecordEvent(r, t, f) = Taken(s)
  BY <1>1, <1>3, <1>4 DEF RecordEvent
<1>6. Same(t, s, {"said"}) /\ s.said = r /\ r # 0
  BY <1>1, <1>4, TurnAssumption DEF TurnType, Same, Runs
<1>7. Hears(f, t, s, r)
  BY <1>1, <1>6 DEF Same, Hears, CalmTurn, Ready
<1> QED
  BY <1>5, <1>7

\* The agent ends, for good or not.
LEMMA EndHeard ==
  ASSUME NEW r \in Runs, NEW t, NEW f, EventIs(r, t, f), f.kind = "end", out \in Seq(FrameType),
         f \in FrameType
  PROVE  \E s : RecordEvent(r, t, f) = Taken(s) /\ Hears(f, t, s, r)
<1>1. /\ ~t.failed /\ ~Ready(t) /\ CalmTurn(t, r, nat) /\ t \in TurnType
      /\ f.run = r /\ CalmFrame(turn, nat, out, 1) /\ out[1] = f /\ t = turn[r]
  BY DEF EventIs, CalmTurn
<1>2. \A j \in DOMAIN out : ~(j < 1)
  BY LenProperties
<1>3. t.starts # 0 /\ (f.what # "continues" => t.said # 0)
  BY <1>1, <1>2 DEF CalmFrame
<1>4. RecordEvent(r, t, f) = AgentEnd(t, f.what)
  BY <1>1 DEF RecordEvent
<1>5. CASE f.what = "continues"
  <2>1. RecordEvent(r, t, f) = Taken(t)
    BY <1>3, <1>4, <1>5 DEF AgentEnd
  <2>2. Hears(f, t, t, r)
    BY <1>1 DEF Hears
  <2> QED
    BY <2>1, <2>2
<1>6. CASE f.what # "continues"
  <2>1. PICK w \in {"answer", "aborted"} : w = f.what
    BY <1>6 DEF FrameType
  <2>2. PICK s : s = Settled(t, w)
    OBVIOUS
  <2>3. RecordEvent(r, t, f) = Taken(s)
    BY <1>3, <1>4, <1>6, <2>1, <2>2 DEF AgentEnd
  <2>4. PICK u : u = [t EXCEPT !.verdict = w]
    OBVIOUS
  <2>5. u \in TurnType /\ Same(t, u, {"verdict"}) /\ u.verdict = w
    BY <1>1, <2>1, <2>4 DEF TurnType, Same
  <2>6. s = [u EXCEPT !.uiClosed = TRUE]
    BY <2>2, <2>4 DEF Settled
  <2>7. Same(u, s, {"uiClosed"})
    BY <2>5, <2>6 DEF TurnType, Same
  <2>8. Same(t, s, {"verdict", "uiClosed"}) /\ s.verdict = w /\ Terminal(f)
    BY <1>6, <2>5, <2>7 DEF Same, Terminal
  <2>9. Hears(f, t, s, r)
    <3>1. Ready(s)
      BY <2>8 DEF Ready
    <3> QED
      BY <1>1, <2>8, <3>1 DEF Same, Hears, CalmTurn
  <2> QED
    BY <2>3, <2>9
<1> QED
  BY <1>5, <1>6

\* A prompt needed no agent.
LEMMA ResultHeard ==
  ASSUME NEW r \in Runs, NEW t, NEW f, EventIs(r, t, f), f.kind = "result"
  PROVE  \E s : RecordEvent(r, t, f) = Taken(s) /\ Hears(f, t, s, r)
<1>1. /\ ~t.failed /\ ~Ready(t) /\ CalmTurn(t, r, nat) /\ t \in TurnType /\ f.run = r
      /\ nat.nature[r] = "none"
  BY DEF EventIs, CalmTurn, FrameOk
<1>2. t.seen = 0 /\ t.starts = 0 /\ t.token = 0
  BY <1>1 DEF EventIs, RunOk, OwnInv, NatureInv, CalmTurn, NoAgent, Ready
<1>3. PICK s : s = Resulted(t, r)
  OBVIOUS
<1>4. RecordEvent(r, t, f) = Taken(s)
  BY <1>1, <1>2, <1>3 DEF RecordEvent, Resulted
<1>5. PICK u : u = [t EXCEPT !.verdict = "noagent"]
  OBVIOUS
<1>6. u \in TurnType /\ Same(t, u, {"verdict"}) /\ u.verdict = "noagent"
  BY <1>1, <1>5 DEF TurnType, Same
<1>7. PICK v : v = [u EXCEPT !.uiClosed = TRUE]
  OBVIOUS
<1>8. v \in TurnType /\ Same(u, v, {"uiClosed"})
  BY <1>6, <1>7 DEF TurnType, Same
<1>9. s = [v EXCEPT !.seen = r]
  BY <1>3, <1>5, <1>7 DEF Resulted, Settled
<1>10. Same(v, s, {"seen"})
  BY <1>8, <1>9 DEF TurnType, Same
<1>11. Same(t, s, {"verdict", "uiClosed", "seen"}) /\ s.verdict = "noagent" /\ Terminal(f)
  BY <1>6, <1>8, <1>10 DEF Same, Terminal
<1>12. Hears(f, t, s, r)
  <2>1. Ready(s)
    BY <1>11 DEF Ready
  <2> QED
    BY <1>1, <1>11, <2>1 DEF Same, Hears, CalmTurn
<1> QED
  BY <1>4, <1>12

\* Every event is taken.
LEMMA ObserveCalm ==
  ASSUME IInv, CalmInv, Calm, Read, Observe(Head(out))
  PROVE  CalmInv'
<1>1. out # <<>> /\ Head(out) \in FrameType /\ Head(out).kind \in Events /\ out \in Seq(FrameType)
  BY HeadIs DEF Read, Observe, IInv, TypeInv
<1>2. PICK r \in Runs : EventIs(r, turn[r], Head(out))
  BY <1>1, EventHolds
<1>3. PICK s : RecordEvent(r, turn[r], Head(out)) = Taken(s) /\ Hears(Head(out), turn[r], s, r)
  BY <1>1, <1>2, DialogHeard, StartHeard, MessageHeard, EndHeard, ResultHeard
     DEF Events, EventIs, CalmFrame
<1>4. active = r /\ active # 0
  BY <1>2, TurnAssumption DEF EventIs, Runs
<1>5. /\ turn' = [turn EXCEPT ![r] = s] /\ rpc' = rpc /\ out' = Tail(out)
      /\ lost' = lost /\ nat' = nat
  BY <1>3, <1>4 DEF Observe, Taken, Read
<1>6. ASSUME NEW x \in Runs
      PROVE  Hears(Head(out), turn[x], turn'[x], x)
  <2>1. turn'[x] = IF x = r THEN s ELSE turn[x]
    BY <1>5 DEF IInv, TypeInv
  <2>2. CASE x = r
    BY <1>3, <2>1, <2>2
  <2>3. CASE x # r
    BY <1>4, <2>1, <2>3, CalmIs DEF Hears
  <2> QED
    BY <2>2, <2>3
<1> QED
  BY <1>1, <1>5, <1>6, HeardCalm

\* Whatever is read, is read calmly.
LEMMA ReadCalm ==
  ASSUME IInv, CalmInv, Read
  PROVE  CalmInv'
<1>1. SUFFICES ASSUME Calm' PROVE CalmInv'
  BY DEF CalmInv
<1>2. Calm
  BY <1>1, ReadCtx, CalmBefore DEF Read
<1>3. ~ReadLate(Head(out))
  <2>1. 1 \in DOMAIN out /\ Head(out) = out[1]
    BY TailAt DEF Read, IInv, TypeInv
  <2> QED
    BY <1>2, <2>1 DEF ReadLate, CalmInv, CalmFrames, CalmFrame
<1> QED
  BY <1>2, <1>3, ReadResponseCalm, ReadAbortCalm, ObserveCalm DEF Read

-----------------------------------------------------------------------------
(* What a native that nobody disturbs says.                                *)

\* The frames fs come after what has been said.
Adds(fs) ==
  /\ \A i \in DOMAIN out' :
       \/ i \in DOMAIN out /\ out'[i] = out[i]
       \/ \E k \in DOMAIN fs : i = Len(out) + k /\ out'[i] = fs[k]
  /\ \A i \in DOMAIN out : i \in DOMAIN out' /\ out'[i] = out[i] /\ i \in Nat /\ i <= Len(out)
  /\ \A k \in DOMAIN fs : Len(out) + k \in DOMAIN out' /\ out'[Len(out) + k] = fs[k] /\ k \in Nat /\ k > 0
  /\ Len(out) \in Nat

\* What native says comes after the frames it has said.
LEMMA SaysAdds ==
  ASSUME IInv, rpc = "up", NEW fs \in Seq(FrameType), Says(fs)
  PROVE  Adds(fs)
<1>1. /\ Len(out) \in Nat /\ DOMAIN out = 1 .. Len(out) /\ out \in Seq(FrameType)
      /\ Len(fs) \in Nat /\ DOMAIN fs = 1 .. Len(fs)
  BY LenProperties DEF IInv, TypeInv
<1>2. PICK s : s = out \o fs
  OBVIOUS
<1>3. /\ s \in Seq(FrameType) /\ Len(s) = Len(out) + Len(fs)
      /\ \A i \in 1 .. Len(out) + Len(fs) :
           s[i] = IF i <= Len(out) THEN out[i] ELSE fs[i - Len(out)]
  BY <1>1, <1>2, ConcatProperties
<1>4. DOMAIN s = 1 .. Len(out) + Len(fs) /\ out' = s
  BY <1>2, <1>3, LenProperties DEF Says
<1>5. \A i \in DOMAIN s :
         \/ i \in DOMAIN out /\ s[i] = out[i]
         \/ \E k \in DOMAIN fs : i = Len(out) + k /\ s[i] = fs[k]
  <2>1. \A i \in DOMAIN out' :
          \/ i \in DOMAIN out /\ out'[i] = out[i]
          \/ \E k \in DOMAIN fs : i = Len(out) + k /\ i \notin DOMAIN out /\ out'[i] = fs[k]
    BY <1>1, SaysIs
  <2> QED
    BY <1>4, <2>1
<1>6. \A i \in DOMAIN out : i \in DOMAIN s /\ s[i] = out[i] /\ i \in Nat /\ i <= Len(out)
  BY <1>1, <1>3, <1>4
<1>7. ASSUME NEW k \in DOMAIN fs
      PROVE  Len(out) + k \in DOMAIN s /\ s[Len(out) + k] = fs[k] /\ k \in Nat /\ k > 0
  <2>1. Len(out) + k \in 1 .. Len(out) + Len(fs) /\ ~(Len(out) + k <= Len(out)) /\ k \in Nat /\ k > 0
        /\ Len(out) + k - Len(out) = k
    BY <1>1
  <2> QED
    BY <1>3, <1>4, <2>1
<1> QED
  BY <1>1, <1>4, <1>5, <1>6, <1>7 DEF Adds

\* Nothing is said.
LEMMA NothingAdds ==
  ASSUME IInv, out' = out
  PROVE  Adds(<<>>) /\ <<>> \in Seq(FrameType)
<1>1. Len(out) \in Nat /\ DOMAIN out = 1 .. Len(out)
  BY LenProperties DEF IInv, TypeInv
<1> QED
  BY <1>1, EmptyAt DEF Adds

\* A frame native adds to what it has said.
NewFrame(fs, k) ==
  LET f == fs[k] IN
  /\ f.kind \notin {"late", "broken"} /\ ~(f.kind = "response" /\ f.what = "error")
  /\ IsEvent(f) => ~Ready(turn[f.run]) /\ \A i \in DOMAIN out : ~Terminal(out[i])
  /\ f.kind \in {"start", "dialog"} => nat'.nature[f.run] = "agent"
  /\ f.kind \in {"message", "end"} => nat.phase[f.run] = "started" /\ f.run \in Runs
  /\ f.kind = "end" /\ f.what # "continues" => \E l \in DOMAIN fs : l < k /\ fs[l].kind = "message"
  /\ f.kind = "dialog" => nat'.dialog /\ ~nat.dialog

\* What native does to its prompts.
Onward(fs) ==
  /\ nat'.alive = nat.alive /\ (nat.dialog => nat'.dialog)
  /\ \A x \in Runs : nat.nature[x] = "agent" => nat'.nature[x] = "agent"
  /\ \A x \in Runs : nat'.phase[x] = "started" =>
       nat.phase[x] = "started" \/ \E k \in DOMAIN fs : fs[k].kind = "start"

\* What native says is heard calmly later.
LEMMA SaysCalm ==
  ASSUME IInv, CalmInv, Calm, NativeElse, NEW fs \in Seq(FrameType), Adds(fs), Onward(fs),
         \A k \in DOMAIN fs : NewFrame(fs, k),
         \A k, l \in DOMAIN fs : k < l => CalmOrder(fs[k], fs[l])
  PROVE  CalmInv'
<1>1. turn' = turn /\ lost' = lost /\ rpc' = rpc
  BY DEF NativeElse
<1>2. \A x \in Runs : CalmTurn(turn[x], x, nat')
  BY CalmIs DEF Onward, CalmTurn
<1>3. \A i \in DOMAIN out : CalmFrame(turn, nat, out, i) /\ out[i] \in FrameType
  BY DEF CalmInv, CalmFrames, IInv, TypeInv
<1>4. ASSUME NEW i \in DOMAIN out
      PROVE  CalmFrame(turn', nat', out', i)
  <2>1. CalmFrame(turn, nat, out, i) /\ out'[i] = out[i]
    BY <1>3 DEF Adds
  <2>2. \A j \in DOMAIN out : j \in DOMAIN out' /\ out'[j] = out[j]
    BY DEF Adds
  <2>3. out[i].kind # "abort" => out[i].run \in Runs
    BY <1>3, FrameRuns
  <2>4. out[i].kind \in {"start", "dialog"} => nat'.nature[out[i].run] = "agent"
    BY <2>1, <2>3 DEF CalmFrame, Onward
  <2>5. out[i].kind = "dialog" => nat'.dialog
    BY <2>1 DEF CalmFrame, Onward
  <2> QED
    BY <1>1, <2>1, <2>2, <2>4, <2>5 DEF CalmFrame
<1>5. ASSUME NEW k \in DOMAIN fs
      PROVE  CalmFrame(turn', nat', out', Len(out) + k)
  <2>1. PICK f : f = fs[k] /\ out'[Len(out) + k] = f /\ NewFrame(fs, k)
    BY DEF Adds
  <2>2. f.kind \in {"message", "end"} =>
          turn[f.run].starts # 0 \/ \E j \in DOMAIN out' : j < Len(out) + k /\ out'[j].kind = "start"
    <3>1. SUFFICES ASSUME f.kind \in {"message", "end"}, turn[f.run].starts = 0
                   PROVE  \E j \in DOMAIN out' : j < Len(out) + k /\ out'[j].kind = "start"
      OBVIOUS
    <3>2. nat.phase[f.run] = "started" /\ f.run \in Runs
      BY <2>1, <3>1 DEF NewFrame
    <3>3. PICK j \in DOMAIN out : out[j].kind = "start"
      BY <3>1, <3>2 DEF CalmInv, CalmWork
    <3>4. j \in DOMAIN out' /\ out'[j] = out[j] /\ j < Len(out) + k
      BY DEF Adds
    <3> QED
      BY <3>3, <3>4
  <2>3. f.kind = "end" /\ f.what # "continues" =>
          \E j \in DOMAIN out' : j < Len(out) + k /\ out'[j].kind = "message"
    <3>1. SUFFICES ASSUME f.kind = "end", f.what # "continues"
                   PROVE  \E j \in DOMAIN out' : j < Len(out) + k /\ out'[j].kind = "message"
      OBVIOUS
    <3>2. PICK l \in DOMAIN fs : l < k /\ fs[l].kind = "message"
      BY <2>1, <3>1 DEF NewFrame
    <3>3. Len(out) + l \in DOMAIN out' /\ out'[Len(out) + l] = fs[l] /\ Len(out) + l < Len(out) + k
      BY <3>2 DEF Adds
    <3> QED
      BY <3>2, <3>3
  <2>4. f.kind = "dialog" => nat'.dialog /\ \A x \in Runs : turn[x].ui = "none"
    BY <2>1, CalmIs DEF NewFrame, CalmTurn
  <2> QED
    BY <1>1, <2>1, <2>2, <2>3, <2>4 DEF CalmFrame, NewFrame
<1>6. \A i \in DOMAIN out' : CalmFrame(turn', nat', out', i)
  BY <1>4, <1>5 DEF Adds
<1>7. ASSUME NEW i \in DOMAIN out, NEW k \in DOMAIN fs
      PROVE  CalmOrder(out[i], fs[k])
  <2>1. CalmFrame(turn, nat, out, i) /\ NewFrame(fs, k)
    BY <1>3
  <2> QED
    BY <2>1 DEF CalmFrame, NewFrame, CalmOrder
<1>8. ASSUME NEW i \in DOMAIN out', NEW j \in DOMAIN out', i < j
      PROVE  CalmOrder(out'[i], out'[j])
  <2>1. CASE i \in DOMAIN out
    <3>1. CASE j \in DOMAIN out
      BY <1>8, <2>1, <3>1 DEF Adds, CalmInv, CalmFrames
    <3>2. CASE j \notin DOMAIN out
      BY <1>7, <2>1, <3>2 DEF Adds
    <3> QED
      BY <3>1, <3>2
  <2>2. CASE i \notin DOMAIN out
    <3>1. PICK k \in DOMAIN fs : i = Len(out) + k /\ out'[i] = fs[k] /\ k \in Nat /\ k > 0
      BY <2>2 DEF Adds
    <3>2. CASE j \in DOMAIN out
      <4>1. j \in Nat /\ j <= Len(out) /\ Len(out) \in Nat
        BY <3>2 DEF Adds
      <4> QED
        BY <1>8, <3>1, <4>1
    <3>3. CASE j \notin DOMAIN out
      <4>1. PICK l \in DOMAIN fs : j = Len(out) + l /\ out'[j] = fs[l] /\ l \in Nat /\ Len(out) \in Nat
        BY <3>3 DEF Adds
      <4>2. k < l
        BY <1>8, <3>1, <4>1
      <4> QED
        BY <3>1, <4>1, <4>2
    <3> QED
      BY <3>2, <3>3
  <2> QED
    BY <2>1, <2>2
<1>9. CalmWork(turn', nat', out')
  <2> SUFFICES ASSUME NEW x \in Runs, nat'.phase[x] = "started"
               PROVE  turn[x].starts # 0 \/ \E j \in DOMAIN out' : out'[j].kind = "start"
    BY <1>1 DEF CalmWork
  <2>1. CASE nat.phase[x] = "started"
    <3>1. turn[x].starts # 0 \/ \E j \in DOMAIN out : out[j].kind = "start"
      BY <2>1 DEF CalmInv, CalmWork
    <3> QED
      BY <3>1 DEF Adds
  <2>2. CASE \E k \in DOMAIN fs : fs[k].kind = "start"
    <3>1. PICK k \in DOMAIN fs : fs[k].kind = "start"
      BY <2>2
    <3>2. Len(out) + k \in DOMAIN out' /\ out'[Len(out) + k] = fs[k]
      BY DEF Adds
    <3> QED
      BY <3>1, <3>2
  <2> QED
    BY <2>1, <2>2 DEF Onward
<1>10. CalmFrames(turn', nat', out')
  BY <1>6, <1>8 DEF CalmFrames
<1> QED
  BY <1>1, <1>2, <1>9, <1>10 DEF CalmInv, Onward

\* Native says one thing, of the prompt it works on if that is an event.
LEMMA SaysOneCalm ==
  ASSUME IInv, CalmInv, Calm, NativeElse, NEW f \in FrameType, Says(<<f>>),
         f.kind \notin {"message", "end", "late", "broken"}, ~(f.kind = "response" /\ f.what = "error"),
         IsEvent(f) => f.run \in Runs /\ Works(nat, f.run),
         f.kind \in {"start", "dialog"} => nat'.nature[f.run] = "agent",
         f.kind = "dialog" => nat'.dialog /\ ~nat.dialog,
         nat'.alive = nat.alive, nat.dialog => nat'.dialog,
         \A x \in Runs : nat.nature[x] = "agent" => nat'.nature[x] = "agent",
         \A x \in Runs : nat'.phase[x] = "started" => nat.phase[x] = "started" \/ f.kind = "start"
  PROVE  CalmInv'
<1>1. PICK fs \in Seq(FrameType) : fs = <<f>> /\ 1 \in DOMAIN fs /\ \A k \in DOMAIN fs : k = 1 /\ fs[k] = f
  <2>1. 1 \in DOMAIN <<f>>
    OBVIOUS
  <2> QED
    BY <2>1, OneFrame
<1>2. Adds(fs)
  BY <1>1, SaysAdds DEF CalmInv
<1>3. IsEvent(f) => ~Ready(turn[f.run]) /\ \A i \in DOMAIN out : ~Terminal(out[i])
  BY CalmWorks
<1>4. \A k \in DOMAIN fs : NewFrame(fs, k)
  BY <1>1, <1>3 DEF NewFrame
<1>5. Onward(fs)
  BY <1>1 DEF Onward
<1>6. \A k, l \in DOMAIN fs : k < l => CalmOrder(fs[k], fs[l])
  BY <1>1
<1> QED
  BY <1>1, <1>2, <1>4, <1>5, <1>6, SaysCalm

\* A message and the end of an agent.
LEMMA SaysTwoCalm ==
  ASSUME IInv, CalmInv, Calm, NativeElse, NEW r \in Runs, nat.phase[r] = "started",
         NEW f \in FrameType, NEW g \in FrameType, Says(<<f, g>>),
         f.kind = "message", f.run = r, g.kind = "end", g.run = r,
         nat'.alive = nat.alive, nat'.dialog = nat.dialog, nat'.nature = nat.nature,
         \A x \in Runs : nat'.phase[x] = "started" => nat.phase[x] = "started"
  PROVE  CalmInv'
<1>1. PICK fs \in Seq(FrameType) :
        /\ fs = <<f, g>> /\ 1 \in DOMAIN fs /\ fs[1] = f
        /\ \A k \in DOMAIN fs : (k = 1 /\ fs[k] = f) \/ (k = 2 /\ fs[k] = g)
  <2>1. 1 \in DOMAIN <<f, g>> /\ <<f, g>>[1] = f
    OBVIOUS
  <2> QED
    BY <2>1, TwoFrames
<1>2. Adds(fs)
  BY <1>1, SaysAdds DEF CalmInv
<1>3. ~Ready(turn[r]) /\ \A i \in DOMAIN out : ~Terminal(out[i])
  BY CalmWorks DEF Works
<1>4. ASSUME NEW k \in DOMAIN fs
      PROVE  NewFrame(fs, k)
  <2>1. CASE k = 1 /\ fs[k] = f
    BY <1>3, <2>1 DEF NewFrame
  <2>2. CASE k = 2 /\ fs[k] = g
    BY <1>1, <1>3, <2>2 DEF NewFrame
  <2> QED
    BY <1>1, <2>1, <2>2
<1>5. Onward(fs)
  BY DEF Onward
<1>6. \A k, l \in DOMAIN fs : k < l => CalmOrder(fs[k], fs[l])
  <2> SUFFICES ASSUME NEW k \in DOMAIN fs, NEW l \in DOMAIN fs, k < l
               PROVE  CalmOrder(fs[k], fs[l])
    OBVIOUS
  <2>1. fs[k] = f
    BY <1>1
  <2> QED
    BY <2>1 DEF CalmOrder, Terminal
<1> QED
  BY <1>2, <1>4, <1>5, <1>6, SaysCalm

\* Native says nothing.
LEMMA SilenceCalm ==
  ASSUME IInv, CalmInv, Calm, NativeElse, out' = out,
         nat'.alive = nat.alive, nat'.dialog = nat.dialog, nat'.nature = nat.nature,
         \A x \in Runs : nat'.phase[x] = "started" => nat.phase[x] = "started"
  PROVE  CalmInv'
<1>1. Adds(<<>>) /\ <<>> \in Seq(FrameType) /\ DOMAIN <<>> = {}
  BY NothingAdds, EmptyAt
<1>2. PICK fs \in Seq(FrameType) : Adds(fs) /\ DOMAIN fs = {}
  BY <1>1
<1>3. Onward(fs)
  BY DEF Onward
<1> QED
  BY <1>2, <1>3, SaysCalm

\* A prompt is read, and answered by its response.
LEMMA NativeReadsCalm ==
  ASSUME IInv, CalmInv, NEW r \in Runs, NativeReads(r)
  PROVE  CalmInv'
<1>1. SUFFICES ASSUME Calm' PROVE CalmInv'
  BY DEF CalmInv
<1>2. PICK n \in Natures :
        /\ nat' = [nat EXCEPT !.nature[r] = n,
                   !.phase[r] = IF n \in {"agent", "none"} THEN "acked" ELSE "over"]
        /\ Says(CASE n \in {"agent", "none"} -> <<Frame("response", r, "ok")>>
                  [] n = "refused" -> <<Frame("response", r, "error")>>
                  [] n = "silent" -> <<Frame("response", r, "noagent")>>
                  [] n = "both" -> <<Frame("response", r, "noagent"), Frame("result", r, "none")>>)
  BY DEF NativeReads
<1>3. PICK p \in {"acked", "over"} : p = IF n \in {"agent", "none"} THEN "acked" ELSE "over"
  OBVIOUS
<1>4. nat' = [nat EXCEPT !.nature[r] = n, !.phase[r] = p] /\ nat \in NativeType
  BY <1>2, <1>3, PhaseIs
<1>5. /\ nat'.alive = nat.alive /\ nat'.dialog = nat.dialog /\ nat'.faulty = nat.faulty
      /\ nat'.exited = nat.exited
      /\ \A x \in Runs : nat'.nature[x] = IF x = r THEN n ELSE nat.nature[x]
      /\ \A x \in Runs : nat'.phase[x] = IF x = r THEN p ELSE nat.phase[x]
  BY <1>4 DEF NativeType
<1>6. nat.nature[r] = "unknown"
  <2>1. 1 \in DOMAIN cmd /\ cmd[1] = r
    BY TailAt DEF NativeReads, IInv, TypeInv
  <2>2. nat.phase[r] = "unread"
    BY <2>1, TurnAssumption DEF IInv, CmdInv, Runs
  <2> QED
    BY <2>2, PhaseIs DEF NatureInv
<1>7. Calm /\ n \in {"agent", "none", "silent"}
  <2>1. turn' = turn
    BY DEF NativeReads, NativeElse
  <2>2. n \notin {"refused", "both"}
    BY <1>1, <1>5 DEF Calm
  <2>3. Calm
    BY <1>1, <1>5, <1>6, <2>1 DEF Calm
  <2> QED
    BY <2>2, <2>3, TurnAssumption
<1>8. PICK f \in FrameType : f.kind = "response" /\ f.what # "error" /\ Says(<<f>>)
  <2>1. CASE n \in {"agent", "none"}
    <3>1. Says(<<Frame("response", r, "ok")>>)
      BY <1>2, <2>1
    <3> QED
      BY <3>1, ResponseFrame
  <2>2. CASE n = "silent"
    <3>1. Says(<<Frame("response", r, "noagent")>>)
      BY <1>2, <2>2
    <3> QED
      BY <3>1, ResponseFrame
  <2> QED
    BY <1>7, <2>1, <2>2
<1>9. ~IsEvent(f) /\ f.kind \notin {"start", "dialog", "message", "end", "late", "broken"}
  BY <1>8 DEF IsEvent, Events
<1>10. \A x \in Runs : /\ nat.nature[x] = "agent" => nat'.nature[x] = "agent"
                       /\ nat'.phase[x] = "started" => nat.phase[x] = "started"
  BY <1>3, <1>5, <1>6
<1>11. NativeElse
  BY DEF NativeReads
<1> QED
  BY <1>5, <1>7, <1>8, <1>9, <1>10, <1>11, SaysOneCalm

\* An abort is read.
LEMMA NativeReadsAbortCalm ==
  ASSUME IInv, CalmInv, NativeReadsAbort
  PROVE  CalmInv'
<1>1. PICK b \in BOOLEAN : b = Busy
  BY DEF Busy
<1>2. nat' = [nat EXCEPT !.aborts = b, !.owes = TRUE] /\ nat \in NativeType
  BY <1>1 DEF NativeReadsAbort, IInv, TypeInv
<1>3. /\ nat'.alive = nat.alive /\ nat'.dialog = nat.dialog /\ nat'.nature = nat.nature
      /\ nat'.phase = nat.phase /\ nat'.faulty = nat.faulty /\ nat'.exited = nat.exited
  BY <1>2 DEF NativeType
<1>4. NativeElse /\ out' = out /\ turn' = turn
  BY DEF NativeReadsAbort, NativeElse
<1>5. Calm' => Calm
  BY <1>3, <1>4, CalmBefore
<1>6. CASE Calm
  BY <1>3, <1>4, <1>6, SilenceCalm
<1> QED
  BY <1>5, <1>6 DEF CalmInv

\* An abort is answered.
LEMMA NativeAbortedCalm ==
  ASSUME IInv, CalmInv, NativeAborted
  PROVE  CalmInv'
<1>1. PICK f \in FrameType : f = Frame("abort", 0, "none") /\ f.kind = "abort"
  <2>1. Frame("abort", 0, "none") \in FrameType /\ Frame("abort", 0, "none").kind = "abort"
    BY TurnAssumption DEF Frame, FrameType, Kinds, Whats
  <2> QED
    BY <2>1
<1>2. nat' = [nat EXCEPT !.owes = FALSE] /\ nat \in NativeType /\ Says(<<f>>) /\ NativeElse /\ turn' = turn
  BY <1>1 DEF NativeAborted, IInv, TypeInv, NativeElse
<1>3. /\ nat'.alive = nat.alive /\ nat'.dialog = nat.dialog /\ nat'.nature = nat.nature
      /\ nat'.phase = nat.phase /\ nat'.faulty = nat.faulty /\ nat'.exited = nat.exited
  BY <1>2 DEF NativeType
<1>4. Calm' => Calm
  BY <1>2, <1>3, CalmBefore
<1>5. CASE Calm
  BY <1>1, <1>2, <1>3, <1>5, SaysOneCalm DEF IsEvent, Events
<1> QED
  BY <1>4, <1>5 DEF CalmInv

\* A prompt that needs no agent has its result, another one its preflight.
LEMMA NativeAdmitsCalm ==
  ASSUME IInv, CalmInv, NEW r \in Runs, NativeAdmits(r)
  PROVE  CalmInv'
<1>1. PICK p \in {"over", "preflight"} : nat' = [nat EXCEPT !.phase[r] = p]
  BY DEF NativeAdmits, Becomes
<1>2. nat \in NativeType /\ NativeElse /\ turn' = turn /\ nat.phase[r] = "acked"
  BY DEF NativeAdmits, IInv, TypeInv, NativeElse
<1>3. /\ nat'.alive = nat.alive /\ nat'.dialog = nat.dialog /\ nat'.nature = nat.nature
      /\ nat'.faulty = nat.faulty /\ nat'.exited = nat.exited
      /\ \A x \in Runs : nat'.phase[x] = "started" => nat.phase[x] = "started"
  BY <1>1, <1>2 DEF NativeType
<1>4. Calm' => Calm
  BY <1>2, <1>3, CalmBefore
<1>5. CASE Calm /\ nat.nature[r] = "none"
  <2>1. PICK f \in FrameType : f = Frame("result", r, "none") /\ f.kind = "result" /\ f.run = r
    BY FrameIs DEF Kinds, Whats
  <2>2. Says(<<f>>)
    BY <1>5, <2>1 DEF NativeAdmits
  <2> QED
    BY <1>2, <1>3, <1>5, <2>1, <2>2, SaysOneCalm DEF Works
<1>6. CASE Calm /\ nat.nature[r] # "none"
  <2>1. out' = out
    BY <1>6 DEF NativeAdmits
  <2> QED
    BY <1>2, <1>3, <1>6, <2>1, SilenceCalm
<1> QED
  BY <1>4, <1>5, <1>6 DEF CalmInv

\* The agent starts.
LEMMA NativeStartsCalm ==
  ASSUME IInv, CalmInv, NEW r \in Runs, NativeStarts(r)
  PROVE  CalmInv'
<1>1. PICK f \in FrameType : f = Frame("start", r, "none") /\ f.kind = "start" /\ f.run = r
  BY FrameIs DEF Kinds, Whats
<1>2. /\ nat' = [nat EXCEPT !.phase[r] = "started"] /\ nat \in NativeType /\ Says(<<f>>)
      /\ NativeElse /\ turn' = turn /\ nat.phase[r] = "preflight"
  BY <1>1 DEF NativeStarts, Becomes, IInv, TypeInv, NativeElse
<1>3. /\ nat'.alive = nat.alive /\ nat'.dialog = nat.dialog /\ nat'.nature = nat.nature
      /\ nat'.faulty = nat.faulty /\ nat'.exited = nat.exited
  BY <1>2 DEF NativeType
<1>4. Calm' => Calm
  BY <1>2, <1>3, CalmBefore
<1>5. nat.nature[r] = "agent" /\ Works(nat, r)
  BY <1>2, PhaseIs DEF NatureInv, Works
<1>6. CASE Calm
  BY <1>1, <1>2, <1>3, <1>5, <1>6, SaysOneCalm
<1> QED
  BY <1>4, <1>6 DEF CalmInv

\* The agent asks something.
LEMMA NativeAsksCalm ==
  ASSUME IInv, CalmInv, NEW r \in Runs, NativeAsks(r)
  PROVE  CalmInv'
<1>1. PICK f \in FrameType : f = Frame("dialog", r, "none") /\ f.kind = "dialog" /\ f.run = r
  BY FrameIs DEF Kinds, Whats
<1>2. /\ nat' = [nat EXCEPT !.dialog = TRUE] /\ nat \in NativeType /\ Says(<<f>>)
      /\ NativeElse /\ turn' = turn /\ nat.phase[r] = "started" /\ ~nat.dialog
  BY <1>1 DEF NativeAsks, IInv, TypeInv, NativeElse
<1>3. /\ nat'.alive = nat.alive /\ nat'.dialog /\ nat'.nature = nat.nature /\ nat'.phase = nat.phase
      /\ nat'.faulty = nat.faulty /\ nat'.exited = nat.exited
  BY <1>2 DEF NativeType
<1>4. Calm' => Calm
  BY <1>2, <1>3, CalmBefore
<1>5. nat.nature[r] = "agent" /\ Works(nat, r)
  BY <1>2, PhaseIs DEF NatureInv, Works
<1>6. CASE Calm
  BY <1>1, <1>2, <1>3, <1>5, <1>6, SaysOneCalm
<1> QED
  BY <1>4, <1>6 DEF CalmInv

\* The agent pauses.
LEMMA NativePausesCalm ==
  ASSUME IInv, CalmInv, NEW r \in Runs, NativePauses(r)
  PROVE  CalmInv'
<1>1. PICK f \in FrameType : f = Frame("message", r, "none") /\ f.kind = "message" /\ f.run = r
  BY EndFrames
<1>2. PICK g \in FrameType : g = Frame("end", r, "continues") /\ g.kind = "end" /\ g.run = r
  BY EndFrames
<1>3. /\ nat' = [nat EXCEPT !.paused = TRUE, !.phase[r] = "preflight"] /\ nat \in NativeType
      /\ Says(<<f, g>>) /\ NativeElse /\ turn' = turn /\ nat.phase[r] = "started"
  BY <1>1, <1>2 DEF NativePauses, IInv, TypeInv, NativeElse
<1>4. /\ nat'.alive = nat.alive /\ nat'.dialog = nat.dialog /\ nat'.nature = nat.nature
      /\ nat'.faulty = nat.faulty /\ nat'.exited = nat.exited
      /\ \A x \in Runs : nat'.phase[x] = "started" => nat.phase[x] = "started"
  BY <1>3 DEF NativeType
<1>5. Calm' => Calm
  BY <1>3, <1>4, CalmBefore
<1>6. CASE Calm
  BY <1>1, <1>2, <1>3, <1>4, <1>6, SaysTwoCalm
<1> QED
  BY <1>5, <1>6 DEF CalmInv

\* The agent ends for good.
LEMMA NativeEndsCalm ==
  ASSUME IInv, CalmInv, NEW r \in Runs, NativeEnds(r)
  PROVE  CalmInv'
<1>1. PICK f \in FrameType : f = Frame("message", r, "none") /\ f.kind = "message" /\ f.run = r
  BY EndFrames
<1>2. PICK w \in {"answer", "aborted"} : w = IF nat.aborts THEN "aborted" ELSE "answer"
  OBVIOUS
<1>3. PICK g \in FrameType : g = Frame("end", r, w) /\ g.kind = "end" /\ g.run = r
  BY EndFrames
<1>4. /\ nat' = [nat EXCEPT !.phase[r] = "over", !.aborts = FALSE] /\ nat \in NativeType
      /\ Says(<<f, g>>) /\ NativeElse /\ turn' = turn /\ nat.phase[r] = "started"
  BY <1>1, <1>2, <1>3 DEF NativeEnds, IInv, TypeInv, NativeElse
<1>5. /\ nat'.alive = nat.alive /\ nat'.dialog = nat.dialog /\ nat'.nature = nat.nature
      /\ nat'.faulty = nat.faulty /\ nat'.exited = nat.exited
      /\ \A x \in Runs : nat'.phase[x] = "started" => nat.phase[x] = "started"
  BY <1>4 DEF NativeType
<1>6. Calm' => Calm
  BY <1>4, <1>5, CalmBefore
<1>7. CASE Calm
  BY <1>1, <1>3, <1>4, <1>5, <1>7, SaysTwoCalm
<1> QED
  BY <1>6, <1>7 DEF CalmInv

\* A fault of native.
LEMMA FaultCalm ==
  ASSUME IInv, \/ \E r \in Runs : NativeLate(r) \/ NativeStrays(r) \/ NativeBreaks(r)
               \/ NativeExits
  PROVE  CalmInv'
<1>1. nat \in NativeType
  BY DEF IInv, TypeInv
<1>2. nat'.faulty \/ nat'.exited
  BY <1>1 DEF NativeLate, NativeStrays, NativeBreaks, NativeExits, NativeType
<1> QED
  BY <1>2 DEF CalmInv, Calm

-----------------------------------------------------------------------------
\* Nothing has happened.
LEMMA CalmInitial == Init => CalmInv
<1> SUFFICES ASSUME Init PROVE CalmInv
  OBVIOUS
<1>1. \A r \in Runs : CalmTurn(turn[r], r, nat)
  BY DEF Init, NewTurn, CalmTurn, Ready
<1>2. CalmFrames(turn, nat, out)
  BY EmptyAt DEF Init, CalmFrames
<1>3. CalmWork(turn, nat, out)
  BY DEF Init, CalmWork, NewNative
<1> QED
  BY <1>1, <1>2, <1>3 DEF Init, CalmInv, NewNative

\* Every step preserves the calm.
LEMMA CalmInductive == IInv /\ CalmInv /\ [Next]_vars => CalmInv'
<1> SUFFICES ASSUME IInv, CalmInv, [Next]_vars
             PROVE  CalmInv'
  OBVIOUS
<1>1. ASSUME NEW r \in Runs, RunStep(r)
      PROVE  CalmInv'
  BY <1>1, BeginCalm, HandoffInterruptedCalm, SubmitCalm, ResponseCalm, ResponseGivenUpCalm,
     AdmitLeavesCalm, AdmitPreflightCalm, AdmitFailsCalm, WaitBeginsCalm, AbortReturnsCalm,
     CompleteCalm, FinishCalm, JoinCalm, SnapshotCalm, RunReturnsCalm DEF RunStep
<1>2. ASSUME NEW r \in Runs, IntAct(r) \/ UiSettles(r) \/ IntAsk(r) \/ CtxEnds(r)
      PROVE  CalmInv'
  BY <1>2, IntActCalm, UiSettlesCalm, IntAskCalm, CtxEndsCalm
<1>3. ASSUME NEW r \in Runs, NativeStep(r)
      PROVE  CalmInv'
  BY <1>3, NativeReadsCalm, NativeAdmitsCalm, NativeStartsCalm, NativeEndsCalm DEF NativeStep
<1>4. ASSUME LaneStep
      PROVE  CalmInv'
  BY <1>4, OwnerStopsCalm, OwnerEndsCalm, OutputEndsCalm, PreflightCalm, ReadCalm DEF LaneStep
<1>5. CASE Progress
  BY <1>1, <1>2, <1>3, <1>4, <1>5, NativeReadsAbortCalm, NativeAbortedCalm DEF Progress
<1>6. CASE Incident
  BY <1>2, <1>6, FaultCalm, NativeAsksCalm, NativePausesCalm DEF Incident
<1>7. CASE UNCHANGED vars
  BY <1>7, CalmSame DEF vars
<1> QED
  BY <1>5, <1>6, <1>7 DEF Next

\* A lane is lost only by a fault, the end of a context, or a prompt that is refused or
\* answered twice: never by the order in which native's frames and reports come.
THEOREM OnlyFaultsRetireAlways == Spec => []OnlyFaultsRetire
<1>1. CalmInv => OnlyFaultsRetire
  BY DEF CalmInv, Calm, OnlyFaultsRetire
<1>2. Spec => []CalmInv
  BY Invariant, CalmInitial, CalmInductive, PTL DEF Spec
<1> QED
  BY <1>1, <1>2, PTL
=============================================================================
