-------------------------------- MODULE OmpRpc --------------------------------
(***************************************************************************)
(* The client of OMP's stdin/stdout protocol (nativeRPC): commands and     *)
(* prompts correlated with native's responses, one-way UI cancellations,   *)
(* the end of the input, and the retirement of the transport.              *)
(*                                                                         *)
(* A prompt's success only acknowledges it: its entry stays until Finish,  *)
(* because native may still answer it with an error.  Native is correct:   *)
(* it answers what it has read, a prompt perhaps twice.                    *)
(* Every frame, and every part of a chunked one, counts as one byte.       *)
(***************************************************************************)
EXTENDS Integers, FiniteSets, SequencesExt

CONSTANTS
  Commands, Prompts, Uis,   \* the calls the product makes, the dialogs it cancels
  MaxPendingCalls, MaxPendingWrites, MaxRetained,   \* nativeRPCLimits
  Outcomes,   \* how native answers at first: "ok", "error" or "bad", a success
              \* whose data the caller refuses
  Faults      \* which of "exit" (native exits by itself), "late" (late errors),
              \* "chunks", "events" may happen

ASSUME RpcAssumption ==
  /\ {MaxPendingCalls, MaxPendingWrites, MaxRetained} \subseteq Nat \ {0}
  /\ Commands \cap Prompts = {} /\ Uis \cap (Commands \cup Prompts) = {}
  /\ {"negotiate", "end", "none"} \cap (Commands \cup Prompts \cup Uis) = {}
  /\ Outcomes \subseteq {"ok", "error", "bad"} /\ Outcomes # {}
  /\ Faults \subseteq {"exit", "late", "chunks", "events"}

Hello  == "negotiate"                    \* Ready's call
End    == "end"                          \* the zero-byte EOF marker
Calls  == {Hello} \cup Commands \cup Prompts
Writes == Calls \cup Uis \cup {End}

VARIABLES
  rpc,      \* the client, see NewClient
  pc,       \* [Writes -> idle, admission, leaving, response, held, what the caller heard]
  pipe,     \* native's stdin: writes native has not read
  work,     \* [Calls -> none, running, ok, error, bad], native's side of a call
  failed,   \* prompts native has answered a second time
  out,      \* native's stdout: frames the reader has not read
  alive     \* the native process runs

nativeVars == <<work, failed, out, alive>>
vars == <<rpc, pc, pipe, nativeVars>>

Frame(kind, c, r) == [kind |-> kind, call |-> c, result |-> r]
Part == Frame("part", "none", "none")   \* all but the last chunk of the next frame

NewClient == [
  why       |-> "up",     \* or why it stopped
  phase     |-> "start",  \* start, ready, negotiated
  entry     |-> [c \in Calls |-> "none"],   \* pending: none, waiting, abandoned
  responded |-> {},       \* prompts whose first response has been accepted
  slot      |-> [c \in Calls |-> "none"],   \* pending.result
  late      |-> [c \in Calls |-> "none"],   \* pending.late
  chunk     |-> 0,        \* bytes of an unfinished chunked frame
  retained  |-> 0,        \* retainedBytes
  queue     |-> <<>>,     \* writes
  inHand    |-> "none",   \* the write the writer performs
  written   |-> [w \in Writes |-> "none"],   \* none, ok, failed
  input     |-> "open",   \* open, ending, ended
  writer    |-> "runs",   \* runs, failed, returned
  reading   |-> TRUE ]    \* the reader has not returned

Init ==
  /\ rpc = NewClient
  /\ pc = [w \in Writes |-> "idle"]
  /\ pipe = <<>> /\ work = [c \in Calls |-> "none"] /\ failed = {}
  /\ out = <<>> /\ alive = TRUE

-----------------------------------------------------------------------------
\* Operators on a client r.

Up == rpc.why = "up"
Returned == ~rpc.reading /\ rpc.writer = "returned"   \* join: Done is closed
Costs(x) == IF x \in {"ok", "error", "bad"} THEN 1 ELSE 0
Pending(r) == {c \in Calls : r.entry[c] # "none"}
PendingWrites(r) == Len(r.queue) - (IF Contains(r.queue, End) THEN 1 ELSE 0)
                    + (IF r.inHand = "none" THEN 0 ELSE 1)
Admits(r) == r.why = "up" /\ r.input = "open"
\* Mutation: one byte too many is retained.
HasRoomForOneMore(r) == r.retained + PendingWrites(r) <= MaxRetained

\* retainedBytes + pendingBytes leave room for one more.
HasRoom(r) == r.retained + PendingWrites(r) < MaxRetained
CanWrite(r) == PendingWrites(r) < MaxPendingWrites /\ HasRoom(r)
Queued(r, w) == [r EXCEPT !.queue = Append(@, w)]

Lost(r, c, old) == IF r.entry[c] = "waiting" THEN "lost" ELSE old

\* Mutation: the bytes of an unfinished frame are not returned.
StopKeepsChunk(r, why) ==
  IF r.why # "up" THEN r
  ELSE [r EXCEPT !.why = why, !.chunk = 0,
                 !.entry = [c \in Calls |-> "none"],
                 !.slot = [c \in Calls |-> IF c \in r.responded THEN @[c] ELSE Lost(r, c, @[c])],
                 !.late = [c \in Calls |-> IF c \in r.responded THEN Lost(r, c, @[c]) ELSE @[c]]]

\* stop: every call that is not abandoned hears that the connection is gone, a
\* prompt in progress as its late answer.
Stop(r, why) ==
  IF r.why # "up" THEN r
  ELSE [r EXCEPT !.why = why, !.retained = @ - r.chunk, !.chunk = 0,
                 !.entry = [c \in Calls |-> "none"],
                 !.slot = [c \in Calls |-> IF c \in r.responded THEN @[c] ELSE Lost(r, c, @[c])],
                 !.late = [c \in Calls |-> IF c \in r.responded THEN Lost(r, c, @[c]) ELSE @[c]]]

\* The reader refuses a frame, stops the client and returns.
Fail(r, why) == [Stop(r, why) EXCEPT !.reading = FALSE]

Hears(w, x) == pc' = [pc EXCEPT ![w] = x]

-----------------------------------------------------------------------------
\* The callers (callWithAdmission, StartPrompt, CancelUI, EndInput).  A call that is
\* refused, because its context ended or the client is not ready for it, stopped,
\* ending or busy, leaves no trace: it stays idle and may be made again.

\* admitCallMode: the entry and the write are made in one step.
Call(c) ==
  /\ pc[c] = "idle" /\ Admits(rpc) /\ CanWrite(rpc)
  /\ rpc.phase = IF c = Hello THEN "ready" ELSE "negotiated"
  /\ Cardinality(Pending(rpc)) < MaxPendingCalls
  /\ rpc' = [Queued(rpc, c) EXCEPT !.entry[c] = "waiting"]
  /\ Hears(c, "admission")
  /\ UNCHANGED <<pipe, nativeVars>>

\* A dialog is one native asked for in a prompt's turn.
CancelUI(u) ==
  /\ \E p \in Prompts : work[p] # "none"
  /\ pc[u] = "idle" /\ Admits(rpc) /\ CanWrite(rpc)
  /\ rpc' = Queued(rpc, u)
  /\ Hears(u, "admission")
  /\ UNCHANGED <<pipe, nativeVars>>

EndInput ==
  /\ pc[End] = "idle" /\ Admits(rpc)
  /\ Pending(rpc) = {} /\ rpc.retained = 0
  /\ rpc' = [Queued(rpc, End) EXCEPT !.input = "ending"]
  /\ Hears(End, "admission")
  /\ UNCHANGED <<pipe, nativeVars>>

\* consumeResult, and for a prompt completePromptStart: a first response that is
\* acceptable hands the entry to the caller, any other gives it up with all it holds.
Taken(r, c) ==
  LET x == r.slot[c]
      s == [r EXCEPT !.slot[c] = "none", !.retained = @ - Costs(x)]
  IN IF c \in Prompts /\ x # "ok"
     THEN [s EXCEPT !.entry[c] = "none", !.late[c] = "none", !.retained = @ - Costs(s.late[c])]
     ELSE s

Waits(c) == pc[c] \in {"admission", "leaving", "response"}

\* A response that is there is taken, whatever the write or the context does; a caller
\* that is leaving takes it only when its entry is gone (abandonPending).
TakeResponse(c) ==
  /\ Waits(c) /\ rpc.slot[c] # "none"
  /\ pc[c] = "leaving" => rpc.entry[c] # "waiting"
  /\ rpc' = Taken(rpc, c)
  /\ Hears(c, IF c \in Prompts /\ rpc.slot[c] = "ok" THEN "held" ELSE rpc.slot[c])
  /\ UNCHANGED <<pipe, nativeVars>>

WriteReturned(c) ==
  /\ pc[c] = "admission" /\ rpc.written[c] = "ok"
  /\ Hears(c, "response")
  /\ UNCHANGED <<rpc, pipe, nativeVars>>

\* The context has ended and waitNativeRPCAdmission, looking once more, finds neither
\* a response nor a settled write.
Leaves(c) ==
  /\ pc[c] = "admission" /\ rpc.slot[c] = "none" /\ rpc.written[c] = "none"
  /\ Hears(c, "leaving")
  /\ UNCHANGED <<rpc, pipe, nativeVars>>

Abandoned(r, c) == [r EXCEPT !.entry[c] = "abandoned"]

WriteLost(c) == pc[c] = "admission" /\ rpc.written[c] = "failed"

\* Mutation: the entry of an abandoned call is forgotten at once.
GiveUpForgets(c) ==
  /\ rpc.entry[c] = "waiting"
  /\ \/ /\ pc[c] = "response" \/ WriteLost(c)
        /\ rpc' = [rpc EXCEPT !.entry[c] = "none"]
     \/ /\ pc[c] = "leaving" \/ WriteLost(c)
        /\ rpc' = Stop([rpc EXCEPT !.entry[c] = "none"], "context")
  /\ Hears(c, "gaveup")
  /\ UNCHANGED <<pipe, nativeVars>>

\* abandonPending: the write failed or the context ended while the call is
\* pending, so its entry stays for the late response.  A context that has ended before
\* the caller knows that its write is complete stops the client.
GiveUp(c) ==
  /\ rpc.entry[c] = "waiting"
  /\ \/ /\ pc[c] = "response" \/ WriteLost(c)
        /\ rpc' = Abandoned(rpc, c)
     \/ /\ pc[c] = "leaving" \/ WriteLost(c)
        /\ rpc' = Stop(Abandoned(rpc, c), "context")
  /\ Hears(c, "gaveup")
  /\ UNCHANGED <<pipe, nativeVars>>

\* nativePrompt.Finish
Finish(p) ==
  /\ pc[p] = "held"
  /\ \/ /\ rpc.entry[p] = "waiting"
        /\ rpc' = [rpc EXCEPT !.entry[p] = "none"] /\ Hears(p, "finished")
     \/ /\ rpc.entry[p] # "waiting" /\ rpc.late[p] # "none"
        /\ rpc' = [rpc EXCEPT !.late[p] = "none", !.retained = @ - Costs(rpc.late[p])]
        /\ Hears(p, "failed")
     \/ /\ rpc.entry[p] # "waiting" /\ rpc.late[p] = "none"
        /\ Hears(p, "unavailable") /\ UNCHANGED rpc
  /\ UNCHANGED <<pipe, nativeVars>>

\* waitNativeRPCWrite, for a cancelled dialog and for the end of the input.
WriteSettled(w) ==
  /\ w \notin Calls /\ pc[w] = "admission"
  /\ \/ /\ rpc.written[w] # "none"
        /\ Hears(w, IF rpc.written[w] = "ok" THEN "ok" ELSE "lost") /\ UNCHANGED rpc
     \/ /\ rpc.written[w] # "ok"
        /\ Hears(w, "gaveup") /\ rpc' = Stop(rpc, "context")
  /\ UNCHANGED <<pipe, nativeVars>>

-----------------------------------------------------------------------------
\* The writer (writeLoop).

\* What the writer has in hand is there for native to read before the write returns.
\* A stopped client's writer may still take a write before it drains them.
TakeWrite ==
  /\ rpc.writer = "runs" /\ rpc.inHand = "none"
  /\ rpc.queue # <<>> /\ Head(rpc.queue) # End
  /\ rpc' = [rpc EXCEPT !.inHand = Head(rpc.queue), !.queue = Tail(@)]
  /\ pipe' = IF alive THEN Append(pipe, Head(rpc.queue)) ELSE pipe
  /\ UNCHANGED <<pc, nativeVars>>

Written(how) == [rpc EXCEPT !.inHand = "none", !.written[rpc.inHand] = how]

WriteReturns ==
  /\ rpc.inHand # "none"
  /\ rpc' = Written("ok")
  /\ UNCHANGED <<pc, pipe, nativeVars>>

\* Native is gone, or stop closed the input under the write, which native may have read.
WriteFails ==
  /\ rpc.inHand # "none" /\ (~alive \/ ~Up)
  /\ rpc' = [Written("failed") EXCEPT !.writer = "failed"]
  /\ pipe' \in {pipe, IF pipe # <<>> /\ Last(pipe) = rpc.inHand THEN Front(pipe) ELSE pipe}
  /\ UNCHANGED <<pc, nativeVars>>

\* The close of native's stdin may fail, above all when stop closed it before.
CloseInput ==
  /\ rpc.writer = "runs" /\ rpc.inHand = "none"
  /\ rpc.queue # <<>> /\ Head(rpc.queue) = End
  /\ LET r == [rpc EXCEPT !.queue = <<>>, !.writer = "returned"] IN
     rpc' \in {[r EXCEPT !.written[End] = "ok", !.input = "ended"],
              Stop([r EXCEPT !.written[End] = "failed"], "input")}
  /\ UNCHANGED <<pc, pipe, nativeVars>>

\* Mutation: the marker is not completed.
DrainForgetsEnd ==
  /\ rpc.writer = "failed" \/ (rpc.writer = "runs" /\ ~Up /\ rpc.inHand = "none")
  /\ LET r == IF rpc.writer = "failed" THEN Stop(rpc, "input") ELSE rpc IN
     rpc' = [r EXCEPT !.queue = <<>>, !.writer = "returned",
                      !.written = [w \in Writes |-> IF w # End /\ Contains(r.queue, w)
                                                    THEN "failed" ELSE @[w]]]
  /\ UNCHANGED <<pc, pipe, nativeVars>>

\* drainWrites: after a failed write, which stops the client, or after stop.
Drain ==
  /\ rpc.writer = "failed" \/ (rpc.writer = "runs" /\ ~Up /\ rpc.inHand = "none")
  /\ LET r == IF rpc.writer = "failed" THEN Stop(rpc, "input") ELSE rpc IN
     rpc' = [r EXCEPT !.queue = <<>>, !.writer = "returned",
                      !.written = [w \in Writes |-> IF Contains(r.queue, w)
                                                    THEN "failed" ELSE @[w]]]
  /\ UNCHANGED <<pc, pipe, nativeVars>>

-----------------------------------------------------------------------------
\* The reader (readLoop).

\* acceptResponse.  A first response that stays leaves its entry for a second one,
\* which may only be an error.
Answer(r, c, x, stays) ==
  LET gone   == [r EXCEPT !.entry[c] = "none"]
      second == c \in r.responded
  IN
  CASE r.entry[c] = "none" -> Fail(r, "protocol")
    [] r.entry[c] = "abandoned" -> gone
    [] r.entry[c] = "waiting" /\ ~HasRoom(r) ->
         Fail(IF second THEN [gone EXCEPT !.late[c] = "busy"]
                        ELSE [gone EXCEPT !.slot[c] = "busy"], "busy")
    [] r.entry[c] = "waiting" /\ HasRoom(r) /\ ~second ->
         [IF stays THEN r ELSE gone EXCEPT
            !.responded = @ \cup ({c} \cap Prompts), !.slot[c] = x, !.retained = @ + 1,
            !.phase = IF c = Hello /\ x = "ok" THEN "negotiated" ELSE @]
    [] r.entry[c] = "waiting" /\ HasRoom(r) /\ second ->
         IF x # "error" THEN Fail(r, "protocol")
         ELSE [gone EXCEPT !.late[c] = x, !.retained = @ + 1]

\* Mutation: a response is given to whichever call is pending.
AcceptResponseUncorrelated(r, c, x) ==
  LET d == CHOOSE d \in Calls : d \in Pending(r) \/ Pending(r) = {} IN
  Answer(r, d, x, d \in Prompts /\ x # "error")

AcceptResponse(r, c, x) == Answer(r, c, x, c \in Prompts /\ x # "error")

\* acceptLogicalFrame: observe may refuse an event.
Logical(r, f) ==
  CASE f.kind = "ready" -> {IF r.phase = "start" /\ r.why = "up"
                            THEN [r EXCEPT !.phase = "ready"] ELSE Fail(r, "protocol")}
    [] f.kind # "ready" /\ r.phase = "start" -> {Fail(r, "protocol")}
    [] f.kind = "event" /\ r.phase # "start" -> {r, Fail(r, "observer")}
    [] f.kind = "response" /\ r.phase # "start" -> {AcceptResponse(r, f.call, f.result)}

\* acceptPhysicalFrame, acceptChunk: a frame that follows a part is its last chunk.
Accepted(r, f) ==
  CASE f = Part -> {IF r.phase # "negotiated" \/ r.chunk # 0 THEN Fail(r, "protocol")
                    ELSE IF ~HasRoom(r) THEN Fail(r, "busy")
                    ELSE [r EXCEPT !.chunk = 1, !.retained = @ + 1]}
    [] f # Part /\ r.chunk = 0 -> Logical(r, f)
    [] f # Part /\ r.chunk = 1 ->
         IF ~HasRoom(r) THEN {Fail(r, "busy")}
         ELSE Logical([r EXCEPT !.chunk = 0, !.retained = @ - 1], f)

\* A stopped client's reader may still take the frames it has buffered.
Read ==
  /\ rpc.reading /\ out # <<>>
  /\ rpc' \in Accepted(rpc, Head(out))
  /\ out' = IF rpc'.reading THEN Tail(out) ELSE <<>>
  /\ UNCHANGED <<pc, pipe, work, failed, alive>>

\* awaitOutputEOF: the end of the output is expected once the input has ended.
OutputEnds ==
  /\ rpc.reading /\ Up /\ ~alive /\ out = <<>> /\ rpc.input # "ending"
  /\ rpc' = Fail(rpc, CASE rpc.input = "open" -> "output"
                        [] rpc.input = "ended" /\ Pending(rpc) = {} /\ rpc.retained = 0
                           /\ PendingWrites(rpc) = 0 -> "closed"
                        [] OTHER -> "protocol")
  /\ UNCHANGED <<pc, pipe, nativeVars>>

ReaderReturns ==
  /\ rpc.reading /\ ~Up
  /\ rpc' = [rpc EXCEPT !.reading = FALSE] /\ out' = <<>>
  /\ UNCHANGED <<pc, pipe, work, failed, alive>>

\* NativeOwner closes the client only when it has killed native or joined it.
Close ==
  /\ ~alive /\ Up
  /\ rpc' = Stop(rpc, "closed")
  /\ UNCHANGED <<pc, pipe, nativeVars>>

-----------------------------------------------------------------------------
\* Native.

\* stop closes native's stdout.
Emit(f) == out' = IF Up /\ rpc.reading THEN out \o f ELSE out
\* Native may split a frame once the protocol is negotiated; here a prompt's answers.
Says(f) == \/ Emit(<<f>>)
           \/ /\ "chunks" \in Faults /\ work[Hello] = "ok" /\ f.call \in Prompts
              /\ Emit(<<Part, f>>)

NativeReady ==
  /\ alive /\ work[Hello] = "none" /\ rpc.phase = "start" /\ out = <<>>
  /\ Says(Frame("ready", "none", "none"))
  /\ UNCHANGED <<rpc, pc, pipe, work, failed, alive>>

NativeReads ==
  /\ alive /\ pipe # <<>> /\ pipe' = Tail(pipe)
  /\ work' = [c \in Calls |-> IF c = Head(pipe) THEN "running" ELSE work[c]]
  /\ UNCHANGED <<rpc, pc, failed, out, alive>>

NativeAnswers(c) ==
  /\ alive /\ work[c] = "running"
  /\ \E x \in IF c \in Prompts THEN Outcomes ELSE Outcomes \ {"bad"} :
       /\ work' = [work EXCEPT ![c] = x]
       /\ Says(Frame("response", c, x))
  /\ UNCHANGED <<rpc, pc, pipe, failed, alive>>

\* The prompt fails after it was acknowledged.
NativeFails(p) ==
  /\ "late" \in Faults /\ alive /\ work[p] \in {"ok", "bad"} /\ p \notin failed
  /\ failed' = failed \cup {p}
  /\ Says(Frame("response", p, "error"))
  /\ UNCHANGED <<rpc, pc, pipe, work, alive>>

\* An event of an acknowledged prompt's turn, when nothing before it is unread (a bound:
\* the client hands an event to its observer and keeps nothing).
NativeEvent ==
  /\ "events" \in Faults /\ alive /\ rpc.phase # "start"
  /\ out = <<>> /\ \E p \in Prompts : work[p] \in {"ok", "bad"}
  /\ Emit(<<Frame("event", "none", "none")>>)
  /\ UNCHANGED <<rpc, pc, pipe, work, failed, alive>>

NativeExits ==
  /\ alive
  /\ "exit" \in Faults \/ ~Up \/ (rpc.input = "ended" /\ pipe = <<>>)
  /\ alive' = FALSE /\ pipe' = <<>>
  /\ UNCHANGED <<rpc, pc, work, failed, out>>

-----------------------------------------------------------------------------
Caller(w) == \/ WriteSettled(w)
             \/ w \in Calls /\ (Call(w) \/ TakeResponse(w) \/ WriteReturned(w) \/ Leaves(w) \/ GiveUp(w))
             \/ w \in Prompts /\ Finish(w)
             \/ w \in Uis /\ CancelUI(w)
Writer == TakeWrite \/ WriteReturns \/ WriteFails \/ CloseInput \/ Drain
Reader == Read \/ OutputEnds \/ ReaderReturns
Native == \/ NativeReady \/ NativeReads \/ NativeEvent \/ NativeExits
          \/ \E c \in Calls : NativeAnswers(c)
          \/ \E p \in Prompts : NativeFails(p)

Next == (\E w \in Writes : Caller(w)) \/ EndInput \/ Close \/ Writer \/ Reader \/ Native

Spec == Init /\ [][Next]_vars

\* The client's goroutines and its callers run: while one of these steps can be taken,
\* one is.  Native, Close and a context that ends are not promised, but a caller whose
\* context has ended goes on.
ClientSteps ==
  \/ Writer \/ Reader
  \/ \E c \in Calls : \/ TakeResponse(c) \/ WriteReturned(c)
                      \/ (pc[c] = "leaving" \/ WriteLost(c)) /\ GiveUp(c)
  \/ \E w \in Uis \cup {End} : rpc.written[w] # "none" /\ WriteSettled(w)

FairSpec == Spec /\ WF_vars(ClientSteps)

-----------------------------------------------------------------------------
\* Properties.

Whys == {"up", "closed", "context", "input", "output", "protocol", "busy", "observer"}
Results == {"ok", "error", "bad", "busy", "lost"}
PCs == Results \cup {"idle", "admission", "leaving", "response", "held", "gaveup",
                      "finished", "failed", "unavailable"}

\* Every variable stays in its range, and every limit is kept.
TypeOK ==
  /\ rpc.why \in Whys /\ rpc.phase \in {"start", "ready", "negotiated"}
  /\ rpc.entry \in [Calls -> {"none", "waiting", "abandoned"}]
  /\ rpc.responded \subseteq Prompts
  /\ rpc.slot \in [Calls -> Results \cup {"none"}]
  /\ rpc.late \in [Calls -> {"none", "error", "busy", "lost"}]
  /\ rpc.queue \in Seq(Writes) /\ rpc.inHand \in Writes \cup {"none"}
  /\ rpc.written \in [Writes -> {"none", "ok", "failed"}]
  /\ rpc.input \in {"open", "ending", "ended"} /\ rpc.reading \in BOOLEAN
  /\ rpc.writer \in {"runs", "failed", "returned"} /\ rpc.chunk \in 0 .. 1
  /\ Cardinality(Pending(rpc)) <= MaxPendingCalls
  /\ PendingWrites(rpc) <= MaxPendingWrites
  /\ rpc.retained + PendingWrites(rpc) <= MaxRetained
  /\ pc \in [Writes -> PCs]
  /\ pipe \in Seq(Writes) /\ failed \subseteq Prompts /\ alive \in BOOLEAN
  /\ work \in [Calls -> {"none", "running"} \cup Outcomes]

\* retainedBytes is what is held: responses nobody has taken, late answers nobody
\* has finished, and the chunks of an unfinished frame.
RetainedExact ==
  rpc.retained = rpc.chunk + Cardinality({c \in Calls : Costs(rpc.slot[c]) = 1})
                           + Cardinality({c \in Calls : Costs(rpc.late[c]) = 1})

\* A correct native is taken for a protocol violation only if it fails a prompt its
\* caller has finished or given up; every other response finds its call, every chunk and
\* notice comes when it may, and an ended input leaves nothing unsettled (awaitOutputEOF).
OnlyLateErrorsSurprise ==
  rpc.why = "protocol" =>
    \E p \in failed : pc[p] \in {"gaveup", "bad", "finished", "failed"}

\* A call is performed at most once; its caller hears native's first answer to it,
\* or that the answer is lost, and a refused call is never performed.
Heard == [x \in PCs |->
  CASE x \in {"admission", "leaving", "response"} -> "waiting"
    [] x \in {"ok", "bad", "held", "finished", "failed", "unavailable"} -> "ok"
    [] x \in {"lost", "busy"} -> "closed"
    [] OTHER -> x]

Remote == INSTANCE RemoteCall WITH
  Ids    <- Calls,
  caller <- [c \in Calls |-> Heard[pc[c]]],
  work   <- [c \in Calls |-> IF work[c] = "bad" THEN "ok" ELSE work[c]]
ImplementsRemoteCall == Remote!Spec

\* A client that stops, or whose native process has gone, joins its reader and its
\* writer, and every call and cancellation returns.
StopSettles ==
  ~Up \/ ~alive ~> /\ Returned
                   /\ \A w \in Writes : pc[w] \notin {"admission", "leaving", "response"}

\* An accepted response is not lost to a cancellation that comes at the same time
\* (TestNativeRPCAcceptedResponseWinsSimultaneousCancellation): a caller whose command
\* native has read whole, of a client that runs on, leaves no response behind.
AcceptedResponseWins ==
  \A c \in Calls : pc[c] = "gaveup" /\ rpc.written[c] = "ok" /\ Up => rpc.slot[c] = "none"
=============================================================================
