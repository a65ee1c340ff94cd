----------------------------- MODULE OmpRpcProofs -----------------------------
(***************************************************************************)
(* Machine-checked proofs about OmpRpc: it implements RemoteCall, its      *)
(* types, limits and byte account are kept, and a correct native is taken  *)
(* for a violation of the protocol only because of a late error.           *)
(*                                                                         *)
(* The argument for the refinement (IInv): a call is written once          *)
(* (WriteInv), so native begins it once; what a call's entry and slot say  *)
(* of its answer is what native said (CallInv); and native's stdout brings *)
(* the first answer to a call before a second one (FrameInv), so that the  *)
(* answer its caller takes is the first.                                   *)
(*                                                                         *)
(* For the account (BoundInv): retainedBytes is the count of what is held, *)
(* and what a waiting call may still bring finds its slot empty.           *)
(*                                                                         *)
(* For the violations (SurpriseInv): while the client is up, native's      *)
(* stdout holds only what the client's phase admits (PhaseInv, PartInv),   *)
(* an answer's call still has its entry or is over (ClearInv), and an      *)
(* input that is ending leaves nothing pending or held (InputInv).         *)
(***************************************************************************)
EXTENDS OmpRpc, SequenceTheorems, FiniteSetTheorems, TLAPS

Said == {"ok", "error", "bad"}    \* native's answers
Lates == {"none", "error", "busy", "lost"}

ClientType == [
  why: Whys, phase: {"start", "ready", "negotiated"},
  entry: [Calls -> {"none", "waiting", "abandoned"}], responded: SUBSET Prompts,
  slot: [Calls -> Results \cup {"none"}], late: [Calls -> Lates],
  chunk: {0, 1}, retained: Int, queue: Seq(Writes), inHand: Writes \cup {"none"},
  written: [Writes -> {"none", "ok", "failed"}],
  input: {"open", "ending", "ended"}, writer: {"runs", "failed", "returned"},
  reading: BOOLEAN ]
FrameType ==
  {Part, Frame("ready", "none", "none"), Frame("event", "none", "none")}
    \cup {Frame("response", c, x) : c \in Calls, x \in Said}

TypeInv ==
  /\ rpc \in ClientType
  /\ pc \in [Writes -> PCs]
  /\ pipe \in Seq(Writes)
  /\ work \in [Calls -> Said \cup {"none", "running"}] /\ failed \subseteq Prompts
  /\ out \in Seq(FrameType) /\ alive \in BOOLEAN

\* A write is made once: what is queued is not with native yet, and what is with native
\* has not been begun; an idle call has no trace.
WriteInv ==
  /\ IsInjective(rpc.queue) /\ IsInjective(pipe)
  /\ \A w \in Writes :
       /\ pc[w] = "idle" => ~Contains(rpc.queue, w) /\ ~Contains(pipe, w)
       /\ Contains(rpc.queue, w) => ~Contains(pipe, w)
  /\ \A c \in Calls :
       /\ Contains(rpc.queue, c) \/ Contains(pipe, c) => work[c] = "none"
       /\ pc[c] = "idle" => /\ work[c] = "none" /\ rpc.entry[c] = "none"
                            /\ rpc.slot[c] = "none" /\ rpc.late[c] = "none"
                            /\ c \notin rpc.responded

\* A waiting call has heard nothing, or its first answer; an answer in a slot is native's.
CallInv ==
  \A c \in Calls :
    /\ rpc.entry[c] = "waiting" => /\ rpc.late[c] = "none"
                                   /\ c \notin rpc.responded => rpc.slot[c] = "none"
    /\ rpc.slot[c] \in Said => work[c] = rpc.slot[c]

\* The frames native has written: answers to calls it has performed, a first one and for a
\* prompt an error after it.  What a call is owed is on its way.
First(c) == Frame("response", c, work[c])
Owed(c) == c \notin rpc.responded /\ rpc.entry[c] = "waiting"
Follows(i) ==
  LET c == out[i].call IN
  /\ work[c] \in Said
  /\ \/ out[i] = First(c)
     \/ c \in failed /\ out[i].result = "error" /\ work[c] \in {"ok", "bad"}
  /\ Owed(c) /\ out[i] # First(c) => \E j \in 1..(i - 1) : out[j] = First(c)
FrameInv ==
  /\ \A i \in DOMAIN out : out[i].kind = "response" => Follows(i)
  /\ \A c \in Calls :
       Up /\ rpc.reading /\ Owed(c) /\ work[c] \in Said => \E i \in DOMAIN out : out[i] = First(c)

IInv == TypeInv /\ WriteInv /\ CallInv /\ FrameInv

-----------------------------------------------------------------------------
(* The operations on a client.                                             *)

\* The names are what they are.
LEMMA Names ==
  /\ Hello \in Calls /\ Commands \subseteq Calls /\ Prompts \subseteq Calls
  /\ Calls \subseteq Writes /\ Uis \subseteq Writes /\ End \in Writes /\ End \notin Calls
  /\ Uis \cap Calls = {} /\ End \notin Uis /\ Hello \notin Prompts /\ Hello \notin Uis
  /\ "none" \notin Writes
BY RpcAssumption DEF Calls, Writes, Hello, End

\* A client that answers no call and takes no write: calls are given up or hear that they
\* are lost, results are taken.
Stays(r, s) ==
  /\ s.queue \in {r.queue, <<>>} /\ s.responded = r.responded
  /\ s.why = "up" => r.why = "up"
  /\ s.reading => r.reading
  /\ \A c \in Calls :
       /\ s.entry[c] = "waiting" => r.entry[c] = "waiting"
       /\ s.entry[c] # "none" => r.entry[c] # "none"
       /\ \/ s.slot[c] \in {r.slot[c], "none"}
          \/ s.slot[c] \in {"busy", "lost"} /\ r.entry[c] = "waiting" /\ s.entry[c] # "waiting"
       /\ \/ s.late[c] \in {r.late[c], "none"}
          \/ s.late[c] \in {"busy", "lost"} /\ r.entry[c] = "waiting" /\ s.entry[c] # "waiting"

\* Staying twice is staying.
LEMMA StaysAgain ==
  ASSUME NEW r, NEW s, NEW t, Stays(r, s), Stays(s, t)
  PROVE  Stays(r, t)
BY DEF Stays

\* What stop does, and what it leaves.
LEMMA StopIs ==
  ASSUME NEW r \in ClientType, NEW why \in Whys \ {"up"}
  PROVE  /\ Stop(r, why) \in ClientType
         /\ r.why # "up" => Stop(r, why) = r
         /\ r.why = "up" =>
              /\ Stop(r, why).why = why /\ Stop(r, why).chunk = 0
              /\ Stop(r, why).retained = r.retained - r.chunk
              /\ \A c \in Calls :
                   /\ Stop(r, why).entry[c] = "none"
                   /\ Stop(r, why).slot[c] = IF c \in r.responded THEN r.slot[c]
                                             ELSE Lost(r, c, r.slot[c])
                   /\ Stop(r, why).late[c] = IF c \in r.responded THEN Lost(r, c, r.late[c])
                                             ELSE r.late[c]
         /\ Stop(r, why).phase = r.phase /\ Stop(r, why).responded = r.responded
         /\ Stop(r, why).queue = r.queue /\ Stop(r, why).inHand = r.inHand
         /\ Stop(r, why).written = r.written /\ Stop(r, why).input = r.input
         /\ Stop(r, why).writer = r.writer /\ Stop(r, why).reading = r.reading
         /\ Stop(r, why).why # "up"
<1>1. CASE r.why # "up"
  BY <1>1 DEF Stop
<1>2. CASE r.why = "up"
  <2> DEFINE s == [c \in Calls |-> IF c \in r.responded THEN r.slot[c]
                                   ELSE Lost(r, c, r.slot[c])]
             t == [c \in Calls |-> IF c \in r.responded THEN Lost(r, c, r.late[c])
                                   ELSE r.late[c]]
             e == [c \in Calls |-> "none"]
             u == [r EXCEPT !.why = why, !.retained = r.retained - r.chunk, !.chunk = 0,
                            !.entry = e, !.slot = s, !.late = t]
  <2>1. Stop(r, why) = u
    BY <1>2 DEF Stop
  <2>2. s \in [Calls -> Results \cup {"none"}] /\ t \in [Calls -> Lates]
    BY DEF Lost, ClientType, Results, Lates
  <2>3. e \in [Calls -> {"none", "waiting", "abandoned"}] /\ r.retained - r.chunk \in Int
    BY DEF ClientType
  <2> HIDE DEF s, t, e
  <2>4. u \in ClientType
    BY <2>2, <2>3 DEF ClientType
  <2>5. /\ u.why = why /\ u.chunk = 0 /\ u.retained = r.retained - r.chunk
        /\ u.entry = e /\ u.slot = s /\ u.late = t
    BY DEF ClientType
  <2>6. /\ u.phase = r.phase /\ u.responded = r.responded /\ u.queue = r.queue
        /\ u.inHand = r.inHand /\ u.written = r.written /\ u.input = r.input
        /\ u.writer = r.writer /\ u.reading = r.reading
    BY DEF ClientType
  <2> QED BY <1>2, <2>1, <2>4, <2>5, <2>6 DEF s, t, e
<1> QED BY <1>1, <1>2

\* A client that stops stays.
LEMMA StopStays ==
  ASSUME NEW r \in ClientType, NEW why \in Whys \ {"up"}
  PROVE  Stays(r, Stop(r, why))
<1>1. CASE r.why # "up"
  <2>1. Stop(r, why) = r
    BY <1>1, StopIs
  <2> QED BY <2>1 DEF Stays
<1>2. CASE r.why = "up"
  <2> DEFINE s == Stop(r, why)
  <2>1. /\ s.queue = r.queue /\ s.responded = r.responded /\ s.reading = r.reading
        /\ s.why # "up"
        /\ \A c \in Calls :
             /\ s.entry[c] = "none"
             /\ s.slot[c] = IF c \in r.responded THEN r.slot[c] ELSE Lost(r, c, r.slot[c])
             /\ s.late[c] = IF c \in r.responded THEN Lost(r, c, r.late[c]) ELSE r.late[c]
    BY <1>2, StopIs
  <2> HIDE DEF s
  <2> QED BY <2>1 DEF Stays, Lost, s
<1> QED BY <1>1, <1>2

\* Fail is stop, and the reader returns.
LEMMA FailIs ==
  ASSUME NEW r \in ClientType, NEW why \in Whys \ {"up"}
  PROVE  /\ Fail(r, why) \in ClientType
         /\ ~Fail(r, why).reading /\ Fail(r, why).why # "up"
         /\ r.why = "up" => Fail(r, why).why = why
         /\ Stays(r, Fail(r, why)) /\ Fail(r, why).queue = r.queue
<1> DEFINE s == Stop(r, why)
<1>1. s \in ClientType
  BY StopIs
<1> HIDE DEF s
<1>2. Fail(r, why) = [s EXCEPT !.reading = FALSE]
  BY DEF Fail, s
<1>3. /\ Fail(r, why) \in ClientType /\ ~Fail(r, why).reading
      /\ Fail(r, why).why = s.why /\ Fail(r, why).entry = s.entry
      /\ Fail(r, why).slot = s.slot /\ Fail(r, why).late = s.late
      /\ Fail(r, why).responded = s.responded /\ Fail(r, why).queue = s.queue
  BY <1>1, <1>2 DEF ClientType
<1>4. Stays(r, s) /\ s.why # "up" /\ s.queue = r.queue /\ (r.why = "up" => s.why = why)
  BY StopIs, StopStays DEF s
<1> QED BY <1>3, <1>4 DEF Stays

\* What a response does.
Refused(r, s) == Stays(r, s) /\ ~s.reading
Forgotten(r, s, c) == /\ Stays(r, s) /\ r.entry[c] = "abandoned" /\ s.entry[c] = "none"
                      /\ s.reading = r.reading
Accepts(r, s, c) ==
  /\ r.entry[c] = "waiting"
  /\ s.why = r.why /\ s.reading = r.reading /\ s.queue = r.queue
  /\ \A d \in Calls \ {c} :
       s.entry[d] = r.entry[d] /\ s.slot[d] = r.slot[d] /\ s.late[d] = r.late[d]
AcceptsFirst(r, s, c, x) ==
  /\ Accepts(r, s, c) /\ c \notin r.responded
  /\ s.responded = r.responded \cup ({c} \cap Prompts)
  /\ s.slot[c] = x /\ s.late[c] = r.late[c]
  /\ s.entry[c] = IF c \in Prompts /\ x # "error" THEN "waiting" ELSE "none"
AcceptsLate(r, s, c, x) ==
  /\ Accepts(r, s, c) /\ c \in r.responded /\ x = "error"
  /\ s.responded = r.responded
  /\ s.slot[c] = r.slot[c] /\ s.late[c] = x /\ s.entry[c] = "none"

\* A response is refused, forgotten with its abandoned call, or accepted, first or late.
LEMMA ResponseIs ==
  ASSUME NEW r \in ClientType, NEW c \in Calls, NEW x \in Said, NEW s,
         s = AcceptResponse(r, c, x)
  PROVE  /\ s \in ClientType
         /\ Refused(r, s) \/ Forgotten(r, s, c) \/ AcceptsFirst(r, s, c, x) \/ AcceptsLate(r, s, c, x)
<1> DEFINE gone == [r EXCEPT !.entry[c] = "none"]
           stays == c \in Prompts /\ x # "error"
<1>1. s = Answer(r, c, x, stays)
  BY DEF AcceptResponse
<1>2. /\ gone \in ClientType /\ Stays(r, gone) /\ gone.entry[c] = "none"
      /\ gone.reading = r.reading /\ gone.responded = r.responded
  BY DEF ClientType, Stays
<1>3. CASE r.entry[c] = "none"
  BY <1>1, <1>3, FailIs DEF Answer, Whys, Refused
<1>4. CASE r.entry[c] = "abandoned"
  BY <1>1, <1>2, <1>4 DEF Answer, Forgotten
<1>5. CASE r.entry[c] = "waiting" /\ ~HasRoom(r)
  <2> DEFINE late == [gone EXCEPT !.late[c] = "busy"]
             slot == [gone EXCEPT !.slot[c] = "busy"]
  <2> HIDE DEF gone
  <2>a. late \in ClientType
    BY <1>2 DEF ClientType, Lates
  <2>b. /\ late.queue = gone.queue /\ late.responded = gone.responded /\ late.why = gone.why
        /\ late.reading = gone.reading /\ late.entry = gone.entry /\ late.slot = gone.slot
        /\ late.late[c] = "busy" /\ \A d \in Calls \ {c} : late.late[d] = gone.late[d]
    BY <1>2 DEF ClientType
  <2>c. slot \in ClientType
    BY <1>2 DEF ClientType, Results
  <2>d. /\ slot.queue = gone.queue /\ slot.responded = gone.responded /\ slot.why = gone.why
        /\ slot.reading = gone.reading /\ slot.entry = gone.entry /\ slot.late = gone.late
        /\ slot.slot[c] = "busy" /\ \A d \in Calls \ {c} : slot.slot[d] = gone.slot[d]
    BY <1>2 DEF ClientType
  <2>3. s = Fail(late, "busy") \/ s = Fail(slot, "busy")
    BY <1>1, <1>5 DEF Answer, gone
  <2> HIDE DEF late, slot
  <2>1. Stays(r, late)
    BY <1>2, <1>5, <2>b DEF Stays
  <2>2. Stays(r, slot)
    BY <1>2, <1>5, <2>d DEF Stays
  <2>4. "busy" \in Whys \ {"up"}
    BY DEF Whys
  <2>5. \A t \in ClientType : Stays(r, t) =>
          Fail(t, "busy") \in ClientType /\ Refused(r, Fail(t, "busy"))
    BY <2>4, FailIs, StaysAgain DEF Refused
  <2> QED BY <2>1, <2>2, <2>3, <2>5, <2>a, <2>c
<1>6. CASE r.entry[c] = "waiting" /\ HasRoom(r) /\ c \notin r.responded
  <2> DEFINE b == IF stays THEN r ELSE gone
             t == [b EXCEPT !.responded = r.responded \cup ({c} \cap Prompts), !.slot[c] = x,
                            !.retained = @ + 1,
                            !.phase = IF c = Hello /\ x = "ok" THEN "negotiated" ELSE @]
  <2>1. b \in ClientType /\ b.responded = r.responded /\ b.slot = r.slot /\ b.late = r.late
        /\ b.why = r.why /\ b.reading = r.reading /\ b.queue = r.queue
        /\ b.entry[c] = (IF stays THEN "waiting" ELSE "none")
        /\ \A d \in Calls \ {c} : b.entry[d] = r.entry[d]
    BY ZenonT(60), <1>6 DEF ClientType
  <2> HIDE DEF b, gone
  <2>2. s = t
    BY <1>1, <1>6, <2>1 DEF Answer, gone, b
  <2>a. r.responded \cup ({c} \cap Prompts) \in SUBSET Prompts /\ b.retained + 1 \in Int
        /\ [b.slot EXCEPT ![c] = x] \in [Calls -> Results \cup {"none"}]
        /\ (IF c = Hello /\ x = "ok" THEN "negotiated" ELSE b.phase) \in {"start", "ready", "negotiated"}
    BY <2>1 DEF ClientType, Results, Said
  <2>3. t \in ClientType
    BY <2>1, <2>a DEF ClientType
  <2>4. /\ t.responded = r.responded \cup ({c} \cap Prompts)
        /\ t.slot[c] = x /\ \A d \in Calls \ {c} : t.slot[d] = r.slot[d]
        /\ t.late = r.late /\ t.why = r.why /\ t.reading = r.reading /\ t.queue = r.queue
        /\ t.entry = b.entry
    BY <2>1 DEF ClientType
  <2> HIDE DEF t
  <2>5. AcceptsFirst(r, s, c, x)
    BY <1>6, <2>1, <2>2, <2>4 DEF AcceptsFirst, Accepts
  <2> QED BY <2>2, <2>3, <2>5
<1>7. CASE r.entry[c] = "waiting" /\ HasRoom(r) /\ c \in r.responded
  <2>1. CASE x # "error"
    <3>1. s = Fail(r, "protocol")
      BY <1>1, <1>7, <2>1 DEF Answer
    <3> QED BY <3>1, FailIs DEF Whys, Refused
  <2>2. CASE x = "error"
    <3> DEFINE t == [gone EXCEPT !.late[c] = x, !.retained = @ + 1]
    <3>1. s = t
      BY <1>1, <1>7, <2>2 DEF Answer
    <3>a. gone.retained + 1 \in Int /\ [gone.late EXCEPT ![c] = x] \in [Calls -> Lates]
      BY <1>2, <2>2 DEF ClientType, Lates
    <3>2. t \in ClientType
      BY <1>2, <3>a DEF ClientType
    <3>3. /\ t.responded = r.responded /\ t.slot = r.slot /\ t.late[c] = x
          /\ \A d \in Calls \ {c} : t.late[d] = r.late[d] /\ t.entry[d] = r.entry[d]
          /\ t.why = r.why /\ t.reading = r.reading /\ t.queue = r.queue /\ t.entry[c] = "none"
      BY <2>2 DEF ClientType
    <3> HIDE DEF t
    <3>4. AcceptsLate(r, s, c, x)
      BY <1>7, <2>2, <3>1, <3>3 DEF AcceptsLate, Accepts
    <3> QED BY <3>1, <3>2, <3>4
  <2> QED BY <2>1, <2>2
<1> QED BY <1>3, <1>4, <1>5, <1>6, <1>7 DEF ClientType

\* What an accepted frame, or one more part of one, does.
LEMMA LogicalIs ==
  ASSUME NEW r \in ClientType, NEW f \in FrameType \ {Part}, NEW s \in Logical(r, f)
  PROVE  /\ s \in ClientType
         /\ f.kind # "response" => Stays(r, s)
         /\ f.kind = "response" =>
              Refused(r, s) \/ Forgotten(r, s, f.call) \/ AcceptsFirst(r, s, f.call, f.result)
                            \/ AcceptsLate(r, s, f.call, f.result)
<1>1. "protocol" \in Whys \ {"up"} /\ "observer" \in Whys \ {"up"}
  BY DEF Whys
<1>2. CASE f.kind = "response"
  <2>1. f.call \in Calls /\ f.result \in Said
    BY <1>2 DEF FrameType, Frame
  <2>2. CASE r.phase = "start"
    <3>1. s = Fail(r, "protocol")
      BY <1>2, <2>2 DEF Logical
    <3> QED BY <1>1, <1>2, <3>1, FailIs DEF Refused
  <2>3. CASE r.phase # "start"
    <3>1. s = AcceptResponse(r, f.call, f.result)
      BY <1>2, <2>3 DEF Logical
    <3> QED BY <1>2, <2>1, <3>1, ResponseIs
  <2> QED BY <2>2, <2>3
<1>3. CASE f.kind = "ready"
  <2>1. s = [r EXCEPT !.phase = "ready"] \/ s = Fail(r, "protocol")
    BY <1>3 DEF Logical
  <2>2. [r EXCEPT !.phase = "ready"] \in ClientType /\ Stays(r, [r EXCEPT !.phase = "ready"])
    BY DEF ClientType, Stays
  <2> QED BY <1>1, <1>3, <2>1, <2>2, FailIs
<1>4. CASE f.kind = "event"
  <2>1. s = r \/ s = Fail(r, "observer") \/ s = Fail(r, "protocol")
    BY <1>4 DEF Logical
  <2> QED BY <1>1, <1>4, <2>1, FailIs DEF Stays
<1> QED BY <1>2, <1>3, <1>4 DEF FrameType, Frame, Part

\* The same of a physical frame.
LEMMA AcceptedIs ==
  ASSUME NEW r \in ClientType, NEW f \in FrameType, NEW s \in Accepted(r, f)
  PROVE  /\ s \in ClientType
         /\ f.kind # "response" => Stays(r, s)
         /\ f.kind = "response" =>
              Refused(r, s) \/ Forgotten(r, s, f.call) \/ AcceptsFirst(r, s, f.call, f.result)
                            \/ AcceptsLate(r, s, f.call, f.result)
<1>1. "protocol" \in Whys \ {"up"} /\ "busy" \in Whys \ {"up"}
  BY DEF Whys
<1>2. CASE f = Part
  <2> DEFINE t == [r EXCEPT !.chunk = 1, !.retained = @ + 1]
  <2>1. s = Fail(r, "protocol") \/ s = Fail(r, "busy") \/ s = t
    BY <1>2 DEF Accepted
  <2>2. t \in ClientType
    <3>1. r.retained + 1 \in Int
      BY DEF ClientType
    <3> QED BY <3>1 DEF ClientType
  <2>3. /\ t.queue = r.queue /\ t.responded = r.responded /\ t.why = r.why
        /\ t.reading = r.reading /\ t.entry = r.entry /\ t.slot = r.slot /\ t.late = r.late
    BY DEF ClientType
  <2> HIDE DEF t
  <2>4. f.kind # "response" /\ Stays(r, t)
    BY <1>2, <2>3 DEF Part, Frame, Stays
  <2> QED BY <1>1, <2>1, <2>2, <2>4, FailIs
<1>3. CASE f # Part /\ r.chunk = 0
  <2>1. s \in Logical(r, f)
    BY <1>3 DEF Accepted
  <2> QED BY <1>3, <2>1, LogicalIs
<1>4. CASE f # Part /\ r.chunk = 1
  <2> DEFINE t == [r EXCEPT !.chunk = 0, !.retained = @ - 1]
  <2>1. s = Fail(r, "busy") \/ s \in Logical(t, f)
    BY <1>4 DEF Accepted
  <2>2. t \in ClientType
    <3>1. r.retained - 1 \in Int
      BY DEF ClientType
    <3> QED BY <3>1 DEF ClientType
  <2>3. /\ t.queue = r.queue /\ t.responded = r.responded /\ t.why = r.why
        /\ t.reading = r.reading /\ t.entry = r.entry /\ t.slot = r.slot /\ t.late = r.late
    BY DEF ClientType
  <2> HIDE DEF t
  <2>4. CASE s = Fail(r, "busy")
    BY <1>1, <2>4, FailIs DEF Refused
  <2>5. CASE s \in Logical(t, f)
    <3>1. /\ s \in ClientType
          /\ f.kind # "response" => Stays(t, s)
          /\ f.kind = "response" =>
               Refused(t, s) \/ Forgotten(t, s, f.call) \/ AcceptsFirst(t, s, f.call, f.result)
                             \/ AcceptsLate(t, s, f.call, f.result)
      BY <1>4, <2>2, <2>5, LogicalIs
    <3>2. Stays(t, s) => Stays(r, s)
      BY <2>3 DEF Stays
    <3>3. f.kind = "response" /\ AcceptsFirst(t, s, f.call, f.result)
            => AcceptsFirst(r, s, f.call, f.result)
      BY <2>3 DEF AcceptsFirst, Accepts
    <3>4. f.kind = "response" /\ AcceptsLate(t, s, f.call, f.result)
            => AcceptsLate(r, s, f.call, f.result)
      BY <2>3 DEF AcceptsLate, Accepts
    <3> QED BY <2>3, <3>1, <3>2, <3>3, <3>4 DEF Refused, Forgotten
  <2> QED BY <2>1, <2>4, <2>5
<1> QED BY <1>2, <1>3, <1>4 DEF ClientType

-----------------------------------------------------------------------------
(* Sequences without repetition.                                           *)

\* A member appended to a sequence that lacks it leaves the sequence without repetition.
LEMMA AppendHas ==
  ASSUME NEW S, NEW q \in Seq(S), NEW m \in S, IsInjective(q), ~Contains(q, m)
  PROVE  /\ IsInjective(Append(q, m))
         /\ \A n : Contains(Append(q, m), n) <=> n = m \/ Contains(q, n)
<1>1. /\ Len(q) \in Nat /\ DOMAIN q = 1..Len(q)
      /\ DOMAIN Append(q, m) = 1..(Len(q) + 1) /\ Len(Append(q, m)) = Len(q) + 1
      /\ \A i \in 1..Len(q) : Append(q, m)[i] = q[i]
      /\ Append(q, m)[Len(q) + 1] = m
  BY AppendProperties, LenProperties
<1>2. \A i \in DOMAIN Append(q, m) : i \in DOMAIN q \/ i = Len(q) + 1
  BY <1>1
<1>3. \A i \in DOMAIN q : i \in DOMAIN Append(q, m) /\ i # Len(q) + 1
  BY <1>1
<1>4. Len(q) + 1 \in DOMAIN Append(q, m)
  BY <1>1
<1> HIDE DEF Contains
<1>5. /\ \A n : Contains(q, n) <=> \E i \in DOMAIN q : q[i] = n
      /\ \A n : Contains(Append(q, m), n) <=> \E i \in DOMAIN Append(q, m) : Append(q, m)[i] = n
  BY <1>1 DEF Contains
<1> QED BY <1>1, <1>2, <1>3, <1>4, <1>5 DEF IsInjective

\* The tail of such a sequence is all of it but its head.
LEMMA TailHas ==
  ASSUME NEW S, NEW q \in Seq(S), q # <<>>, IsInjective(q)
  PROVE  /\ IsInjective(Tail(q)) /\ Head(q) \in S /\ Contains(q, Head(q))
         /\ \A n : Contains(Tail(q), n) <=> Contains(q, n) /\ n # Head(q)
<1>1. /\ Len(q) \in Nat \ {0} /\ DOMAIN q = 1..Len(q)
      /\ Len(Tail(q)) = Len(q) - 1 /\ DOMAIN Tail(q) = 1..(Len(q) - 1)
      /\ \A i \in 1..(Len(q) - 1) : Tail(q)[i] = q[i + 1]
      /\ Head(q) = q[1] /\ Head(q) \in S
  BY HeadTailProperties, EmptySeq, LenProperties
<1>2. \A i \in DOMAIN Tail(q) : i + 1 \in DOMAIN q /\ Tail(q)[i] = q[i + 1] /\ i + 1 # 1
  BY <1>1
<1>3. \A i \in DOMAIN q : i = 1 \/ (i - 1 \in DOMAIN Tail(q) /\ q[i] = Tail(q)[i - 1])
  BY <1>1
<1>4. 1 \in DOMAIN q
  BY <1>1
<1>5. /\ \A n : Contains(q, n) <=> \E i \in DOMAIN q : q[i] = n
      /\ \A n : Contains(Tail(q), n) <=> \E i \in DOMAIN Tail(q) : Tail(q)[i] = n
  BY <1>1 DEF Contains
<1>6. IsInjective(Tail(q))
  <2> SUFFICES ASSUME NEW i \in DOMAIN Tail(q), NEW j \in DOMAIN Tail(q), Tail(q)[i] = Tail(q)[j]
               PROVE  i = j
    BY DEF IsInjective
  <2>1. i + 1 = j + 1
    BY <1>2 DEF IsInjective
  <2> QED BY <1>1, <2>1
<1>7. \A n : Contains(Tail(q), n) => Contains(q, n) /\ n # Head(q)
  BY <1>1, <1>2, <1>4, <1>5 DEF IsInjective
<1>8. \A n : Contains(q, n) /\ n # Head(q) => Contains(Tail(q), n)
  BY <1>1, <1>3, <1>5
<1> QED BY <1>1, <1>4, <1>5, <1>6, <1>7, <1>8

\* Its front has no more than it had.
LEMMA FrontHas ==
  ASSUME NEW S, NEW q \in Seq(S), q # <<>>, IsInjective(q)
  PROVE  /\ Front(q) \in Seq(S) /\ IsInjective(Front(q))
         /\ \A n : Contains(Front(q), n) => Contains(q, n)
<1>1. /\ Len(q) \in Nat \ {0} /\ DOMAIN q = 1..Len(q) /\ \A i \in 1..Len(q) : q[i] \in S
  BY EmptySeq, LenProperties, ElementOfSeq
<1>2. /\ Front(q) = SubSeq(q, 1, Len(q) - 1) /\ 1 \in Int /\ Len(q) - 1 \in Nat
      /\ \A i \in 1..(Len(q) - 1) : i \in 1..Len(q) /\ q[i] \in S
  BY <1>1 DEF Front
<1>3. /\ Front(q) \in Seq(S) /\ Len(Front(q)) = Len(q) - 1 /\ DOMAIN Front(q) = 1..(Len(q) - 1)
      /\ \A i \in 1..(Len(q) - 1) : Front(q)[i] = q[i]
  <2>1. /\ SubSeq(q, 1, Len(q) - 1) \in Seq(S)
        /\ Len(SubSeq(q, 1, Len(q) - 1)) = IF 1 <= Len(q) - 1 THEN Len(q) - 1 - 1 + 1 ELSE 0
        /\ \A i \in 1..(Len(q) - 1 - 1 + 1) : SubSeq(q, 1, Len(q) - 1)[i] = q[1 + i - 1]
    BY <1>2, SubSeqProperties
  <2>2. Len(Front(q)) = Len(q) - 1
    BY <1>1, <1>2, <2>1
  <2>3. \A i \in 1..(Len(q) - 1) : i \in 1..(Len(q) - 1 - 1 + 1) /\ 1 + i - 1 = i
    BY <1>1
  <2> QED BY <1>2, <2>1, <2>2, <2>3, LenProperties
<1> QED BY <1>1, <1>2, <1>3 DEF IsInjective, Contains

\* The empty sequence has nothing.
LEMMA EmptyHas ==
  /\ IsInjective(<<>>) /\ \A n : ~Contains(<<>>, n)
  /\ \A S : <<>> \in Seq(S)
<1>1. Len(<<>>) = 0 /\ DOMAIN <<>> = {}
  <2>1. <<>> \in Seq({0}) /\ Len(<<>>) = 0
    BY EmptySeq
  <2>2. \A i \in 1..0 : FALSE
    OBVIOUS
  <2> QED BY <2>1, <2>2, LenProperties
<1>2. \A i \in 1..0 : FALSE
  OBVIOUS
<1>3. \A S : <<>> \in Seq(S)
  BY EmptySeq
<1> QED BY <1>1, <1>2, <1>3 DEF IsInjective, Contains

-----------------------------------------------------------------------------
(* Steps that answer no call and write nothing.                            *)

Quiet ==
  /\ TypeInv' /\ Stays(rpc, rpc') /\ UNCHANGED <<work, failed>>
  /\ \A w \in Writes : pc'[w] = "idle" => pc[w] = "idle"
  /\ \/ UNCHANGED pipe
     \/ IsInjective(pipe') /\ \A w : Contains(pipe', w) => Contains(pipe, w)
  /\ UNCHANGED out \/ (out' = <<>> /\ ~rpc'.reading)

\* What native has written stays right when nothing more is owed.
LEMMA FramesKept ==
  ASSUME FrameInv, UNCHANGED <<work, failed, out>>,
         Up' /\ rpc'.reading => Up /\ rpc.reading,
         \A c \in Calls : Owed(c)' => Owed(c) \/ work[c] = "none",
         \A i \in DOMAIN out : out[i].kind = "response" => out[i].call \in Calls
  PROVE  FrameInv'
<1>1. \A c \in Calls : First(c)' = First(c)
  BY DEF First
<1>2. \A i \in DOMAIN out : out[i].kind = "response" => Follows(i)'
  BY <1>1 DEF FrameInv, Follows, First, Said
<1>3. \A c \in Calls : Up' /\ rpc'.reading /\ Owed(c)' /\ work'[c] \in Said
                         => \E i \in DOMAIN out : out[i] = First(c)'
  BY <1>1 DEF FrameInv, Said
<1> QED BY <1>2, <1>3 DEF FrameInv

\* Every answer on native's stdout names a call.
LEMMA FrameCalls ==
  ASSUME TypeInv
  PROVE  \A i \in DOMAIN out : /\ out[i] \in FrameType
                               /\ out[i].kind = "response" =>
                                    out[i].call \in Calls /\ out[i].result \in Said
<1>1. \A i \in DOMAIN out : out[i] \in FrameType
  BY LenProperties, ElementOfSeq DEF TypeInv
<1> QED BY <1>1 DEF FrameType, Frame, Part

\* No frame is left to be right or wrong once the reader has returned.
LEMMA FramesGone ==
  ASSUME out' = <<>>, ~rpc'.reading
  PROVE  FrameInv'
<1>1. \A i \in DOMAIN out' : FALSE
  BY EmptyHas, EmptySeq, LenProperties DEF Contains
<1> QED BY <1>1 DEF FrameInv

\* The invariant survives a quiet step.
LEMMA QuietKeeps ==
  ASSUME IInv, Quiet
  PROVE  IInv'
<1>1. WriteInv'
  <2>1. rpc'.queue = rpc.queue \/ rpc'.queue = <<>>
    BY DEF Quiet, Stays
  <2>2. /\ IsInjective(rpc'.queue) /\ IsInjective(pipe')
        /\ \A w : Contains(rpc'.queue, w) => Contains(rpc.queue, w)
        /\ \A w : Contains(pipe', w) => Contains(pipe, w)
    BY <2>1, EmptyHas DEF Quiet, IInv, WriteInv
  <2>3. \A c \in Calls : pc'[c] = "idle" =>
          /\ rpc'.entry[c] = "none" /\ rpc'.slot[c] = "none" /\ rpc'.late[c] = "none"
          /\ c \notin rpc'.responded
    BY Names DEF Quiet, IInv, WriteInv, Stays
  <2> QED BY <2>2, <2>3, Names DEF WriteInv, IInv, Quiet
<1>2. CallInv'
  <2> SUFFICES ASSUME NEW c \in Calls
               PROVE  /\ rpc'.entry[c] = "waiting" =>
                           /\ rpc'.late[c] = "none"
                           /\ c \notin rpc'.responded => rpc'.slot[c] = "none"
                      /\ rpc'.slot[c] \in Said => work'[c] = rpc'.slot[c]
    BY DEF CallInv
  <2> QED BY DEF IInv, CallInv, Quiet, Stays, Said
<1>3. FrameInv'
  <2>1. /\ Up' /\ rpc'.reading => Up /\ rpc.reading
        /\ \A c \in Calls : Owed(c)' => Owed(c)
    BY DEF Quiet, Stays, Up, Owed
  <2> QED BY <2>1, FramesKept, FramesGone, FrameCalls DEF IInv, Quiet
<1> QED BY <1>1, <1>2, <1>3 DEF IInv, Quiet

\* What a call hears is one of the things it can hear.
LEMMA HearsIs ==
  ASSUME TypeInv, NEW w \in Writes, NEW x \in PCs, Hears(w, x)
  PROVE  /\ pc' \in [Writes -> PCs] /\ pc'[w] = x
         /\ \A v \in Writes \ {w} : pc'[v] = pc[v]
BY DEF TypeInv, Hears

\* Results and what callers hear have their names.
LEMMA HearsNames ==
  /\ Results \subseteq PCs /\ Said \subseteq Results
  /\ {"idle", "admission", "leaving", "response", "held", "gaveup", "finished", "failed",
      "unavailable"} \subseteq PCs
  /\ "none" \notin PCs /\ "busy" \in Results /\ "lost" \in Results
  /\ {"closed", "context", "input", "output", "protocol", "busy", "observer"} = Whys \ {"up"}
BY DEF Results, PCs, Said, Whys

\* A step of a caller that leaves what native has and has said.
LEMMA CallerQuiet ==
  ASSUME TypeInv, NEW w \in Writes, NEW x \in PCs, x # "idle", Hears(w, x),
         rpc' \in ClientType, Stays(rpc, rpc'), UNCHANGED <<pipe, nativeVars>>
  PROVE  Quiet
<1>1. pc' \in [Writes -> PCs] /\ \A v \in Writes : pc'[v] = "idle" => pc[v] = "idle"
  BY HearsIs
<1> QED BY <1>1 DEF Quiet, TypeInv, nativeVars

\* A client that does not change stays.
LEMMA StaysSame == \A r : Stays(r, r)
BY DEF Stays

\* A caller that learns that its write is complete, or is about to leave, tells nobody.
LEMMA WriteReturnedQuiet ==
  ASSUME TypeInv, NEW c \in Calls, WriteReturned(c) \/ Leaves(c)
  PROVE  Quiet
BY Names, HearsNames, CallerQuiet, StaysSame DEF WriteReturned, Leaves, TypeInv

\* Taking a result empties its slot, and gives up a prompt that was not acknowledged.
LEMMA TakenIs ==
  ASSUME NEW r \in ClientType, NEW c \in Calls
  PROVE  Taken(r, c) \in ClientType /\ Stays(r, Taken(r, c))
<1> DEFINE s == [r EXCEPT !.slot[c] = "none", !.retained = @ - Costs(r.slot[c])]
           t == [s EXCEPT !.entry[c] = "none", !.late[c] = "none",
                          !.retained = @ - Costs(s.late[c])]
<1>1. \A x : Costs(x) \in Int
  BY DEF Costs
<1>2. r.retained - Costs(r.slot[c]) \in Int /\ [r.slot EXCEPT ![c] = "none"] \in [Calls -> Results \cup {"none"}]
  BY <1>1 DEF ClientType
<1>3. s \in ClientType
  BY <1>2 DEF ClientType
<1>4. /\ s.queue = r.queue /\ s.responded = r.responded /\ s.why = r.why
      /\ s.reading = r.reading /\ s.entry = r.entry /\ s.late = r.late
      /\ s.slot[c] = "none" /\ \A d \in Calls \ {c} : s.slot[d] = r.slot[d]
  BY DEF ClientType
<1>5. Taken(r, c) = s \/ Taken(r, c) = t
  BY DEF Taken
<1> HIDE DEF s
<1>6. Stays(r, s)
  BY <1>4 DEF Stays
<1>7. s.retained - Costs(s.late[c]) \in Int /\ [s.late EXCEPT ![c] = "none"] \in [Calls -> Lates]
      /\ [s.entry EXCEPT ![c] = "none"] \in [Calls -> {"none", "waiting", "abandoned"}]
  BY <1>1, <1>3 DEF ClientType, Lates
<1>8. t \in ClientType
  BY <1>3, <1>7 DEF ClientType
<1>9. /\ t.queue = s.queue /\ t.responded = s.responded /\ t.why = s.why
      /\ t.reading = s.reading /\ t.slot = s.slot
      /\ t.late[c] = "none" /\ \A d \in Calls \ {c} : t.late[d] = s.late[d]
      /\ t.entry[c] = "none" /\ \A d \in Calls \ {c} : t.entry[d] = s.entry[d]
  BY <1>3 DEF ClientType
<1> HIDE DEF t
<1>10. Stays(s, t)
  BY <1>9 DEF Stays
<1> QED BY <1>3, <1>5, <1>6, <1>8, <1>10, StaysAgain

\* TakeResponse is quiet.
LEMMA TakeResponseQuiet ==
  ASSUME TypeInv, NEW c \in Calls, TakeResponse(c)
  PROVE  Quiet
<1>1. rpc \in ClientType /\ rpc.slot[c] \in Results
  BY DEF TypeInv, ClientType, TakeResponse
<1>2. "held" \in PCs /\ "idle" \notin Results /\ Results \subseteq PCs
  BY DEF PCs, Results
<1> QED BY <1>1, <1>2, Names, TakenIs, CallerQuiet DEF TakeResponse

\* GiveUp is quiet: an abandoned call is owed nothing.
LEMMA GiveUpQuiet ==
  ASSUME TypeInv, NEW c \in Calls, GiveUp(c)
  PROVE  Quiet
<1> DEFINE s == Abandoned(rpc, c)
<1>1. s \in ClientType
  BY DEF Abandoned, TypeInv, ClientType
<1>2. /\ s.queue = rpc.queue /\ s.responded = rpc.responded /\ s.why = rpc.why
      /\ s.reading = rpc.reading /\ s.slot = rpc.slot /\ s.late = rpc.late
      /\ s.entry[c] = "abandoned" /\ \A d \in Calls \ {c} : s.entry[d] = rpc.entry[d]
  BY DEF Abandoned, TypeInv, ClientType
<1> HIDE DEF s
<1>3. Stays(rpc, s)
  BY <1>2 DEF Stays, GiveUp
<1>4. "context" \in Whys \ {"up"} /\ "gaveup" \in PCs
  BY DEF Whys, PCs
<1>5. Stop(s, "context") \in ClientType /\ Stays(rpc, Stop(s, "context"))
  BY <1>1, <1>3, <1>4, StopIs, StopStays, StaysAgain
<1>6. rpc' = s \/ rpc' = Stop(s, "context")
  BY DEF GiveUp, s
<1> QED BY <1>1, <1>3, <1>4, <1>5, <1>6, Names, CallerQuiet DEF GiveUp

\* Finish is quiet: it gives up the entry or takes the late answer.
LEMMA FinishQuiet ==
  ASSUME TypeInv, NEW p \in Prompts, Finish(p)
  PROVE  Quiet
<1> DEFINE s == [rpc EXCEPT !.entry[p] = "none"]
           t == [rpc EXCEPT !.late[p] = "none", !.retained = @ - Costs(rpc.late[p])]
<1>1. rpc \in ClientType /\ p \in Calls /\ Costs(rpc.late[p]) \in Int
  BY Names DEF TypeInv, Costs
<1>2. s \in ClientType
  BY <1>1 DEF ClientType
<1>3. Stays(rpc, s)
  BY <1>1 DEF ClientType, Stays
<1>4. t \in ClientType
  <2>1. rpc.retained - Costs(rpc.late[p]) \in Int /\ [rpc.late EXCEPT ![p] = "none"] \in [Calls -> Lates]
    BY <1>1 DEF ClientType, Lates
  <2> QED BY <1>1, <2>1 DEF ClientType
<1>5. /\ t.queue = rpc.queue /\ t.responded = rpc.responded /\ t.why = rpc.why
      /\ t.reading = rpc.reading /\ t.slot = rpc.slot /\ t.entry = rpc.entry
      /\ t.late[p] = "none" /\ \A d \in Calls \ {p} : t.late[d] = rpc.late[d]
  BY <1>1 DEF ClientType
<1>6. (rpc' = s /\ Hears(p, "finished")) \/ (rpc' = t /\ Hears(p, "failed"))
        \/ (rpc' = rpc /\ Hears(p, "unavailable"))
  BY DEF Finish
<1> HIDE DEF s, t
<1>7. Stays(rpc, t)
  BY <1>5 DEF Stays
<1>8. {"finished", "failed", "unavailable"} \subseteq PCs \ {"idle"} /\ p \in Writes
  BY <1>1, Names DEF PCs
<1>9. UNCHANGED <<pipe, nativeVars>>
  BY DEF Finish
<1> QED BY <1>1, <1>2, <1>3, <1>4, <1>6, <1>7, <1>8, <1>9, StaysSame, CallerQuiet

\* WriteSettled is quiet: at most it stops the client.
LEMMA WriteSettledQuiet ==
  ASSUME TypeInv, NEW w \in Writes, WriteSettled(w)
  PROVE  Quiet
<1>1. "context" \in Whys \ {"up"} /\ {"ok", "lost", "gaveup"} \subseteq PCs \ {"idle"}
  BY DEF Whys, PCs, Results
<1>2. rpc \in ClientType
  BY DEF TypeInv
<1>3. \/ rpc' = rpc /\ (Hears(w, "ok") \/ Hears(w, "lost"))
      \/ rpc' = Stop(rpc, "context") /\ Hears(w, "gaveup")
  BY DEF WriteSettled
<1>4. UNCHANGED <<pipe, nativeVars>>
  BY DEF WriteSettled
<1> QED BY <1>1, <1>2, <1>3, <1>4, StaysSame, StopIs, StopStays, CallerQuiet

\* A step of the client that no caller hears of.
LEMMA ClientQuiet ==
  ASSUME TypeInv, rpc' \in ClientType, Stays(rpc, rpc'), UNCHANGED <<pc, work, failed, alive>>,
         \/ UNCHANGED pipe
         \/ pipe' \in Seq(Writes) /\ IsInjective(pipe') /\ \A w : Contains(pipe', w) => Contains(pipe, w),
         UNCHANGED out \/ (out' = <<>> /\ ~rpc'.reading)
  PROVE  Quiet
<1>1. <<>> \in Seq(FrameType)
  BY EmptyHas
<1> QED BY <1>1 DEF Quiet, TypeInv

\* A write that returns says so, and changes nothing else.
LEMMA WrittenIs ==
  ASSUME TypeInv, rpc.inHand # "none", NEW how \in {"ok", "failed"}
  PROVE  Written(how) \in ClientType /\ Stays(rpc, Written(how))
<1>1. rpc.inHand \in Writes /\ "none" \in Writes \cup {"none"}
  BY DEF TypeInv, ClientType
<1> DEFINE f == [rpc.written EXCEPT ![rpc.inHand] = how]
<1>2. Written(how) = [rpc EXCEPT !.inHand = "none", !.written = f]
  BY DEF Written, TypeInv, ClientType
<1>3. f \in [Writes -> {"none", "ok", "failed"}]
  BY <1>1 DEF TypeInv, ClientType
<1> HIDE DEF f
<1>4. Written(how) \in ClientType
  <2>1. rpc \in ClientType
    BY DEF TypeInv
  <2>2. [rpc EXCEPT !.inHand = "none", !.written = f] \in ClientType
    BY <1>3, <2>1 DEF ClientType
  <2> QED BY <1>2, <2>2
<1>5. /\ Written(how).queue = rpc.queue /\ Written(how).responded = rpc.responded
      /\ Written(how).why = rpc.why /\ Written(how).reading = rpc.reading
      /\ Written(how).entry = rpc.entry /\ Written(how).slot = rpc.slot
      /\ Written(how).late = rpc.late
  BY <1>2 DEF TypeInv, ClientType
<1> QED BY <1>4, <1>5 DEF Stays

\* A write that returns is quiet.
LEMMA WriteReturnsQuiet ==
  ASSUME TypeInv, WriteReturns
  PROVE  Quiet
BY WrittenIs, ClientQuiet DEF WriteReturns, nativeVars

\* So is one that fails, though native may have read it.
LEMMA WriteFailsQuiet ==
  ASSUME TypeInv, IsInjective(pipe), WriteFails
  PROVE  Quiet
<1> DEFINE r == Written("failed")
<1>1. r \in ClientType /\ Stays(rpc, r)
  BY WrittenIs DEF WriteFails
<1> HIDE DEF r
<1>2. rpc' = [r EXCEPT !.writer = "failed"]
  BY DEF WriteFails, r
<1>3. rpc' \in ClientType /\ Stays(rpc, rpc')
  BY <1>1, <1>2 DEF ClientType, Stays
<1>4. pipe # <<>> => /\ Front(pipe) \in Seq(Writes) /\ IsInjective(Front(pipe))
                     /\ \A w : Contains(Front(pipe), w) => Contains(pipe, w)
  BY FrontHas DEF TypeInv
<1>5. pipe' = pipe \/ (pipe # <<>> /\ pipe' = Front(pipe))
  BY DEF WriteFails
<1>6. UNCHANGED <<pc, work, failed, alive, out>>
  BY DEF WriteFails, nativeVars
<1> QED BY <1>3, <1>4, <1>5, <1>6, ClientQuiet

\* The close of the input is quiet.
LEMMA CloseInputQuiet ==
  ASSUME TypeInv, CloseInput
  PROVE  Quiet
<1> DEFINE r == [rpc EXCEPT !.queue = <<>>, !.writer = "returned"]
           s == [r EXCEPT !.written[End] = "ok", !.input = "ended"]
           t == [r EXCEPT !.written[End] = "failed"]
<1>1. <<>> \in Seq(Writes) /\ End \in Writes
  BY EmptyHas, Names
<1>2. r \in ClientType
  BY <1>1 DEF TypeInv, ClientType
<1>3. Stays(rpc, r)
  BY DEF TypeInv, ClientType, Stays
<1>4. rpc' = s \/ rpc' = Stop(t, "input")
  BY DEF CloseInput
<1> HIDE DEF r
<1>5. s \in ClientType /\ Stays(r, s)
  BY <1>1, <1>2 DEF ClientType, Stays
<1>6. t \in ClientType /\ Stays(r, t)
  BY <1>1, <1>2 DEF ClientType, Stays
<1>7. "input" \in Whys \ {"up"}
  BY DEF Whys
<1> HIDE DEF s, t
<1>8. rpc' \in ClientType /\ Stays(rpc, rpc')
  <2>1. CASE rpc' = s
    BY <1>3, <1>5, <2>1, StaysAgain
  <2>2. CASE rpc' = Stop(t, "input")
    BY <1>3, <1>6, <1>7, <2>2, StaysAgain, StopIs, StopStays
  <2> QED BY <1>4, <2>1, <2>2
<1> QED BY <1>8, ClientQuiet DEF CloseInput, nativeVars

\* Drain is quiet: the writes it drops were not with native.
LEMMA DrainQuiet ==
  ASSUME TypeInv, Drain
  PROVE  Quiet
<1> DEFINE r == IF rpc.writer = "failed" THEN Stop(rpc, "input") ELSE rpc
           f == [w \in Writes |-> IF Contains(r.queue, w) THEN "failed" ELSE r.written[w]]
<1>1. "input" \in Whys \ {"up"} /\ <<>> \in Seq(Writes)
  BY EmptyHas DEF Whys
<1>2. r \in ClientType /\ Stays(rpc, r)
  BY <1>1, StopIs, StopStays, StaysSame DEF TypeInv
<1>3. rpc' = [r EXCEPT !.queue = <<>>, !.writer = "returned", !.written = f]
  BY DEF Drain
<1> HIDE DEF r
<1>4. f \in [Writes -> {"none", "ok", "failed"}]
  BY <1>2 DEF ClientType
<1> HIDE DEF f
<1>5. rpc' \in ClientType /\ Stays(r, rpc')
  BY <1>1, <1>2, <1>3, <1>4 DEF ClientType, Stays
<1>6. Stays(rpc, rpc')
  BY <1>2, <1>5, StaysAgain
<1> QED BY <1>5, <1>6, ClientQuiet DEF Drain, nativeVars

\* The end of the output is quiet.
LEMMA OutputEndsQuiet ==
  ASSUME TypeInv, OutputEnds
  PROVE  Quiet
<1> DEFINE why == CASE rpc.input = "open" -> "output"
                    [] rpc.input = "ended" /\ Pending(rpc) = {} /\ rpc.retained = 0
                       /\ PendingWrites(rpc) = 0 -> "closed"
                    [] OTHER -> "protocol"
<1>1. why \in {"output", "closed", "protocol"}
  BY DEF TypeInv, ClientType
<1>2. rpc' = Fail(rpc, why)
  BY DEF OutputEnds
<1> HIDE DEF why
<1>3. why \in Whys \ {"up"}
  BY <1>1 DEF Whys
<1>4. rpc' \in ClientType /\ Stays(rpc, rpc')
  BY <1>2, <1>3, FailIs DEF TypeInv
<1> QED BY <1>4, ClientQuiet DEF OutputEnds, nativeVars

\* The reader that returns drops what native has written.
LEMMA ReaderReturnsQuiet ==
  ASSUME TypeInv, ReaderReturns
  PROVE  Quiet
<1>1. rpc' \in ClientType /\ ~rpc'.reading
  BY DEF TypeInv, ReaderReturns, ClientType
<1>2. Stays(rpc, rpc')
  BY DEF TypeInv, ReaderReturns, ClientType, Stays
<1> QED BY <1>1, <1>2, ClientQuiet DEF ReaderReturns

\* Close is quiet.
LEMMA CloseQuiet ==
  ASSUME TypeInv, Close
  PROVE  Quiet
<1>1. "closed" \in Whys \ {"up"} /\ rpc \in ClientType
  BY DEF Whys, TypeInv
<1>2. rpc' \in ClientType /\ Stays(rpc, rpc')
  BY <1>1, StopIs, StopStays DEF Close
<1> QED BY <1>2, ClientQuiet DEF Close, nativeVars

\* Native that exits drops what it has not read.
LEMMA NativeExitsQuiet ==
  ASSUME TypeInv, NativeExits
  PROVE  Quiet
<1>1. pipe' \in Seq(Writes) /\ IsInjective(pipe') /\ \A w : ~Contains(pipe', w)
  BY EmptyHas DEF NativeExits
<1>2. TypeInv'
  BY <1>1 DEF TypeInv, NativeExits
<1> QED BY <1>1, <1>2, StaysSame DEF Quiet, NativeExits

-----------------------------------------------------------------------------
(* A call, a cancellation and the end of the input are queued; the writer  *)
(* takes them and native reads them.                                       *)

\* What a queued write changes.
LEMMA QueuedIs ==
  ASSUME IInv, NEW w \in Writes, pc[w] = "idle"
  PROVE  /\ Queued(rpc, w) \in ClientType
         /\ IsInjective(Queued(rpc, w).queue)
         /\ \A v : Contains(Queued(rpc, w).queue, v) <=> v = w \/ Contains(rpc.queue, v)
         /\ Queued(rpc, w).why = rpc.why /\ Queued(rpc, w).entry = rpc.entry
         /\ Queued(rpc, w).slot = rpc.slot /\ Queued(rpc, w).late = rpc.late
         /\ Queued(rpc, w).responded = rpc.responded /\ Queued(rpc, w).reading = rpc.reading
<1>1. IsInjective(rpc.queue) /\ ~Contains(rpc.queue, w) /\ rpc.queue \in Seq(Writes)
  BY DEF IInv, WriteInv, TypeInv, ClientType
<1>2. Append(rpc.queue, w) \in Seq(Writes)
  BY <1>1, AppendProperties
<1>3. IsInjective(Append(rpc.queue, w))
      /\ \A v : Contains(Append(rpc.queue, w), v) <=> v = w \/ Contains(rpc.queue, v)
  BY <1>1, AppendHas
<1>4. Queued(rpc, w) = [rpc EXCEPT !.queue = Append(rpc.queue, w)]
  BY DEF Queued
<1> DEFINE q == Append(rpc.queue, w)
<1> HIDE DEF q
<1>5. /\ q \in Seq(Writes) /\ IsInjective(q) /\ \A v : Contains(q, v) <=> v = w \/ Contains(rpc.queue, v)
      /\ Queued(rpc, w) = [rpc EXCEPT !.queue = q]
  BY <1>2, <1>3, <1>4 DEF q
<1>6. Queued(rpc, w) \in ClientType
  <2>1. rpc \in ClientType
    BY DEF IInv, TypeInv
  <2> QED BY ZenonT(60), <1>5, <2>1 DEF ClientType
<1>7. /\ Queued(rpc, w).queue = q
      /\ Queued(rpc, w).why = rpc.why /\ Queued(rpc, w).entry = rpc.entry
      /\ Queued(rpc, w).slot = rpc.slot /\ Queued(rpc, w).late = rpc.late
      /\ Queued(rpc, w).responded = rpc.responded /\ Queued(rpc, w).reading = rpc.reading
  BY <1>5 DEF IInv, TypeInv, ClientType
<1> QED BY <1>5, <1>6, <1>7

\* A write that is queued keeps the writes apart.
LEMMA QueuedWrites ==
  ASSUME IInv, NEW w \in Writes, pc[w] = "idle", Hears(w, "admission"),
         rpc'.queue = Queued(rpc, w).queue,
         \A c \in Calls \ {w} :
           /\ rpc'.entry[c] = rpc.entry[c] /\ rpc'.slot[c] = rpc.slot[c]
           /\ rpc'.late[c] = rpc.late[c] /\ (c \in rpc'.responded <=> c \in rpc.responded),
         UNCHANGED <<pipe, work>>
  PROVE  WriteInv' /\ pc' \in [Writes -> PCs]
<1>1. /\ IsInjective(rpc'.queue)
      /\ \A v : Contains(rpc'.queue, v) <=> v = w \/ Contains(rpc.queue, v)
  BY QueuedIs
<1>2. pc' \in [Writes -> PCs] /\ pc'[w] = "admission" /\ \A v \in Writes \ {w} : pc'[v] = pc[v]
  BY HearsIs, HearsNames DEF IInv
<1>3. \A v \in Writes :
        /\ pc'[v] = "idle" => ~Contains(rpc'.queue, v) /\ ~Contains(pipe', v)
        /\ Contains(rpc'.queue, v) => ~Contains(pipe', v)
  BY <1>1, <1>2 DEF IInv, WriteInv
<1>4. \A c \in Calls :
        /\ Contains(rpc'.queue, c) \/ Contains(pipe', c) => work'[c] = "none"
        /\ pc'[c] = "idle" => /\ work'[c] = "none" /\ rpc'.entry[c] = "none"
                              /\ rpc'.slot[c] = "none" /\ rpc'.late[c] = "none"
                              /\ c \notin rpc'.responded
  BY <1>1, <1>2, Names DEF IInv, WriteInv
<1> QED BY <1>1, <1>2, <1>3, <1>4 DEF WriteInv, IInv

\* A call is idle until it is admitted, so its write is new.
LEMMA CallKeeps ==
  ASSUME IInv, NEW c \in Calls, Call(c)
  PROVE  IInv'
<1> DEFINE q == Queued(rpc, c)
<1>1. c \in Writes /\ pc[c] = "idle" /\ Hears(c, "admission") /\ UNCHANGED <<pipe, work, failed, out, alive>>
  BY Names DEF Call, nativeVars
<1>2. /\ q \in ClientType /\ q.why = rpc.why /\ q.entry = rpc.entry
      /\ q.slot = rpc.slot /\ q.late = rpc.late
      /\ q.responded = rpc.responded /\ q.reading = rpc.reading
  BY <1>1, QueuedIs
<1>3. rpc' = [q EXCEPT !.entry[c] = "waiting"]
  BY DEF Call
<1> HIDE DEF q
<1>4. /\ rpc' \in ClientType
      /\ rpc'.queue = q.queue /\ rpc'.why = rpc.why /\ rpc'.reading = rpc.reading
      /\ rpc'.slot = rpc.slot /\ rpc'.late = rpc.late /\ rpc'.responded = rpc.responded
      /\ rpc'.entry[c] = "waiting" /\ \A d \in Calls \ {c} : rpc'.entry[d] = rpc.entry[d]
  BY ZenonT(60), <1>2, <1>3 DEF ClientType
<1>5. WriteInv' /\ pc' \in [Writes -> PCs]
  BY <1>1, <1>4, QueuedWrites DEF q
<1>6. work[c] = "none" /\ rpc.slot[c] = "none" /\ rpc.late[c] = "none" /\ c \notin rpc.responded
  BY <1>1 DEF IInv, WriteInv
<1>7. CallInv'
  BY <1>1, <1>4, <1>6 DEF CallInv, IInv, Said
<1>8. FrameInv'
  <2>1. \A d \in Calls : Owed(d)' => Owed(d) \/ work[d] = "none"
    BY <1>4, <1>6 DEF Owed
  <2>2. Up' /\ rpc'.reading => Up /\ rpc.reading
    BY <1>4 DEF Up
  <2> QED BY <1>1, <2>1, <2>2, FramesKept, FrameCalls DEF IInv
<1>9. TypeInv'
  BY <1>1, <1>4, <1>5 DEF TypeInv, IInv
<1> QED BY <1>5, <1>7, <1>8, <1>9 DEF IInv

\* A cancellation, and the end of the input.
LEMMA MarkKeeps ==
  ASSUME IInv, NEW w \in Writes \ Calls, pc[w] = "idle", Hears(w, "admission"),
         UNCHANGED <<pipe, nativeVars>>,
         NEW i \in {"open", "ending", "ended"}, rpc' = [Queued(rpc, w) EXCEPT !.input = i]
  PROVE  IInv'
<1> DEFINE q == Queued(rpc, w)
<1>1. /\ q \in ClientType /\ q.why = rpc.why /\ q.entry = rpc.entry
      /\ q.slot = rpc.slot /\ q.late = rpc.late
      /\ q.responded = rpc.responded /\ q.reading = rpc.reading
  BY QueuedIs
<1>2. rpc' = [q EXCEPT !.input = i]
  OBVIOUS
<1> HIDE DEF q
<1>3. /\ rpc' \in ClientType
      /\ rpc'.queue = q.queue /\ rpc'.why = rpc.why /\ rpc'.reading = rpc.reading
      /\ rpc'.slot = rpc.slot /\ rpc'.late = rpc.late /\ rpc'.responded = rpc.responded
      /\ rpc'.entry = rpc.entry
  BY ZenonT(60), <1>1, <1>2 DEF ClientType
<1>4. UNCHANGED <<pipe, work, failed, out, alive>>
  BY DEF nativeVars
<1>5. WriteInv' /\ pc' \in [Writes -> PCs]
  BY <1>3, <1>4, QueuedWrites DEF q
<1>6. CallInv'
  BY <1>3, <1>4 DEF CallInv, IInv
<1>7. FrameInv'
  <2>1. \A d \in Calls : Owed(d)' => Owed(d)
    BY <1>3 DEF Owed
  <2>2. Up' /\ rpc'.reading => Up /\ rpc.reading
    BY <1>3 DEF Up
  <2> QED BY <1>4, <2>1, <2>2, FramesKept, FrameCalls DEF IInv
<1>8. TypeInv'
  BY <1>3, <1>4, <1>5 DEF TypeInv, IInv
<1> QED BY <1>5, <1>6, <1>7, <1>8 DEF IInv

\* The cancellation of a dialog is queued once.
LEMMA CancelUIKeeps ==
  ASSUME IInv, NEW u \in Uis, CancelUI(u)
  PROVE  IInv'
<1>1. u \in Writes \ Calls /\ pc[u] = "idle"
  BY Names DEF CancelUI
<1>2. Queued(rpc, u) \in ClientType
  BY <1>1, QueuedIs
<1>3. /\ rpc' = [Queued(rpc, u) EXCEPT !.input = Queued(rpc, u).input]
      /\ Queued(rpc, u).input \in {"open", "ending", "ended"}
  BY <1>2 DEF CancelUI, ClientType
<1>4. Hears(u, "admission") /\ UNCHANGED <<pipe, nativeVars>>
  BY DEF CancelUI
<1> QED BY <1>1, <1>3, <1>4, MarkKeeps

\* The marker of the end is queued once.
LEMMA EndInputKeeps ==
  ASSUME IInv, EndInput
  PROVE  IInv'
<1>1. End \in Writes \ Calls
  BY Names
<1> QED BY <1>1, MarkKeeps DEF EndInput

\* The write that the writer takes goes from the queue to native.
LEMMA TakeWriteKeeps ==
  ASSUME IInv, TakeWrite
  PROVE  IInv'
<1> DEFINE q == rpc.queue
           w == Head(q)
<1>1. q \in Seq(Writes) /\ q # <<>> /\ IsInjective(q) /\ pipe \in Seq(Writes) /\ IsInjective(pipe)
  BY DEF TakeWrite, IInv, TypeInv, ClientType, WriteInv
<1>2. /\ IsInjective(Tail(q)) /\ w \in Writes /\ Contains(q, w) /\ Tail(q) \in Seq(Writes)
      /\ \A v : Contains(Tail(q), v) <=> Contains(q, v) /\ v # w
  BY <1>1, TailHas, HeadTailProperties
<1>3. ~Contains(pipe, w) /\ pc[w] # "idle"
  BY <1>2 DEF IInv, WriteInv
<1>4. /\ pipe' \in Seq(Writes) /\ IsInjective(pipe')
      /\ \A v : Contains(pipe', v) => v = w \/ Contains(pipe, v)
  <2>1. CASE pipe' = pipe
    BY <1>1, <2>1
  <2>2. CASE pipe' = Append(pipe, w)
    BY <1>1, <1>2, <1>3, <2>2, AppendHas, AppendProperties
  <2> QED BY <2>1, <2>2 DEF TakeWrite
<1>5. rpc' = [rpc EXCEPT !.inHand = w, !.queue = Tail(q)]
  BY DEF TakeWrite
<1> HIDE DEF q, w
<1>6. /\ rpc' \in ClientType /\ rpc'.queue = Tail(q) /\ rpc'.entry = rpc.entry
      /\ rpc'.slot = rpc.slot /\ rpc'.late = rpc.late /\ rpc'.responded = rpc.responded
      /\ rpc'.why = rpc.why /\ rpc'.reading = rpc.reading
  BY <1>2, <1>5 DEF IInv, TypeInv, ClientType
<1>7. UNCHANGED <<pc, work, failed, out, alive>>
  BY DEF TakeWrite, nativeVars
<1>8. WriteInv'
  <2>1. IsInjective(rpc'.queue) /\ IsInjective(pipe')
    BY <1>2, <1>4, <1>6
  <2>2. \A v \in Writes :
          /\ pc'[v] = "idle" => ~Contains(rpc'.queue, v) /\ ~Contains(pipe', v)
          /\ Contains(rpc'.queue, v) => ~Contains(pipe', v)
    BY <1>2, <1>3, <1>4, <1>6, <1>7 DEF IInv, WriteInv, q
  <2>3. \A c \in Calls :
          /\ Contains(rpc'.queue, c) \/ Contains(pipe', c) => work'[c] = "none"
          /\ pc'[c] = "idle" => /\ work'[c] = "none" /\ rpc'.entry[c] = "none"
                                /\ rpc'.slot[c] = "none" /\ rpc'.late[c] = "none"
                                /\ c \notin rpc'.responded
    BY <1>2, <1>4, <1>6, <1>7 DEF IInv, WriteInv, q
  <2> QED BY <2>1, <2>2, <2>3 DEF WriteInv
<1>9. CallInv'
  BY <1>6, <1>7 DEF CallInv, IInv
<1>10. FrameInv'
  <2>1. \A d \in Calls : Owed(d)' => Owed(d)
    BY <1>6 DEF Owed
  <2>2. Up' /\ rpc'.reading => Up /\ rpc.reading
    BY <1>6 DEF Up
  <2> QED BY <1>7, <2>1, <2>2, FramesKept, FrameCalls DEF IInv
<1>11. TypeInv'
  BY <1>4, <1>6, <1>7 DEF TypeInv, IInv
<1> QED BY <1>8, <1>9, <1>10, <1>11 DEF IInv

-----------------------------------------------------------------------------
(* The reader takes a frame.                                               *)

\* The frames that are left are right when the one that is taken pays what it may owe.
LEMMA TailFrames ==
  ASSUME TypeInv, FrameInv, UNCHANGED <<work, failed>>, out # <<>>, out' = Tail(out),
         Up' /\ rpc'.reading => Up /\ rpc.reading,
         \A c \in Calls : Owed(c)' =>
            Owed(c) /\ (Head(out).kind = "response" => Head(out).call # c)
  PROVE  FrameInv'
<1>1. /\ Len(out) \in Nat \ {0} /\ DOMAIN out = 1..Len(out)
      /\ DOMAIN out' = 1..(Len(out) - 1)
      /\ \A i \in 1..(Len(out) - 1) : out'[i] = out[i + 1]
      /\ Head(out) = out[1]
  BY HeadTailProperties, EmptySeq, LenProperties DEF TypeInv
<1>2. \A i \in DOMAIN out' : i + 1 \in DOMAIN out /\ out'[i] = out[i + 1]
  BY <1>1
<1>3. \A c \in Calls : First(c)' = First(c) /\ First(c).kind = "response" /\ First(c).call = c
  BY DEF First, Frame
<1>4. ASSUME NEW c \in Calls, Owed(c)', NEW i \in DOMAIN out, out[i] = First(c)
      PROVE  i - 1 \in DOMAIN out' /\ out'[i - 1] = First(c)' /\ i # 1
  <2>1. i # 1
    BY <1>1, <1>3, <1>4
  <2>2. i - 1 \in 1..(Len(out) - 1) /\ (i - 1) + 1 = i
    BY <1>1, <2>1
  <2> QED BY <1>1, <1>3, <1>4, <2>1, <2>2
<1>5. ASSUME NEW i \in DOMAIN out', out'[i].kind = "response"
      PROVE  Follows(i)'
  <2>0. PICK c \in Calls : c = out[i + 1].call
    BY <1>2, <1>5, FrameCalls
  <2>1. i + 1 \in DOMAIN out /\ out'[i] = out[i + 1] /\ Follows(i + 1) /\ i \in Nat /\ c = out'[i].call
    BY <1>1, <1>2, <1>5, <2>0 DEF FrameInv
  <2>2. /\ work[c] \in Said
        /\ \/ out[i + 1] = First(c)
           \/ c \in failed /\ out[i + 1].result = "error" /\ work[c] \in {"ok", "bad"}
        /\ Owed(c) /\ out[i + 1] # First(c) => \E j \in 1..((i + 1) - 1) : out[j] = First(c)
    BY <2>0, <2>1 DEF Follows
  <2>3. ASSUME Owed(c)', out'[i] # First(c)'
        PROVE  \E j \in 1..(i - 1) : out'[j] = First(c)'
    <3>2. PICK j \in 1..i : out[j] = First(c)
      <4>1. Owed(c) /\ out[i + 1] # First(c) /\ (i + 1) - 1 = i
        BY <1>3, <2>1, <2>3
      <4> QED BY <2>2, <4>1
    <3>3. j \in DOMAIN out
      BY <1>1, <2>1, <3>2
    <3>4. out'[j - 1] = First(c)' /\ j # 1
      BY <1>4, <2>1, <2>3, <3>2, <3>3
    <3>5. j - 1 \in 1..(i - 1)
      BY <2>1, <3>2, <3>4
    <3> QED BY <3>4, <3>5
  <2> QED BY <1>3, <2>1, <2>2, <2>3 DEF Follows
<1>6. ASSUME NEW c \in Calls, Up', rpc'.reading, Owed(c)', work'[c] \in Said
      PROVE  \E i \in DOMAIN out' : out'[i] = First(c)'
  <2>1. PICK i \in DOMAIN out : out[i] = First(c)
    BY <1>6 DEF FrameInv, Said
  <2> QED BY <1>4, <1>6, <2>1
<1> QED BY <1>5, <1>6 DEF FrameInv

\* A frame pays what it owes to its call, first answer first.
LEMMA ReadKeeps ==
  ASSUME IInv, Read
  PROVE  IInv'
<1> DEFINE f == Head(out)
<1>1. f \in FrameType /\ out # <<>> /\ out \in Seq(FrameType) /\ Tail(out) \in Seq(FrameType)
      /\ out[1] = f /\ 1 \in DOMAIN out
  BY HeadTailProperties, EmptySeq, LenProperties DEF Read, IInv, TypeInv
<1>2. rpc' \in ClientType /\ (out' = Tail(out) \/ (out' = <<>> /\ ~rpc'.reading))
      /\ (rpc'.reading => out' = Tail(out)) /\ (~rpc'.reading => out' = <<>>)
      /\ UNCHANGED <<pc, pipe, work, failed, alive>>
  BY <1>1, AcceptedIs DEF Read, IInv, TypeInv
<1>3. TypeInv'
  BY <1>1, <1>2, EmptyHas DEF IInv, TypeInv
<1>4. CASE Stays(rpc, rpc') /\ ~rpc'.reading
  BY <1>2, <1>3, <1>4, QuietKeeps DEF Quiet
<1>5. CASE Stays(rpc, rpc') /\ rpc'.reading /\ \A c \in Calls : Owed(c)' =>
            Owed(c) /\ (f.kind = "response" => f.call # c)
  <2>1. FrameInv'
    BY <1>1, <1>2, <1>5, TailFrames DEF IInv, Stays, Up
  <2>2. WriteInv'
    <3>1. rpc'.queue = rpc.queue \/ rpc'.queue = <<>>
      BY <1>5 DEF Stays
    <3>2. IsInjective(rpc'.queue) /\ \A w : Contains(rpc'.queue, w) => Contains(rpc.queue, w)
      BY <3>1, EmptyHas DEF IInv, WriteInv
    <3>3. \A c \in Calls : pc'[c] = "idle" =>
            /\ rpc'.entry[c] = "none" /\ rpc'.slot[c] = "none" /\ rpc'.late[c] = "none"
            /\ c \notin rpc'.responded
      BY <1>2, <1>5 DEF IInv, WriteInv, Stays
    <3> QED BY <1>2, <3>2, <3>3 DEF WriteInv, IInv
  <2>3. CallInv'
    BY <1>2, <1>5 DEF IInv, CallInv, Stays, Said
  <2> QED BY <1>3, <2>1, <2>2, <2>3 DEF IInv
<1>6. ASSUME f.kind = "response", Accepts(rpc, rpc', f.call), rpc'.reading,
             AcceptsFirst(rpc, rpc', f.call, f.result) \/ AcceptsLate(rpc, rpc', f.call, f.result)
      PROVE  IInv'
  <2>0. PICK c \in Calls, x \in Said : c = f.call /\ x = f.result
    BY <1>1, <1>6, FrameCalls DEF IInv
  <2>1. c \in Calls /\ x \in Said /\ Follows(1) /\ out' = Tail(out) /\ c = out[1].call /\ x = out[1].result
    BY <1>1, <1>2, <1>6, <2>0 DEF IInv, FrameInv
  <2>a. Accepts(rpc, rpc', c) /\ (AcceptsFirst(rpc, rpc', c, x) \/ AcceptsLate(rpc, rpc', c, x))
    BY <1>6, <2>0
  <2>2. rpc.entry[c] = "waiting" /\ pc[c] # "idle"
    BY <2>a, <2>1 DEF Accepts, IInv, WriteInv
  <2>3. c \notin rpc.responded => work[c] = x
    <3>1. c \notin rpc.responded => Owed(c)
      BY <2>2 DEF Owed
    <3>2. ~ \E j \in 1..(1 - 1) : out[j] = First(c)
      OBVIOUS
    <3>3. c \notin rpc.responded => out[1] = First(c)
      BY <1>1, <2>1, <3>1, <3>2 DEF Follows
    <3> QED BY <2>1, <3>3 DEF First, Frame
  <2>4. \A d \in Calls \ {c} : /\ rpc'.entry[d] = rpc.entry[d] /\ rpc'.slot[d] = rpc.slot[d]
                               /\ rpc'.late[d] = rpc.late[d]
                               /\ (d \in rpc'.responded <=> d \in rpc.responded)
    BY <2>a DEF Accepts, AcceptsFirst, AcceptsLate
  <2>5. ~Owed(c)' /\ \A d \in Calls : Owed(d)' => Owed(d) /\ d # c
    BY <2>a, <2>1, <2>4 DEF Owed, AcceptsFirst, AcceptsLate
  <2>6. FrameInv'
    <3>1. Up' /\ rpc'.reading => Up /\ rpc.reading
      BY <1>6, <2>a DEF Accepts, Up
    <3> QED BY <1>1, <1>2, <1>6, <2>0, <2>1, <2>5, <3>1, TailFrames DEF IInv
  <2>7. WriteInv'
    <3>1. rpc'.queue = rpc.queue
      BY <2>a DEF Accepts
    <3>2. \A d \in Calls : pc'[d] = "idle" =>
            /\ rpc'.entry[d] = "none" /\ rpc'.slot[d] = "none" /\ rpc'.late[d] = "none"
            /\ d \notin rpc'.responded
      BY <1>2, <2>2, <2>4 DEF IInv, WriteInv
    <3> QED BY <1>2, <3>1, <3>2 DEF WriteInv, IInv
  <2>8. CallInv'
    <3>1. \A d \in Calls \ {c} :
            /\ rpc'.entry[d] = "waiting" => /\ rpc'.late[d] = "none"
                                            /\ d \notin rpc'.responded => rpc'.slot[d] = "none"
            /\ rpc'.slot[d] \in Said => work'[d] = rpc'.slot[d]
      BY <1>2, <2>4 DEF IInv, CallInv
    <3>2. rpc'.slot[c] \in Said => work'[c] = rpc'.slot[c]
      BY <1>2, <2>a, <2>1, <2>3 DEF IInv, CallInv, AcceptsFirst, AcceptsLate
    <3>3. rpc'.entry[c] = "waiting" => rpc'.late[c] = "none" /\ c \in rpc'.responded
      BY <2>a, <2>1, <2>2 DEF IInv, CallInv, AcceptsFirst, AcceptsLate
    <3> QED BY <3>1, <3>2, <3>3 DEF CallInv
  <2> QED BY <1>3, <2>6, <2>7, <2>8 DEF IInv
<1>7. /\ f.kind # "response" => Stays(rpc, rpc')
      /\ f.kind = "response" =>
           Refused(rpc, rpc') \/ Forgotten(rpc, rpc', f.call)
             \/ AcceptsFirst(rpc, rpc', f.call, f.result) \/ AcceptsLate(rpc, rpc', f.call, f.result)
  BY <1>1, AcceptedIs DEF Read, IInv, TypeInv
<1>8. CASE f.kind # "response"
  <2>1. \A c \in Calls : Owed(c)' => Owed(c)
    BY <1>7, <1>8 DEF Owed, Stays
  <2> QED BY <1>4, <1>5, <1>7, <1>8, <2>1
<1>9. CASE f.kind = "response"
  <2>1. CASE Refused(rpc, rpc')
    BY <1>4, <2>1 DEF Refused
  <2>2. CASE Forgotten(rpc, rpc', f.call)
    <3>1. \A c \in Calls : Owed(c)' => Owed(c) /\ f.call # c
      BY <2>2 DEF Owed, Forgotten, Stays
    <3> QED BY <1>4, <1>5, <2>2, <3>1 DEF Forgotten
  <2>3. CASE AcceptsFirst(rpc, rpc', f.call, f.result) \/ AcceptsLate(rpc, rpc', f.call, f.result)
    BY <1>6, <1>9, <2>3 DEF AcceptsFirst, AcceptsLate, Accepts, Read
  <2> QED BY <1>7, <1>9, <2>1, <2>2, <2>3
<1> QED BY <1>8, <1>9

-----------------------------------------------------------------------------
(* Native.                                                                 *)

\* A frame is written after all the others, or, when the client has stopped, not at all.
LEMMA SaysIs ==
  ASSUME TypeInv, NEW f \in FrameType \ {Part}, Says(f) \/ Emit(<<f>>)
  PROVE  /\ out' \in Seq(FrameType)
         /\ Up /\ rpc.reading => \E i \in DOMAIN out' : out'[i] = f
         /\ \A i \in DOMAIN out : i \in DOMAIN out' /\ out'[i] = out[i]
         /\ \A i \in DOMAIN out' : \/ i \in DOMAIN out
                                   \/ /\ out'[i] \in {Part, f} /\ Up /\ rpc.reading
                                      /\ \A j \in DOMAIN out : j < i
<1>1. CASE out' = out
  <2>1. ~(Up /\ rpc.reading)
    <3>1. CASE out' = out \o <<f>>
      <4>1. Len(out') = Len(out) + 1
        BY <3>1, ConcatProperties DEF TypeInv
      <4>2. Len(out) \in Nat
        BY LenProperties DEF TypeInv
      <4> QED BY <1>1, <4>1, <4>2
    <3>2. CASE out' = out \o <<Part, f>>
      <4>1. Len(out') = Len(out) + 2
        BY <3>2, ConcatProperties DEF TypeInv, FrameType
      <4>2. Len(out) \in Nat
        BY LenProperties DEF TypeInv
      <4> QED BY <1>1, <4>1, <4>2
    <3> QED BY <3>1, <3>2 DEF Says, Emit
  <2> QED BY <1>1, <2>1 DEF TypeInv
<1>2. CASE out' = out \o <<f>> /\ Up /\ rpc.reading
  <2>1. /\ out' \in Seq(FrameType) /\ Len(out') = Len(out) + 1
        /\ \A i \in 1..Len(out) : out'[i] = out[i]
        /\ out'[Len(out) + 1] = f
    BY <1>2, ConcatProperties DEF TypeInv
  <2>2. Len(out) \in Nat /\ DOMAIN out = 1..Len(out) /\ DOMAIN out' = 1..(Len(out) + 1)
    BY <2>1, LenProperties DEF TypeInv
  <2>3. \A i \in DOMAIN out' : i \in DOMAIN out \/ (i = Len(out) + 1 /\ \A j \in DOMAIN out : j < i)
    BY <2>2
  <2>4. Len(out) + 1 \in DOMAIN out' /\ \A i \in DOMAIN out : i \in DOMAIN out'
    BY <2>2
  <2> QED BY <1>2, <2>1, <2>2, <2>3, <2>4
<1>3. CASE out' = out \o <<Part, f>> /\ Up /\ rpc.reading
  <2>1. /\ out' \in Seq(FrameType) /\ Len(out') = Len(out) + 2
        /\ \A i \in 1..Len(out) : out'[i] = out[i]
        /\ out'[Len(out) + 1] = Part /\ out'[Len(out) + 2] = f
    BY <1>3, ConcatProperties DEF TypeInv, FrameType
  <2>2. Len(out) \in Nat /\ DOMAIN out = 1..Len(out) /\ DOMAIN out' = 1..(Len(out) + 2)
    BY <2>1, LenProperties DEF TypeInv
  <2>3. \A i \in DOMAIN out' : i \in DOMAIN out
          \/ ((i = Len(out) + 1 \/ i = Len(out) + 2) /\ \A j \in DOMAIN out : j < i)
    BY <2>2
  <2>4. Len(out) + 2 \in DOMAIN out' /\ \A i \in DOMAIN out : i \in DOMAIN out'
    BY <2>2
  <2> QED BY <1>3, <2>1, <2>2, <2>3, <2>4
<1> QED BY <1>1, <1>2, <1>3 DEF Says, Emit

\* A frame that answers no call.
LEMMA NoticeKeeps ==
  ASSUME IInv, NEW f \in FrameType \ {Part}, f.kind # "response", Says(f) \/ Emit(<<f>>),
         UNCHANGED <<rpc, pc, pipe, work, failed, alive>>
  PROVE  IInv'
<1>1. /\ out' \in Seq(FrameType)
      /\ \A i \in DOMAIN out : i \in DOMAIN out' /\ out'[i] = out[i]
      /\ \A i \in DOMAIN out' : i \in DOMAIN out \/ out'[i] \in {Part, f}
  BY SaysIs DEF IInv
<1>2. Part.kind # "response"
  BY DEF Part, Frame
<1>3. \A i \in DOMAIN out' : out'[i].kind = "response" => i \in DOMAIN out /\ out'[i] = out[i]
  BY <1>1, <1>2
<1>4. /\ Len(out) \in Nat /\ DOMAIN out = 1..Len(out)
  BY LenProperties DEF IInv, TypeInv
<1>5. \A i \in DOMAIN out' : out'[i].kind = "response" => Follows(i)'
  <2> SUFFICES ASSUME NEW i \in DOMAIN out', out'[i].kind = "response" PROVE Follows(i)'
    OBVIOUS
  <2>1. Follows(i) /\ out'[i] = out[i] /\ \A j \in 1..(i - 1) : out'[j] = out[j]
    BY <1>1, <1>3, <1>4 DEF IInv, FrameInv
  <2> QED BY <2>1 DEF Follows, First, Owed
<1>6. \A c \in Calls : Up' /\ rpc'.reading /\ Owed(c)' /\ work'[c] \in Said
                         => \E i \in DOMAIN out' : out'[i] = First(c)'
  BY <1>1 DEF IInv, FrameInv, Up, Owed, First
<1>7. FrameInv'
  BY <1>5, <1>6 DEF FrameInv
<1> QED BY <1>1, <1>7 DEF IInv, TypeInv, WriteInv, CallInv

\* What native reads was written once, so its work had not begun.
LEMMA NativeReadsKeeps ==
  ASSUME IInv, NativeReads
  PROVE  IInv'
<1> DEFINE w == Head(pipe)
<1>1. /\ IsInjective(pipe') /\ w \in Writes /\ Contains(pipe, w) /\ pipe' \in Seq(Writes)
      /\ \A v : Contains(pipe', v) <=> Contains(pipe, v) /\ v # w
  BY TailHas, HeadTailProperties DEF NativeReads, IInv, TypeInv, WriteInv
<1>2. pc[w] # "idle" /\ ~Contains(rpc.queue, w) /\ (w \in Calls => work[w] = "none")
  BY <1>1 DEF IInv, WriteInv
<1>3. /\ \A c \in Calls : work'[c] = IF c = w THEN "running" ELSE work[c]
      /\ work' \in [Calls -> Said \cup {"none", "running"}]
      /\ UNCHANGED <<rpc, pc, failed, out, alive>>
  BY DEF NativeReads, IInv, TypeInv
<1>4. \A c \in Calls : work'[c] # work[c] => work[c] = "none" /\ work'[c] = "running" /\ pc[c] # "idle"
  BY <1>2, <1>3
<1>5. WriteInv'
  BY <1>1, <1>2, <1>3, <1>4 DEF IInv, WriteInv
<1>6. CallInv'
  BY <1>3, <1>4 DEF IInv, CallInv, Said
<1>7. FrameInv'
  <2>1. \A c \in Calls : work[c] \in Said => work'[c] = work[c]
    BY <1>4 DEF Said
  <2>2. \A c \in Calls : work'[c] \in Said => work'[c] = work[c]
    BY <1>4 DEF Said
  <2>3. \A i \in DOMAIN out' : out'[i].kind = "response" => Follows(i)'
    <3> SUFFICES ASSUME NEW i \in DOMAIN out, out[i].kind = "response" PROVE Follows(i)'
      BY <1>3
    <3>1. out[i].call \in Calls /\ Follows(i)
      BY FrameCalls DEF IInv, FrameInv
    <3> QED BY <1>3, <2>1, <3>1 DEF Follows, First, Owed
  <2>4. \A c \in Calls : Up' /\ rpc'.reading /\ Owed(c)' /\ work'[c] \in Said
                           => \E i \in DOMAIN out' : out'[i] = First(c)'
    BY <1>3, <2>2 DEF IInv, FrameInv, Up, Owed, First
  <2> QED BY <2>3, <2>4 DEF FrameInv
<1>8. TypeInv'
  BY <1>1, <1>3 DEF IInv, TypeInv
<1> QED BY <1>5, <1>6, <1>7, <1>8 DEF IInv

\* Native answers a call it performs for the first time.
LEMMA NativeAnswersKeeps ==
  ASSUME IInv, NEW c \in Calls, NativeAnswers(c)
  PROVE  IInv'
<1>1. PICK x \in Said : work' = [work EXCEPT ![c] = x] /\ Says(Frame("response", c, x))
  BY RpcAssumption DEF NativeAnswers, Said
<1>2. /\ work[c] = "running" /\ work'[c] = x /\ \A d \in Calls \ {c} : work'[d] = work[d]
      /\ work' \in [Calls -> Said \cup {"none", "running"}]
      /\ UNCHANGED <<rpc, pc, pipe, failed, alive>>
  BY <1>1 DEF NativeAnswers, IInv, TypeInv
<1> DEFINE f == Frame("response", c, x)
<1>3. f \in FrameType \ {Part} /\ f.kind = "response" /\ f.call = c /\ f.result = x
  BY DEF FrameType, Frame, Part
<1>4. f = First(c)'
  BY <1>2 DEF First
<1> HIDE DEF f
<1>5. /\ out' \in Seq(FrameType)
      /\ Up /\ rpc.reading => \E i \in DOMAIN out' : out'[i] = f
      /\ \A i \in DOMAIN out : i \in DOMAIN out' /\ out'[i] = out[i]
      /\ \A i \in DOMAIN out' : i \in DOMAIN out \/ out'[i] \in {Part, f}
  BY <1>1, <1>3, SaysIs DEF IInv, f
<1>6. Part.kind # "response"
  BY DEF Part, Frame
<1>7. \A i \in DOMAIN out : out[i].kind = "response" => out[i].call \in Calls \ {c} /\ Follows(i)
  BY <1>2, FrameCalls DEF IInv, FrameInv, Follows, Said
<1>8. /\ Len(out) \in Nat /\ DOMAIN out = 1..Len(out)
  BY LenProperties DEF IInv, TypeInv
<1>9. ASSUME NEW i \in DOMAIN out', out'[i].kind = "response"
      PROVE  Follows(i)'
  <2>1. CASE i \in DOMAIN out
    <3>1. /\ out[i].kind = "response" /\ out[i].call \in Calls \ {c} /\ Follows(i)
          /\ out'[i] = out[i] /\ \A j \in 1..(i - 1) : out'[j] = out[j]
      BY <1>5, <1>7, <1>8, <1>9, <2>1
    <3> QED BY <1>2, <3>1 DEF Follows, First, Owed
  <2>2. CASE i \notin DOMAIN out
    <3>1. out'[i] = First(c)' /\ out'[i].call = c
      BY <1>3, <1>4, <1>5, <1>6, <1>9, <2>2
    <3> QED BY <1>1, <1>2, <3>1 DEF Follows
  <2> QED BY <2>1, <2>2
<1>10. ASSUME NEW d \in Calls, Up', rpc'.reading, Owed(d)', work'[d] \in Said
       PROVE  \E i \in DOMAIN out' : out'[i] = First(d)'
  <2>1. CASE d = c
    BY <1>2, <1>4, <1>5, <1>10, <2>1 DEF Up
  <2>2. CASE d # c
    <3>1. Up /\ rpc.reading /\ Owed(d) /\ work[d] \in Said /\ First(d)' = First(d)
      BY <1>2, <1>10, <2>2 DEF Up, Owed, First
    <3> QED BY <1>5, <3>1 DEF IInv, FrameInv
  <2> QED BY <2>1, <2>2
<1>11. FrameInv'
  BY <1>9, <1>10 DEF FrameInv
<1>12. WriteInv'
  <2>1. pc[c] # "idle" /\ ~Contains(rpc.queue, c) /\ ~Contains(pipe, c)
    BY <1>2 DEF IInv, WriteInv
  <2> QED BY <1>2, <2>1 DEF IInv, WriteInv
<1>13. CallInv'
  <2>1. rpc.slot[c] \notin Said
    BY <1>2 DEF IInv, CallInv, Said
  <2> QED BY <1>2, <2>1 DEF IInv, CallInv
<1>14. TypeInv'
  BY <1>2, <1>5 DEF IInv, TypeInv
<1> QED BY <1>11, <1>12, <1>13, <1>14 DEF IInv

\* The late error of a prompt comes after its first answer.
LEMMA NativeFailsKeeps ==
  ASSUME IInv, NEW p \in Prompts, NativeFails(p)
  PROVE  IInv'
<1> DEFINE f == Frame("response", p, "error")
<1>1. /\ p \in Calls /\ work[p] \in {"ok", "bad"} /\ failed' = failed \cup {p} /\ Says(f)
      /\ UNCHANGED <<rpc, pc, pipe, work, alive>>
  BY Names DEF NativeFails
<1>2. f \in FrameType \ {Part} /\ f.kind = "response" /\ f.call = p /\ f.result = "error"
  BY <1>1 DEF FrameType, Frame, Part, Said
<1> HIDE DEF f
<1>3. /\ out' \in Seq(FrameType)
      /\ \A i \in DOMAIN out : i \in DOMAIN out' /\ out'[i] = out[i]
      /\ \A i \in DOMAIN out' : \/ i \in DOMAIN out
                                \/ /\ out'[i] \in {Part, f} /\ Up /\ rpc.reading
                                   /\ \A j \in DOMAIN out : j < i
  BY <1>1, <1>2, SaysIs DEF IInv
<1>4. Part.kind # "response"
  BY DEF Part, Frame
<1>5. /\ Len(out) \in Nat /\ DOMAIN out = 1..Len(out) /\ Len(out') \in Nat /\ DOMAIN out' = 1..Len(out')
  BY <1>3, LenProperties DEF IInv, TypeInv
<1>6. ASSUME NEW i \in DOMAIN out', out'[i].kind = "response"
      PROVE  Follows(i)'
  <2>1. CASE i \in DOMAIN out
    <3>1. /\ Follows(i) /\ out'[i] = out[i] /\ \A j \in 1..(i - 1) : out'[j] = out[j]
      BY <1>3, <1>5, <1>6, <2>1 DEF IInv, FrameInv
    <3> QED BY <1>1, <3>1 DEF Follows, First, Owed
  <2>2. CASE i \notin DOMAIN out
    <3>1. /\ out'[i] = f /\ Up /\ rpc.reading /\ \A j \in DOMAIN out : j < i
      BY <1>3, <1>4, <1>6, <2>2
    <3>2. Owed(p) => \E j \in DOMAIN out : out[j] = First(p)
      BY <1>1, <3>1 DEF IInv, FrameInv, Said
    <3>3. Owed(p) => \E j \in 1..(i - 1) : out'[j] = First(p)
      <4> SUFFICES ASSUME Owed(p) PROVE \E j \in 1..(i - 1) : out'[j] = First(p)
        OBVIOUS
      <4>1. PICK j \in DOMAIN out : out[j] = First(p)
        BY <3>2
      <4>2. j \in 1..(i - 1) /\ out'[j] = out[j]
        BY <1>3, <1>5, <3>1, <4>1
      <4> QED BY <4>1, <4>2
    <3>4. First(p)' = First(p) /\ Owed(p)' = Owed(p) /\ out'[i].call = p /\ out'[i].result = "error"
      BY <1>1, <1>2, <3>1 DEF First, Owed
    <3>5. p \in failed' /\ work'[p] \in {"ok", "bad"}
      BY <1>1
    <3> QED BY <3>3, <3>4, <3>5 DEF Follows, Said
  <2> QED BY <2>1, <2>2
<1>7. \A c \in Calls : Up' /\ rpc'.reading /\ Owed(c)' /\ work'[c] \in Said
                         => \E i \in DOMAIN out' : out'[i] = First(c)'
  BY <1>1, <1>3 DEF IInv, FrameInv, Up, Owed, First
<1>8. FrameInv'
  BY <1>6, <1>7 DEF FrameInv
<1> QED BY <1>1, <1>3, <1>8 DEF IInv, TypeInv, WriteInv, CallInv

-----------------------------------------------------------------------------
(* The invariant, and what it is for.                                      *)

\* Every step keeps the invariant.
LEMMA Inductive == IInv /\ [Next]_vars => IInv'
<1> SUFFICES ASSUME IInv, [Next]_vars PROVE IInv'
  OBVIOUS
<1>a. TypeInv /\ IsInjective(pipe)
  BY DEF IInv, WriteInv
<1>1. ASSUME NEW w \in Writes, WriteSettled(w) PROVE IInv'
  BY <1>a, <1>1, WriteSettledQuiet, QuietKeeps
<1>2. ASSUME NEW c \in Calls, Call(c) PROVE IInv'
  BY <1>2, CallKeeps
<1>3. ASSUME NEW c \in Calls, TakeResponse(c) PROVE IInv'
  BY <1>a, <1>3, TakeResponseQuiet, QuietKeeps
<1>4. ASSUME NEW c \in Calls, WriteReturned(c) \/ Leaves(c) PROVE IInv'
  BY <1>a, <1>4, WriteReturnedQuiet, QuietKeeps
<1>5. ASSUME NEW c \in Calls, GiveUp(c) PROVE IInv'
  BY <1>a, <1>5, GiveUpQuiet, QuietKeeps
<1>6. ASSUME NEW p \in Prompts, Finish(p) PROVE IInv'
  BY <1>a, <1>6, FinishQuiet, QuietKeeps
<1>7. ASSUME NEW u \in Uis, CancelUI(u) PROVE IInv'
  BY <1>7, CancelUIKeeps
<1>8. CASE EndInput
  BY <1>8, EndInputKeeps
<1>9. CASE Close
  BY <1>a, <1>9, CloseQuiet, QuietKeeps
<1>10. CASE TakeWrite
  BY <1>10, TakeWriteKeeps
<1>11. CASE WriteReturns
  BY <1>a, <1>11, WriteReturnsQuiet, QuietKeeps
<1>12. CASE WriteFails
  BY <1>a, <1>12, WriteFailsQuiet, QuietKeeps
<1>13. CASE CloseInput
  BY <1>a, <1>13, CloseInputQuiet, QuietKeeps
<1>14. CASE Drain
  BY <1>a, <1>14, DrainQuiet, QuietKeeps
<1>15. CASE Read
  BY <1>15, ReadKeeps
<1>16. CASE OutputEnds
  BY <1>a, <1>16, OutputEndsQuiet, QuietKeeps
<1>17. CASE ReaderReturns
  BY <1>a, <1>17, ReaderReturnsQuiet, QuietKeeps
<1>18. CASE NativeReady
  <2> DEFINE f == Frame("ready", "none", "none")
  <2>1. f \in FrameType \ {Part} /\ f.kind # "response"
    BY DEF FrameType, Frame, Part
  <2> QED BY <1>18, <2>1, NoticeKeeps DEF NativeReady
<1>19. CASE NativeEvent
  <2> DEFINE f == Frame("event", "none", "none")
  <2>1. f \in FrameType \ {Part} /\ f.kind # "response"
    BY DEF FrameType, Frame, Part
  <2> QED BY <1>19, <2>1, NoticeKeeps DEF NativeEvent
<1>20. CASE NativeReads
  BY <1>20, NativeReadsKeeps
<1>21. ASSUME NEW c \in Calls, NativeAnswers(c) PROVE IInv'
  BY <1>21, NativeAnswersKeeps
<1>22. ASSUME NEW p \in Prompts, NativeFails(p) PROVE IInv'
  BY <1>22, NativeFailsKeeps
<1>23. CASE NativeExits
  BY <1>a, <1>23, NativeExitsQuiet, QuietKeeps
<1>24. CASE UNCHANGED vars
  BY <1>24 DEF vars, nativeVars, IInv, TypeInv, WriteInv, CallInv, FrameInv, Follows, First, Owed, Up
<1> QED BY <1>1, <1>2, <1>3, <1>4, <1>5, <1>6, <1>7, <1>8, <1>9, <1>10, <1>11, <1>12, <1>13,
           <1>14, <1>15, <1>16, <1>17, <1>18, <1>19, <1>20, <1>21, <1>22, <1>23, <1>24
        DEF Next, Caller, Writer, Reader, Native

\* It holds at first.
LEMMA Initial == Init => IInv
<1> SUFFICES ASSUME Init PROVE IInv
  OBVIOUS
<1>1. /\ IsInjective(<<>>) /\ \A n : ~Contains(<<>>, n)
      /\ <<>> \in Seq(Writes) /\ <<>> \in Seq(FrameType)
  BY EmptyHas
<1>2. \A i \in DOMAIN out : FALSE
  BY EmptyHas, EmptySeq, LenProperties DEF Contains, Init
<1>3. NewClient \in ClientType
  BY <1>1 DEF NewClient, ClientType, Whys, Lates, Results
<1>4. TypeInv
  BY <1>1, <1>3 DEF Init, TypeInv, PCs
<1>5. WriteInv
  BY <1>1 DEF Init, NewClient, WriteInv
<1>6. CallInv
  BY DEF Init, NewClient, CallInv, Said
<1>7. FrameInv
  BY <1>2 DEF Init, NewClient, FrameInv, Owed, Said
<1> QED BY <1>4, <1>5, <1>6, <1>7 DEF IInv

\* The invariant holds: writes are made once, what the client keeps of a call's answer is
\* what native said, and native's answers are read in the order of its work.
THEOREM Invariant == Spec => []IInv
BY Initial, Inductive, PTL DEF Spec

-----------------------------------------------------------------------------
(* Every step of the client is a step, or none, of the calls it promises.  *)

\* What a caller has heard of a call, as RemoteCall sees it.
LEMMA HeardIs ==
  /\ Heard["idle"] = "idle" /\ Heard["admission"] = "waiting" /\ Heard["response"] = "waiting"
  /\ Heard["leaving"] = "waiting"
  /\ \A x \in {"ok", "bad", "held", "finished", "failed", "unavailable"} : Heard[x] = "ok"
  /\ Heard["lost"] = "closed" /\ Heard["busy"] = "closed"
  /\ Heard["error"] = "error" /\ Heard["gaveup"] = "gaveup"
  /\ \A x \in PCs : Heard[x] = "idle" => x = "idle"
BY DEF Heard, PCs, Results

remoteCaller == [c \in Calls |-> Heard[pc[c]]]
remoteWork == [c \in Calls |-> IF work[c] = "bad" THEN "ok" ELSE work[c]]

\* A step that leaves every call as its caller and native see it.
Same == \A c \in Calls : Heard[pc'[c]] = Heard[pc[c]] /\ work'[c] = work[c]

\* A step that changes no caller's news and no work is a stutter of RemoteCall.
LEMMA SameStutters ==
  ASSUME Same
  PROVE  UNCHANGED <<remoteCaller, remoteWork>>
BY DEF Same, remoteCaller, remoteWork

\* A step of one call's caller.
LEMMA CallerStep ==
  ASSUME IInv, NEW c \in Calls, NEW x \in PCs, Hears(c, x), UNCHANGED work
  PROVE  /\ remoteCaller' = [remoteCaller EXCEPT ![c] = Heard[x]] /\ UNCHANGED remoteWork
         /\ remoteCaller[c] = Heard[pc[c]] /\ remoteWork[c] = IF work[c] = "bad" THEN "ok" ELSE work[c]
BY Names DEF Hears, remoteCaller, remoteWork, IInv, TypeInv

\* Every step of the client, its callers and native is one of RemoteCall, or a stutter.
LEMMA Refines == IInv /\ [Next]_vars => [Remote!Next]_<<remoteCaller, remoteWork>>
<1> SUFFICES ASSUME IInv, [Next]_vars PROVE Remote!Next \/ UNCHANGED <<remoteCaller, remoteWork>>
  OBVIOUS
<1>a. remoteCaller = [c \in Calls |-> Heard[pc[c]]]
      /\ remoteWork = [c \in Calls |-> IF work[c] = "bad" THEN "ok" ELSE work[c]]
  BY DEF remoteCaller, remoteWork
<1>1. ASSUME NEW w \in Writes \ Calls, NEW x, Hears(w, x), UNCHANGED work
      PROVE  Same
  BY <1>1, Names DEF Hears, Same, IInv, TypeInv
<1>2. ASSUME NEW w \in Writes, WriteSettled(w) PROVE Same
  BY <1>1, <1>2 DEF WriteSettled, nativeVars
<1>3. ASSUME NEW c \in Calls, Call(c) PROVE Remote!Make(c)
  BY <1>a, <1>3, HeardIs, CallerStep, HearsNames DEF Call, Remote!Make, nativeVars, remoteCaller, remoteWork
<1>4. ASSUME NEW c \in Calls, TakeResponse(c) PROVE Remote!Settle(c)
  <2>1. rpc.slot[c] \in Results /\ (rpc.slot[c] \in Said => work[c] = rpc.slot[c])
    BY <1>4 DEF TakeResponse, IInv, TypeInv, ClientType, CallInv
  <2>2. PICK x \in PCs : /\ Hears(c, x)
                         /\ x = rpc.slot[c] \/ (x = "held" /\ rpc.slot[c] = "ok")
    BY <1>4, <2>1, HearsNames DEF TakeResponse
  <2>3. Heard[pc[c]] = "waiting" /\ UNCHANGED work
    BY <1>4, HeardIs DEF TakeResponse, Waits, nativeVars
  <2>4. Heard[x] \in {"gaveup", "closed"} \cup ({"ok", "error", "busy"} \cap {IF work[c] = "bad" THEN "ok" ELSE work[c]})
    <3>1. CASE rpc.slot[c] \in {"busy", "lost"}
      BY <2>2, <3>1, HeardIs
    <3>2. CASE rpc.slot[c] = "ok"
      BY <2>1, <2>2, <3>2, HeardIs DEF Said
    <3>3. CASE rpc.slot[c] = "error"
      BY <2>1, <2>2, <3>3, HeardIs DEF Said
    <3>4. CASE rpc.slot[c] = "bad"
      BY <2>1, <2>2, <3>4, HeardIs DEF Said
    <3> QED BY <2>1, <3>1, <3>2, <3>3, <3>4 DEF Results
  <2>5. /\ remoteCaller' = [remoteCaller EXCEPT ![c] = Heard[x]] /\ UNCHANGED remoteWork
        /\ remoteCaller[c] = "waiting" /\ remoteWork[c] = IF work[c] = "bad" THEN "ok" ELSE work[c]
    BY <2>2, <2>3, CallerStep
  <2>6. \E a \in {"gaveup", "closed"} \cup ({"ok", "error", "busy"} \cap {remoteWork[c]}) :
          remoteCaller' = [remoteCaller EXCEPT ![c] = a]
    BY <2>4, <2>5
  <2> QED BY <1>a, <2>5, <2>6 DEF Remote!Settle, Remote!Lost, Remote!Answers, remoteCaller, remoteWork
<1>5. ASSUME NEW c \in Calls, WriteReturned(c) \/ Leaves(c) PROVE Same
  BY <1>5, Names, HeardIs DEF WriteReturned, Leaves, Hears, Same, IInv, TypeInv, nativeVars
<1>6. ASSUME NEW c \in Calls, GiveUp(c) PROVE Remote!Settle(c)
  <2>1. Heard[pc[c]] = "waiting" /\ UNCHANGED work /\ Hears(c, "gaveup")
    BY <1>6, HeardIs DEF GiveUp, WriteLost, nativeVars
  <2> QED BY <1>a, <2>1, HeardIs, CallerStep, HearsNames DEF Remote!Settle, Remote!Lost, Remote!Answers, remoteCaller, remoteWork
<1>7. ASSUME NEW p \in Prompts, Finish(p) PROVE Same
  <2>1. /\ pc[p] = "held" /\ UNCHANGED work
        /\ Hears(p, "finished") \/ Hears(p, "failed") \/ Hears(p, "unavailable")
    BY <1>7 DEF Finish, nativeVars
  <2> QED BY <2>1, Names, HeardIs DEF Hears, Same, IInv, TypeInv
<1>8. ASSUME NEW u \in Uis, CancelUI(u) PROVE Same
  <2>1. u \in Writes \ Calls
    BY Names
  <2> QED BY <1>1, <1>8, <2>1 DEF CancelUI, nativeVars
<1>9. CASE EndInput
  <2>1. End \in Writes \ Calls
    BY Names
  <2> QED BY <1>1, <1>9, <2>1, SameStutters DEF EndInput, nativeVars
<1>10. CASE NativeReads
  <2>1. PICK w \in Writes : w = Head(pipe) /\ Contains(pipe, w)
    BY <1>10, TailHas DEF NativeReads, IInv, TypeInv, WriteInv
  <2>2. pc[w] # "idle" /\ (w \in Calls => work[w] = "none")
    BY <2>1 DEF IInv, WriteInv
  <2>3. work' = [c \in Calls |-> IF c = w THEN "running" ELSE work[c]] /\ UNCHANGED pc
    BY <1>10, <2>1 DEF NativeReads
  <2>4. CASE w \in Calls
    <3>1. remoteWork' = [remoteWork EXCEPT ![w] = "running"] /\ UNCHANGED remoteCaller
      BY <2>3, <2>4 DEF remoteWork, remoteCaller
    <3>2. remoteCaller[w] # "idle" /\ remoteWork[w] = "none"
      BY <2>1, <2>2, <2>4, HeardIs DEF remoteCaller, remoteWork, IInv, TypeInv
    <3>a. \E x \in {"running", "busy"} : remoteWork' = [remoteWork EXCEPT ![w] = x]
      BY <3>1
    <3>3. Remote!Begin(w)
      BY <1>a, <3>1, <3>2, <3>a DEF Remote!Begin, remoteCaller, remoteWork
    <3> QED BY <2>4, <3>3 DEF Remote!Next
  <2>5. CASE w \notin Calls
    BY <2>3, <2>5, SameStutters DEF Same
  <2> QED BY <2>4, <2>5
<1>11. ASSUME NEW c \in Calls, NativeAnswers(c) PROVE Remote!End(c)
  <2>1. PICK x \in Said : work' = [work EXCEPT ![c] = x]
    BY <1>11, RpcAssumption DEF NativeAnswers, Said
  <2>2. work[c] = "running" /\ UNCHANGED pc
    BY <1>11 DEF NativeAnswers
  <2>3. UNCHANGED remoteCaller /\ remoteWork[c] = "running"
        /\ remoteWork' = [remoteWork EXCEPT ![c] = IF x = "bad" THEN "ok" ELSE x]
    BY <2>1, <2>2 DEF remoteCaller, remoteWork, IInv, TypeInv
  <2> QED BY <1>a, <2>3 DEF Remote!End, Said, remoteCaller, remoteWork
<1>12. CASE \/ Close \/ Writer \/ Reader \/ NativeReady \/ NativeEvent \/ NativeExits
            \/ (\E p \in Prompts : NativeFails(p)) \/ UNCHANGED vars
  <2>1. UNCHANGED <<pc, work>>
    BY <1>12 DEF Close, Writer, TakeWrite, WriteReturns, WriteFails, CloseInput, Drain, Reader, Read,
       OutputEnds, ReaderReturns, NativeReady, NativeEvent, NativeExits, NativeFails, vars, nativeVars
  <2> QED BY <2>1, SameStutters DEF Same
<1> QED BY <1>2, <1>3, <1>4, <1>5, <1>6, <1>7, <1>8, <1>9, <1>10, <1>11, <1>12, SameStutters
        DEF Next, Caller, Native, Remote!Next

\* A call is performed at most once, and its caller hears what native first answered, or
\* that the answer is lost: the client implements the calls that RemoteCall specifies.
THEOREM ImplementsRemoteCallAlways == Spec => ImplementsRemoteCall
<1>1. Init => Remote!Init
  BY HeardIs, Names DEF Init, Remote!Init
<1>2. IInv /\ [Next]_vars => [Remote!Next]_<<[c \in Calls |-> Heard[pc[c]]],
                               [c \in Calls |-> IF work[c] = "bad" THEN "ok" ELSE work[c]]>>
  BY Refines DEF remoteCaller, remoteWork
<1> QED BY <1>1, <1>2, Invariant, PTL DEF Spec, ImplementsRemoteCall, Remote!Spec

-----------------------------------------------------------------------------
(* The limits, and the bytes that are retained.                            *)

HeldSlots(r) == {c \in Calls : Costs(r.slot[c]) = 1}
HeldLates(r) == {c \in Calls : Costs(r.late[c]) = 1}
Exact(r) == /\ IsFiniteSet(HeldSlots(r)) /\ IsFiniteSet(HeldLates(r))
            /\ r.retained = r.chunk + Cardinality(HeldSlots(r)) + Cardinality(HeldLates(r))
Fits(r) == /\ PendingWrites(r) <= MaxPendingWrites
           /\ r.retained + PendingWrites(r) <= MaxRetained
           /\ IsFiniteSet(Pending(r)) /\ Cardinality(Pending(r)) <= MaxPendingCalls
BoundInv == Exact(rpc) /\ Fits(rpc)

\* CallInv, of a client: a waiting call holds nothing that stop may take from it.
Waiting(r) == \A c \in Calls : r.entry[c] = "waiting" =>
                /\ r.late[c] = "none"
                /\ c \notin r.responded => r.slot[c] = "none"

\* A client that keeps what it holds, and takes on nothing new.
Keeps(r, s) ==
  /\ HeldSlots(s) = HeldSlots(r) /\ HeldLates(s) = HeldLates(r)
  /\ s.retained - s.chunk = r.retained - r.chunk /\ s.retained <= r.retained
  /\ PendingWrites(s) <= PendingWrites(r)
  /\ Pending(s) \subseteq Pending(r)

\* The limits are natural numbers.
LEMMA BoundNats ==
  /\ MaxPendingCalls \in Nat \ {0} /\ MaxPendingWrites \in Nat \ {0} /\ MaxRetained \in Nat \ {0}
BY RpcAssumption

\* What an answer costs.
LEMMA CostsIs ==
  /\ \A x : Costs(x) \in {0, 1}
  /\ \A x \in Said : Costs(x) = 1
  /\ \A x \in {"none", "busy", "lost"} : Costs(x) = 0
  /\ \A x \in Results \cup {"none"} : Costs(x) = 1 => x \in Said
BY DEF Costs, Said, Results

\* The writes a client has pending.
LEMMA WritesAre ==
  ASSUME NEW r \in ClientType
  PROVE  /\ PendingWrites(r) \in Nat
         /\ \A s : s.queue = r.queue /\ s.inHand = r.inHand => PendingWrites(s) = PendingWrites(r)
<1>1. r.queue \in Seq(Writes) /\ Len(r.queue) \in Nat
  BY LenProperties DEF ClientType
<1>2. Contains(r.queue, End) => Len(r.queue) # 0
  <2> SUFFICES ASSUME Contains(r.queue, End), Len(r.queue) = 0 PROVE FALSE
    OBVIOUS
  <2>1. \E i \in 1..0 : TRUE
    BY DEF Contains
  <2> QED BY <2>1
<1>3. Len(r.queue) - (IF Contains(r.queue, End) THEN 1 ELSE 0) \in Nat
  BY <1>1, <1>2
<1>4. \A s : s.queue = r.queue /\ s.inHand = r.inHand => PendingWrites(s) = PendingWrites(r)
  BY DEF PendingWrites
<1>5. PendingWrites(r) \in Nat
  <2>1. PICK n \in Nat : n = Len(r.queue) - (IF Contains(r.queue, End) THEN 1 ELSE 0)
    BY <1>3
  <2>2. PendingWrites(r) = n + (IF r.inHand = "none" THEN 0 ELSE 1)
    BY <2>1 DEF PendingWrites
  <2> QED BY <2>2
<1> QED BY <1>4, <1>5

\* The numbers of a client.
LEMMA NumbersAre ==
  ASSUME NEW r \in ClientType
  PROVE  r.retained \in Int /\ r.chunk \in Int /\ PendingWrites(r) \in Nat
<1>1. r.retained \in Int /\ r.chunk \in {0, 1}
  BY DEF ClientType
<1>2. PendingWrites(r) \in Nat
  BY WritesAre
<1> QED BY <1>1, <1>2

\* What is kept twice is kept.
LEMMA KeepsAgain ==
  ASSUME NEW r \in ClientType, NEW s \in ClientType, NEW t \in ClientType, Keeps(r, s), Keeps(s, t)
  PROVE  Keeps(r, t)
<1>1. /\ r.retained \in Int /\ r.chunk \in Int /\ PendingWrites(r) \in Nat
      /\ s.retained \in Int /\ s.chunk \in Int /\ PendingWrites(s) \in Nat
      /\ t.retained \in Int /\ t.chunk \in Int /\ PendingWrites(t) \in Nat
  BY NumbersAre
<1> QED BY <1>1 DEF Keeps

\* A client that does not change keeps everything.
LEMMA KeepsSame == \A r \in ClientType : Keeps(r, r)
<1> SUFFICES ASSUME NEW r \in ClientType PROVE Keeps(r, r)
  OBVIOUS
<1>1. r.retained \in Int /\ PendingWrites(r) \in Nat
  BY NumbersAre
<1> QED BY <1>1 DEF Keeps

\* What is kept stays exact and within the limits.
LEMMA KeptIsBounded ==
  ASSUME NEW r \in ClientType, NEW s \in ClientType, Keeps(r, s), Exact(r), Fits(r)
  PROVE  Exact(s) /\ Fits(s)
<1>1. /\ r.retained \in Int /\ s.retained \in Int /\ r.chunk \in Int /\ s.chunk \in Int
      /\ PendingWrites(r) \in Nat /\ PendingWrites(s) \in Nat
  BY NumbersAre
<1>2. /\ Cardinality(HeldSlots(r)) \in Nat /\ Cardinality(HeldLates(r)) \in Nat
      /\ Cardinality(Pending(r)) \in Nat
  BY FS_CardinalityType DEF Exact, Fits
<1>3. IsFiniteSet(Pending(s)) /\ Cardinality(Pending(s)) <= Cardinality(Pending(r)) /\ Cardinality(Pending(s)) \in Nat
  BY FS_Subset, FS_CardinalityType DEF Keeps, Fits
<1>4. Exact(s)
  BY <1>1, <1>2 DEF Exact, Keeps
<1>5. PendingWrites(s) <= MaxPendingWrites /\ s.retained + PendingWrites(s) <= MaxRetained
  BY <1>1, BoundNats DEF Keeps, Fits
<1>6. Cardinality(Pending(s)) <= MaxPendingCalls
  BY <1>2, <1>3, BoundNats DEF Fits
<1> QED BY <1>3, <1>4, <1>5, <1>6 DEF Fits

\* Stop returns the bytes of an unfinished frame, and nothing else.
LEMMA StopKeeps ==
  ASSUME NEW r \in ClientType, NEW why \in Whys \ {"up"}, Waiting(r)
  PROVE  Keeps(r, Stop(r, why)) /\ Waiting(Stop(r, why))
<1> DEFINE s == Stop(r, why)
<1>1. CASE r.why # "up"
  BY <1>1, StopIs, KeepsSame
<1>2. CASE r.why = "up"
  <2>1. /\ s \in ClientType /\ s.chunk = 0 /\ s.retained = r.retained - r.chunk
        /\ s.queue = r.queue /\ s.inHand = r.inHand
        /\ \A c \in Calls :
             /\ s.entry[c] = "none"
             /\ s.slot[c] = IF c \in r.responded THEN r.slot[c] ELSE Lost(r, c, r.slot[c])
             /\ s.late[c] = IF c \in r.responded THEN Lost(r, c, r.late[c]) ELSE r.late[c]
    BY <1>2, StopIs
  <2> HIDE DEF s
  <2>2. \A c \in Calls : Costs(s.slot[c]) = Costs(r.slot[c]) /\ Costs(s.late[c]) = Costs(r.late[c])
    BY <2>1, CostsIs DEF Waiting, Lost
  <2>3. HeldSlots(s) = HeldSlots(r) /\ HeldLates(s) = HeldLates(r)
    BY <2>2 DEF HeldSlots, HeldLates
  <2>4. PendingWrites(s) = PendingWrites(r) /\ PendingWrites(r) \in Nat
    BY <2>1, WritesAre
  <2>5. Pending(s) = {}
    BY <2>1 DEF Pending
  <2>6. r.retained \in Int /\ r.chunk \in {0, 1}
    BY DEF ClientType
  <2>7. Waiting(s)
    BY <2>1 DEF Waiting
  <2> QED BY <2>1, <2>3, <2>4, <2>5, <2>6, <2>7 DEF Keeps, s
<1> QED BY <1>1, <1>2

\* A change that touches none of what is counted.
LEMMA SameKeeps ==
  ASSUME NEW r \in ClientType, NEW s \in ClientType,
         s.entry = r.entry, s.slot = r.slot, s.late = r.late, s.retained = r.retained,
         s.chunk = r.chunk, s.responded = r.responded, PendingWrites(s) <= PendingWrites(r), Waiting(r)
  PROVE  Keeps(r, s) /\ Waiting(s)
<1>1. r.retained \in Int /\ r.chunk \in Int
  BY DEF ClientType
<1> QED BY <1>1 DEF Keeps, Waiting, HeldSlots, HeldLates, Pending

\* So does Fail.
LEMMA FailKeeps ==
  ASSUME NEW r \in ClientType, NEW why \in Whys \ {"up"}, Waiting(r)
  PROVE  Keeps(r, Fail(r, why)) /\ Waiting(Fail(r, why)) /\ Fail(r, why) \in ClientType
<1> DEFINE s == Stop(r, why)
<1>1. s \in ClientType /\ Keeps(r, s) /\ Waiting(s)
  BY StopIs, StopKeeps
<1> HIDE DEF s
<1>2. Fail(r, why) = [s EXCEPT !.reading = FALSE]
  BY DEF Fail, s
<1> DEFINE t == Fail(r, why)
<1>3. /\ t \in ClientType /\ t.entry = s.entry /\ t.slot = s.slot /\ t.late = s.late
      /\ t.retained = s.retained /\ t.chunk = s.chunk /\ t.responded = s.responded
      /\ t.queue = s.queue /\ t.inHand = s.inHand
  BY <1>1, <1>2 DEF ClientType
<1> HIDE DEF t
<1>4. PendingWrites(t) <= PendingWrites(s)
  <2>1. PendingWrites(t) = PendingWrites(s) /\ PendingWrites(s) \in Nat
    BY <1>1, <1>3, WritesAre
  <2> QED BY <2>1
<1>5. Keeps(s, t) /\ Waiting(t)
  BY <1>1, <1>3, <1>4, SameKeeps
<1>6. Keeps(r, t)
  BY <1>1, <1>3, <1>5, KeepsAgain
<1> QED BY <1>3, <1>5, <1>6 DEF t

\* An entry that is given up or over.
LEMMA EntryKeeps ==
  ASSUME NEW r \in ClientType, NEW c \in Calls, NEW x \in {"none", "abandoned"}, Waiting(r),
         r.entry[c] # "none"
  PROVE  Keeps(r, [r EXCEPT !.entry[c] = x]) /\ Waiting([r EXCEPT !.entry[c] = x])
<1> DEFINE s == [r EXCEPT !.entry[c] = x]
<1>1. /\ s \in ClientType /\ s.entry[c] = x /\ \A d \in Calls \ {c} : s.entry[d] = r.entry[d]
      /\ s.slot = r.slot /\ s.late = r.late /\ s.retained = r.retained /\ s.chunk = r.chunk
      /\ s.responded = r.responded /\ s.queue = r.queue /\ s.inHand = r.inHand
  BY DEF ClientType
<1> HIDE DEF s
<1>2. PendingWrites(s) = PendingWrites(r) /\ PendingWrites(r) \in Nat
  BY <1>1, WritesAre
<1>3. Pending(s) \subseteq Pending(r)
  BY <1>1 DEF Pending
<1>4. r.retained \in Int /\ r.chunk \in Int
  BY DEF ClientType
<1>5. Waiting(s)
  BY <1>1 DEF Waiting
<1> QED BY <1>1, <1>2, <1>3, <1>4, <1>5 DEF Keeps, HeldSlots, HeldLates, s

\* One response more, or one less, in a slot.
LEMMA SlotExact ==
  ASSUME NEW r \in ClientType, NEW s \in ClientType, Exact(r), NEW c \in Calls,
         \A d \in Calls \ {c} : s.slot[d] = r.slot[d], s.late = r.late, s.chunk = r.chunk,
         s.retained - Costs(s.slot[c]) = r.retained - Costs(r.slot[c])
  PROVE  Exact(s)
<1>1. /\ Costs(s.slot[c]) \in {0, 1} /\ Costs(r.slot[c]) \in {0, 1}
      /\ r.retained \in Int /\ s.retained \in Int /\ r.chunk \in Int
  BY CostsIs DEF ClientType
<1>2. HeldLates(s) = HeldLates(r)
  BY DEF HeldLates
<1>3. HeldSlots(s) = IF Costs(s.slot[c]) = 1 THEN HeldSlots(r) \cup {c} ELSE HeldSlots(r) \ {c}
  BY DEF HeldSlots
<1>4. (c \in HeldSlots(r)) <=> (Costs(r.slot[c]) = 1)
  BY DEF HeldSlots
<1>5. IsFiniteSet(HeldSlots(r)) /\ Cardinality(HeldSlots(r)) \in Nat /\ Cardinality(HeldLates(r)) \in Nat
  BY FS_CardinalityType DEF Exact
<1>6. /\ IsFiniteSet(HeldSlots(s))
      /\ Cardinality(HeldSlots(s)) - Costs(s.slot[c]) = Cardinality(HeldSlots(r)) - Costs(r.slot[c])
  <2>1. /\ IsFiniteSet(HeldSlots(r) \cup {c})
        /\ Cardinality(HeldSlots(r) \cup {c}) = IF c \in HeldSlots(r) THEN Cardinality(HeldSlots(r))
                                                ELSE Cardinality(HeldSlots(r)) + 1
    BY <1>5, FS_AddElement
  <2>2. /\ IsFiniteSet(HeldSlots(r) \ {c})
        /\ Cardinality(HeldSlots(r) \ {c}) = IF c \in HeldSlots(r) THEN Cardinality(HeldSlots(r)) - 1
                                             ELSE Cardinality(HeldSlots(r))
    BY <1>5, FS_RemoveElement
  <2>3. CASE Costs(s.slot[c]) = 1
    BY <1>1, <1>3, <1>4, <1>5, <2>1, <2>3
  <2>4. CASE Costs(s.slot[c]) = 0
    BY <1>1, <1>3, <1>4, <1>5, <2>2, <2>4
  <2> QED BY <1>1, <2>3, <2>4
<1>7. Cardinality(HeldSlots(s)) \in Nat
  BY <1>6, FS_CardinalityType
<1>8. r.retained = r.chunk + Cardinality(HeldSlots(r)) + Cardinality(HeldLates(r))
  BY DEF Exact
<1>9. s.retained = s.chunk + Cardinality(HeldSlots(s)) + Cardinality(HeldLates(s))
  BY <1>1, <1>2, <1>5, <1>6, <1>7, <1>8
<1> QED BY <1>2, <1>6, <1>9 DEF Exact

\* One late answer more, or one less.
LEMMA LateExact ==
  ASSUME NEW r \in ClientType, NEW s \in ClientType, Exact(r), NEW c \in Calls,
         \A d \in Calls \ {c} : s.late[d] = r.late[d], s.slot = r.slot, s.chunk = r.chunk,
         s.retained - Costs(s.late[c]) = r.retained - Costs(r.late[c])
  PROVE  Exact(s)
<1>1. /\ Costs(s.late[c]) \in {0, 1} /\ Costs(r.late[c]) \in {0, 1}
      /\ r.retained \in Int /\ s.retained \in Int /\ r.chunk \in Int
  BY CostsIs DEF ClientType
<1>2. HeldSlots(s) = HeldSlots(r)
  BY DEF HeldSlots
<1>3. HeldLates(s) = IF Costs(s.late[c]) = 1 THEN HeldLates(r) \cup {c} ELSE HeldLates(r) \ {c}
  BY DEF HeldLates
<1>4. (c \in HeldLates(r)) <=> (Costs(r.late[c]) = 1)
  BY DEF HeldLates
<1>5. IsFiniteSet(HeldLates(r)) /\ Cardinality(HeldLates(r)) \in Nat /\ Cardinality(HeldSlots(r)) \in Nat
  BY FS_CardinalityType DEF Exact
<1>6. /\ IsFiniteSet(HeldLates(s))
      /\ Cardinality(HeldLates(s)) - Costs(s.late[c]) = Cardinality(HeldLates(r)) - Costs(r.late[c])
  <2>1. /\ IsFiniteSet(HeldLates(r) \cup {c})
        /\ Cardinality(HeldLates(r) \cup {c}) = IF c \in HeldLates(r) THEN Cardinality(HeldLates(r))
                                                ELSE Cardinality(HeldLates(r)) + 1
    BY <1>5, FS_AddElement
  <2>2. /\ IsFiniteSet(HeldLates(r) \ {c})
        /\ Cardinality(HeldLates(r) \ {c}) = IF c \in HeldLates(r) THEN Cardinality(HeldLates(r)) - 1
                                             ELSE Cardinality(HeldLates(r))
    BY <1>5, FS_RemoveElement
  <2>3. CASE Costs(s.late[c]) = 1
    BY <1>1, <1>3, <1>4, <1>5, <2>1, <2>3
  <2>4. CASE Costs(s.late[c]) = 0
    BY <1>1, <1>3, <1>4, <1>5, <2>2, <2>4
  <2> QED BY <1>1, <2>3, <2>4
<1>7. Cardinality(HeldLates(s)) \in Nat
  BY <1>6, FS_CardinalityType
<1>8. r.retained = r.chunk + Cardinality(HeldSlots(r)) + Cardinality(HeldLates(r))
  BY DEF Exact
<1>9. s.retained = s.chunk + Cardinality(HeldSlots(s)) + Cardinality(HeldLates(s))
  BY <1>1, <1>2, <1>5, <1>6, <1>7, <1>8
<1> QED BY <1>2, <1>6, <1>9 DEF Exact

\* A client whose account is right, with room for what it has.
Sound(r) == r \in ClientType /\ Waiting(r) /\ Exact(r) /\ Fits(r)

\* A client that keeps everything stays sound.
LEMMA KeptIsSound ==
  ASSUME NEW r, NEW s \in ClientType, Sound(r), Keeps(r, s), Waiting(s)
  PROVE  Sound(s)
BY KeptIsBounded DEF Sound

\* A client that fails stays sound.
LEMMA FailSound ==
  ASSUME NEW r, Sound(r), NEW why \in Whys \ {"up"}
  PROVE  Sound(Fail(r, why)) /\ Sound(Stop(r, why))
BY FailKeeps, StopKeeps, StopIs, KeptIsSound DEF Sound

\* A response more fits when there is room.
LEMMA OneMoreFits ==
  ASSUME NEW r \in ClientType, NEW s \in ClientType, Fits(r), HasRoom(r), s.retained = r.retained + 1,
         s.queue = r.queue, s.inHand = r.inHand, Pending(s) \subseteq Pending(r)
  PROVE  Fits(s)
<1>1. PendingWrites(s) = PendingWrites(r) /\ PendingWrites(r) \in Nat /\ r.retained \in Int
  BY SMTT(30), WritesAre DEF ClientType
<1>2. IsFiniteSet(Pending(s)) /\ Cardinality(Pending(s)) <= Cardinality(Pending(r))
      /\ Cardinality(Pending(s)) \in Nat /\ Cardinality(Pending(r)) \in Nat
  BY FS_Subset, FS_CardinalityType DEF Fits
<1>3. s.retained + PendingWrites(s) <= MaxRetained
  BY <1>1, BoundNats DEF HasRoom
<1>4. Cardinality(Pending(s)) <= MaxPendingCalls
  BY <1>2, BoundNats DEF Fits
<1> QED BY <1>1, <1>2, <1>3, <1>4 DEF Fits

\* What is less fits.
LEMMA LessFits ==
  ASSUME NEW r \in ClientType, NEW s \in ClientType, Fits(r), s.retained <= r.retained,
         s.queue = r.queue, s.inHand = r.inHand, Pending(s) \subseteq Pending(r)
  PROVE  Fits(s)
<1>1. PendingWrites(s) = PendingWrites(r) /\ PendingWrites(r) \in Nat /\ r.retained \in Int /\ s.retained \in Int
  BY WritesAre DEF ClientType
<1>2. IsFiniteSet(Pending(s)) /\ Cardinality(Pending(s)) <= Cardinality(Pending(r))
      /\ Cardinality(Pending(s)) \in Nat /\ Cardinality(Pending(r)) \in Nat
  BY FS_Subset, FS_CardinalityType DEF Fits
<1>3. s.retained + PendingWrites(s) <= MaxRetained
  BY <1>1, BoundNats DEF Fits
<1>4. Cardinality(Pending(s)) <= MaxPendingCalls
  BY <1>2, BoundNats DEF Fits
<1> QED BY <1>1, <1>2, <1>3, <1>4 DEF Fits

\* A response counts one byte where it is held.
LEMMA ResponseSound ==
  ASSUME NEW r, Sound(r), NEW c \in Calls, NEW x \in Said
  PROVE  Sound(AcceptResponse(r, c, x))
<1> DEFINE s == AcceptResponse(r, c, x)
           gone == [r EXCEPT !.entry[c] = "none"]
           stays == c \in Prompts /\ x # "error"
<1>a. r \in ClientType /\ Waiting(r) /\ Exact(r) /\ Fits(r)
  BY DEF Sound
<1>b. "protocol" \in Whys \ {"up"} /\ "busy" \in Whys \ {"up"}
  BY DEF Whys
<1>c. s \in ClientType
  BY <1>a, ResponseIs
<1>1. s = Answer(r, c, x, stays)
  BY DEF AcceptResponse
<1>2. r.entry[c] # "none" => Sound(gone)
  <2>1. gone \in ClientType
    BY <1>a DEF ClientType
  <2> QED BY <1>a, <2>1, EntryKeeps, KeptIsSound
<1>3. CASE r.entry[c] = "none"
  BY <1>1, <1>3, <1>b, FailSound DEF Answer
<1>4. CASE r.entry[c] = "abandoned"
  BY <1>1, <1>2, <1>4 DEF Answer
<1>5. CASE r.entry[c] = "waiting" /\ ~HasRoom(r)
  <2> DEFINE late == [gone EXCEPT !.late[c] = "busy"]
             slot == [gone EXCEPT !.slot[c] = "busy"]
  <2>1. Sound(gone) /\ gone \in ClientType /\ gone.entry[c] = "none"
        /\ gone.late = r.late /\ gone.slot = r.slot /\ gone.responded = r.responded
    BY <1>2, <1>5, <1>a DEF ClientType
  <2>2. s = Fail(IF c \in r.responded THEN late ELSE slot, "busy")
    BY <1>1, <1>5 DEF Answer
  <2> HIDE DEF gone
  <2>3. c \in r.responded => Sound(late)
    <3> SUFFICES ASSUME c \in r.responded PROVE Sound(late)
      OBVIOUS
    <3>1. /\ late \in ClientType /\ late.entry = gone.entry /\ late.slot = gone.slot
          /\ late.late[c] = "busy" /\ \A d \in Calls \ {c} : late.late[d] = gone.late[d]
          /\ late.retained = gone.retained /\ late.chunk = gone.chunk
          /\ late.responded = gone.responded /\ late.queue = gone.queue /\ late.inHand = gone.inHand
      BY ZenonT(60), <2>1 DEF ClientType, Lates
    <3> HIDE DEF late
    <3>2. Costs(late.late[c]) = 0 /\ Costs(gone.late[c]) = 0 /\ gone.retained \in Int
      BY <1>5, <1>a, <2>1, <3>1, CostsIs DEF Waiting, ClientType
    <3>3. Exact(late)
      BY <2>1, <3>1, <3>2, LateExact DEF Sound
    <3>4. Fits(late)
      BY <2>1, <3>1, <3>2, LessFits DEF Sound, Pending
    <3>5. Waiting(late)
      BY <2>1, <3>1 DEF Sound, Waiting
    <3> QED BY <3>1, <3>3, <3>4, <3>5 DEF Sound
  <2>4. c \notin r.responded => Sound(slot)
    <3> SUFFICES ASSUME c \notin r.responded PROVE Sound(slot)
      OBVIOUS
    <3>1. /\ slot \in ClientType /\ slot.entry = gone.entry /\ slot.late = gone.late
          /\ slot.slot[c] = "busy" /\ \A d \in Calls \ {c} : slot.slot[d] = gone.slot[d]
          /\ slot.retained = gone.retained /\ slot.chunk = gone.chunk
          /\ slot.responded = gone.responded /\ slot.queue = gone.queue /\ slot.inHand = gone.inHand
      BY ZenonT(60), <2>1 DEF ClientType, Results
    <3> HIDE DEF slot
    <3>2. Costs(slot.slot[c]) = 0 /\ Costs(gone.slot[c]) = 0 /\ gone.retained \in Int
      BY <1>5, <1>a, <2>1, <3>1, CostsIs DEF Waiting, ClientType
    <3>3. Exact(slot)
      BY <2>1, <3>1, <3>2, SlotExact DEF Sound
    <3>4. Fits(slot)
      BY <2>1, <3>1, <3>2, LessFits DEF Sound, Pending
    <3>5. Waiting(slot)
      BY <2>1, <3>1 DEF Sound, Waiting
    <3> QED BY <3>1, <3>3, <3>4, <3>5 DEF Sound
  <2> HIDE DEF late, slot
  <2> QED BY <1>b, <2>2, <2>3, <2>4, FailSound
<1>6. CASE r.entry[c] = "waiting" /\ HasRoom(r) /\ c \notin r.responded
  <2> DEFINE b == IF stays THEN r ELSE gone
  <2>1. /\ Sound(b) /\ b \in ClientType /\ b.late = r.late /\ b.slot = r.slot
        /\ b.responded = r.responded /\ b.retained = r.retained /\ b.queue = r.queue
        /\ b.inHand = r.inHand /\ \A d \in Calls \ {c} : b.entry[d] = r.entry[d]
        /\ b.entry[c] = (IF stays THEN "waiting" ELSE "none")
    <3>1. /\ gone \in ClientType /\ gone.late = r.late /\ gone.slot = r.slot
          /\ gone.responded = r.responded /\ gone.retained = r.retained /\ gone.queue = r.queue
          /\ gone.inHand = r.inHand /\ \A d \in Calls \ {c} : gone.entry[d] = r.entry[d]
          /\ gone.entry[c] = "none"
      BY <1>a DEF ClientType
    <3>2. Sound(gone)
      BY <1>2, <1>6
    <3> HIDE DEF gone
    <3> QED BY <1>6, <1>a, <3>1, <3>2
  <2> HIDE DEF b, gone
  <2>2. s = [b EXCEPT !.responded = @ \cup ({c} \cap Prompts), !.slot[c] = x, !.retained = @ + 1,
                      !.phase = IF c = Hello /\ x = "ok" THEN "negotiated" ELSE @]
    BY <1>1, <1>6, <2>1 DEF Answer, gone, b
  <2>3. /\ s.responded = b.responded \cup ({c} \cap Prompts) /\ s.slot[c] = x
        /\ \A d \in Calls \ {c} : s.slot[d] = b.slot[d]
        /\ s.late = b.late /\ s.entry = b.entry /\ s.chunk = b.chunk
        /\ s.queue = b.queue /\ s.inHand = b.inHand
    BY <2>1, <2>2 DEF ClientType
  <2>4. s.retained = b.retained + 1
    BY <2>1, <2>2 DEF ClientType
  <2> HIDE DEF s
  <2>5. Costs(s.slot[c]) = 1 /\ Costs(b.slot[c]) = 0 /\ b.retained \in Int
    BY <1>6, <1>a, <2>1, <2>3, CostsIs DEF Waiting, ClientType
  <2>6. Exact(s)
    BY <1>c, <2>1, <2>3, <2>4, <2>5, SlotExact DEF Sound, s
  <2>7. HasRoom(b)
    BY <1>6, <1>a, <2>1, WritesAre DEF HasRoom
  <2>8. Fits(s)
    BY <1>c, <2>1, <2>3, <2>4, <2>7, OneMoreFits DEF Sound, Pending, s
  <2>9. Waiting(s)
    BY <1>6, <1>a, <2>1, <2>3 DEF Waiting
  <2> QED BY <1>c, <2>6, <2>8, <2>9 DEF Sound, s
<1>7. CASE r.entry[c] = "waiting" /\ HasRoom(r) /\ c \in r.responded
  <2>1. CASE x # "error"
    BY <1>1, <1>7, <1>b, <2>1, FailSound DEF Answer
  <2>2. CASE x = "error"
    <3>1. Sound(gone) /\ gone \in ClientType /\ gone.entry[c] = "none" /\ gone.retained = r.retained
          /\ gone.late = r.late /\ gone.slot = r.slot /\ gone.responded = r.responded
          /\ gone.queue = r.queue /\ gone.inHand = r.inHand
      BY <1>2, <1>7, <1>a DEF ClientType
    <3>2. s = [gone EXCEPT !.late[c] = x, !.retained = @ + 1]
      BY <1>1, <1>7, <2>2 DEF Answer
    <3> HIDE DEF gone
    <3>3. /\ s.responded = gone.responded /\ s.slot = gone.slot /\ s.late[c] = x
          /\ \A d \in Calls \ {c} : s.late[d] = gone.late[d]
          /\ s.entry = gone.entry /\ s.chunk = gone.chunk
          /\ s.queue = gone.queue /\ s.inHand = gone.inHand /\ s.retained = gone.retained + 1
      BY <3>1, <3>2 DEF ClientType
    <3> HIDE DEF s
    <3>4. Costs(s.late[c]) = 1 /\ Costs(gone.late[c]) = 0 /\ gone.retained \in Int
      BY <1>7, <1>a, <3>1, <3>3, CostsIs DEF Waiting, ClientType
    <3>5. Exact(s)
      BY <1>c, <3>1, <3>3, <3>4, LateExact DEF Sound, s
    <3>6. HasRoom(gone)
      BY <1>7, <1>a, <3>1, WritesAre DEF HasRoom
    <3>7. Fits(s)
      BY <1>c, <3>1, <3>3, <3>6, OneMoreFits DEF Sound, Pending, s
    <3>8. Waiting(s)
      BY <3>1, <3>3 DEF Sound, Waiting
    <3> QED BY <1>c, <3>5, <3>7, <3>8 DEF Sound, s
  <2> QED BY <2>1, <2>2
<1> QED BY <1>3, <1>4, <1>5, <1>6, <1>7, <1>a DEF ClientType

\* So does a logical frame.
LEMMA LogicalSound ==
  ASSUME NEW r, Sound(r), NEW f \in FrameType \ {Part}, NEW s \in Logical(r, f)
  PROVE  Sound(s)
<1>1. "protocol" \in Whys \ {"up"} /\ "observer" \in Whys \ {"up"}
  BY DEF Whys
<1>2. CASE f.kind = "response"
  <2>1. f.call \in Calls /\ f.result \in Said
    BY <1>2 DEF FrameType, Frame
  <2>2. s = Fail(r, "protocol") \/ s = AcceptResponse(r, f.call, f.result)
    BY <1>2 DEF Logical
  <2> QED BY <1>1, <2>1, <2>2, FailSound, ResponseSound
<1>3. CASE f.kind = "ready"
  <2> DEFINE t == [r EXCEPT !.phase = "ready"]
  <2>1. s = t \/ s = Fail(r, "protocol")
    BY <1>3 DEF Logical
  <2>2. /\ t \in ClientType /\ t.entry = r.entry /\ t.slot = r.slot /\ t.late = r.late
        /\ t.retained = r.retained /\ t.chunk = r.chunk /\ t.responded = r.responded
        /\ t.queue = r.queue /\ t.inHand = r.inHand
    BY DEF ClientType, Sound
  <2> HIDE DEF t
  <2>3. PendingWrites(t) <= PendingWrites(r)
    <3>1. PendingWrites(t) = PendingWrites(r) /\ PendingWrites(r) \in Nat
      BY <2>2, WritesAre DEF Sound
    <3> QED BY <3>1
  <2>4. Sound(t)
    BY <2>2, <2>3, SameKeeps, KeptIsSound DEF Sound
  <2> QED BY <1>1, <2>1, <2>4, FailSound
<1>4. CASE f.kind = "event"
  <2>1. s = r \/ s = Fail(r, "observer") \/ s = Fail(r, "protocol")
    BY <1>4 DEF Logical
  <2> QED BY <1>1, <2>1, FailSound
<1> QED BY <1>2, <1>3, <1>4 DEF FrameType, Frame, Part

\* A part of a frame more, or less.
LEMMA ChunkExact ==
  ASSUME NEW r \in ClientType, NEW s \in ClientType, Exact(r), s.slot = r.slot, s.late = r.late,
         s.retained - s.chunk = r.retained - r.chunk
  PROVE  Exact(s)
<1>1. HeldSlots(s) = HeldSlots(r) /\ HeldLates(s) = HeldLates(r)
  BY DEF HeldSlots, HeldLates
<1>2. /\ r.retained \in Int /\ s.retained \in Int /\ r.chunk \in Int /\ s.chunk \in Int
      /\ Cardinality(HeldSlots(r)) \in Nat /\ Cardinality(HeldLates(r)) \in Nat
  BY FS_CardinalityType DEF Exact, ClientType
<1> QED BY <1>1, <1>2 DEF Exact

\* A part counts one byte until its frame is complete.
LEMMA AcceptedSound ==
  ASSUME NEW r, Sound(r), NEW f \in FrameType, NEW s \in Accepted(r, f)
  PROVE  Sound(s)
<1>a. r \in ClientType /\ Waiting(r) /\ Exact(r) /\ Fits(r)
  BY DEF Sound
<1>1. "protocol" \in Whys \ {"up"} /\ "busy" \in Whys \ {"up"}
  BY DEF Whys
<1>2. CASE f = Part
  <2> DEFINE t == [r EXCEPT !.chunk = 1, !.retained = @ + 1]
  <2>1. \/ s = Fail(r, "protocol") \/ s = Fail(r, "busy")
        \/ s = t /\ r.chunk = 0 /\ HasRoom(r)
    BY <1>2, <1>a DEF Accepted
  <2>a. r.retained + 1 \in Int
    BY <1>a DEF ClientType
  <2>2. /\ t \in ClientType /\ t.entry = r.entry /\ t.slot = r.slot /\ t.late = r.late
        /\ t.responded = r.responded /\ t.queue = r.queue /\ t.inHand = r.inHand
        /\ t.chunk = 1 /\ t.retained = r.retained + 1
    BY <1>a, <2>a DEF ClientType
  <2> HIDE DEF t
  <2>3. CASE s = t /\ r.chunk = 0 /\ HasRoom(r)
    <3>1. Fits(t)
      BY <1>a, <2>2, <2>3, OneMoreFits DEF Pending
    <3>2. Exact(t)
      <4>1. t.retained - t.chunk = r.retained - r.chunk
        BY <1>a, <2>2, <2>3 DEF ClientType
      <4> QED BY <1>a, <2>2, <4>1, ChunkExact
    <3>3. Waiting(t)
      BY <1>a, <2>2 DEF Waiting
    <3> QED BY <2>2, <2>3, <3>1, <3>2, <3>3 DEF Sound
  <2> QED BY <1>1, <2>1, <2>3, FailSound
<1>3. CASE f # Part /\ r.chunk = 0
  <2>1. s \in Logical(r, f)
    BY <1>3 DEF Accepted
  <2> QED BY <1>3, <2>1, LogicalSound
<1>4. CASE f # Part /\ r.chunk = 1
  <2> DEFINE t == [r EXCEPT !.chunk = 0, !.retained = @ - 1]
  <2>1. s = Fail(r, "busy") \/ s \in Logical(t, f)
    BY <1>4 DEF Accepted
  <2>a. r.retained - 1 \in Int
    BY <1>a DEF ClientType
  <2>2. /\ t \in ClientType /\ t.entry = r.entry /\ t.slot = r.slot /\ t.late = r.late
        /\ t.responded = r.responded /\ t.queue = r.queue /\ t.inHand = r.inHand
        /\ t.chunk = 0 /\ t.retained = r.retained - 1
    BY <1>a, <2>a DEF ClientType
  <2> HIDE DEF t
  <2>3. Fits(t)
    <3>1. t.retained <= r.retained
      BY <1>a, <2>2 DEF ClientType
    <3> QED BY <1>a, <2>2, <3>1, LessFits DEF Pending
  <2>4. Exact(t)
    <3>1. t.retained - t.chunk = r.retained - r.chunk
      BY <1>4, <1>a, <2>2 DEF ClientType
    <3> QED BY <1>a, <2>2, <3>1, ChunkExact
  <2>5. Sound(t)
    BY <1>a, <2>2, <2>3, <2>4 DEF Waiting, Sound
  <2> QED BY <1>1, <1>4, <2>1, <2>5, FailSound, LogicalSound
<1> QED BY <1>2, <1>3, <1>4, <1>a DEF ClientType

\* A result that is taken gives its byte back.
LEMMA TakenSound ==
  ASSUME NEW r, Sound(r), NEW c \in Calls
  PROVE  Sound(Taken(r, c))
<1> DEFINE s == [r EXCEPT !.slot[c] = "none", !.retained = @ - Costs(r.slot[c])]
           t == [s EXCEPT !.entry[c] = "none", !.late[c] = "none",
                          !.retained = @ - Costs(s.late[c])]
<1>a. r \in ClientType /\ Waiting(r) /\ Exact(r) /\ Fits(r)
  BY DEF Sound
<1>1. \A x : Costs(x) \in {0, 1}
  BY CostsIs
<1>b. Costs(r.slot[c]) \in Int /\ Costs(r.slot[c]) >= 0
  BY <1>1
<1>2. r.retained - Costs(r.slot[c]) \in Int /\ [r.slot EXCEPT ![c] = "none"] \in [Calls -> Results \cup {"none"}]
  BY <1>a, <1>b DEF ClientType
<1>3. s \in ClientType
  BY <1>a, <1>2 DEF ClientType
<1>4. /\ s.queue = r.queue /\ s.responded = r.responded /\ s.inHand = r.inHand
      /\ s.chunk = r.chunk /\ s.entry = r.entry /\ s.late = r.late
      /\ s.slot[c] = "none" /\ \A d \in Calls \ {c} : s.slot[d] = r.slot[d]
      /\ s.retained = r.retained - Costs(r.slot[c])
  BY <1>a DEF ClientType
<1>5. Taken(r, c) = s \/ Taken(r, c) = t
  BY DEF Taken
<1> HIDE DEF s
<1>6. Sound(s)
  <2>1. Exact(s)
    <3>1. s.retained - Costs(s.slot[c]) = r.retained - Costs(r.slot[c])
      BY <1>a, <1>b, <1>4, CostsIs DEF ClientType
    <3> QED BY <1>a, <1>3, <1>4, <3>1, SlotExact
  <2>2. Fits(s)
    <3>1. s.retained <= r.retained
      BY <1>a, <1>b, <1>4 DEF ClientType
    <3> QED BY <1>a, <1>3, <1>4, <3>1, LessFits DEF Pending
  <2>3. Waiting(s)
    BY <1>a, <1>4 DEF Waiting
  <2> QED BY <1>3, <2>1, <2>2, <2>3 DEF Sound
<1>c. Costs(s.late[c]) \in Int /\ Costs(s.late[c]) >= 0
  BY <1>1
<1>7. s.retained - Costs(s.late[c]) \in Int /\ [s.late EXCEPT ![c] = "none"] \in [Calls -> Lates]
      /\ [s.entry EXCEPT ![c] = "none"] \in [Calls -> {"none", "waiting", "abandoned"}]
  BY <1>c, <1>3 DEF ClientType, Lates
<1>8. t \in ClientType
  BY <1>3, <1>7 DEF ClientType
<1>9. /\ t.queue = s.queue /\ t.responded = s.responded /\ t.inHand = s.inHand
      /\ t.chunk = s.chunk /\ t.slot = s.slot /\ t.retained = s.retained - Costs(s.late[c])
      /\ t.late[c] = "none" /\ \A d \in Calls \ {c} : t.late[d] = s.late[d]
      /\ t.entry[c] = "none" /\ \A d \in Calls \ {c} : t.entry[d] = s.entry[d]
  BY <1>3 DEF ClientType
<1> HIDE DEF t
<1>10. Sound(t)
  <2>1. Exact(t)
    <3>1. t.retained - Costs(t.late[c]) = s.retained - Costs(s.late[c])
      BY <1>3, <1>c, <1>9, CostsIs DEF ClientType
    <3> QED BY <1>3, <1>6, <1>8, <1>9, <3>1, LateExact DEF Sound
  <2>2. Fits(t)
    <3>1. t.retained <= s.retained
      BY <1>3, <1>c, <1>9 DEF ClientType
    <3>2. Pending(t) \subseteq Pending(s)
      BY <1>9 DEF Pending
    <3> QED BY <1>3, <1>6, <1>8, <1>9, <3>1, <3>2, LessFits DEF Sound
  <2>3. Waiting(t)
    BY <1>6, <1>9 DEF Waiting, Sound
  <2> QED BY <1>8, <2>1, <2>2, <2>3 DEF Sound
<1> QED BY <1>5, <1>6, <1>10

-----------------------------------------------------------------------------
(* Every step keeps the account.                                           *)

\* The client is sound in a state of the invariants.
LEMMA SoundNow ==
  ASSUME IInv, BoundInv
  PROVE  Sound(rpc)
BY DEF IInv, TypeInv, CallInv, BoundInv, Waiting, Sound

\* A step of the client's that changes nothing that is counted.
LEMMA LeavesSound ==
  ASSUME NEW r, Sound(r), NEW s \in ClientType,
         s.entry = r.entry, s.slot = r.slot, s.late = r.late, s.retained = r.retained,
         s.chunk = r.chunk, s.responded = r.responded, PendingWrites(s) <= PendingWrites(r)
  PROVE  Sound(s)
BY SameKeeps, KeptIsSound DEF Sound

\* A write more fits when there is room.
LEMMA QueuedFits ==
  ASSUME IInv, BoundInv, NEW w \in Writes, pc[w] = "idle", CanWrite(rpc) \/ w = End
  PROVE  /\ Sound(Queued(rpc, w)) /\ Queued(rpc, w).retained = rpc.retained
         /\ Queued(rpc, w).chunk = rpc.chunk
<1> DEFINE q == Append(rpc.queue, w)
           s == Queued(rpc, w)
<1>a. rpc \in ClientType /\ Waiting(rpc) /\ Exact(rpc) /\ Fits(rpc)
  BY SoundNow DEF Sound
<1>1. rpc.queue \in Seq(Writes) /\ IsInjective(rpc.queue) /\ ~Contains(rpc.queue, w)
  BY DEF IInv, WriteInv, TypeInv, ClientType
<1>2. Len(q) = Len(rpc.queue) + 1 /\ Len(rpc.queue) \in Nat
  BY <1>1, AppendProperties, LenProperties
<1>3. Contains(q, End) <=> Contains(rpc.queue, End) \/ w = End
  BY <1>1, AppendHas
<1>4. s \in ClientType /\ s.entry = rpc.entry /\ s.slot = rpc.slot /\ s.late = rpc.late
      /\ s.responded = rpc.responded
  BY QueuedIs
<1> HIDE DEF q
<1>5. s.queue = q /\ s.inHand = rpc.inHand /\ s.retained = rpc.retained /\ s.chunk = rpc.chunk
  BY <1>a DEF Queued, ClientType, q
<1> HIDE DEF s
<1>6. PendingWrites(rpc) \in Nat /\ PendingWrites(s) = PendingWrites(rpc) + (IF w = End THEN 0 ELSE 1)
  <2>1. PendingWrites(rpc) \in Nat
    BY <1>a, WritesAre
  <2>2. CASE w = End
    <3>1. Contains(q, End) /\ ~Contains(rpc.queue, End)
      BY <1>1, <1>3, <2>2
    <3>2. PICK n \in Nat : n = Len(rpc.queue) /\ Len(q) = n + 1
      BY <1>2
    <3>3. PICK h \in {0, 1} : h = IF rpc.inHand = "none" THEN 0 ELSE 1
      OBVIOUS
    <3>4. PendingWrites(rpc) = n - 0 + h /\ PendingWrites(s) = (n + 1) - 1 + h
      BY <1>5, <3>1, <3>2, <3>3 DEF PendingWrites
    <3> QED BY <2>1, <2>2, <3>4
  <2>3. CASE w # End
    <3>1. Contains(q, End) <=> Contains(rpc.queue, End)
      BY <1>3, <2>3
    <3>2. PICK n \in Nat : n = Len(rpc.queue) /\ Len(q) = n + 1
      BY <1>2
    <3>3. PICK e \in {0, 1} : e = IF Contains(rpc.queue, End) THEN 1 ELSE 0
      OBVIOUS
    <3>4. PICK h \in {0, 1} : h = IF rpc.inHand = "none" THEN 0 ELSE 1
      OBVIOUS
    <3>5. PendingWrites(rpc) = n - e + h
      BY <3>2, <3>3, <3>4 DEF PendingWrites
    <3>6. PendingWrites(s) = (n + 1) - e + h
      BY <1>5, <3>1, <3>2, <3>3, <3>4 DEF PendingWrites
    <3> QED BY <2>1, <2>3, <3>5, <3>6
  <2> QED BY <2>1, <2>2, <2>3
<1>7. rpc.retained \in Int
  BY <1>a DEF ClientType
<1>8. PendingWrites(s) <= MaxPendingWrites /\ s.retained + PendingWrites(s) <= MaxRetained
  <2>1. CASE w = End
    BY <1>5, <1>6, <1>7, <1>a, <2>1 DEF Fits
  <2>2. CASE w # End
    BY <1>5, <1>6, <1>7, <2>2, BoundNats DEF CanWrite, HasRoom
  <2> QED BY <2>1, <2>2
<1>9. Fits(s)
  BY <1>4, <1>8, <1>a DEF Fits, Pending
<1>10. Exact(s) /\ Waiting(s)
  BY <1>4, <1>5, <1>a DEF Exact, Waiting, HeldSlots, HeldLates
<1> QED BY <1>4, <1>5, <1>9, <1>10 DEF Sound, s

\* A call is admitted within the limits.
LEMMA CallSound ==
  ASSUME IInv, BoundInv, NEW c \in Calls, Call(c)
  PROVE  Sound(rpc')
<1> DEFINE q == Queued(rpc, c)
<1>1. c \in Writes /\ pc[c] = "idle"
  BY Names DEF Call
<1>2. Sound(q) /\ q.entry = rpc.entry /\ q.slot = rpc.slot /\ q.late = rpc.late
      /\ q.responded = rpc.responded
  BY <1>1, QueuedFits, QueuedIs DEF Call
<1>3. rpc' = [q EXCEPT !.entry[c] = "waiting"]
  BY DEF Call
<1> HIDE DEF q
<1>4. /\ rpc' \in ClientType /\ rpc'.queue = q.queue /\ rpc'.inHand = q.inHand
      /\ rpc'.slot = q.slot /\ rpc'.late = q.late /\ rpc'.responded = q.responded
      /\ rpc'.retained = q.retained /\ rpc'.chunk = q.chunk
      /\ rpc'.entry[c] = "waiting" /\ \A d \in Calls \ {c} : rpc'.entry[d] = q.entry[d]
  BY ZenonT(60), <1>2, <1>3 DEF ClientType, Sound
<1>5. rpc.late[c] = "none" /\ rpc.slot[c] = "none"
  BY <1>1 DEF IInv, WriteInv
<1>6. Waiting(rpc')
  BY <1>2, <1>4, <1>5 DEF Waiting, Sound
<1>7. Exact(rpc')
  BY <1>2, <1>4 DEF Exact, HeldSlots, HeldLates, Sound
<1>8. PendingWrites(rpc') = PendingWrites(q)
  BY <1>2, <1>4, WritesAre DEF Sound
<1>9. IsFiniteSet(Pending(rpc')) /\ Cardinality(Pending(rpc')) <= MaxPendingCalls
  <2>1. Pending(rpc') = Pending(rpc) \cup {c}
    BY <1>2, <1>4 DEF Pending
  <2>2. IsFiniteSet(Pending(rpc)) /\ Cardinality(Pending(rpc)) < MaxPendingCalls
    BY DEF BoundInv, Fits, Call
  <2>3. Cardinality(Pending(rpc)) \in Nat
    BY <2>2, FS_CardinalityType
  <2>4. /\ IsFiniteSet(Pending(rpc) \cup {c})
        /\ Cardinality(Pending(rpc) \cup {c}) = IF c \in Pending(rpc) THEN Cardinality(Pending(rpc))
                                                ELSE Cardinality(Pending(rpc)) + 1
    BY <2>2, FS_AddElement
  <2> QED BY <2>1, <2>2, <2>3, <2>4, BoundNats
<1>10. Fits(rpc')
  BY <1>2, <1>4, <1>8, <1>9 DEF Fits, Sound
<1> QED BY <1>4, <1>6, <1>7, <1>10 DEF Sound

\* Fewer writes are pending.
LEMMA MarkSound ==
  ASSUME NEW r, Sound(r), NEW i \in {"open", "ending", "ended"}
  PROVE  Sound([r EXCEPT !.input = i])
<1> DEFINE s == [r EXCEPT !.input = i]
<1>1. /\ s \in ClientType /\ s.entry = r.entry /\ s.slot = r.slot /\ s.late = r.late
      /\ s.retained = r.retained /\ s.chunk = r.chunk /\ s.responded = r.responded
      /\ s.queue = r.queue /\ s.inHand = r.inHand
  BY DEF ClientType, Sound
<1> HIDE DEF s
<1>2. PendingWrites(s) = PendingWrites(r) /\ PendingWrites(r) \in Nat
  BY <1>1, WritesAre DEF Sound
<1>3. PendingWrites(s) <= PendingWrites(r)
  BY <1>2
<1> QED BY <1>1, <1>3, LeavesSound DEF s

\* A call that is given up holds no more than it did.
LEMMA GiveUpSound ==
  ASSUME NEW c \in Calls, Sound(rpc), GiveUp(c)
  PROVE  Sound(rpc')
<1>1. Abandoned(rpc, c) \in ClientType
  BY DEF Abandoned, ClientType, Sound
<1>2. Sound(Abandoned(rpc, c))
  BY <1>1, EntryKeeps, KeptIsSound DEF Abandoned, GiveUp, Sound
<1>3. "context" \in Whys \ {"up"}
  BY DEF Whys
<1> QED BY <1>2, <1>3, FailSound DEF GiveUp

\* Finish gives back the byte of the late answer it takes.
LEMMA FinishSound ==
  ASSUME NEW p \in Prompts, Sound(rpc), Finish(p)
  PROVE  Sound(rpc')
<1> DEFINE s == [rpc EXCEPT !.entry[p] = "none"]
           t == [rpc EXCEPT !.late[p] = "none", !.retained = @ - Costs(rpc.late[p])]
<1>1. rpc \in ClientType /\ p \in Calls /\ Costs(rpc.late[p]) \in {0, 1}
      /\ Waiting(rpc) /\ Exact(rpc) /\ Fits(rpc)
  BY Names, CostsIs DEF Sound
<1>2. (rpc' = s /\ rpc.entry[p] # "none") \/ rpc' = t \/ rpc' = rpc
  BY DEF Finish
<1>3. rpc.entry[p] # "none" => Sound(s)
  <2>1. s \in ClientType
    BY <1>1 DEF ClientType
  <2> QED BY <1>1, <2>1, EntryKeeps, KeptIsSound
<1>a. /\ rpc.retained - Costs(rpc.late[p]) \in Int /\ rpc.retained - Costs(rpc.late[p]) <= rpc.retained
      /\ [rpc.late EXCEPT ![p] = "none"] \in [Calls -> Lates]
  BY <1>1 DEF ClientType, Lates
<1>4. /\ t \in ClientType /\ t.entry = rpc.entry /\ t.slot = rpc.slot
      /\ t.late[p] = "none" /\ \A d \in Calls \ {p} : t.late[d] = rpc.late[d]
      /\ t.retained = rpc.retained - Costs(rpc.late[p]) /\ t.chunk = rpc.chunk
      /\ t.responded = rpc.responded /\ t.queue = rpc.queue /\ t.inHand = rpc.inHand
  BY ZenonT(60), <1>1, <1>a DEF ClientType
<1> HIDE DEF s, t
<1>5. Sound(t)
  <2>1. t.retained - Costs(t.late[p]) = rpc.retained - Costs(rpc.late[p])
    BY <1>1, <1>4, <1>a, CostsIs
  <2>2. Exact(t)
    BY <1>1, <1>4, <2>1, LateExact
  <2>3. Fits(t)
    BY <1>1, <1>4, <1>a, LessFits DEF Pending
  <2>4. Waiting(t)
    BY <1>1, <1>4 DEF Waiting
  <2> QED BY <1>4, <2>2, <2>3, <2>4 DEF Sound
<1> QED BY <1>2, <1>3, <1>5

\* A write in hand still counts.
LEMMA TakeWriteSound ==
  ASSUME Sound(rpc), IsInjective(rpc.queue), TakeWrite
  PROVE  Sound(rpc')
<1> DEFINE q == Tail(rpc.queue)
           w == Head(rpc.queue)
<1>1. rpc.queue \in Seq(Writes) /\ rpc.queue # <<>> /\ rpc \in ClientType
  BY DEF Sound, ClientType, TakeWrite
<1>2. /\ w \in Writes /\ q \in Seq(Writes) /\ Len(q) = Len(rpc.queue) - 1 /\ Len(rpc.queue) \in Nat
      /\ (Contains(q, End) <=> Contains(rpc.queue, End))
  <2>1. Contains(q, End) <=> Contains(rpc.queue, End) /\ End # w
    BY <1>1, TailHas
  <2> QED BY <1>1, <2>1, HeadTailProperties, LenProperties DEF TakeWrite
<1>3. rpc' = [rpc EXCEPT !.inHand = w, !.queue = q] /\ rpc.inHand = "none"
  BY DEF TakeWrite
<1> HIDE DEF q, w
<1>4. /\ rpc' \in ClientType /\ rpc'.entry = rpc.entry /\ rpc'.slot = rpc.slot /\ rpc'.late = rpc.late
      /\ rpc'.retained = rpc.retained /\ rpc'.chunk = rpc.chunk /\ rpc'.responded = rpc.responded
      /\ rpc'.queue = q /\ rpc'.inHand = w
  BY <1>1, <1>2, <1>3 DEF ClientType
<1>5. PendingWrites(rpc') <= PendingWrites(rpc)
  <2>1. PICK n \in Int : n = Len(rpc.queue) /\ Len(q) = n - 1
    BY <1>2
  <2>2. PICK e \in {0, 1} : e = IF Contains(rpc.queue, End) THEN 1 ELSE 0
    OBVIOUS
  <2>3. w # "none"
    BY <1>2, Names
  <2>4. PendingWrites(rpc) = n - e + 0 /\ PendingWrites(rpc') = (n - 1) - e + 1
    BY <1>2, <1>3, <1>4, <2>1, <2>2, <2>3 DEF PendingWrites
  <2> QED BY <2>4
<1> QED BY <1>4, <1>5, LeavesSound

\* A write has returned, or the writes that are left are dropped.
LEMMA FewerWrites ==
  ASSUME NEW r \in ClientType, NEW s, s.queue \in {r.queue, <<>>}, s.inHand \in {r.inHand, "none"}
  PROVE  PendingWrites(s) <= PendingWrites(r)
<1>1. r.queue \in Seq(Writes) /\ Len(r.queue) \in Nat /\ Len(<<>>) = 0 /\ ~Contains(<<>>, End)
  BY LenProperties, EmptySeq, EmptyHas DEF ClientType
<1>2. Contains(r.queue, End) => Len(r.queue) # 0
  <2> SUFFICES ASSUME Contains(r.queue, End), Len(r.queue) = 0 PROVE FALSE
    OBVIOUS
  <2>1. \E i \in 1..0 : TRUE
    BY DEF Contains
  <2> QED BY <2>1
<1>a. Len(r.queue) - (IF Contains(r.queue, End) THEN 1 ELSE 0) \in Nat
  BY <1>1, <1>2
<1>3. PICK n \in Nat : n = Len(r.queue) - (IF Contains(r.queue, End) THEN 1 ELSE 0)
  BY <1>a
<1>4. PICK h \in {0, 1} : h = IF r.inHand = "none" THEN 0 ELSE 1
  OBVIOUS
<1>5. PendingWrites(r) = n + h
  BY <1>3, <1>4 DEF PendingWrites
<1>6. PICK m \in {n, 0} : m = Len(s.queue) - (IF Contains(s.queue, End) THEN 1 ELSE 0)
  <2>1. CASE s.queue = r.queue
    BY <1>3, <2>1
  <2>2. CASE s.queue = <<>>
    <3>1. Len(s.queue) - (IF Contains(s.queue, End) THEN 1 ELSE 0) = 0
      BY <1>1, <2>2
    <3> QED BY <3>1
  <2> QED BY <2>1, <2>2
<1>7. PICK i \in {h, 0} : i = IF s.inHand = "none" THEN 0 ELSE 1
  BY <1>4
<1>8. PendingWrites(s) = m + i
  BY <1>6, <1>7 DEF PendingWrites
<1> QED BY <1>5, <1>8

\* A write that is done does not.
LEMMA WrittenSound ==
  ASSUME TypeInv, Sound(rpc), rpc.inHand # "none", NEW how \in {"ok", "failed"}
  PROVE  Sound(Written(how))
<1>1. Written(how) \in ClientType
  BY WrittenIs
<1>2. LET s == Written(how) IN
      /\ s.entry = rpc.entry /\ s.slot = rpc.slot /\ s.late = rpc.late /\ s.retained = rpc.retained
      /\ s.chunk = rpc.chunk /\ s.responded = rpc.responded /\ s.queue = rpc.queue /\ s.inHand = "none"
  BY DEF Written, TypeInv, ClientType
<1>3. PendingWrites(Written(how)) <= PendingWrites(rpc)
  BY <1>2, FewerWrites DEF TypeInv
<1> QED BY <1>1, <1>2, <1>3, LeavesSound

\* The writer keeps the account.
LEMMA WriterSound ==
  ASSUME TypeInv, Sound(rpc), WriteReturns \/ WriteFails \/ CloseInput \/ Drain
  PROVE  Sound(rpc')
<1>a. "input" \in Whys \ {"up"}
  BY DEF Whys
<1>1. CASE WriteReturns
  BY <1>1, WrittenSound DEF WriteReturns
<1>2. CASE WriteFails
  <2> DEFINE r == Written("failed")
  <2>1. Sound(r)
    BY <1>2, WrittenSound DEF WriteFails
  <2> HIDE DEF r
  <2>2. rpc' = [r EXCEPT !.writer = "failed"]
    BY <1>2 DEF WriteFails, r
  <2>3. /\ rpc' \in ClientType /\ rpc'.entry = r.entry /\ rpc'.slot = r.slot /\ rpc'.late = r.late
        /\ rpc'.retained = r.retained /\ rpc'.chunk = r.chunk /\ rpc'.responded = r.responded
        /\ rpc'.queue = r.queue /\ rpc'.inHand = r.inHand
    BY <2>1, <2>2 DEF Sound, ClientType
  <2>4. PendingWrites(rpc') <= PendingWrites(r)
    BY <2>1, <2>3, FewerWrites DEF Sound
  <2> QED BY <2>1, <2>3, <2>4, LeavesSound
<1>3. CASE CloseInput
  <2> DEFINE r == [rpc EXCEPT !.queue = <<>>, !.writer = "returned"]
             s == [r EXCEPT !.written[End] = "ok", !.input = "ended"]
             t == [r EXCEPT !.written[End] = "failed"]
  <2>1. <<>> \in Seq(Writes) /\ End \in Writes
    BY EmptyHas, Names
  <2>2. /\ r \in ClientType /\ r.entry = rpc.entry /\ r.slot = rpc.slot /\ r.late = rpc.late
        /\ r.retained = rpc.retained /\ r.chunk = rpc.chunk /\ r.responded = rpc.responded
        /\ r.queue = <<>> /\ r.inHand = rpc.inHand
    BY <2>1 DEF Sound, ClientType
  <2>3. rpc' = s \/ rpc' = Stop(t, "input")
    BY <1>3 DEF CloseInput
  <2> HIDE DEF r
  <2>4. /\ s \in ClientType /\ s.entry = r.entry /\ s.slot = r.slot /\ s.late = r.late
        /\ s.retained = r.retained /\ s.chunk = r.chunk /\ s.responded = r.responded
        /\ s.queue = r.queue /\ s.inHand = r.inHand
    BY <2>1, <2>2 DEF ClientType
  <2>5. /\ t \in ClientType /\ t.entry = r.entry /\ t.slot = r.slot /\ t.late = r.late
        /\ t.retained = r.retained /\ t.chunk = r.chunk /\ t.responded = r.responded
        /\ t.queue = r.queue /\ t.inHand = r.inHand
    BY <2>1, <2>2 DEF ClientType
  <2> HIDE DEF s, t
  <2>6. PendingWrites(s) <= PendingWrites(rpc) /\ PendingWrites(t) <= PendingWrites(rpc)
    BY <2>2, <2>4, <2>5, FewerWrites DEF Sound
  <2>7. Sound(s)
    BY <2>2, <2>4, <2>6, LeavesSound
  <2>8. Sound(t)
    BY <2>2, <2>5, <2>6, LeavesSound
  <2> QED BY <1>a, <2>3, <2>7, <2>8, FailSound
<1>4. CASE Drain
  <2> DEFINE r == IF rpc.writer = "failed" THEN Stop(rpc, "input") ELSE rpc
             f == [w \in Writes |-> IF Contains(r.queue, w) THEN "failed" ELSE r.written[w]]
  <2>1. Sound(r)
    BY <1>a, FailSound
  <2>2. rpc' = [r EXCEPT !.queue = <<>>, !.writer = "returned", !.written = f]
    BY <1>4 DEF Drain
  <2> HIDE DEF r
  <2>3. f \in [Writes -> {"none", "ok", "failed"}] /\ <<>> \in Seq(Writes)
    BY <2>1, EmptyHas DEF Sound, ClientType
  <2> HIDE DEF f
  <2>4. /\ rpc' \in ClientType /\ rpc'.entry = r.entry /\ rpc'.slot = r.slot /\ rpc'.late = r.late
        /\ rpc'.retained = r.retained /\ rpc'.chunk = r.chunk /\ rpc'.responded = r.responded
        /\ rpc'.queue = <<>> /\ rpc'.inHand = r.inHand
    BY <2>1, <2>2, <2>3 DEF Sound, ClientType
  <2>5. PendingWrites(rpc') <= PendingWrites(r)
    BY <2>1, <2>4, FewerWrites DEF Sound
  <2> QED BY <2>1, <2>4, <2>5, LeavesSound
<1> QED BY <1>1, <1>2, <1>3, <1>4

\* The reader keeps the account.
LEMMA ReaderSound ==
  ASSUME TypeInv, Sound(rpc), Reader
  PROVE  Sound(rpc')
<1>1. CASE Read
  <2>1. Head(out) \in FrameType
    BY <1>1, HeadTailProperties DEF Read, TypeInv
  <2> QED BY <1>1, <2>1, AcceptedSound DEF Read
<1>2. CASE OutputEnds
  <2> DEFINE why == CASE rpc.input = "open" -> "output"
                      [] rpc.input = "ended" /\ Pending(rpc) = {} /\ rpc.retained = 0
                         /\ PendingWrites(rpc) = 0 -> "closed"
                      [] OTHER -> "protocol"
  <2>1. why \in {"output", "closed", "protocol"}
    BY DEF TypeInv, ClientType
  <2>2. rpc' = Fail(rpc, why)
    BY <1>2 DEF OutputEnds
  <2> HIDE DEF why
  <2>3. why \in Whys \ {"up"}
    BY <2>1 DEF Whys
  <2> QED BY <2>2, <2>3, FailSound
<1>3. CASE ReaderReturns
  <2>1. /\ rpc' \in ClientType /\ rpc'.entry = rpc.entry /\ rpc'.slot = rpc.slot /\ rpc'.late = rpc.late
        /\ rpc'.retained = rpc.retained /\ rpc'.chunk = rpc.chunk /\ rpc'.responded = rpc.responded
        /\ rpc'.queue = rpc.queue /\ rpc'.inHand = rpc.inHand
    BY <1>3 DEF ReaderReturns, Sound, ClientType
  <2>2. PendingWrites(rpc') <= PendingWrites(rpc)
    BY <2>1, FewerWrites DEF Sound
  <2> QED BY <2>1, <2>2, LeavesSound
<1> QED BY <1>1, <1>2, <1>3 DEF Reader

\* Every step keeps the account.
LEMMA BoundInductive == IInv /\ BoundInv /\ [Next]_vars => BoundInv'
<1> SUFFICES ASSUME IInv, BoundInv, [Next]_vars PROVE Sound(rpc')
  BY DEF Sound, BoundInv
<1>a. Sound(rpc) /\ TypeInv
  BY SoundNow DEF IInv
<1>b. "context" \in Whys \ {"up"} /\ "closed" \in Whys \ {"up"}
  BY DEF Whys
<1>1. ASSUME NEW w \in Writes, WriteSettled(w) PROVE Sound(rpc')
  BY <1>1, <1>a, <1>b, FailSound DEF WriteSettled
<1>2. ASSUME NEW c \in Calls, Call(c) PROVE Sound(rpc')
  BY <1>2, CallSound
<1>3. ASSUME NEW c \in Calls, TakeResponse(c) PROVE Sound(rpc')
  BY <1>3, <1>a, TakenSound DEF TakeResponse
<1>4. ASSUME NEW c \in Calls, GiveUp(c) PROVE Sound(rpc')
  BY <1>4, <1>a, GiveUpSound
<1>5. ASSUME NEW p \in Prompts, Finish(p) PROVE Sound(rpc')
  BY <1>5, <1>a, FinishSound
<1>6. ASSUME NEW u \in Uis, CancelUI(u) PROVE Sound(rpc')
  <2>1. u \in Writes /\ pc[u] = "idle" /\ CanWrite(rpc) /\ rpc' = Queued(rpc, u)
    BY <1>6, Names DEF CancelUI
  <2> QED BY <2>1, QueuedFits
<1>7. CASE EndInput
  <2>1. End \in Writes /\ pc[End] = "idle"
    BY <1>7, Names DEF EndInput
  <2>2. Sound(Queued(rpc, End))
    BY <2>1, QueuedFits
  <2> QED BY <1>7, <2>2, MarkSound DEF EndInput
<1>8. CASE Close
  BY <1>8, <1>a, <1>b, FailSound DEF Close
<1>9. CASE TakeWrite
  BY <1>9, <1>a, TakeWriteSound DEF IInv, WriteInv
<1>10. CASE WriteReturns \/ WriteFails \/ CloseInput \/ Drain
  BY <1>10, <1>a, WriterSound
<1>11. CASE Reader
  BY <1>11, <1>a, ReaderSound
<1>12. CASE \/ Native \/ (\E c \in Calls : WriteReturned(c) \/ Leaves(c)) \/ UNCHANGED vars
  <2>1. UNCHANGED rpc
    BY <1>12 DEF Native, NativeReady, NativeReads, NativeEvent, NativeExits, NativeAnswers,
       NativeFails, WriteReturned, Leaves, vars
  <2> QED BY <1>a, <2>1
<1> QED BY <1>1, <1>2, <1>3, <1>4, <1>5, <1>6, <1>7, <1>8, <1>9, <1>10, <1>11, <1>12
        DEF Next, Caller, Writer

\* It holds at first.
LEMMA BoundInitial == Init => BoundInv
<1> SUFFICES ASSUME Init PROVE BoundInv
  OBVIOUS
<1>1. HeldSlots(rpc) = {} /\ HeldLates(rpc) = {} /\ Pending(rpc) = {}
  BY CostsIs DEF Init, NewClient, HeldSlots, HeldLates, Pending
<1>2. PendingWrites(rpc) = 0
  <2>1. Len(<<>>) = 0 /\ ~Contains(<<>>, End)
    BY EmptySeq, EmptyHas
  <2>2. rpc.queue = <<>> /\ rpc.inHand = "none"
    BY DEF Init, NewClient
  <2> QED BY <2>1, <2>2 DEF PendingWrites
<1>3. rpc.retained = 0 /\ rpc.chunk = 0
  BY DEF Init, NewClient
<1> QED BY <1>1, <1>2, <1>3, FS_EmptySet, BoundNats DEF BoundInv, Exact, Fits

\* Native answers as the outcomes say.
OutcomeInv == work \in [Calls -> {"none", "running"} \cup Outcomes]

\* Native answers with one of its outcomes.
LEMMA OutcomeInductive == TypeInv /\ OutcomeInv /\ [Next]_vars => OutcomeInv'
<1> SUFFICES ASSUME TypeInv, OutcomeInv, [Next]_vars PROVE OutcomeInv'
  OBVIOUS
<1>1. CASE NativeReads
  BY <1>1 DEF NativeReads, OutcomeInv
<1>2. ASSUME NEW c \in Calls, NativeAnswers(c) PROVE OutcomeInv'
  BY <1>2 DEF NativeAnswers, OutcomeInv
<1>3. CASE UNCHANGED work
  BY <1>3 DEF OutcomeInv
<1> QED BY <1>1, <1>2, <1>3 DEF Next, Caller, Writer, Reader, Native, WriteSettled, Call, TakeResponse,
       WriteReturned, Leaves, GiveUp, Finish, CancelUI, EndInput, Close, TakeWrite, WriteReturns, WriteFails,
       CloseInput, Drain, Read, OutputEnds, ReaderReturns, NativeReady, NativeEvent, NativeExits,
       NativeFails, vars, nativeVars

\* retainedBytes is at every moment what the client holds: no response is counted twice or
\* forgotten, however calls, stops, takes and late answers interleave.
THEOREM RetainedExactAlways == Spec => []RetainedExact
<1>1. BoundInv => RetainedExact
  BY DEF BoundInv, Exact, RetainedExact, HeldSlots, HeldLates
<1> QED BY <1>1, Invariant, BoundInitial, BoundInductive, PTL DEF Spec

\* Every variable stays in its range, and every limit of the client is kept.
THEOREM TypeCorrect == Spec => []TypeOK
<1>1. Init => OutcomeInv
  BY DEF Init, OutcomeInv
<1>2. IInv => TypeInv
  BY DEF IInv
<1>3. IInv /\ BoundInv /\ OutcomeInv => TypeOK
  BY DEF IInv, TypeInv, ClientType, Lates, BoundInv, Fits, OutcomeInv, TypeOK
<1> QED BY <1>1, <1>2, <1>3, Invariant, BoundInitial, BoundInductive, OutcomeInductive, PTL DEF Spec

-----------------------------------------------------------------------------
(* A correct native is refused only for a late error.                      *)

Ready == Frame("ready", "none", "none")
Over == {"gaveup", "bad", "finished", "failed"}

\* What native may send while the protocol is negotiated.
PhaseInv ==
  /\ rpc.phase = "start" => /\ \A c \in Calls : pc[c] = "idle"
                            /\ Len(out) <= 1 /\ \A i \in DOMAIN out : out[i] = Ready
  /\ rpc.phase # "start" => \A i \in DOMAIN out : out[i] # Ready
  /\ \A p \in Prompts : pc[p] # "idle" => rpc.phase = "negotiated"

\* A part is followed by the rest of its frame, a response.
PartInv ==
  /\ \A i \in DOMAIN out : out[i] = Part =>
       rpc.phase = "negotiated" /\ i + 1 \in DOMAIN out /\ out[i + 1].kind = "response"
  /\ rpc.chunk = 1 /\ rpc.reading => out # <<>> /\ Head(out).kind = "response"

\* An input that has been ended leaves nothing behind.
Mute(c) == rpc.entry[c] = "none" /\ Costs(rpc.slot[c]) = 0 /\ Costs(rpc.late[c]) = 0
EndedInv == /\ rpc.input = "open" => ~Contains(rpc.queue, End)
            /\ rpc.input = "ended" => rpc.queue = <<>> /\ rpc.inHand = "none"
InputInv == Up /\ rpc.input # "open" => \A c \in Calls : Mute(c)

\* While the client is up, a call that native has not answered has its entry, and so has a
\* prompt that native may still fail, unless its caller is done with it.
Clear(c) ==
  /\ rpc.slot[c] \in Said \cup {"none"} /\ rpc.late[c] \in {"none", "error"}
  /\ rpc.entry[c] = "abandoned" => pc[c] = "gaveup"
  /\ work[c] \notin Said /\ pc[c] # "idle" => rpc.entry[c] # "none"
  /\ c \in Prompts /\ work[c] \in {"ok", "bad"} /\ c \notin failed
       => rpc.entry[c] # "none" \/ pc[c] \in Over
  /\ c \in rpc.responded => work[c] \in Said
  /\ c \in Prompts /\ rpc.slot[c] \in Said => c \in rpc.responded
  /\ pc[c] = "held" => c \in rpc.responded
Answered(i) ==
  LET c == out[i].call IN
  IF out[i] = First(c) THEN rpc.entry[c] # "none" /\ c \notin rpc.responded
                       ELSE rpc.entry[c] # "none" \/ pc[c] \in Over
Once == \A i, j \in DOMAIN out : out[i].kind = "response" =>
          /\ out[i] = out[j] => i = j
          /\ out[j] = First(out[i].call) => j <= i
ClearInv == Up =>
  /\ rpc.reading
  /\ \A c \in Calls : Clear(c)
  /\ \A i \in DOMAIN out : out[i].kind = "response" => Answered(i)
  /\ Once

SurpriseInv == PhaseInv /\ PartInv /\ EndedInv /\ InputInv /\ ClearInv /\ OnlyLateErrorsSurprise

\* A step of the client or of a caller that takes no frame.
Aside ==
  /\ UNCHANGED <<work, failed>>
  /\ UNCHANGED out \/ (out' = <<>> /\ ~rpc'.reading)
  /\ \A c \in Calls : /\ pc[c] \in Over => pc'[c] = pc[c]
                      /\ pc'[c] # "idle" /\ pc[c] = "idle" =>
                           rpc.phase # "start" /\ (c \in Prompts => rpc.phase = "negotiated")
Beside(r, s) ==
  /\ s.phase = r.phase /\ s.chunk \in {r.chunk, 0} /\ (s.reading => r.reading)
  /\ s.why = "protocol" => r.why = "protocol"
  /\ s.input = "ended" => \/ s.queue = <<>> /\ s.inHand = "none"
                          \/ /\ r.input = "ended" /\ s.queue = r.queue
                             /\ s.inHand \in {r.inHand, "none"}
  /\ s.input = "open" => r.input = "open" /\ (Contains(s.queue, End) => Contains(r.queue, End))

\* The empty sequence has no frame.
LEMMA NoFrames == Len(<<>>) = 0 /\ \A i \in DOMAIN <<>> : FALSE
<1>1. \A n : ~Contains(<<>>, n)
  BY EmptyHas
<1>2. <<>> \in Seq({0}) /\ Len(<<>>) = 0
  BY EmptySeq
<1> QED BY <1>1, <1>2, LenProperties DEF Contains

\* A step aside keeps what does not depend on the client being up.
LEMMA AsideKeeps ==
  ASSUME TypeInv, SurpriseInv, Aside, Beside(rpc, rpc')
  PROVE  PhaseInv' /\ PartInv' /\ EndedInv' /\ OnlyLateErrorsSurprise'
<1>1. PhaseInv'
  <2>1. CASE UNCHANGED out
    BY <2>1, Names DEF SurpriseInv, PhaseInv, Aside, Beside
  <2>2. CASE out' = <<>>
    BY <2>2, NoFrames, Names DEF SurpriseInv, PhaseInv, Aside, Beside
  <2> QED BY <2>1, <2>2 DEF Aside
<1>2. PartInv'
  <2>1. CASE UNCHANGED out
    BY <2>1 DEF SurpriseInv, PartInv, Aside, Beside
  <2>2. CASE out' = <<>> /\ ~rpc'.reading
    BY <2>2, NoFrames DEF PartInv
  <2> QED BY <2>1, <2>2 DEF Aside
<1>3. EndedInv'
  BY DEF SurpriseInv, EndedInv, Beside
<1>4. OnlyLateErrorsSurprise'
  <2> SUFFICES ASSUME rpc'.why = "protocol"
               PROVE  \E p \in failed' : pc'[p] \in {"gaveup", "bad", "finished", "failed"}
    BY DEF OnlyLateErrorsSurprise
  <2>1. PICK p \in failed : pc[p] \in Over
    BY DEF Beside, SurpriseInv, OnlyLateErrorsSurprise, Over
  <2>2. p \in Calls
    BY Names DEF TypeInv
  <2> QED BY <2>1, <2>2 DEF Aside, Over
<1> QED BY <1>1, <1>2, <1>3, <1>4

\* A client that has stopped promises nothing more.
LEMMA StoppedKeeps ==
  ASSUME TypeInv, SurpriseInv, Aside, Beside(rpc, rpc'), rpc'.why # "up"
  PROVE  SurpriseInv'
BY AsideKeeps DEF SurpriseInv, InputInv, ClearInv, Up

\* What a step may do to a call while the client is up.
Kept(c) ==
  /\ rpc'.slot[c] \in {rpc.slot[c], "none"} /\ rpc'.late[c] \in {rpc.late[c], "none"}
  /\ pc'[c] = "held" => c \in rpc.responded
  /\ \/ rpc'.entry[c] = rpc.entry[c] /\ (pc[c] = "idle" => pc'[c] = "idle")
     \/ rpc'.entry[c] = "abandoned" /\ pc'[c] = "gaveup" /\ rpc.entry[c] # "none"
     \/ rpc'.entry[c] = "none" /\ c \in rpc.responded /\ (pc'[c] \in Over \/ work[c] = "error")
     \/ rpc'.entry[c] = "waiting" /\ pc[c] = "idle" /\ rpc.input = "open"

\* A step aside of a client that is up keeps the rest when it keeps every call.
LEMMA UpKeeps ==
  ASSUME IInv, SurpriseInv, Aside, Beside(rpc, rpc'), Up, rpc'.reading,
         rpc'.responded = rpc.responded, \A c \in Calls : Kept(c),
         rpc'.input # "open" => rpc.input # "open" \/ \A c \in Calls : Mute(c)'
  PROVE  SurpriseInv'
<1>1. PhaseInv' /\ PartInv' /\ EndedInv' /\ OnlyLateErrorsSurprise'
  BY AsideKeeps DEF IInv
<1>2. UNCHANGED <<work, failed, out>> /\ \A c \in Calls : pc[c] \in Over => pc'[c] = pc[c]
  BY DEF Aside
<1>3. InputInv'
  <2> SUFFICES ASSUME rpc'.input # "open", rpc.input # "open", NEW c \in Calls PROVE Mute(c)'
    BY DEF InputInv
  <2>1. Mute(c)
    BY DEF SurpriseInv, InputInv
  <2> QED BY <2>1, CostsIs DEF Mute, Kept, SurpriseInv, ClearInv, Clear
<1>4. \A c \in Calls : Clear(c)'
  <2> SUFFICES ASSUME NEW c \in Calls PROVE Clear(c)'
    OBVIOUS
  <2>1. Clear(c) /\ Kept(c) /\ (pc[c] = "idle" => work[c] = "none" /\ rpc.entry[c] = "none")
    BY DEF SurpriseInv, ClearInv, IInv, WriteInv
  <2>2. rpc'.slot[c] \in Said \cup {"none"} /\ rpc'.late[c] \in {"none", "error"}
    BY <2>1 DEF Clear, Kept
  <2>3. rpc'.entry[c] = "abandoned" => pc'[c] = "gaveup"
    BY <1>2, <2>1 DEF Clear, Kept, Over
  <2>4. work[c] \notin Said /\ pc'[c] # "idle" => rpc'.entry[c] # "none"
    BY <2>1 DEF Clear, Kept, Said
  <2>5. c \in Prompts /\ work[c] \in {"ok", "bad"} /\ c \notin failed
          => rpc'.entry[c] # "none" \/ pc'[c] \in Over
    BY <1>2, <2>1 DEF Clear, Kept
  <2> QED BY <1>2, <2>1, <2>2, <2>3, <2>4, <2>5 DEF Clear, Kept, Said
<1>5. \A i \in DOMAIN out : out[i].kind = "response" => Answered(i)'
  <2> SUFFICES ASSUME NEW i \in DOMAIN out, out[i].kind = "response" PROVE Answered(i)'
    OBVIOUS
  <2>1. PICK c \in Calls : c = out[i].call /\ Follows(i) /\ Answered(i) /\ Kept(c)
    BY FrameCalls DEF IInv, FrameInv, SurpriseInv, ClearInv
  <2>2. pc[c] # "idle" /\ work[c] \in Said /\ First(c)' = First(c)
    BY <1>2, <2>1 DEF Follows, IInv, WriteInv, Said, First
  <2>3. CASE out[i] = First(c)
    <3>1. rpc.entry[c] # "none" /\ c \notin rpc.responded
      BY <2>1, <2>3 DEF Answered
    <3>2. rpc'.entry[c] # "none" /\ c \notin rpc'.responded
      BY <2>1, <2>2, <3>1 DEF Kept
    <3> QED BY <1>2, <2>1, <2>2, <2>3, <3>2 DEF Answered
  <2>4. CASE out[i] # First(c)
    <3>1. rpc.entry[c] # "none" \/ pc[c] \in Over
      BY <2>1, <2>4 DEF Answered
    <3>2. work[c] # "error"
      BY <2>1, <2>4 DEF Follows
    <3>3. rpc'.entry[c] # "none" \/ pc'[c] \in Over
      BY <1>2, <2>1, <2>2, <3>1, <3>2 DEF Kept, Over
    <3> QED BY <1>2, <2>1, <2>2, <2>4, <3>3 DEF Answered
  <2> QED BY <2>3, <2>4
<1>6. Once'
  BY <1>2 DEF SurpriseInv, ClearInv, Once, First
<1> QED BY <1>1, <1>2, <1>3, <1>4, <1>5, <1>6 DEF SurpriseInv, ClearInv

\* The same of a step that may stop the client.
LEMMA SideKeeps ==
  ASSUME IInv, SurpriseInv, Aside, Beside(rpc, rpc'),
         Up' => /\ Up /\ (rpc.reading => rpc'.reading) /\ rpc'.responded = rpc.responded
                /\ \A c \in Calls : Kept(c)
                /\ rpc'.input # "open" => rpc.input # "open" \/ \A c \in Calls : Mute(c)'
  PROVE  SurpriseInv'
<1>1. CASE Up'
  <2>1. rpc.reading
    BY <1>1 DEF SurpriseInv, ClearInv
  <2> QED BY <1>1, <2>1, UpKeeps
<1>2. CASE ~Up'
  BY <1>2, StoppedKeeps DEF Up, IInv
<1> QED BY <1>1, <1>2

\* Two steps beside are one.
LEMMA BesideAgain ==
  ASSUME NEW r, NEW s, NEW t, Beside(r, s), Beside(s, t)
  PROVE  Beside(r, t)
BY DEF Beside

\* Stop is a step beside, and its reason is no violation.
LEMMA StopBeside ==
  ASSUME NEW r \in ClientType, NEW why \in Whys \ {"up", "protocol"}
  PROVE  Beside(r, Stop(r, why)) /\ Stop(r, why).why # "up"
<1> DEFINE s == Stop(r, why)
<1>1. /\ s.phase = r.phase /\ s.queue = r.queue /\ s.inHand = r.inHand /\ s.input = r.input
      /\ s.reading = r.reading /\ s.why # "up"
  BY StopIs
<1>2. s.chunk \in {r.chunk, 0} /\ (s.why = "protocol" => r.why = "protocol")
  <2>1. CASE r.why # "up"
    BY <2>1, StopIs
  <2>2. CASE r.why = "up"
    <3>1. s.chunk = 0 /\ s.why = why
      BY <2>2, StopIs
    <3> QED BY <3>1
  <2> QED BY <2>1, <2>2
<1> HIDE DEF s
<1> QED BY <1>1, <1>2 DEF Beside, s

\* So is Fail.
LEMMA FailBeside ==
  ASSUME NEW r \in ClientType, NEW why \in Whys \ {"up", "protocol"}
  PROVE  Beside(r, Fail(r, why)) /\ Fail(r, why).why # "up"
<1> DEFINE s == Stop(r, why)
<1>1. s \in ClientType /\ Beside(r, s) /\ s.why # "up"
  BY StopBeside, StopIs
<1> HIDE DEF s
<1>2. Fail(r, why) = [s EXCEPT !.reading = FALSE]
  BY DEF Fail, s
<1>3. Beside(s, Fail(r, why)) /\ Fail(r, why).why = s.why
  BY <1>1, <1>2 DEF Beside, ClientType
<1> QED BY <1>1, <1>3, BesideAgain

\* A caller hears of its own call, and not when it is over.
LEMMA CallerAside ==
  ASSUME TypeInv, NEW w \in Writes, NEW x \in PCs, Hears(w, x), UNCHANGED nativeVars,
         w \in Calls => /\ pc[w] \notin Over
                        /\ pc[w] = "idle" => /\ rpc.phase # "start"
                                             /\ w \in Prompts => rpc.phase = "negotiated"
  PROVE  Aside
<1>1. /\ pc'[w] = x /\ \A v \in Writes \ {w} : pc'[v] = pc[v]
  BY HearsIs
<1> QED BY <1>1, Names DEF Aside, nativeVars

\* A call that a step leaves alone is kept.
LEMMA Untouched ==
  ASSUME SurpriseInv, Up, NEW c \in Calls, pc'[c] = pc[c], rpc'.entry[c] = rpc.entry[c],
         rpc'.slot[c] = rpc.slot[c], rpc'.late[c] = rpc.late[c]
  PROVE  Kept(c)
BY DEF Kept, SurpriseInv, ClearInv, Clear

\* A cancellation that returns disturbs no call.
LEMMA WriteSettledClear ==
  ASSUME IInv, SurpriseInv, NEW w \in Writes, WriteSettled(w)
  PROVE  SurpriseInv'
<1>1. "context" \in Whys \ {"up", "protocol"} /\ {"ok", "lost", "gaveup"} \subseteq PCs
  BY DEF Whys, PCs, Results
<1>2. PICK x \in PCs : Hears(w, x) /\ (rpc' = rpc \/ rpc' = Stop(rpc, "context"))
  BY <1>1 DEF WriteSettled
<1>3. w \notin Calls /\ UNCHANGED nativeVars /\ TypeInv /\ rpc \in ClientType
  BY DEF WriteSettled, IInv, TypeInv
<1>4. Aside /\ \A c \in Calls : pc'[c] = pc[c]
  BY <1>2, <1>3, CallerAside, HearsIs, Names
<1>5. CASE rpc' = rpc
  <2>1. Beside(rpc, rpc') /\ (Up' => Up)
    BY <1>3, <1>5 DEF Beside, ClientType, Up
  <2> QED BY <1>4, <1>5, <2>1, Untouched, SideKeeps
<1>6. CASE rpc' = Stop(rpc, "context")
  BY <1>1, <1>3, <1>4, <1>6, StopBeside, StoppedKeeps
<1> QED BY <1>2, <1>5, <1>6

\* A write is queued.
LEMMA QueuedClear ==
  ASSUME IInv, SurpriseInv, NEW w \in Writes, pc[w] = "idle", Hears(w, "admission"),
         UNCHANGED <<pipe, nativeVars>>, Up, rpc.input = "open",
         w \in Calls => /\ rpc.phase # "start"
                        /\ w \in Prompts => rpc.phase = "negotiated",
         rpc' \in ClientType,
         rpc'.phase = rpc.phase, rpc'.chunk = rpc.chunk, rpc'.reading = rpc.reading,
         rpc'.why = rpc.why, rpc'.input \in {"open", "ending"},
         rpc'.slot = rpc.slot, rpc'.late = rpc.late, rpc'.responded = rpc.responded,
         \A c \in Calls : rpc'.entry[c] = IF c = w THEN "waiting" ELSE rpc.entry[c],
         rpc'.input # "open" => \A c \in Calls : Mute(c)',
         rpc'.input = "open" => (Contains(rpc'.queue, End) => Contains(rpc.queue, End))
  PROVE  SurpriseInv'
<1>1. pc'[w] = "admission" /\ \A v \in Writes \ {w} : pc'[v] = pc[v]
  BY HearsIs, HearsNames DEF IInv
<1>2. Aside
  BY CallerAside, HearsNames DEF Over, IInv
<1>3. Beside(rpc, rpc')
  BY DEF Beside
<1>4. \A c \in Calls \ {w} : Kept(c)
  BY <1>1, Untouched, Names
<1>5. w \in Calls => Kept(w)
  BY <1>1 DEF Kept
<1> QED BY <1>2, <1>3, <1>4, <1>5, SideKeeps

\* A call that is admitted has its entry.
LEMMA CallClear ==
  ASSUME IInv, SurpriseInv, NEW c \in Calls, Call(c)
  PROVE  SurpriseInv'
<1> DEFINE q == Queued(rpc, c)
<1>1. c \in Writes /\ pc[c] = "idle" /\ Hears(c, "admission") /\ UNCHANGED <<pipe, nativeVars>>
      /\ Up /\ rpc.input = "open" /\ rpc.phase # "start" /\ (c \in Prompts => rpc.phase = "negotiated")
  BY Names DEF Call, Admits, Up
<1>2. q \in ClientType /\ q.entry = rpc.entry /\ (Contains(q.queue, End) => Contains(rpc.queue, End))
  BY <1>1, QueuedIs, Names
<1>3. q.phase = rpc.phase /\ q.chunk = rpc.chunk /\ q.reading = rpc.reading /\ q.why = rpc.why
      /\ q.input = rpc.input /\ q.slot = rpc.slot /\ q.late = rpc.late /\ q.responded = rpc.responded
  BY DEF Queued, IInv, TypeInv, ClientType
<1>4. rpc' = [q EXCEPT !.entry[c] = "waiting"]
  BY DEF Call
<1> HIDE DEF q
<1>5. /\ rpc' \in ClientType /\ rpc'.phase = q.phase /\ rpc'.chunk = q.chunk /\ rpc'.reading = q.reading
      /\ rpc'.why = q.why /\ rpc'.input = q.input /\ rpc'.slot = q.slot /\ rpc'.late = q.late
      /\ rpc'.responded = q.responded /\ rpc'.queue = q.queue
      /\ \A d \in Calls : rpc'.entry[d] = IF d = c THEN "waiting" ELSE q.entry[d]
  BY <1>2, <1>4 DEF ClientType
<1> QED BY <1>1, <1>2, <1>3, <1>5, QueuedClear

\* A write that answers no call disturbs none.
LEMMA MarkClear ==
  ASSUME IInv, SurpriseInv, NEW w \in Writes \ Calls, pc[w] = "idle", Hears(w, "admission"),
         UNCHANGED <<pipe, nativeVars>>, Up, rpc.input = "open",
         NEW i \in {"open", "ending"}, rpc' = [Queued(rpc, w) EXCEPT !.input = i],
         i = "ending" => \A c \in Calls : Mute(c), i = "open" => w # End
  PROVE  SurpriseInv'
<1> DEFINE q == Queued(rpc, w)
<1>1. q \in ClientType /\ (Contains(q.queue, End) => w = End \/ Contains(rpc.queue, End))
  BY QueuedIs
<1>2. q.phase = rpc.phase /\ q.chunk = rpc.chunk /\ q.reading = rpc.reading /\ q.why = rpc.why
      /\ q.slot = rpc.slot /\ q.late = rpc.late /\ q.responded = rpc.responded /\ q.entry = rpc.entry
  BY DEF Queued, IInv, TypeInv, ClientType
<1> HIDE DEF q
<1>3. /\ rpc' \in ClientType /\ rpc'.phase = q.phase /\ rpc'.chunk = q.chunk /\ rpc'.reading = q.reading
      /\ rpc'.why = q.why /\ rpc'.input = i /\ rpc'.slot = q.slot /\ rpc'.late = q.late
      /\ rpc'.responded = q.responded /\ rpc'.entry = q.entry /\ rpc'.queue = q.queue
  BY <1>1 DEF ClientType, q
<1>4. \A c \in Calls : rpc'.entry[c] = IF c = w THEN "waiting" ELSE rpc.entry[c]
  BY <1>2, <1>3
<1>5. rpc'.input # "open" => \A c \in Calls : Mute(c)'
  BY <1>2, <1>3 DEF Mute
<1> QED BY <1>1, <1>2, <1>3, <1>4, <1>5, QueuedClear

\* A client that holds nothing has nothing for any call.
LEMMA NothingHeld ==
  ASSUME BoundInv, TypeInv, Pending(rpc) = {}, rpc.retained = 0
  PROVE  (\A c \in Calls : Mute(c)) /\ rpc.chunk = 0
<1>1. /\ Cardinality(HeldSlots(rpc)) \in Nat /\ Cardinality(HeldLates(rpc)) \in Nat /\ rpc.chunk \in {0, 1}
      /\ 0 = rpc.chunk + Cardinality(HeldSlots(rpc)) + Cardinality(HeldLates(rpc))
  BY FS_CardinalityType DEF BoundInv, Exact, TypeInv, ClientType
<1>2. Cardinality(HeldSlots(rpc)) = 0 /\ Cardinality(HeldLates(rpc)) = 0 /\ rpc.chunk = 0
  BY <1>1
<1>3. HeldSlots(rpc) = {} /\ HeldLates(rpc) = {}
  BY <1>2, FS_EmptySet DEF BoundInv, Exact
<1> QED BY <1>2, <1>3, CostsIs DEF Mute, Pending, HeldSlots, HeldLates

\* The input ends when nothing is pending or held.
LEMMA EndInputClear ==
  ASSUME IInv, BoundInv, SurpriseInv, EndInput
  PROVE  SurpriseInv'
<1>1. \A c \in Calls : Mute(c)
  BY NothingHeld DEF EndInput, IInv
<1> QED BY <1>1, Names, MarkClear DEF EndInput, Admits, Up

\* A dialog is cancelled while the protocol is negotiated.
LEMMA CancelUIClear ==
  ASSUME IInv, SurpriseInv, NEW u \in Uis, CancelUI(u)
  PROVE  SurpriseInv'
<1>1. u \in Writes \ Calls /\ u # End /\ pc[u] = "idle" /\ Up /\ rpc.input = "open"
      /\ Hears(u, "admission") /\ UNCHANGED <<pipe, nativeVars>>
  BY Names DEF CancelUI, Admits, Up
<1>2. Queued(rpc, u) \in ClientType /\ Queued(rpc, u).input = "open"
  BY <1>1, QueuedIs DEF Queued, IInv, TypeInv, ClientType
<1>3. rpc' = [Queued(rpc, u) EXCEPT !.input = "open"]
  BY <1>2 DEF CancelUI, ClientType
<1> QED BY <1>1, <1>3, MarkClear

\* A prompt that is acknowledged is held with its entry; one that is not has no more to hear.
LEMMA TakeResponseClear ==
  ASSUME IInv, SurpriseInv, NEW c \in Calls, TakeResponse(c)
  PROVE  SurpriseInv'
<1> DEFINE x == IF c \in Prompts /\ rpc.slot[c] = "ok" THEN "held" ELSE rpc.slot[c]
<1>1. rpc \in ClientType /\ rpc.slot[c] \in Results /\ c \in Writes /\ UNCHANGED nativeVars
      /\ pc[c] \in {"admission", "leaving", "response"} /\ TypeInv
  BY Names DEF IInv, TypeInv, ClientType, TakeResponse, Waits
<1>2. x \in PCs /\ Hears(c, x)
  BY <1>1, HearsNames DEF TakeResponse
<1>3. Aside
  BY <1>1, <1>2, CallerAside DEF Over
<1>4. pc'[c] = x /\ \A v \in Writes \ {c} : pc'[v] = pc[v]
  BY <1>1, <1>2, HearsIs
<1> DEFINE s == [rpc EXCEPT !.slot[c] = "none", !.retained = @ - Costs(rpc.slot[c])]
           t == [s EXCEPT !.entry[c] = "none", !.late[c] = "none",
                          !.retained = @ - Costs(s.late[c])]
<1>5. rpc' = IF c \in Prompts /\ rpc.slot[c] # "ok" THEN t ELSE s
  BY DEF TakeResponse, Taken
<1>6. /\ s.phase = rpc.phase /\ s.chunk = rpc.chunk /\ s.reading = rpc.reading /\ s.why = rpc.why
      /\ s.input = rpc.input /\ s.queue = rpc.queue /\ s.inHand = rpc.inHand
      /\ s.responded = rpc.responded /\ s.entry = rpc.entry /\ s.late = rpc.late
      /\ s.slot[c] = "none" /\ \A d \in Calls \ {c} : s.slot[d] = rpc.slot[d]
  BY <1>1 DEF ClientType
<1>7. /\ t.phase = rpc.phase /\ t.chunk = rpc.chunk /\ t.reading = rpc.reading /\ t.why = rpc.why
      /\ t.input = rpc.input /\ t.queue = rpc.queue /\ t.inHand = rpc.inHand
      /\ t.responded = rpc.responded /\ t.entry[c] = "none" /\ t.late[c] = "none"
      /\ t.slot[c] = "none"
      /\ \A d \in Calls \ {c} : /\ t.slot[d] = rpc.slot[d] /\ t.entry[d] = rpc.entry[d]
                                /\ t.late[d] = rpc.late[d]
  BY <1>1 DEF ClientType
<1> HIDE DEF s, t
<1>8. Beside(rpc, rpc')
  BY <1>5, <1>6, <1>7 DEF Beside
<1>9. ASSUME Up PROVE \A d \in Calls : Kept(d)
  <2>1. \A d \in Calls \ {c} : Kept(d)
    BY <1>4, <1>5, <1>6, <1>7, <1>9, Untouched, Names
  <2>2. Clear(c)
    BY <1>9 DEF SurpriseInv, ClearInv
  <2>3. rpc.slot[c] \in Said /\ (c \in Prompts => c \in rpc.responded) /\ work[c] = rpc.slot[c]
    BY <2>2 DEF Clear, TakeResponse, IInv, CallInv
  <2>4. CASE c \in Prompts /\ rpc.slot[c] # "ok"
    <3>1. x \in {"error", "bad"} /\ rpc' = t /\ (x = "error" => work[c] = "error")
      BY <1>5, <2>3, <2>4 DEF Said
    <3> QED BY <1>4, <1>7, <2>1, <2>3, <2>4, <3>1 DEF Kept, Over
  <2>5. CASE ~(c \in Prompts /\ rpc.slot[c] # "ok")
    <3>1. rpc' = s /\ (x = "held" => c \in rpc.responded)
      BY <1>5, <2>3, <2>5 DEF Said
    <3> QED BY <1>1, <1>4, <1>6, <2>1, <3>1 DEF Kept
  <2> QED BY <2>4, <2>5
<1>10. Up' <=> Up
  BY <1>5, <1>6, <1>7 DEF Up
<1>11. rpc'.reading = rpc.reading /\ rpc'.responded = rpc.responded /\ rpc'.input = rpc.input
  BY <1>5, <1>6, <1>7
<1> QED BY <1>3, <1>8, <1>9, <1>10, <1>11, SideKeeps

\* A caller that learns that its write is complete, or is about to leave, keeps its entry.
LEMMA WriteReturnedClear ==
  ASSUME IInv, SurpriseInv, NEW c \in Calls, WriteReturned(c) \/ Leaves(c)
  PROVE  SurpriseInv'
<1>0. PICK x \in {"response", "leaving"} : Hears(c, x)
  BY DEF WriteReturned, Leaves
<1>1. c \in Writes /\ x \in PCs /\ Hears(c, x) /\ UNCHANGED <<rpc, nativeVars>>
      /\ pc[c] = "admission" /\ TypeInv
  BY <1>0, Names, HearsNames DEF WriteReturned, Leaves, IInv
<1>2. Aside
  BY <1>1, CallerAside DEF Over
<1>3. pc'[c] = x /\ \A v \in Writes \ {c} : pc'[v] = pc[v]
  BY <1>1, HearsIs
<1>4. Up => \A d \in Calls : Kept(d)
  <2>1. Up => \A d \in Calls \ {c} : Kept(d)
    BY <1>1, <1>3, Untouched, Names
  <2> QED BY <1>1, <1>3, <2>1 DEF Kept
<1>5. Beside(rpc, rpc')
  BY <1>1 DEF Beside, IInv, TypeInv, ClientType
<1> QED BY <1>1, <1>2, <1>4, <1>5, SideKeeps DEF Up

\* A call that is given up leaves its entry, or stops the client.
LEMMA GiveUpClear ==
  ASSUME IInv, SurpriseInv, NEW c \in Calls, GiveUp(c)
  PROVE  SurpriseInv'
<1> DEFINE s == Abandoned(rpc, c)
<1>1. /\ s \in ClientType /\ s.phase = rpc.phase /\ s.chunk = rpc.chunk /\ s.reading = rpc.reading
      /\ s.why = rpc.why /\ s.input = rpc.input /\ s.queue = rpc.queue /\ s.inHand = rpc.inHand
      /\ s.responded = rpc.responded /\ s.slot = rpc.slot /\ s.late = rpc.late
      /\ s.entry[c] = "abandoned" /\ \A d \in Calls \ {c} : s.entry[d] = rpc.entry[d]
  BY ZenonT(60) DEF Abandoned, IInv, TypeInv, ClientType
<1> HIDE DEF s
<1>2. c \in Writes /\ "gaveup" \in PCs /\ Hears(c, "gaveup") /\ UNCHANGED nativeVars
      /\ pc[c] \in {"admission", "leaving", "response"} /\ TypeInv /\ rpc.entry[c] = "waiting"
  BY Names, HearsNames DEF GiveUp, WriteLost, IInv
<1>3. Aside
  BY <1>2, CallerAside DEF Over
<1>4. pc'[c] = "gaveup" /\ \A v \in Writes \ {c} : pc'[v] = pc[v]
  BY <1>2, HearsIs
<1>5. Beside(rpc, s)
  BY <1>1 DEF Beside
<1>6. CASE rpc' = s
  <2>1. Up => \A d \in Calls \ {c} : Kept(d)
    BY <1>1, <1>4, <1>6, Untouched, Names
  <2>2. Kept(c)
    BY <1>1, <1>2, <1>4, <1>6 DEF Kept
  <2> QED BY <1>1, <1>3, <1>5, <1>6, <2>1, <2>2, SideKeeps DEF Up
<1>7. CASE rpc' = Stop(s, "context")
  <2>1. "context" \in Whys \ {"up", "protocol"}
    BY DEF Whys
  <2>2. Beside(rpc, rpc') /\ rpc'.why # "up"
    BY <1>1, <1>5, <1>7, <2>1, StopBeside, BesideAgain
  <2> QED BY <1>2, <1>3, <2>2, StoppedKeeps
<1> QED BY <1>6, <1>7 DEF GiveUp, s

\* Only a prompt that is finished or has failed gives up its entry.
LEMMA FinishClear ==
  ASSUME IInv, SurpriseInv, NEW p \in Prompts, Finish(p)
  PROVE  SurpriseInv'
<1> DEFINE s == [rpc EXCEPT !.entry[p] = "none"]
           t == [rpc EXCEPT !.late[p] = "none", !.retained = @ - Costs(rpc.late[p])]
<1>1. rpc \in ClientType /\ p \in Calls /\ p \in Writes /\ TypeInv /\ UNCHANGED nativeVars /\ pc[p] = "held"
  BY Names DEF IInv, TypeInv, Finish
<1>2. PICK x \in {"finished", "failed", "unavailable"} :
        /\ Hears(p, x)
        /\ (rpc' = s /\ x = "finished") \/ (rpc' = t /\ x = "failed") \/ rpc' = rpc
  BY DEF Finish
<1>3. /\ s.phase = rpc.phase /\ s.chunk = rpc.chunk /\ s.reading = rpc.reading /\ s.why = rpc.why
      /\ s.input = rpc.input /\ s.queue = rpc.queue /\ s.inHand = rpc.inHand
      /\ s.responded = rpc.responded /\ s.slot = rpc.slot /\ s.late = rpc.late
      /\ s.entry[p] = "none" /\ \A d \in Calls \ {p} : s.entry[d] = rpc.entry[d]
  BY <1>1 DEF ClientType
<1>4. /\ t.phase = rpc.phase /\ t.chunk = rpc.chunk /\ t.reading = rpc.reading /\ t.why = rpc.why
      /\ t.input = rpc.input /\ t.queue = rpc.queue /\ t.inHand = rpc.inHand
      /\ t.responded = rpc.responded /\ t.slot = rpc.slot /\ t.entry = rpc.entry
      /\ t.late[p] = "none" /\ \A d \in Calls \ {p} : t.late[d] = rpc.late[d]
  BY <1>1 DEF ClientType
<1> HIDE DEF s, t
<1>5. Aside
  <2>1. x \in PCs
    BY HearsNames
  <2> QED BY <1>1, <1>2, <2>1, CallerAside DEF Over
<1>6. pc'[p] = x /\ \A v \in Writes \ {p} : pc'[v] = pc[v]
  BY <1>1, <1>2, HearsNames, HearsIs
<1>7. Beside(rpc, rpc') /\ (Up' => Up) /\ rpc'.reading = rpc.reading
      /\ rpc'.responded = rpc.responded /\ rpc'.input = rpc.input
  BY <1>2, <1>3, <1>4 DEF Beside, Up
<1>8. ASSUME Up PROVE \A d \in Calls : Kept(d)
  <2>1. \A d \in Calls \ {p} : Kept(d)
    BY <1>2, <1>3, <1>4, <1>6, <1>8, Untouched, Names
  <2>2. p \in rpc.responded
    BY <1>1, <1>8 DEF SurpriseInv, ClearInv, Clear
  <2>3. Kept(p)
    BY <1>1, <1>2, <1>3, <1>4, <1>6, <2>2 DEF Kept, Over
  <2> QED BY <2>1, <2>3
<1> QED BY <1>5, <1>7, <1>8, SideKeeps

\* A step of the client that no caller hears of and that answers no call.
LEMMA ClientClear ==
  ASSUME IInv, SurpriseInv, UNCHANGED <<pc, nativeVars>>, Beside(rpc, rpc'),
         Up' => /\ rpc'.why = rpc.why /\ rpc'.reading = rpc.reading /\ rpc'.responded = rpc.responded
                /\ rpc'.entry = rpc.entry /\ rpc'.slot = rpc.slot /\ rpc'.late = rpc.late
                /\ rpc'.input # "open" => rpc.input # "open"
  PROVE  SurpriseInv'
<1>1. Aside
  BY DEF Aside, nativeVars
<1>2. Up' => \A c \in Calls : Kept(c)
  BY Untouched DEF Up
<1> QED BY <1>1, <1>2, SideKeeps DEF Up

\* The writer disturbs no call; it ends the input when nothing is queued behind.
LEMMA WriterClear ==
  ASSUME IInv, SurpriseInv, Writer
  PROVE  SurpriseInv'
<1>a. rpc \in ClientType /\ TypeInv
  BY DEF IInv, TypeInv
<1>b. "input" \in Whys \ {"up", "protocol"} /\ <<>> \in Seq(Writes) /\ End \in Writes
  BY EmptyHas, Names DEF Whys
<1>1. CASE TakeWrite
  <2>1. rpc.queue # <<>> /\ UNCHANGED <<pc, nativeVars>>
        /\ rpc' = [rpc EXCEPT !.inHand = Head(rpc.queue), !.queue = Tail(@)]
    BY <1>1 DEF TakeWrite
  <2>2. /\ rpc'.phase = rpc.phase /\ rpc'.chunk = rpc.chunk /\ rpc'.reading = rpc.reading
        /\ rpc'.why = rpc.why /\ rpc'.input = rpc.input /\ rpc'.responded = rpc.responded
        /\ rpc'.entry = rpc.entry /\ rpc'.slot = rpc.slot /\ rpc'.late = rpc.late
    BY <1>a, <2>1 DEF ClientType
  <2>3. rpc.input # "ended"
    BY <2>1 DEF SurpriseInv, EndedInv
  <2>4. rpc'.queue = Tail(rpc.queue)
    BY <1>a, <2>1 DEF ClientType
  <2>5. Contains(rpc'.queue, End) => Contains(rpc.queue, End)
    BY <1>a, <2>1, <2>4, TailHas DEF IInv, WriteInv, ClientType
  <2>6. Beside(rpc, rpc')
    BY <2>2, <2>3, <2>5 DEF Beside
  <2> QED BY <2>1, <2>2, <2>6, ClientClear
<1>2. ASSUME NEW how \in {"ok", "failed"}, rpc.inHand # "none"
      PROVE  LET r == Written(how) IN
             /\ r.phase = rpc.phase /\ r.chunk = rpc.chunk /\ r.reading = rpc.reading
             /\ r.why = rpc.why /\ r.input = rpc.input /\ r.responded = rpc.responded
             /\ r.entry = rpc.entry /\ r.slot = rpc.slot /\ r.late = rpc.late
             /\ r.queue = rpc.queue /\ r.inHand = "none"
  BY <1>a DEF Written, ClientType
<1>3. CASE WriteReturns
  BY <1>2, <1>3, ClientClear DEF Beside, WriteReturns
<1>4. CASE WriteFails
  <2> DEFINE r == Written("failed")
  <2>1. rpc' = [r EXCEPT !.writer = "failed"] /\ rpc.inHand # "none" /\ UNCHANGED <<pc, nativeVars>>
    BY <1>4 DEF WriteFails
  <2>2. /\ r \in ClientType
        /\ r.phase = rpc.phase /\ r.chunk = rpc.chunk /\ r.reading = rpc.reading
        /\ r.why = rpc.why /\ r.input = rpc.input /\ r.responded = rpc.responded
        /\ r.entry = rpc.entry /\ r.slot = rpc.slot /\ r.late = rpc.late
        /\ r.queue = rpc.queue /\ r.inHand = "none"
    BY <1>2, <1>a, <2>1, WrittenIs
  <2> HIDE DEF r
  <2>3. /\ rpc'.phase = rpc.phase /\ rpc'.chunk = rpc.chunk /\ rpc'.reading = rpc.reading
        /\ rpc'.why = rpc.why /\ rpc'.input = rpc.input /\ rpc'.responded = rpc.responded
        /\ rpc'.entry = rpc.entry /\ rpc'.slot = rpc.slot /\ rpc'.late = rpc.late
        /\ rpc'.queue = rpc.queue /\ rpc'.inHand = "none"
    BY <2>1, <2>2 DEF ClientType
  <2> QED BY <2>1, <2>3, ClientClear DEF Beside
<1>5. CASE CloseInput
  <2> DEFINE r == [rpc EXCEPT !.queue = <<>>, !.writer = "returned"]
             s == [r EXCEPT !.written[End] = "ok", !.input = "ended"]
             t == [r EXCEPT !.written[End] = "failed"]
  <2>1. (rpc' = s \/ rpc' = Stop(t, "input")) /\ UNCHANGED <<pc, nativeVars>>
        /\ rpc.inHand = "none" /\ Contains(rpc.queue, End)
    BY <1>5, <1>a, TailHas DEF CloseInput, IInv, WriteInv, ClientType
  <2>2. ~Contains(<<>>, End)
    BY EmptyHas
  <2>3. /\ r \in ClientType /\ r.phase = rpc.phase /\ r.chunk = rpc.chunk /\ r.reading = rpc.reading
        /\ r.why = rpc.why /\ r.input = rpc.input /\ r.responded = rpc.responded
        /\ r.entry = rpc.entry /\ r.slot = rpc.slot /\ r.late = rpc.late
        /\ r.queue = <<>> /\ r.inHand = rpc.inHand
    BY <1>a, <1>b DEF ClientType
  <2> HIDE DEF r
  <2>4. /\ s.phase = r.phase /\ s.chunk = r.chunk /\ s.reading = r.reading
        /\ s.why = r.why /\ s.input = "ended" /\ s.responded = r.responded
        /\ s.entry = r.entry /\ s.slot = r.slot /\ s.late = r.late
        /\ s.queue = <<>> /\ s.inHand = r.inHand
    BY <2>3 DEF ClientType
  <2>5. /\ t \in ClientType /\ t.phase = r.phase /\ t.chunk = r.chunk /\ t.reading = r.reading
        /\ t.why = r.why /\ t.input = r.input /\ t.queue = <<>> /\ t.inHand = r.inHand
    BY <1>b, <2>3 DEF ClientType
  <2> HIDE DEF s, t
  <2>6. CASE rpc' = s
    <3>1. Beside(rpc, rpc')
      BY <2>1, <2>2, <2>3, <2>4, <2>6 DEF Beside
    <3>2. rpc.input # "open"
      BY <2>1 DEF SurpriseInv, EndedInv
    <3> QED BY <2>1, <2>3, <2>4, <2>6, <3>1, <3>2, ClientClear
  <2>7. CASE rpc' = Stop(t, "input")
    <3>1. Beside(rpc, t)
      BY <2>1, <2>2, <2>3, <2>5 DEF Beside
    <3>2. Beside(rpc, rpc') /\ rpc'.why # "up"
      BY <1>b, <2>5, <2>7, <3>1, StopBeside, BesideAgain
    <3> QED BY <2>1, <3>2, ClientClear DEF Up
  <2> QED BY <2>1, <2>6, <2>7
<1>6. CASE Drain
  <2> DEFINE r == IF rpc.writer = "failed" THEN Stop(rpc, "input") ELSE rpc
             f == [w \in Writes |-> IF Contains(r.queue, w) THEN "failed" ELSE r.written[w]]
  <2>1. rpc' = [r EXCEPT !.queue = <<>>, !.writer = "returned", !.written = f]
        /\ UNCHANGED <<pc, nativeVars>>
    BY <1>6 DEF Drain
  <2>2. r \in ClientType /\ Beside(rpc, r) /\ r.why # "up"
    <3>1. CASE rpc.writer = "failed"
      BY <1>a, <1>b, <3>1, StopIs, StopBeside
    <3>2. CASE rpc.writer # "failed"
      BY <1>6, <1>a, <3>2 DEF Drain, Up, Beside, ClientType
    <3> QED BY <3>1, <3>2
  <2> HIDE DEF r, f
  <2>3. /\ rpc'.phase = r.phase /\ rpc'.chunk = r.chunk /\ rpc'.reading = r.reading
        /\ rpc'.why = r.why /\ rpc'.input = r.input /\ rpc'.queue = <<>> /\ rpc'.inHand = r.inHand
    BY <2>1, <2>2 DEF ClientType
  <2>4. Beside(r, rpc')
    <3>1. rpc'.input = "ended" => \/ rpc'.queue = <<>> /\ rpc'.inHand = "none"
                                  \/ r.input = "ended" /\ rpc'.queue = r.queue /\ rpc'.inHand = r.inHand
      BY <2>2, <2>3 DEF SurpriseInv, EndedInv, Beside
    <3> QED BY <2>3, <3>1, EmptyHas DEF Beside
  <2>5. Beside(rpc, rpc')
    BY <2>2, <2>4, BesideAgain
  <2> QED BY <2>1, <2>2, <2>3, <2>5, ClientClear DEF Up
<1> QED BY <1>1, <1>3, <1>4, <1>5, <1>6 DEF Writer

\* Close stops the client.
LEMMA CloseClear ==
  ASSUME IInv, SurpriseInv, Close
  PROVE  SurpriseInv'
<1>1. "closed" \in Whys \ {"up", "protocol"} /\ rpc \in ClientType
  BY DEF Whys, IInv, TypeInv
<1>2. Beside(rpc, rpc') /\ rpc'.why # "up" /\ UNCHANGED <<pc, nativeVars>>
  BY <1>1, StopBeside DEF Close
<1> QED BY <1>2, ClientClear DEF Up

\* The end of the output is no violation: an ended input has left nothing.
LEMMA OutputEndsClear ==
  ASSUME IInv, BoundInv, SurpriseInv, OutputEnds
  PROVE  SurpriseInv'
<1>1. rpc \in ClientType /\ TypeInv /\ out = <<>> /\ Up /\ rpc.input # "ending" /\ rpc.reading
  BY DEF IInv, TypeInv, OutputEnds
<1>2. rpc.input = "ended" => Pending(rpc) = {} /\ rpc.retained = 0 /\ PendingWrites(rpc) = 0
  <2> SUFFICES ASSUME rpc.input = "ended"
               PROVE  Pending(rpc) = {} /\ rpc.retained = 0 /\ PendingWrites(rpc) = 0
    OBVIOUS
  <2>1. (\A c \in Calls : Mute(c)) /\ rpc.queue = <<>> /\ rpc.inHand = "none"
    BY <1>1 DEF SurpriseInv, InputInv, EndedInv
  <2>2. rpc.chunk = 0
    BY <1>1 DEF SurpriseInv, PartInv, ClientType
  <2>3. HeldSlots(rpc) = {} /\ HeldLates(rpc) = {} /\ Pending(rpc) = {}
    BY <2>1 DEF HeldSlots, HeldLates, Pending, Mute
  <2>4. rpc.retained = 0
    BY <2>2, <2>3, FS_EmptySet DEF BoundInv, Exact
  <2>5. PendingWrites(rpc) = 0
    BY <2>1, NoFrames, EmptyHas DEF PendingWrites
  <2> QED BY <2>3, <2>4, <2>5
<1>3. rpc.input = "open" \/ rpc.input = "ended"
  BY <1>1 DEF ClientType
<1>4. rpc' = Fail(rpc, "output") \/ rpc' = Fail(rpc, "closed")
  BY <1>2, <1>3 DEF OutputEnds
<1>5. {"output", "closed"} \subseteq Whys \ {"up", "protocol"}
  BY DEF Whys
<1>6. Beside(rpc, rpc') /\ rpc'.why # "up"
  BY <1>1, <1>4, <1>5, FailBeside
<1> QED BY <1>6, ClientClear DEF Up, OutputEnds

\* The reader returns when the client has stopped.
LEMMA ReaderReturnsClear ==
  ASSUME IInv, SurpriseInv, ReaderReturns
  PROVE  SurpriseInv'
<1>1. rpc' = [rpc EXCEPT !.reading = FALSE] /\ rpc \in ClientType /\ ~Up /\ TypeInv
  BY DEF ReaderReturns, IInv, TypeInv
<1>2. Beside(rpc, rpc') /\ rpc'.why = rpc.why /\ ~rpc'.reading
  BY <1>1 DEF Beside, ClientType
<1>3. Aside
  BY <1>2 DEF Aside, ReaderReturns
<1> QED BY <1>1, <1>2, <1>3, StoppedKeeps DEF Up

-----------------------------------------------------------------------------
(* What native writes.                                                     *)

\* A frame comes last, with a part before it if it answers a prompt of a client that has
\* negotiated.
LEMMA SaysMore ==
  ASSUME TypeInv, NEW f \in FrameType \ {Part}, Says(f) \/ Emit(<<f>>)
  PROVE  /\ \A i \in DOMAIN out : i \in DOMAIN out' /\ out'[i] = out[i]
         /\ \A i \in DOMAIN out' :
              \/ i \in DOMAIN out
              \/ out'[i] = f /\ \A j \in DOMAIN out' : j <= i
              \/ /\ out'[i] = Part /\ f.call \in Prompts
                 /\ i + 1 \in DOMAIN out' /\ out'[i + 1] = f
         /\ out # <<>> => out' # <<>> /\ Head(out') = Head(out)
<1>0. Len(out) \in Nat /\ DOMAIN out = 1..Len(out) /\ (out # <<>> => Len(out) # 0)
  BY LenProperties, EmptySeq DEF TypeInv
<1>1. CASE out' = out
  BY <1>1
<1>2. CASE out' = out \o <<f>>
  <2>1. /\ out' \in Seq(FrameType) /\ Len(out') = Len(out) + 1
        /\ \A i \in 1..Len(out) : out'[i] = out[i]
        /\ out'[Len(out) + 1] = f
    BY <1>2, ConcatProperties DEF TypeInv
  <2>2. DOMAIN out' = 1..(Len(out) + 1)
    BY <2>1, LenProperties
  <2>3. \A i \in DOMAIN out' : i \in DOMAIN out \/ (i = Len(out) + 1 /\ \A j \in DOMAIN out' : j <= i)
    BY <1>0, <2>2
  <2>4. \A i \in DOMAIN out : i \in DOMAIN out'
    BY <1>0, <2>2
  <2>5. out # <<>> => out' # <<>> /\ Head(out') = Head(out)
    <3> SUFFICES ASSUME out # <<>> PROVE out' # <<>> /\ Head(out') = Head(out)
      OBVIOUS
    <3>1. 1 \in 1..Len(out) /\ Len(out') # 0
      BY <1>0, <2>1
    <3>2. out' # <<>>
      BY <3>1, NoFrames
    <3>3. Head(out) = out[1] /\ Head(out') = out'[1]
      BY <2>1, <3>2, HeadTailProperties DEF TypeInv
    <3> QED BY <2>1, <3>1, <3>2, <3>3
  <2> QED BY <1>0, <2>1, <2>3, <2>4, <2>5
<1>3. CASE out' = out \o <<Part, f>> /\ f.call \in Prompts
  <2>1. /\ out' \in Seq(FrameType) /\ Len(out') = Len(out) + 2
        /\ \A i \in 1..Len(out) : out'[i] = out[i]
        /\ out'[Len(out) + 1] = Part /\ out'[Len(out) + 2] = f
    BY <1>3, ConcatProperties DEF TypeInv, FrameType
  <2>2. DOMAIN out' = 1..(Len(out) + 2)
    BY <2>1, LenProperties
  <2>3. \A i \in DOMAIN out' : \/ i \in DOMAIN out
                               \/ i = Len(out) + 2 /\ \A j \in DOMAIN out' : j <= i
                               \/ i = Len(out) + 1 /\ i + 1 = Len(out) + 2 /\ i + 1 \in DOMAIN out'
    BY <1>0, <2>2
  <2>4. \A i \in DOMAIN out : i \in DOMAIN out'
    BY <1>0, <2>2
  <2>5. out # <<>> => out' # <<>> /\ Head(out') = Head(out)
    <3> SUFFICES ASSUME out # <<>> PROVE out' # <<>> /\ Head(out') = Head(out)
      OBVIOUS
    <3>1. 1 \in 1..Len(out) /\ Len(out') # 0
      BY <1>0, <2>1
    <3>2. out' # <<>>
      BY <3>1, NoFrames
    <3>3. Head(out) = out[1] /\ Head(out') = out'[1]
      BY <2>1, <3>2, HeadTailProperties DEF TypeInv
    <3> QED BY <2>1, <3>1, <3>2, <3>3
  <2>6. \A i \in DOMAIN out' : i = Len(out) + 1 => out'[i] = Part /\ (i + 1 = Len(out) + 2 => out'[i + 1] = f)
    BY <2>1
  <2> QED BY <1>0, <1>3, <2>1, <2>3, <2>4, <2>5, <2>6
<1> QED BY <1>1, <1>2, <1>3 DEF Says, Emit

\* What a frame that is neither a part nor the notice leaves as it was.
LEMMA FrameClear ==
  ASSUME TypeInv, SurpriseInv, NEW f \in FrameType \ {Part, Ready}, Says(f) \/ Emit(<<f>>),
         UNCHANGED <<rpc, pc>>, failed \subseteq failed', rpc.phase # "start",
         f.call \in Prompts => f.kind = "response" /\ rpc.phase = "negotiated"
  PROVE  PhaseInv' /\ PartInv' /\ EndedInv' /\ InputInv' /\ OnlyLateErrorsSurprise'
<1>1. /\ \A i \in DOMAIN out : i \in DOMAIN out' /\ out'[i] = out[i]
      /\ \A i \in DOMAIN out' :
           \/ i \in DOMAIN out
           \/ out'[i] = f
           \/ /\ out'[i] = Part /\ f.call \in Prompts
              /\ i + 1 \in DOMAIN out' /\ out'[i + 1] = f
      /\ out # <<>> => out' # <<>> /\ Head(out') = Head(out)
  BY SaysMore
<1>2. Part # Ready /\ f # Part /\ f # Ready
  BY DEF Part, Ready, Frame
<1>3. PhaseInv'
  BY <1>1, <1>2 DEF SurpriseInv, PhaseInv
<1>4. PartInv'
  <2>1. \A i \in DOMAIN out' : out'[i] = Part =>
          rpc.phase = "negotiated" /\ i + 1 \in DOMAIN out' /\ out'[i + 1].kind = "response"
    <3> SUFFICES ASSUME NEW i \in DOMAIN out', out'[i] = Part
                 PROVE  rpc.phase = "negotiated" /\ i + 1 \in DOMAIN out' /\ out'[i + 1].kind = "response"
      OBVIOUS
    <3>1. CASE i \in DOMAIN out
      <4>1. rpc.phase = "negotiated" /\ i + 1 \in DOMAIN out /\ out[i + 1].kind = "response"
        BY <1>1, <3>1 DEF SurpriseInv, PartInv
      <4> QED BY <1>1, <4>1
    <3>2. CASE i \notin DOMAIN out
      BY <1>1, <1>2, <3>2
    <3> QED BY <3>1, <3>2
  <2>2. rpc'.chunk = 1 /\ rpc'.reading => out' # <<>> /\ Head(out').kind = "response"
    BY <1>1 DEF SurpriseInv, PartInv
  <2> QED BY <2>1, <2>2 DEF PartInv
<1>5. EndedInv' /\ InputInv'
  BY DEF SurpriseInv, EndedInv, InputInv, Mute, Up
<1>6. OnlyLateErrorsSurprise'
  BY DEF SurpriseInv, OnlyLateErrorsSurprise
<1> QED BY <1>3, <1>4, <1>5, <1>6

\* A frame that is no answer changes nothing that is owed.
LEMMA NoticeClear ==
  ASSUME TypeInv, SurpriseInv, NEW f \in FrameType \ {Part}, f.kind # "response",
         Says(f) \/ Emit(<<f>>), UNCHANGED <<rpc, pc, work, failed>>
  PROVE  ClearInv'
<1>1. Part.kind # "response"
  BY DEF Part, Frame
<1>2. \A i \in DOMAIN out' : out'[i].kind = "response" => i \in DOMAIN out /\ out'[i] = out[i]
  BY <1>1, SaysMore
<1>3. \A c \in Calls : First(c)' = First(c) /\ First(c).kind = "response"
  BY DEF First, Frame
<1> SUFFICES ASSUME Up' PROVE ClearInv'
  BY DEF ClearInv
<1>4. ClearInv /\ Up
  BY DEF SurpriseInv, Up
<1>5. \A c \in Calls : Clear(c)'
  BY <1>4 DEF ClearInv, Clear
<1>6. \A i \in DOMAIN out' : out'[i].kind = "response" => Answered(i)'
  BY <1>2, <1>4 DEF ClearInv, Answered, First
<1>7. Once'
  <2> SUFFICES ASSUME NEW i \in DOMAIN out', NEW j \in DOMAIN out', out'[i].kind = "response"
               PROVE  /\ out'[i] = out'[j] => i = j
                      /\ out'[j] = First(out[i].call) => j <= i
    BY <1>2 DEF Once, First
  <2>1. i \in DOMAIN out /\ out'[i] = out[i]
    BY <1>2
  <2>2. out'[j].kind = "response" => j \in DOMAIN out /\ out'[j] = out[j]
    BY <1>2
  <2>3. First(out[i].call).kind = "response"
    BY DEF First, Frame
  <2> QED BY <1>4, <2>1, <2>2, <2>3 DEF ClearInv, Once
<1> QED BY <1>4, <1>5, <1>6, <1>7 DEF ClearInv

\* An event comes when the client has seen the notice.
LEMMA NativeEventClear ==
  ASSUME IInv, SurpriseInv, NativeEvent
  PROVE  SurpriseInv'
<1> DEFINE f == Frame("event", "none", "none")
<1>1. f \in FrameType \ {Part, Ready} /\ f.kind = "event" /\ f.call \notin Prompts
  BY RpcAssumption DEF FrameType, Frame, Part, Ready
<1> HIDE DEF f
<1>2. Emit(<<f>>) /\ UNCHANGED <<rpc, pc, work, failed>> /\ rpc.phase # "start" /\ TypeInv
  BY DEF NativeEvent, f, IInv
<1>3. PhaseInv' /\ PartInv' /\ EndedInv' /\ InputInv' /\ OnlyLateErrorsSurprise'
  BY <1>1, <1>2, FrameClear
<1>4. ClearInv'
  BY <1>1, <1>2, NoticeClear
<1> QED BY <1>3, <1>4 DEF SurpriseInv

\* The notice is the first frame.
LEMMA NativeReadyClear ==
  ASSUME IInv, SurpriseInv, NativeReady
  PROVE  SurpriseInv'
<1>1. Ready \in FrameType \ {Part} /\ Ready.kind = "ready" /\ Ready.call \notin Prompts
  BY RpcAssumption DEF FrameType, Frame, Part, Ready
<1>2. /\ Says(Ready) /\ UNCHANGED <<rpc, pc, work, failed>> /\ rpc.phase = "start" /\ TypeInv
      /\ out = <<>>
  BY DEF NativeReady, Ready, IInv
<1>3. ClearInv'
  BY <1>1, <1>2, NoticeClear
<1>4. out' = <<>> \/ out' = <<Ready>>
  <2>1. <<>> \o <<Ready>> = <<Ready>>
    OBVIOUS
  <2> QED BY <1>1, <1>2, <2>1 DEF Says, Emit
<1>5. Ready # Part
  BY DEF Ready, Part, Frame
<1>6. Len(out') <= 1 /\ \A i \in DOMAIN out' : out'[i] = Ready
  BY <1>4, NoFrames
<1>7. PhaseInv'
  BY <1>2, <1>6 DEF SurpriseInv, PhaseInv
<1>8. PartInv'
  BY <1>2, <1>5, <1>6 DEF SurpriseInv, PartInv
<1>9. EndedInv' /\ InputInv' /\ OnlyLateErrorsSurprise'
  BY <1>2 DEF SurpriseInv, EndedInv, InputInv, Mute, Up, OnlyLateErrorsSurprise
<1> QED BY <1>3, <1>7, <1>8, <1>9 DEF SurpriseInv

\* A call that native begins has its entry.
LEMMA NativeReadsClear ==
  ASSUME IInv, SurpriseInv, NativeReads
  PROVE  SurpriseInv'
<1>1. /\ UNCHANGED <<rpc, pc, failed, out>>
      /\ \A c \in Calls : work'[c] # work[c] => work[c] = "none" /\ work'[c] = "running" /\ pc[c] # "idle"
  <2>1. Head(pipe) \in Writes /\ Contains(pipe, Head(pipe))
    BY TailHas DEF NativeReads, IInv, TypeInv, WriteInv
  <2>2. pc[Head(pipe)] # "idle" /\ (Head(pipe) \in Calls => work[Head(pipe)] = "none")
    BY <2>1 DEF IInv, WriteInv
  <2> QED BY <2>2 DEF NativeReads, IInv, TypeInv
<1>2. \A c \in Calls : work[c] \in Said => First(c)' = First(c)
  BY <1>1 DEF First, Said
<1>3. \A i \in DOMAIN out : out[i].kind = "response" =>
        out[i].call \in Calls /\ First(out[i].call)' = First(out[i].call)
  <2> SUFFICES ASSUME NEW i \in DOMAIN out, out[i].kind = "response"
               PROVE  out[i].call \in Calls /\ First(out[i].call)' = First(out[i].call)
    OBVIOUS
  <2>1. PICK c \in Calls : c = out[i].call /\ work[c] \in Said
    BY FrameCalls DEF IInv, FrameInv, Follows
  <2>2. work'[c] = work[c]
    BY <1>1, <2>1 DEF Said
  <2> QED BY <1>1, <2>1, <2>2 DEF First
<1>4. PhaseInv' /\ PartInv' /\ EndedInv' /\ InputInv' /\ OnlyLateErrorsSurprise'
  BY <1>1 DEF SurpriseInv, PhaseInv, PartInv, EndedInv, InputInv, Mute, Up, OnlyLateErrorsSurprise
<1>5. ClearInv'
  <2> SUFFICES ASSUME Up' PROVE ClearInv'
    BY DEF ClearInv
  <2>1. ClearInv /\ Up
    BY <1>1 DEF SurpriseInv, Up
  <2>2. \A c \in Calls : Clear(c)'
    <3> SUFFICES ASSUME NEW c \in Calls PROVE Clear(c)'
      OBVIOUS
    <3>1. Clear(c) /\ (work'[c] = work[c] \/ (work[c] = "none" /\ work'[c] = "running" /\ pc[c] # "idle"))
      BY <1>1, <2>1 DEF ClearInv
    <3> QED BY <1>1, <3>1 DEF Clear, Said
  <2>3. \A i \in DOMAIN out : out[i].kind = "response" => Answered(i)'
    <3> SUFFICES ASSUME NEW i \in DOMAIN out, out[i].kind = "response" PROVE Answered(i)'
      OBVIOUS
    <3>1. Answered(i) /\ First(out[i].call)' = First(out[i].call)
      BY <1>3, <2>1 DEF ClearInv
    <3> QED BY <1>1, <3>1 DEF Answered
  <2>4. Once'
    <3> SUFFICES ASSUME NEW i \in DOMAIN out, NEW j \in DOMAIN out, out[i].kind = "response"
                 PROVE  /\ out[i] = out[j] => i = j
                        /\ out[j] = First(out[i].call)' => j <= i
      BY <1>1 DEF Once
    <3> QED BY <1>3, <2>1 DEF ClearInv, Once
  <2> QED BY <1>1, <2>1, <2>2, <2>3, <2>4 DEF ClearInv
<1> QED BY <1>4, <1>5 DEF SurpriseInv

\* The first answer finds the entry of its call.
LEMMA NativeAnswersClear ==
  ASSUME IInv, SurpriseInv, NEW c \in Calls, NativeAnswers(c)
  PROVE  SurpriseInv'
<1>1. PICK x \in Said : work' = [work EXCEPT ![c] = x] /\ Says(Frame("response", c, x))
  BY RpcAssumption DEF NativeAnswers, Said
<1>2. /\ work[c] = "running" /\ work'[c] = x /\ \A d \in Calls \ {c} : work'[d] = work[d]
      /\ UNCHANGED <<rpc, pc, failed>> /\ TypeInv
  BY <1>1 DEF NativeAnswers, IInv, TypeInv
<1> DEFINE f == Frame("response", c, x)
<1>3. f \in FrameType \ {Part, Ready} /\ f.kind = "response" /\ f.call = c
  BY DEF FrameType, Frame, Part, Ready
<1>4. f = First(c)' /\ Says(f)
  BY <1>1, <1>2 DEF First
<1> HIDE DEF f
<1>5. pc[c] # "idle"
  BY <1>2 DEF IInv, WriteInv
<1>6. PhaseInv' /\ PartInv' /\ EndedInv' /\ InputInv' /\ OnlyLateErrorsSurprise'
  <2>1. rpc.phase # "start" /\ (c \in Prompts => rpc.phase = "negotiated")
    BY <1>5 DEF SurpriseInv, PhaseInv
  <2> QED BY <1>2, <1>3, <1>4, <2>1, FrameClear
<1>7. ClearInv'
  <2> SUFFICES ASSUME Up' PROVE ClearInv'
    BY DEF ClearInv
  <2>1. ClearInv /\ Up
    BY <1>2 DEF SurpriseInv, Up
  <2>2. rpc.entry[c] # "none" /\ c \notin rpc.responded
    BY <1>2, <1>5, <2>1 DEF ClearInv, Clear, Said
  <2>3. ASSUME NEW i \in DOMAIN out, out[i].kind = "response"
        PROVE  /\ i \in DOMAIN out' /\ out'[i] = out[i] /\ out[i] # f
               /\ out[i].call \in Calls /\ out[i].call # c
               /\ First(out[i].call)' = First(out[i].call) /\ First(out[i].call) # f
    <3>1. PICK d \in Calls : d = out[i].call /\ work[d] \in Said
      BY <2>3, FrameCalls DEF IInv, FrameInv, Follows
    <3>2. d # c
      BY <1>2, <3>1 DEF Said
    <3>3. First(d)' = First(d) /\ First(d).call = d
      BY <1>2, <3>2 DEF First, Frame
    <3>4. i \in DOMAIN out' /\ out'[i] = out[i]
      BY <1>2, <1>3, <1>4, SaysMore
    <3> QED BY <1>3, <3>1, <3>2, <3>3, <3>4
  <2>4. \A i \in DOMAIN out' : out'[i].kind = "response" =>
          \/ i \in DOMAIN out /\ out'[i] = out[i]
          \/ out'[i] = f /\ \A j \in DOMAIN out' : j <= i
    <3>1. Part.kind # "response"
      BY DEF Part, Frame
    <3> QED BY <1>2, <1>3, <1>4, <3>1, SaysMore
  <2>5. \A d \in Calls : Clear(d)'
    <3> SUFFICES ASSUME NEW d \in Calls PROVE Clear(d)'
      OBVIOUS
    <3>1. Clear(d)
      BY <2>1 DEF ClearInv
    <3>2. CASE d = c
      BY <1>2, <2>2, <3>1, <3>2 DEF Clear
    <3>3. CASE d # c
      BY <1>2, <3>1, <3>3 DEF Clear
    <3> QED BY <3>2, <3>3
  <2>6. \A i \in DOMAIN out' : out'[i].kind = "response" => Answered(i)'
    <3> SUFFICES ASSUME NEW i \in DOMAIN out', out'[i].kind = "response" PROVE Answered(i)'
      OBVIOUS
    <3>1. CASE i \in DOMAIN out /\ out'[i] = out[i]
      <4>1. Answered(i) /\ out[i].call \in Calls /\ First(out[i].call)' = First(out[i].call)
        BY <2>1, <2>3, <3>1 DEF ClearInv
      <4> QED BY <1>2, <3>1, <4>1 DEF Answered
    <3>2. CASE out'[i] = f
      BY <1>2, <1>3, <1>4, <2>2, <3>2 DEF Answered
    <3> QED BY <2>4, <3>1, <3>2
  <2>7. Once'
    <3> SUFFICES ASSUME NEW i \in DOMAIN out', NEW j \in DOMAIN out', out'[i].kind = "response"
                 PROVE  /\ out'[i] = out'[j] => i = j
                        /\ out'[j] = First(out[i].call)' => j <= i
      BY DEF Once
    <3>0. i \in Int /\ j \in Int
      <4>1. out' \in Seq(FrameType)
        BY <1>2, <1>3, <1>4, SaysIs
      <4> QED BY <4>1, LenProperties
    <3>1. CASE i \in DOMAIN out /\ out'[i] = out[i]
      <4>1. out'[i] # f /\ First(out[i].call)' = First(out[i].call) /\ First(out[i].call) # f
        BY <2>3, <3>1
      <4>2. out'[j] # f /\ out'[j].kind = "response" => j \in DOMAIN out /\ out'[j] = out[j]
        BY <2>4
      <4>3. First(out[i].call).kind = "response"
        BY DEF First, Frame
      <4> QED BY <2>1, <3>1, <4>1, <4>2, <4>3 DEF ClearInv, Once
    <3>2. CASE out'[i] = f /\ \A k \in DOMAIN out' : k <= i
      <4>1. j <= i
        BY <3>2
      <4>2. out'[j] = f => i <= j
        BY <1>3, <2>3, <2>4
      <4> QED BY <3>0, <3>2, <4>1, <4>2
    <3> QED BY <2>4, <3>1, <3>2
  <2> QED BY <1>2, <2>1, <2>5, <2>6, <2>7 DEF ClearInv
<1> QED BY <1>6, <1>7 DEF SurpriseInv

\* A late error finds the entry of its prompt, or a prompt that is over.
LEMMA NativeFailsClear ==
  ASSUME IInv, SurpriseInv, NEW p \in Prompts, NativeFails(p)
  PROVE  SurpriseInv'
<1> DEFINE f == Frame("response", p, "error")
<1>1. /\ p \in Calls /\ work[p] \in {"ok", "bad"} /\ failed' = failed \cup {p} /\ Says(f)
      /\ p \notin failed /\ UNCHANGED <<rpc, pc, work>> /\ TypeInv
  BY Names DEF NativeFails, IInv
<1>2. /\ f \in FrameType \ {Part, Ready} /\ f.kind = "response" /\ f.call = p /\ f # First(p)
  BY <1>1 DEF FrameType, Frame, Part, Ready, Said, First
<1> HIDE DEF f
<1>3. pc[p] # "idle"
  BY <1>1 DEF IInv, WriteInv
<1>4. PhaseInv' /\ PartInv' /\ EndedInv' /\ InputInv' /\ OnlyLateErrorsSurprise'
  <2>1. rpc.phase = "negotiated"
    BY <1>3 DEF SurpriseInv, PhaseInv
  <2> QED BY <1>1, <1>2, <2>1, FrameClear
<1>5. ClearInv'
  <2> SUFFICES ASSUME Up' PROVE ClearInv'
    BY DEF ClearInv
  <2>1. ClearInv /\ Up
    BY <1>1 DEF SurpriseInv, Up
  <2>2. rpc.entry[p] # "none" \/ pc[p] \in Over
    BY <1>1, <2>1 DEF ClearInv, Clear
  <2>3. ASSUME NEW i \in DOMAIN out, out[i].kind = "response"
        PROVE  /\ i \in DOMAIN out' /\ out'[i] = out[i] /\ out[i] # f
               /\ First(out[i].call)' = First(out[i].call) /\ First(out[i].call) # f
    <3>1. PICK d \in Calls : d = out[i].call /\ (out[i] = First(d) \/ d \in failed)
      BY <2>3, FrameCalls DEF IInv, FrameInv, Follows
    <3>2. out[i] # f
      BY <1>1, <1>2, <3>1
    <3>3. First(d)' = First(d) /\ First(d) # f
      BY <1>1, <1>2 DEF First, Frame
    <3>4. i \in DOMAIN out' /\ out'[i] = out[i]
      BY <1>1, <1>2, SaysMore
    <3> QED BY <3>1, <3>2, <3>3, <3>4
  <2>4. \A i \in DOMAIN out' : out'[i].kind = "response" =>
          \/ i \in DOMAIN out /\ out'[i] = out[i]
          \/ out'[i] = f /\ \A j \in DOMAIN out' : j <= i
    <3>1. Part.kind # "response"
      BY DEF Part, Frame
    <3> QED BY <1>1, <1>2, <3>1, SaysMore
  <2>5. \A d \in Calls : Clear(d)'
    BY <1>1, <2>1 DEF ClearInv, Clear
  <2>6. \A i \in DOMAIN out' : out'[i].kind = "response" => Answered(i)'
    <3> SUFFICES ASSUME NEW i \in DOMAIN out', out'[i].kind = "response" PROVE Answered(i)'
      OBVIOUS
    <3>1. CASE i \in DOMAIN out /\ out'[i] = out[i]
      <4>1. Answered(i) /\ First(out[i].call)' = First(out[i].call)
        BY <2>1, <2>3, <3>1 DEF ClearInv
      <4> QED BY <1>1, <3>1, <4>1 DEF Answered
    <3>2. CASE out'[i] = f
      <4>1. First(p)' = First(p)
        BY <1>1 DEF First
      <4> QED BY <1>1, <1>2, <2>2, <3>2, <4>1 DEF Answered
    <3> QED BY <2>4, <3>1, <3>2
  <2>7. Once'
    <3> SUFFICES ASSUME NEW i \in DOMAIN out', NEW j \in DOMAIN out', out'[i].kind = "response"
                 PROVE  /\ out'[i] = out'[j] => i = j
                        /\ out'[j] = First(out[i].call)' => j <= i
      BY DEF Once
    <3>0. i \in Int /\ j \in Int
      <4>1. out' \in Seq(FrameType)
        BY <1>1, <1>2, SaysIs
      <4> QED BY <4>1, LenProperties
    <3>1. CASE i \in DOMAIN out /\ out'[i] = out[i]
      <4>1. out'[i] # f /\ First(out[i].call)' = First(out[i].call) /\ First(out[i].call) # f
        BY <2>3, <3>1
      <4>2. out'[j] # f /\ out'[j].kind = "response" => j \in DOMAIN out /\ out'[j] = out[j]
        BY <2>4
      <4>3. First(out[i].call).kind = "response"
        BY DEF First, Frame
      <4> QED BY <2>1, <3>1, <4>1, <4>2, <4>3 DEF ClearInv, Once
    <3>2. CASE out'[i] = f /\ \A k \in DOMAIN out' : k <= i
      <4>1. j <= i
        BY <3>2
      <4>2. out'[j] = f => i <= j
        BY <1>2, <2>3, <2>4
      <4> QED BY <3>0, <3>2, <4>1, <4>2
    <3> QED BY <2>4, <3>1, <3>2
  <2> QED BY <1>1, <2>1, <2>5, <2>6, <2>7 DEF ClearInv
<1> QED BY <1>4, <1>5 DEF SurpriseInv

\* Native that exits writes nothing.
LEMMA NativeExitsClear ==
  ASSUME IInv, SurpriseInv, NativeExits
  PROVE  SurpriseInv'
<1>1. UNCHANGED <<rpc, pc, work, failed, out>>
  BY DEF NativeExits
<1> QED BY <1>1 DEF SurpriseInv, PhaseInv, PartInv, EndedInv, InputInv, Mute, ClearInv, Clear,
          Answered, First, Once, Up, OnlyLateErrorsSurprise

-----------------------------------------------------------------------------
(* What the reader takes.                                                  *)

\* What no frame changes.
Turn(r, s) ==
  /\ s \in ClientType /\ s.queue = r.queue /\ s.inHand = r.inHand /\ s.input = r.input
  /\ s.phase = "start" => r.phase = "start"
  /\ r.phase = "negotiated" => s.phase = "negotiated"
Refuses(r, s, why) ==
  /\ Turn(r, s) /\ s.phase = r.phase /\ s.chunk \in {r.chunk, 0} /\ ~s.reading
  /\ s.why = IF r.why = "up" THEN why ELSE r.why
Takes(r, s) == Turn(r, s) /\ s.why = r.why /\ s.reading = r.reading
Unheard(r, s) == s.entry = r.entry /\ s.slot = r.slot /\ s.late = r.late /\ s.responded = r.responded
Forgets(r, s, c) ==
  /\ r.entry[c] = "abandoned" /\ s.entry[c] = "none"
  /\ s.slot = r.slot /\ s.late = r.late /\ s.responded = r.responded
  /\ \A d \in Calls \ {c} : s.entry[d] = r.entry[d]

\* Fail refuses, and a client that has stopped keeps its reason.
LEMMA FailRefuses ==
  ASSUME NEW r \in ClientType, NEW why \in Whys \ {"up"}
  PROVE  Refuses(r, Fail(r, why), why)
<1> DEFINE s == Stop(r, why)
<1>1. /\ s \in ClientType /\ s.phase = r.phase /\ s.queue = r.queue /\ s.inHand = r.inHand
      /\ s.input = r.input
  BY StopIs
<1>2. s.chunk \in {r.chunk, 0} /\ s.why = IF r.why = "up" THEN why ELSE r.why
  <2>1. CASE r.why = "up"
    BY <2>1, StopIs
  <2>2. CASE r.why # "up"
    BY <2>2, StopIs
  <2> QED BY <2>1, <2>2
<1> HIDE DEF s
<1>3. Fail(r, why) = [s EXCEPT !.reading = FALSE]
  BY DEF Fail, s
<1>4. /\ Fail(r, why).phase = s.phase /\ Fail(r, why).queue = s.queue
      /\ Fail(r, why).inHand = s.inHand /\ Fail(r, why).input = s.input
      /\ Fail(r, why).chunk = s.chunk /\ Fail(r, why).why = s.why /\ ~Fail(r, why).reading
  BY <1>1, <1>3 DEF ClientType
<1>5. Fail(r, why) \in ClientType
  BY FailIs
<1> QED BY <1>1, <1>2, <1>4, <1>5 DEF Refuses, Turn

\* What a response does to the rest of the client.
LEMMA ResponseTurns ==
  ASSUME NEW r \in ClientType, NEW c \in Calls, NEW x \in Said, NEW s,
         s = AcceptResponse(r, c, x)
  PROVE  \/ /\ Refuses(r, s, "protocol")
            /\ r.entry[c] = "none" \/ (c \in r.responded /\ x # "error")
         \/ Refuses(r, s, "busy")
         \/ Takes(r, s) /\ s.chunk = r.chunk /\ Forgets(r, s, c)
         \/ Takes(r, s) /\ s.chunk = r.chunk /\ AcceptsFirst(r, s, c, x)
         \/ Takes(r, s) /\ s.chunk = r.chunk /\ AcceptsLate(r, s, c, x)
<1> DEFINE gone == [r EXCEPT !.entry[c] = "none"]
           stays == c \in Prompts /\ x # "error"
<1>0. {"protocol", "busy"} \subseteq Whys \ {"up"}
  BY DEF Whys
<1>1. s = Answer(r, c, x, stays)
  BY DEF AcceptResponse
<1>2. /\ gone \in ClientType /\ gone.entry[c] = "none"
      /\ \A d \in Calls \ {c} : gone.entry[d] = r.entry[d]
      /\ gone.phase = r.phase /\ gone.chunk = r.chunk /\ gone.why = r.why /\ gone.reading = r.reading
      /\ gone.queue = r.queue /\ gone.inHand = r.inHand /\ gone.input = r.input
      /\ gone.responded = r.responded /\ gone.slot = r.slot /\ gone.late = r.late
      /\ gone.retained = r.retained
  BY ZenonT(60) DEF ClientType
<1>3. CASE r.entry[c] = "none"
  BY <1>0, <1>1, <1>3, FailRefuses DEF Answer
<1>4. CASE r.entry[c] = "abandoned"
  <2>1. s = gone
    BY <1>1, <1>4 DEF Answer
  <2> HIDE DEF gone
  <2> QED BY <1>2, <1>4, <2>1 DEF Takes, Turn, Forgets
<1>5. CASE r.entry[c] = "waiting" /\ ~HasRoom(r)
  <2> DEFINE late == [gone EXCEPT !.late[c] = "busy"]
             slot == [gone EXCEPT !.slot[c] = "busy"]
  <2>1. s = Fail(late, "busy") \/ s = Fail(slot, "busy")
    BY <1>1, <1>5 DEF Answer
  <2> HIDE DEF gone
  <2>2. late \in ClientType /\ slot \in ClientType
    BY <1>2 DEF ClientType, Lates, Results
  <2>3. \A t \in {late, slot} :
          /\ t.phase = r.phase /\ t.chunk = r.chunk /\ t.why = r.why /\ t.reading = r.reading
          /\ t.queue = r.queue /\ t.inHand = r.inHand /\ t.input = r.input
    BY <1>2 DEF ClientType
  <2> HIDE DEF late, slot
  <2>4. \A t \in {late, slot} : Refuses(t, Fail(t, "busy"), "busy")
    BY <1>0, <2>2, FailRefuses
  <2>5. \A t \in {late, slot} : Refuses(r, Fail(t, "busy"), "busy")
    BY <2>3, <2>4 DEF Refuses, Turn
  <2> QED BY <2>1, <2>5
<1>6. CASE r.entry[c] = "waiting" /\ HasRoom(r) /\ c \notin r.responded
  <2> DEFINE b == IF stays THEN r ELSE gone
             t == [b EXCEPT !.responded = r.responded \cup ({c} \cap Prompts), !.slot[c] = x,
                            !.retained = @ + 1,
                            !.phase = IF c = Hello /\ x = "ok" THEN "negotiated" ELSE @]
  <2>1. s = t
    BY <1>1, <1>2, <1>6 DEF Answer
  <2>2. s \in ClientType /\ AcceptsFirst(r, s, c, x)
    <3>1. s \in ClientType
      BY ResponseIs
    <3>2. t.why = r.why /\ t.reading = r.reading /\ t.queue = r.queue
          /\ t.responded = r.responded \cup ({c} \cap Prompts)
          /\ t.slot[c] = x /\ \A d \in Calls \ {c} : t.slot[d] = r.slot[d]
      BY DEF ClientType
    <3>3. t.late = r.late /\ t.entry[c] = (IF stays THEN "waiting" ELSE "none")
          /\ \A d \in Calls \ {c} : t.entry[d] = r.entry[d]
      BY <1>6 DEF ClientType
    <3> HIDE DEF t
    <3> QED BY <1>6, <2>1, <3>1, <3>2, <3>3 DEF AcceptsFirst, Accepts
  <2>3. /\ t.inHand = r.inHand /\ t.input = r.input /\ t.chunk = r.chunk /\ t.queue = r.queue
        /\ t.why = r.why /\ t.reading = r.reading
        /\ t.phase \in {r.phase, "negotiated"}
    BY DEF ClientType
  <2> HIDE DEF t
  <2> QED BY <2>1, <2>2, <2>3 DEF Takes, Turn
<1>7. CASE r.entry[c] = "waiting" /\ HasRoom(r) /\ c \in r.responded
  <2>1. CASE x # "error"
    BY <1>0, <1>1, <1>7, <2>1, FailRefuses DEF Answer
  <2>2. CASE x = "error"
    <3> DEFINE t == [gone EXCEPT !.late[c] = x, !.retained = @ + 1]
    <3>1. s = t
      BY <1>1, <1>7, <2>2 DEF Answer
    <3>2. s \in ClientType
      BY ResponseIs
    <3>3. /\ t.responded = r.responded /\ t.slot = r.slot /\ t.late[c] = x
          /\ \A d \in Calls \ {c} : t.late[d] = r.late[d] /\ t.entry[d] = r.entry[d]
          /\ t.why = r.why /\ t.reading = r.reading /\ t.queue = r.queue /\ t.entry[c] = "none"
          /\ t.inHand = r.inHand /\ t.input = r.input /\ t.chunk = r.chunk /\ t.phase = r.phase
      BY DEF ClientType
    <3> HIDE DEF t
    <3> QED BY <1>7, <2>2, <3>1, <3>2, <3>3 DEF Takes, Turn, AcceptsLate, Accepts
  <2> QED BY <2>1, <2>2
<1> QED BY <1>3, <1>4, <1>5, <1>6, <1>7 DEF ClientType

\* The frames that a client takes for a violation of the protocol.
Bad(r, f) ==
  \/ f = Part /\ (r.phase # "negotiated" \/ r.chunk # 0)
  \/ f.kind = "ready" /\ (r.phase # "start" \/ r.why # "up")
  \/ f # Part /\ f.kind # "ready" /\ r.phase = "start"
  \/ f.kind = "response" /\ \/ r.entry[f.call] = "none"
                            \/ f.call \in r.responded /\ f.result # "error"
Breaks(r, s, f) ==
  \/ Refuses(r, s, "protocol") /\ Bad(r, f)
  \/ Refuses(r, s, "busy") \/ Refuses(r, s, "observer")
Hears1(r, s, f) == Forgets(r, s, f.call) \/ AcceptsFirst(r, s, f.call, f.result)
                                         \/ AcceptsLate(r, s, f.call, f.result)

\* What any frame does to the client.
LEMMA LogicalTurns ==
  ASSUME NEW r \in ClientType, NEW f \in FrameType \ {Part}, NEW s \in Logical(r, f)
  PROVE  \/ Breaks(r, s, f)
         \/ /\ Takes(r, s) /\ s.chunk = r.chunk
            /\ IF f.kind = "response" THEN Hears1(r, s, f) ELSE Unheard(r, s)
<1>0. {"protocol", "busy", "observer"} \subseteq Whys \ {"up"}
  BY DEF Whys
<1>1. CASE f.kind = "response"
  <2>1. f.call \in Calls /\ f.result \in Said
    BY <1>1 DEF FrameType, Frame
  <2>2. CASE r.phase = "start"
    <3>1. s = Fail(r, "protocol")
      BY <1>1, <2>2 DEF Logical
    <3> QED BY <1>0, <1>1, <2>2, <3>1, FailRefuses DEF Breaks, Bad
  <2>3. CASE r.phase # "start"
    <3>1. s = AcceptResponse(r, f.call, f.result)
      BY <1>1, <2>3 DEF Logical
    <3>2. PICK c \in Calls, x \in Said : c = f.call /\ x = f.result
      BY <2>1
    <3>3. \/ /\ Refuses(r, s, "protocol")
             /\ r.entry[c] = "none" \/ (c \in r.responded /\ x # "error")
          \/ Refuses(r, s, "busy")
          \/ Takes(r, s) /\ s.chunk = r.chunk /\ Forgets(r, s, c)
          \/ Takes(r, s) /\ s.chunk = r.chunk /\ AcceptsFirst(r, s, c, x)
          \/ Takes(r, s) /\ s.chunk = r.chunk /\ AcceptsLate(r, s, c, x)
      BY <3>1, <3>2, ResponseTurns
    <3> QED BY <1>1, <3>2, <3>3 DEF Breaks, Bad, Hears1
  <2> QED BY <2>2, <2>3
<1>2. CASE f.kind = "ready"
  <2> DEFINE t == [r EXCEPT !.phase = "ready"]
  <2>1. \/ s = t /\ r.phase = "start"
        \/ s = Fail(r, "protocol") /\ (r.phase # "start" \/ r.why # "up")
    BY <1>2 DEF Logical
  <2>2. Turn(r, t) \/ r.phase # "start"
    BY DEF Turn, ClientType
  <2>3. t.why = r.why /\ t.reading = r.reading /\ t.chunk = r.chunk /\ Unheard(r, t)
    BY DEF Unheard, ClientType
  <2> HIDE DEF t
  <2> QED BY <1>0, <1>2, <2>1, <2>2, <2>3, FailRefuses DEF Breaks, Bad, Takes
<1>3. CASE f.kind = "event"
  <2>1. s = r \/ s = Fail(r, "observer") \/ (s = Fail(r, "protocol") /\ r.phase = "start")
    BY <1>3 DEF Logical
  <2>2. Takes(r, r) /\ Unheard(r, r)
    BY DEF Takes, Turn, Unheard
  <2> QED BY <1>0, <1>3, <2>1, <2>2, FailRefuses DEF Breaks, Bad
<1> QED BY <1>1, <1>2, <1>3 DEF FrameType, Frame, Part

\* The same of a physical frame.
LEMMA AcceptedTurns ==
  ASSUME NEW r \in ClientType, NEW f \in FrameType, NEW s \in Accepted(r, f)
  PROVE  \/ Breaks(r, s, f)
         \/ Takes(r, s) /\ f = Part /\ Unheard(r, s)
         \/ /\ Takes(r, s) /\ f # Part /\ s.chunk = 0
            /\ IF f.kind = "response" THEN Hears1(r, s, f) ELSE Unheard(r, s)
<1>0. {"protocol", "busy"} \subseteq Whys \ {"up"}
  BY DEF Whys
<1>1. CASE f = Part
  <2> DEFINE t == [r EXCEPT !.chunk = 1, !.retained = @ + 1]
  <2>1. \/ s = Fail(r, "protocol") /\ (r.phase # "negotiated" \/ r.chunk # 0)
        \/ s = Fail(r, "busy") \/ s = t
    BY <1>1 DEF Accepted
  <2>2. t \in ClientType
    <3>1. r.retained + 1 \in Int
      BY DEF ClientType
    <3> QED BY <3>1 DEF ClientType
  <2>3. /\ t.queue = r.queue /\ t.responded = r.responded /\ t.why = r.why /\ t.phase = r.phase
        /\ t.inHand = r.inHand /\ t.input = r.input
        /\ t.reading = r.reading /\ t.entry = r.entry /\ t.slot = r.slot /\ t.late = r.late
    BY DEF ClientType
  <2> HIDE DEF t
  <2>4. Takes(r, t) /\ Unheard(r, t)
    BY <2>2, <2>3 DEF Takes, Turn, Unheard
  <2> QED BY <1>0, <1>1, <2>1, <2>4, FailRefuses DEF Breaks, Bad
<1>2. CASE f # Part /\ r.chunk = 0
  <2>1. s \in Logical(r, f)
    BY <1>2 DEF Accepted
  <2> QED BY <1>2, <2>1, LogicalTurns
<1>3. CASE f # Part /\ r.chunk = 1
  <2> DEFINE t == [r EXCEPT !.chunk = 0, !.retained = @ - 1]
  <2>1. s = Fail(r, "busy") \/ s \in Logical(t, f)
    BY <1>3 DEF Accepted
  <2>2. t \in ClientType
    <3>1. r.retained - 1 \in Int
      BY DEF ClientType
    <3> QED BY <3>1 DEF ClientType
  <2>3. /\ t.queue = r.queue /\ t.responded = r.responded /\ t.why = r.why /\ t.phase = r.phase
        /\ t.inHand = r.inHand /\ t.input = r.input /\ t.chunk = 0
        /\ t.reading = r.reading /\ t.entry = r.entry /\ t.slot = r.slot /\ t.late = r.late
    BY DEF ClientType
  <2> HIDE DEF t
  <2>4. CASE s = Fail(r, "busy")
    BY <1>0, <2>4, FailRefuses DEF Breaks
  <2>5. CASE s \in Logical(t, f)
    <3>1. \/ Breaks(t, s, f)
          \/ /\ Takes(t, s) /\ s.chunk = t.chunk
             /\ IF f.kind = "response" THEN Hears1(t, s, f) ELSE Unheard(t, s)
      BY <1>3, <2>2, <2>5, LogicalTurns
    <3>2. \A why : Refuses(t, s, why) => Refuses(r, s, why)
      BY <2>3 DEF Refuses, Turn
    <3>3. Bad(t, f) => Bad(r, f)
      BY <1>3, <2>3 DEF Bad
    <3>4. Breaks(t, s, f) => Breaks(r, s, f)
      BY <3>2, <3>3 DEF Breaks
    <3>5. (Takes(t, s) => Takes(r, s)) /\ (Unheard(t, s) => Unheard(r, s))
      BY <2>3 DEF Takes, Turn, Unheard
    <3>6. Hears1(t, s, f) => Hears1(r, s, f)
      BY <2>3 DEF Hears1, Forgets, AcceptsFirst, AcceptsLate, Accepts
    <3> QED BY <1>3, <2>3, <3>1, <3>4, <3>5, <3>6
  <2> QED BY <2>1, <2>4, <2>5
<1> QED BY <1>1, <1>2, <1>3 DEF ClientType

\* The frames that are left.
LEMMA ReadLeaves ==
  ASSUME TypeInv, Read
  PROVE  /\ Head(out) \in FrameType /\ Head(out) = out[1] /\ 1 \in DOMAIN out /\ out # <<>>
         /\ \A i \in DOMAIN out' : /\ i + 1 \in DOMAIN out /\ out'[i] = out[i + 1]
                                   /\ i + 1 # 1 /\ ~(i + 1 <= 1)
         /\ Len(out) <= 1 => \A i \in DOMAIN out' : FALSE
         /\ rpc'.reading => \A i \in DOMAIN out : i = 1 \/ i - 1 \in DOMAIN out'
         /\ Len(out') \in Nat /\ DOMAIN out' = 1..Len(out') /\ (Len(out) <= 1 => Len(out') = 0)
<1>1. /\ Len(out) \in Nat \ {0} /\ DOMAIN out = 1..Len(out)
      /\ Len(Tail(out)) = Len(out) - 1 /\ DOMAIN Tail(out) = 1..(Len(out) - 1)
      /\ \A i \in 1..(Len(out) - 1) : Tail(out)[i] = out[i + 1]
      /\ Head(out) = out[1] /\ Head(out) \in FrameType
  BY HeadTailProperties, EmptySeq, LenProperties DEF Read, TypeInv
<1>2. CASE out' = Tail(out) /\ rpc'.reading
  <2>1. \A i \in 1..(Len(out) - 1) : i + 1 \in 1..Len(out) /\ i + 1 # 1 /\ ~(i + 1 <= 1)
    BY <1>1
  <2>2. Len(out) <= 1 => Len(out) - 1 = 0 /\ \A i \in 1..(Len(out) - 1) : FALSE
    BY <1>1
  <2>3. \A i \in 1..Len(out) : i = 1 \/ i - 1 \in 1..(Len(out) - 1)
    BY <1>1
  <2>4. 1 \in DOMAIN out /\ Len(out) - 1 \in Nat
    BY <1>1
  <2> QED BY <1>1, <1>2, <2>1, <2>2, <2>3, <2>4 DEF Read
<1>3. CASE out' = <<>> /\ ~rpc'.reading
  <2>1. Len(<<>>) = 0 /\ DOMAIN <<>> = 1..0
    <3>1. \A i \in 1..0 : FALSE
      OBVIOUS
    <3> QED BY <3>1, NoFrames
  <2>2. 1 \in DOMAIN out
    BY <1>1
  <2> QED BY <1>1, <1>3, <2>1, <2>2, NoFrames DEF Read
<1> QED BY <1>2, <1>3 DEF Read

\* A frame that the client refuses is a late error, of a call that is over.
LEMMA RefusedIsLate ==
  ASSUME IInv, SurpriseInv, Up, NEW f, f = out[1], f \in FrameType, f = Head(out), out # <<>>,
         1 \in DOMAIN out, rpc.reading, Bad(rpc, f)
  PROVE  \E p \in failed : pc[p] \in Over
<1>1. PhaseInv /\ PartInv /\ ClearInv /\ rpc.chunk \in {0, 1}
  BY DEF SurpriseInv, IInv, TypeInv, ClientType
<1>2. f # Part \/ ~(rpc.phase # "negotiated" \/ rpc.chunk # 0)
  BY <1>1 DEF PartInv, Part, Frame
<1>3. f.kind = "ready" => f = Ready
  BY DEF FrameType, Frame, Ready, Part
<1>4. f = Ready => rpc.phase = "start"
  BY <1>1 DEF PhaseInv
<1>5. rpc.phase = "start" => f = Ready
  BY <1>1 DEF PhaseInv
<1>6. Ready.kind = "ready" /\ Part.kind = "part"
  BY DEF Ready, Part, Frame
<1>7. f.kind = "response" /\ (rpc.entry[f.call] = "none" \/ (f.call \in rpc.responded /\ f.result # "error"))
  BY <1>2, <1>3, <1>4, <1>5, <1>6 DEF Bad, Up
<1>8. PICK c \in Calls : c = f.call /\ Follows(1) /\ Answered(1)
  BY <1>1, <1>7, FrameCalls DEF IInv, FrameInv, ClearInv
<1>9. f # First(c)
  BY <1>7, <1>8 DEF Answered
<1>10. c \in failed /\ f.result = "error" /\ (rpc.entry[c] # "none" \/ pc[c] \in Over)
  BY <1>8, <1>9 DEF Answered, Follows
<1> QED BY <1>7, <1>8, <1>10

\* A frame keeps what does not depend on the client being up.
LEMMA ReadSettles ==
  ASSUME IInv, SurpriseInv, Read
  PROVE  PhaseInv' /\ PartInv' /\ EndedInv' /\ OnlyLateErrorsSurprise'
<1>1. PICK f \in FrameType : f = Head(out) /\ f = out[1] /\ 1 \in DOMAIN out /\ out # <<>>
  BY ReadLeaves DEF IInv
<1>2. /\ \A i \in DOMAIN out' : i + 1 \in DOMAIN out /\ out'[i] = out[i + 1]
      /\ Len(out) <= 1 => \A i \in DOMAIN out' : FALSE
      /\ rpc'.reading => \A i \in DOMAIN out : i = 1 \/ i - 1 \in DOMAIN out'
      /\ Len(out') \in Nat /\ DOMAIN out' = 1..Len(out') /\ (Len(out) <= 1 => Len(out') = 0)
  BY ReadLeaves DEF IInv
<1>3. UNCHANGED <<pc, failed>> /\ rpc \in ClientType /\ rpc' \in Accepted(rpc, f) /\ rpc.reading
  BY <1>1 DEF Read, IInv, TypeInv
<1>4. \/ Breaks(rpc, rpc', f)
      \/ Takes(rpc, rpc') /\ f = Part
      \/ Takes(rpc, rpc') /\ rpc'.chunk = 0
  <2> PICK r : r = rpc
    OBVIOUS
  <2> PICK s : s = rpc'
    OBVIOUS
  <2>1. r \in ClientType /\ s \in Accepted(r, f)
    BY <1>3
  <2>2. Breaks(r, s, f) \/ (Takes(r, s) /\ f = Part) \/ (Takes(r, s) /\ s.chunk = 0)
    BY <2>1, AcceptedTurns
  <2> QED BY <2>2
<1>5. Turn(rpc, rpc') /\ (rpc'.reading => Takes(rpc, rpc'))
  BY <1>4 DEF Breaks, Refuses, Takes
<1>6. PhaseInv'
  <2>1. rpc'.phase = "start" => /\ \A c \in Calls : pc[c] = "idle"
                                /\ Len(out') <= 1 /\ \A i \in DOMAIN out' : out'[i] = Ready
    <3> SUFFICES ASSUME rpc'.phase = "start"
                 PROVE  /\ \A c \in Calls : pc[c] = "idle"
                        /\ Len(out') <= 1 /\ \A i \in DOMAIN out' : out'[i] = Ready
      OBVIOUS
    <3>1. rpc.phase = "start"
      BY <1>5 DEF Turn
    <3>2. Len(out) <= 1 /\ \A c \in Calls : pc[c] = "idle"
      BY <3>1 DEF SurpriseInv, PhaseInv
    <3> QED BY <1>2, <3>2
  <2>2. \A i \in DOMAIN out' : out'[i] # Ready
    <3>1. CASE rpc.phase = "start"
      BY <1>2, <3>1 DEF SurpriseInv, PhaseInv
    <3>2. CASE rpc.phase # "start"
      BY <1>2, <3>2 DEF SurpriseInv, PhaseInv
    <3> QED BY <3>1, <3>2
  <2>3. \A p \in Prompts : pc[p] # "idle" => rpc'.phase = "negotiated"
    BY <1>5 DEF SurpriseInv, PhaseInv, Turn
  <2> QED BY <1>3, <2>1, <2>2, <2>3 DEF PhaseInv
<1>7. PartInv'
  <2>0. \A i \in DOMAIN out : out[i] = Part =>
          rpc.phase = "negotiated" /\ i + 1 \in DOMAIN out /\ out[i + 1].kind = "response"
    BY DEF SurpriseInv, PartInv
  <2>1. ASSUME NEW i \in DOMAIN out', out'[i] = Part
        PROVE  rpc'.phase = "negotiated" /\ i + 1 \in DOMAIN out' /\ out'[i + 1].kind = "response"
    <3>0. i + 1 \in DOMAIN out /\ out[i + 1] = Part
      BY <1>2, <2>1
    <3>1. rpc.phase = "negotiated" /\ (i + 1) + 1 \in DOMAIN out /\ out[(i + 1) + 1].kind = "response"
      BY <2>0, <3>0
    <3>2. rpc'.reading
      BY <2>1, NoFrames DEF Read
    <3>3. i \in Nat \ {0} /\ (i + 1) + 1 # 1 /\ ((i + 1) + 1) - 1 = i + 1
      BY <1>2, <2>1
    <3>4. i + 1 \in DOMAIN out'
      BY <1>2, <3>1, <3>2, <3>3
    <3>5. out'[i + 1] = out[(i + 1) + 1]
      BY <1>2, <3>4
    <3> QED BY <1>5, <3>1, <3>4, <3>5 DEF Turn
  <2>2. ASSUME rpc'.chunk = 1, rpc'.reading
        PROVE  out' # <<>> /\ Head(out').kind = "response"
    <3>1. f = Part
      BY <1>4, <2>2 DEF Breaks, Refuses
    <3>2. 1 + 1 \in DOMAIN out /\ out[1 + 1].kind = "response"
      BY <1>1, <2>0, <3>1
    <3>3. (1 + 1) - 1 \in DOMAIN out' /\ 1 + 1 # 1 /\ (1 + 1) - 1 = 1
      <4>1. 1 + 1 # 1 /\ (1 + 1) - 1 = 1
        OBVIOUS
      <4> QED BY <1>2, <2>2, <3>2, <4>1
    <3>4. 1 \in DOMAIN out' /\ out'[1] = out[1 + 1]
      BY <1>2, <3>3
    <3>5. out' # <<>>
      BY <3>4, NoFrames
    <3>6. out' = Tail(out) /\ Tail(out) \in Seq(FrameType)
      BY <1>1, <2>2, HeadTailProperties DEF Read, IInv, TypeInv
    <3>7. Head(out') = out'[1]
      BY <3>5, <3>6, HeadTailProperties
    <3> QED BY <3>2, <3>4, <3>5, <3>7
  <2> QED BY <2>1, <2>2 DEF PartInv
<1>8. EndedInv'
  BY <1>5 DEF SurpriseInv, EndedInv, Turn
<1>9. OnlyLateErrorsSurprise'
  <2> SUFFICES ASSUME rpc'.why = "protocol"
               PROVE  \E p \in failed' : pc'[p] \in {"gaveup", "bad", "finished", "failed"}
    BY DEF OnlyLateErrorsSurprise
  <2>1. CASE rpc.why = "protocol"
    BY <1>3, <2>1 DEF SurpriseInv, OnlyLateErrorsSurprise
  <2>2. CASE rpc.why # "protocol"
    <3>1. Up /\ Bad(rpc, f)
      BY <1>4, <2>2 DEF Breaks, Refuses, Takes, Up
    <3>2. \E p \in failed : pc[p] \in Over
      BY <1>1, <1>3, <3>1, RefusedIsLate
    <3> QED BY <1>3, <3>2 DEF Over
  <2> QED BY <2>1, <2>2
<1> QED BY <1>6, <1>7, <1>8, <1>9

\* The frames that are left are still awaited, or of calls that are over.
LEMMA ReadClear ==
  ASSUME IInv, SurpriseInv, Read
  PROVE  SurpriseInv'
<1>1. PICK f \in FrameType : f = Head(out) /\ f = out[1] /\ 1 \in DOMAIN out /\ out # <<>>
  BY ReadLeaves DEF IInv
<1>2. \A i \in DOMAIN out' : i + 1 \in DOMAIN out /\ out'[i] = out[i + 1] /\ i + 1 # 1 /\ ~(i + 1 <= 1)
  BY ReadLeaves DEF IInv
<1>3. UNCHANGED <<pc, work, failed>> /\ rpc \in ClientType /\ rpc' \in Accepted(rpc, f) /\ rpc.reading
  BY <1>1 DEF Read, IInv, TypeInv
<1>4. Up' => /\ Takes(rpc, rpc')
             /\ IF f.kind = "response" THEN Hears1(rpc, rpc', f) ELSE Unheard(rpc, rpc')
  <2> PICK r : r = rpc
    OBVIOUS
  <2> PICK s : s = rpc'
    OBVIOUS
  <2>1. r \in ClientType /\ s \in Accepted(r, f)
    BY <1>3
  <2>2. \/ Breaks(r, s, f)
        \/ Takes(r, s) /\ f = Part /\ Unheard(r, s)
        \/ /\ Takes(r, s) /\ f # Part /\ s.chunk = 0
           /\ IF f.kind = "response" THEN Hears1(r, s, f) ELSE Unheard(r, s)
    BY <2>1, AcceptedTurns
  <2>3. Part.kind # "response" /\ (Breaks(r, s, f) => s.why # "up")
    BY DEF Part, Frame, Breaks, Refuses
  <2> QED BY <2>2, <2>3 DEF Up
<1>5. PhaseInv' /\ PartInv' /\ EndedInv' /\ OnlyLateErrorsSurprise'
  BY ReadSettles
<1>6. CASE ~Up'
  BY <1>5, <1>6 DEF SurpriseInv, InputInv, ClearInv
<1>7. CASE Up'
  <2>1. Up /\ ClearInv /\ Takes(rpc, rpc')
    BY <1>4, <1>7 DEF Takes, Up, SurpriseInv
  <2>2. \A i \in DOMAIN out' : out'[i].kind = "response" =>
          /\ i + 1 \in DOMAIN out /\ out'[i] = out[i + 1] /\ Answered(i + 1) /\ Follows(i + 1)
          /\ out[i + 1].call \in Calls
          /\ f.kind = "response" => f # out[i + 1] /\ out[i + 1] # First(f.call)
    BY <1>1, <1>2, <2>1, FrameCalls DEF ClearInv, Once, IInv, FrameInv
  <2>3. Once'
    <3> SUFFICES ASSUME NEW i \in DOMAIN out', NEW j \in DOMAIN out', out'[i].kind = "response"
                 PROVE  /\ out'[i] = out'[j] => i = j
                        /\ out'[j] = First(out[i].call)' => j <= i
      BY DEF Once
    <3>1. i + 1 \in DOMAIN out /\ out'[i] = out[i + 1] /\ j + 1 \in DOMAIN out /\ out'[j] = out[j + 1]
      BY <1>2
    <3>2. First(out[i].call)' = First(out[i + 1].call)
      BY <1>3, <3>1 DEF First
    <3>3. /\ out[i + 1] = out[j + 1] => i + 1 = j + 1
          /\ out[j + 1] = First(out[i + 1].call) => j + 1 <= i + 1
      BY <2>1, <3>1 DEF ClearInv, Once
    <3>4. i \in Int /\ j \in Int
      BY ReadLeaves DEF IInv
    <3> QED BY <3>1, <3>2, <3>3, <3>4
  <2>4. CASE f.kind # "response"
    <3>1. Unheard(rpc, rpc')
      BY <1>4, <1>7, <2>4
    <3>2. \A c \in Calls : Clear(c)'
      BY <1>3, <2>1, <3>1 DEF ClearInv, Clear, Unheard
    <3>3. \A i \in DOMAIN out' : out'[i].kind = "response" => Answered(i)'
      <4> SUFFICES ASSUME NEW i \in DOMAIN out', out'[i].kind = "response" PROVE Answered(i)'
        OBVIOUS
      <4> QED BY <1>3, <2>2, <3>1 DEF Answered, First, Unheard
    <3>4. InputInv'
      BY <2>1, <3>1 DEF SurpriseInv, InputInv, Mute, Unheard, Takes, Turn
    <3> QED BY <1>3, <1>5, <2>1, <2>3, <3>2, <3>3, <3>4 DEF SurpriseInv, ClearInv, Takes
  <2>5. CASE f.kind = "response"
    <3>1. PICK c \in Calls, x \in Said : c = f.call /\ x = f.result /\ f = Frame("response", c, x)
      BY <2>5, <1>1, FrameCalls DEF FrameType, Frame, Part, IInv
    <3>2. \/ Forgets(rpc, rpc', c) \/ AcceptsFirst(rpc, rpc', c, x) \/ AcceptsLate(rpc, rpc', c, x)
      BY <1>4, <1>7, <2>5, <3>1 DEF Hears1
    <3>3. /\ rpc.entry[c] # "none"
          /\ \A d \in Calls \ {c} : rpc'.entry[d] = rpc.entry[d] /\ rpc'.slot[d] = rpc.slot[d]
                                    /\ rpc'.late[d] = rpc.late[d]
                                    /\ (d \in rpc'.responded <=> d \in rpc.responded)
      BY <3>2 DEF Forgets, AcceptsFirst, AcceptsLate, Accepts
    <3>4. Follows(1) /\ Answered(1) /\ Clear(c) /\ work[c] \in Said /\ out[1].call = c
      BY <1>1, <2>1, <2>5, <3>1 DEF IInv, FrameInv, ClearInv, Follows
    <3>5. f = First(c) \/ (c \in failed /\ x = "error" /\ work[c] \in {"ok", "bad"})
      BY <1>1, <3>1, <3>4 DEF Follows
    <3>6. AcceptsFirst(rpc, rpc', c, x) => f = First(c) /\ x = work[c]
      <4> SUFFICES ASSUME AcceptsFirst(rpc, rpc', c, x) PROVE f = First(c) /\ x = work[c]
        OBVIOUS
      <4>1. Owed(c)
        BY DEF Owed, AcceptsFirst, Accepts
      <4>2. ~ \E j \in 1..(1 - 1) : out[j] = First(c)
        OBVIOUS
      <4>3. f = First(c)
        BY <1>1, <3>1, <3>4, <4>1, <4>2 DEF Follows
      <4> QED BY <3>1, <4>3 DEF First, Frame
    <3>7. AcceptsLate(rpc, rpc', c, x) => f # First(c) /\ x = "error"
      BY <1>1, <3>1, <3>4 DEF Answered, AcceptsLate
    <3>8. \A d \in Calls : Clear(d)'
      <4> SUFFICES ASSUME NEW d \in Calls PROVE Clear(d)'
        OBVIOUS
      <4>1. CASE d # c
        <5>1. Clear(d)
          BY <2>1 DEF ClearInv
        <5> QED BY <1>3, <3>3, <4>1, <5>1 DEF Clear
      <4>2. CASE Forgets(rpc, rpc', c)
        <5>1. pc[c] \in Over
          BY <3>4, <4>2 DEF Clear, Forgets, Over
        <5>2. Clear(c)'
          BY <1>3, <3>4, <4>2, <5>1 DEF Clear, Forgets
        <5> QED BY <4>1, <5>2
      <4>3. CASE AcceptsFirst(rpc, rpc', c, x)
        <5>1. Clear(c)'
          BY <1>3, <3>4, <3>6, <4>3 DEF Clear, AcceptsFirst, Accepts, Said
        <5> QED BY <4>1, <5>1
      <4>4. CASE AcceptsLate(rpc, rpc', c, x)
        <5>1. c \in failed
          BY <3>5, <3>7, <4>4
        <5>2. Clear(c)'
          BY <1>3, <3>4, <3>7, <4>4, <5>1 DEF Clear, AcceptsLate, Accepts
        <5> QED BY <4>1, <5>2
      <4> QED BY <3>2, <4>2, <4>3, <4>4
    <3>9. \A i \in DOMAIN out' : out'[i].kind = "response" => Answered(i)'
      <4> SUFFICES ASSUME NEW i \in DOMAIN out', out'[i].kind = "response" PROVE Answered(i)'
        OBVIOUS
      <4>0. PICK d \in Calls : d = out[i + 1].call
        BY <2>2
      <4>1. /\ out'[i] = out[i + 1] /\ Answered(i + 1) /\ Follows(i + 1) /\ out[i + 1].kind = "response"
            /\ f # out[i + 1] /\ out[i + 1] # First(c) /\ out'[i].call = d /\ First(d)' = First(d)
            /\ i + 1 \in DOMAIN out
        BY <1>3, <2>2, <2>5, <3>1, <4>0 DEF First
      <4>2. CASE d # c
        BY <1>3, <3>3, <4>0, <4>1, <4>2 DEF Answered
      <4>3. CASE d = c
        <5>1. /\ out[i + 1] # First(d) /\ c \in failed /\ out[i + 1].result = "error"
              /\ work[c] \in {"ok", "bad"}
          BY <4>0, <4>1, <4>3 DEF Follows
        <5>2. out[i + 1] = Frame("response", c, "error")
          <6>1. PICK g \in FrameType : g = out[i + 1]
            BY <4>1, FrameCalls DEF IInv
          <6>2. g.kind = "response" /\ g.call = c /\ g.result = "error"
            BY <4>0, <4>1, <4>3, <5>1, <6>1
          <6>3. g = Frame("response", c, "error")
            BY <6>2 DEF FrameType, Frame, Part
          <6> QED BY <6>1, <6>3
        <5>3. ~AcceptsLate(rpc, rpc', c, x)
          BY <3>1, <3>7, <4>1, <5>2
        <5>4. Forgets(rpc, rpc', c) => pc[c] \in Over
          BY <3>4 DEF Clear, Forgets, Over
        <5>5. AcceptsFirst(rpc, rpc', c, x) => rpc'.entry[c] # "none"
          <6>1. c \in Prompts
            BY <5>1 DEF IInv, TypeInv
          <6> QED BY <3>6, <5>1, <6>1 DEF AcceptsFirst
        <5>6. rpc'.entry[c] # "none" \/ pc[c] \in Over
          BY <3>2, <5>3, <5>4, <5>5
        <5> QED BY <1>3, <4>1, <4>3, <5>1, <5>6 DEF Answered
      <4> QED BY <4>2, <4>3
    <3>10. InputInv'
      <4>1. rpc.input = "open"
        BY <2>1, <3>3 DEF SurpriseInv, InputInv, Mute
      <4> QED BY <2>1, <4>1 DEF InputInv, Takes, Turn
    <3> QED BY <1>3, <1>5, <2>1, <2>3, <3>8, <3>9, <3>10 DEF SurpriseInv, ClearInv, Takes
  <2> QED BY <2>4, <2>5
<1> QED BY <1>6, <1>7

-----------------------------------------------------------------------------
(* The invariant of a correct native, and what it is for.                  *)

\* Every step keeps the invariant of a correct native.
LEMMA SurpriseInductive == IInv /\ BoundInv /\ SurpriseInv /\ [Next]_vars => SurpriseInv'
<1> SUFFICES ASSUME IInv, BoundInv, SurpriseInv, [Next]_vars PROVE SurpriseInv'
  OBVIOUS
<1>1. ASSUME NEW w \in Writes, Caller(w) PROVE SurpriseInv'
  BY <1>1, WriteSettledClear, CallClear, TakeResponseClear, WriteReturnedClear, GiveUpClear,
     FinishClear, CancelUIClear DEF Caller
<1>2. CASE EndInput
  BY <1>2, EndInputClear
<1>3. CASE Close
  BY <1>3, CloseClear
<1>4. CASE Writer
  BY <1>4, WriterClear
<1>5. CASE Reader
  BY <1>5, ReadClear, OutputEndsClear, ReaderReturnsClear DEF Reader
<1>6. CASE Native
  BY <1>6, NativeReadyClear, NativeReadsClear, NativeEventClear, NativeExitsClear,
     NativeAnswersClear, NativeFailsClear DEF Native
<1>7. CASE UNCHANGED vars
  <2>1. UNCHANGED <<rpc, pc, nativeVars>>
    BY <1>7 DEF vars
  <2>2. Beside(rpc, rpc')
    BY <2>1 DEF Beside, IInv, TypeInv, ClientType
  <2> QED BY <2>1, <2>2, ClientClear
<1> QED BY <1>1, <1>2, <1>3, <1>4, <1>5, <1>6, <1>7 DEF Next

\* It holds at first.
LEMMA SurpriseInitial == Init => SurpriseInv
<1> SUFFICES ASSUME Init PROVE SurpriseInv
  OBVIOUS
<1>1. /\ rpc.why = "up" /\ rpc.phase = "start" /\ rpc.input = "open" /\ rpc.reading /\ rpc.chunk = 0
      /\ rpc.queue = <<>> /\ rpc.responded = {}
      /\ \A c \in Calls : rpc.entry[c] = "none" /\ rpc.slot[c] = "none" /\ rpc.late[c] = "none"
  BY DEF Init, NewClient
<1>2. out = <<>> /\ \A c \in Calls : pc[c] = "idle" /\ work[c] = "none"
  BY Names DEF Init
<1>3. PhaseInv /\ PartInv
  BY <1>1, <1>2, NoFrames, Names DEF PhaseInv, PartInv
<1>4. EndedInv /\ InputInv /\ OnlyLateErrorsSurprise
  BY <1>1, EmptyHas DEF EndedInv, InputInv, OnlyLateErrorsSurprise
<1>5. ClearInv
  BY <1>1, <1>2, NoFrames DEF ClearInv, Clear, Once, Said
<1> QED BY <1>3, <1>4, <1>5 DEF SurpriseInv

\* With a correct native, the client retires for a violation of the protocol only because
\* of the late error of a prompt whose caller is done with it: every other response finds
\* its call, a part and a notice come when they may, an ended input leaves nothing open.
THEOREM OnlyLateErrorsSurpriseAlways == Spec => []OnlyLateErrorsSurprise
<1>1. SurpriseInv => OnlyLateErrorsSurprise
  BY DEF SurpriseInv
<1> QED BY <1>1, Invariant, BoundInitial, BoundInductive, SurpriseInitial, SurpriseInductive,
           PTL DEF Spec

=============================================================================
