---------------------------- MODULE BridgeProofs ----------------------------
(***************************************************************************)
(* Theorems about Bridge, for every number of calls and every limit.       *)
(*                                                                         *)
(* What one end writes and the other has not read, on the connection and   *)
(* in the writer's queue, is one sequence of frames (Flow).  The invariant *)
(* says what may stand in it: the hello first, the requests in the order   *)
(* of their ids and none missing, a cancellation behind its request, one   *)
(* response to a call, and that of its own work.                           *)
(***************************************************************************)
EXTENDS Bridge, SequenceTheorems, FiniteSetTheorems, TLAPS

FrameType == [kind : {"hello", "request", "cancel", "response"}, id : {0} \cup Seqs,
              result : Results \cup {"none"}]
EndType == [
  status: Statuses, ready: BOOLEAN, reading: BOOLEAN, nextOut: Nat, nextIn: Nat,
  pending: SUBSET Seqs, abandoned: SUBSET Seqs,
  slot: [Seqs -> Results \cup {"none", "closed"}],
  active: SUBSET Seqs, cancelled: SUBSET Seqs, handlers: SUBSET Seqs,
  retained: Int, queue: Seq(FrameType), flushing: Seq(FrameType) ]
PCs == {"idle", "writing", "waiting", "closed", "gaveup"} \cup Results

TypeInv ==
  /\ ep \in [Sides -> EndType]
  /\ wire \in [Sides -> Seq(FrameType)]
  /\ pc \in [Sides -> [Seqs -> PCs]]
  /\ parent \in [Sides -> [Seqs -> {0} \cup Seqs]]
  /\ work \in [Sides -> [Seqs -> Results \cup {"none", "running"}]]
  /\ done \subseteq Sides

-----------------------------------------------------------------------------
(* Sides, ids and frames.                                                  *)

\* There are two sides, and each is the other's other.
LEMMA SidesAre ==
  /\ \A s \in Sides : Other(s) \in Sides /\ Other(s) # s /\ Other(Other(s)) = s
  /\ \A s, t \in Sides : t = s \/ t = Other(s)
BY DEF Sides, Other

\* Every id an end may use is one of Seqs, and every member of Seqs is a positive number.
LEMMA SeqsAre ==
  /\ \A n \in Seqs : n \in Nat /\ n > 0
  /\ \A s \in Sides : Bound(s) \in Nat /\ \A n \in Nat : 0 < n /\ n <= Bound(s) => n \in Seqs
  /\ \A n \in Seqs, m \in Nat : 0 < m /\ m <= n => m \in Seqs
<1>1. HostCalls \in Nat /\ NativeCalls \in Nat
  BY BridgeAssumption
<1>2. CASE HostCalls > NativeCalls
  BY <1>1, <1>2 DEF Seqs, Sides, Bound
<1>3. CASE ~(HostCalls > NativeCalls)
  BY <1>1, <1>3 DEF Seqs, Sides, Bound
<1> QED BY <1>2, <1>3

\* Sets of ids are finite.
LEMMA IdSets ==
  /\ IsFiniteSet(Seqs)
  /\ \A S \in SUBSET Seqs : IsFiniteSet(S) /\ Cardinality(S) \in Nat
<1>1. IsFiniteSet(Seqs)
  <2>1. PICK k \in Nat : Seqs = 1..k
    BY BridgeAssumption DEF Seqs
  <2> QED BY <2>1, FS_Interval
<1> QED BY <1>1, FS_Subset, FS_CardinalityType

\* The frames an end makes.
LEMMA FramesAre ==
  /\ Hello \in FrameType /\ Hello.kind = "hello" /\ 0 \notin Seqs
  /\ \A n \in Seqs : /\ Request(n) \in FrameType /\ Request(n).kind = "request" /\ Request(n).id = n
                     /\ Cancel(n) \in FrameType /\ Cancel(n).kind = "cancel" /\ Cancel(n).id = n
  /\ \A n \in Seqs, r \in Results :
       /\ Response(n, r) \in FrameType /\ Response(n, r).kind = "response"
       /\ Response(n, r).id = n /\ Response(n, r).result = r
<1>1. 0 \notin Seqs
  BY SeqsAre
<1> QED BY <1>1 DEF Hello, Request, Cancel, Response, Frame, FrameType

\* A request frame in the flow is the request of its id.
LEMMA RequestFrame ==
  ASSUME NEW n \in Seqs, NEW f, f = Request(n)
  PROVE  f.kind = "request" /\ f.id = n
BY FramesAre

-----------------------------------------------------------------------------
(* The operators on an endpoint.                                           *)

\* What is written is queued behind what waits.
LEMMA EnqueueIs ==
  ASSUME NEW e \in EndType, NEW f \in FrameType
  PROVE  /\ Enqueue(e, f) \in EndType
         /\ Enqueue(e, f).queue = Append(e.queue, f)
         /\ \A x \in {"status", "ready", "reading", "nextOut", "nextIn", "pending", "abandoned", "slot",
                      "active", "cancelled", "handlers", "retained", "flushing"} : Enqueue(e, f)[x] = e[x]
<1>1. Append(e.queue, f) \in Seq(FrameType)
  BY AppendProperties DEF EndType
<1> QED BY <1>1 DEF EndType, Enqueue

\* stop leaves what is numbered, queued and handled alone, and reads no more than before.
Stopped(e, f) ==
  /\ f \in EndType /\ f.status # "up"
  /\ f.ready = e.ready /\ f.nextOut = e.nextOut /\ f.nextIn = e.nextIn
  /\ f.handlers = e.handlers /\ f.queue = e.queue /\ f.flushing = e.flushing
  /\ f.reading => e.reading
  /\ f.active \subseteq e.active
  /\ \A n \in Seqs : f.slot[n] \in Results => f.slot[n] = e.slot[n]

\* An endpoint that stops: what is left of it, and why it stopped.
LEMMA StopIs ==
  ASSUME NEW s \in Sides, NEW e \in EndType, NEW why \in Statuses \ {"up"}
  PROVE  /\ Stopped(e, Stop(s, e, why))
         /\ Stop(s, e, why).status = IF e.status = "up" THEN why ELSE e.status
<1>1. CASE e.status # "up"
  BY <1>1 DEF Stop, Stopped
<1>2. CASE e.status = "up"
  <2> DEFINE sl == [n \in Seqs |-> IF n \in e.pending \ e.abandoned THEN "closed" ELSE e.slot[n]]
             a == IF s = "host" THEN {} ELSE e.active
             k == e.cancelled \cup e.active
             b == e.retained - Cardinality(e.active)
             t == IF s = "host" THEN b ELSE e.retained
             r == e.reading /\ s = "host"
  <2>1. Stop(s, e, why) = [e EXCEPT !.status = why, !.reading = r, !.pending = {}, !.abandoned = {},
                                    !.slot = sl, !.cancelled = k, !.active = a, !.retained = t]
    BY <1>2 DEF Stop
  <2>2. sl \in [Seqs -> Results \cup {"none", "closed"}]
        /\ \A n \in Seqs : sl[n] \in Results => sl[n] = e.slot[n]
    BY DEF EndType, Results
  <2>3. a \subseteq e.active /\ a \in SUBSET Seqs /\ k \in SUBSET Seqs /\ r \in BOOLEAN /\ (r => e.reading)
    BY DEF EndType
  <2>4. t \in Int
    <3>1. Cardinality(e.active) \in Int /\ e.retained \in Int
      BY IdSets DEF EndType
    <3> QED BY <3>1
  <2> HIDE DEF sl, a, t, r, k
  <2>5. PICK f : f = Stop(s, e, why)
    OBVIOUS
  <2>6. f \in EndType
    <3>1. why \in Statuses /\ sl \in [Seqs -> Results \cup {"none", "closed"}]
          /\ a \in SUBSET Seqs /\ k \in SUBSET Seqs /\ r \in BOOLEAN /\ t \in Int
      BY <2>2, <2>3, <2>4
    <3>2. PICK g : g = [e EXCEPT !.status = why, !.reading = r, !.pending = {}, !.abandoned = {}]
      OBVIOUS
    <3>3. g \in EndType
      BY <3>1, <3>2 DEF EndType
    <3>4. f = [g EXCEPT !.slot = sl, !.cancelled = k, !.active = a, !.retained = t]
      BY <2>1, <2>5, <3>2
    <3> QED BY <3>1, <3>3, <3>4 DEF EndType
  <2>7. /\ f.status = why /\ f.ready = e.ready /\ f.nextOut = e.nextOut /\ f.nextIn = e.nextIn
        /\ f.handlers = e.handlers /\ f.queue = e.queue /\ f.flushing = e.flushing
        /\ f.reading = r /\ f.active = a /\ f.slot = sl
    BY <2>1, <2>5 DEF EndType
  <2> QED BY <1>2, <2>2, <2>3, <2>5, <2>6, <2>7 DEF Stopped
<1> QED BY <1>1, <1>2

-----------------------------------------------------------------------------
(* The invariant.                                                          *)

\* The frames end s has queued or written that the other end has not read, and whether
\* the other end still reads.
Flow(s)  == wire[s] \o ep[s].queue
Heard(s) == ep[Other(s)].reading
Size(s)  == Len(Flow(s))
Stands(s, i, kind) == Flow(s)[i].kind = kind

\* The hello comes first, and while it has not been read nothing else is in front.
HelloInv(s) == Heard(s) =>
  /\ \A i \in 1..Size(s) : Stands(s, i, "hello") => i = 1 /\ ~ep[Other(s)].ready
  /\ ~ep[Other(s)].ready /\ (Up(s) \/ Size(s) # 0) => Size(s) # 0 /\ Stands(s, 1, "hello")

\* The requests come in the order of their ids, and none is missing.
Later(s, i) == ep[Other(s)].nextIn < Flow(s)[i].id /\ Flow(s)[i].id <= ep[s].nextOut
Before(s, i, m) == \E j \in 1..Size(s) : j < i /\ Flow(s)[j] = Request(m)
RequestInv(s) == Heard(s) =>
  /\ \A i \in 1..Size(s) : Stands(s, i, "request") =>
       /\ Later(s, i)
       /\ \A m \in Seqs : ep[Other(s)].nextIn < m /\ m < Flow(s)[i].id => Before(s, i, m)
  /\ \A i, j \in 1..Size(s) :
       i < j /\ Stands(s, i, "request") /\ Stands(s, j, "request") => Flow(s)[i].id < Flow(s)[j].id
  /\ Up(s) => \A m \in Seqs : ep[Other(s)].nextIn < m /\ m <= ep[s].nextOut =>
                \E j \in 1..Size(s) : Flow(s)[j] = Request(m)

\* A cancellation follows its request.
CancelInv(s) == Heard(s) =>
  \A i \in 1..Size(s) : Stands(s, i, "cancel") =>
    Flow(s)[i].id <= ep[Other(s)].nextIn \/ Before(s, i, Flow(s)[i].id)

\* A response carries the answer of its own work, and there is one.
ResponseInv(s) == Heard(s) =>
  /\ \A i \in 1..Size(s) : Stands(s, i, "response") =>
       /\ Flow(s)[i].id \in Seqs /\ Flow(s)[i].result \in Results
       /\ work[s][Flow(s)[i].id] = Flow(s)[i].result
  /\ \A i, j \in 1..Size(s) :
       i < j /\ Stands(s, i, "response") /\ Stands(s, j, "response") => Flow(s)[i].id # Flow(s)[j].id

\* A call that has left the other end's pending table was answered, and its answer was read.
Settled(s, n) == n <= ep[Other(s)].nextOut /\ n \notin ep[Other(s)].pending
PendingInv(s) == Up(Other(s)) =>
  \A n \in Seqs : Settled(s, n) =>
    /\ work[s][n] \in Results
    /\ \A i \in 1..Size(s) : Stands(s, i, "response") => Flow(s)[i].id # n

\* Of a call whose caller gave up, a cancellation is on its way or the other end no longer
\* works for it: the work is over, or its context has ended.
Told(s, n)   == \E i \in 1..Size(s) : Flow(s)[i] = Cancel(n)
Undone(e, n) == n <= e.nextIn /\ (n \in e.active => n \in e.cancelled)
FollowInv(s) == Up(s) /\ Up(Other(s)) =>
  \A n \in Seqs : pc[s][n] = "gaveup" => Told(s, n) \/ Undone(ep[Other(s)], n)

FlowInv(s) == HelloInv(s) /\ RequestInv(s) /\ CancelInv(s) /\ ResponseInv(s) /\ PendingInv(s)

\* What waits in a slot of the other end is the answer of this end's work.
SlotInv(s) == \A n \in Seqs : ep[Other(s)].slot[n] \in Results => work[s][n] = ep[Other(s)].slot[n]

\* The ids an end has used, and those it has heard of.
CountInv(s) ==
  /\ Up(s) => ep[s].reading
  /\ ep[s].nextOut <= Bound(s) /\ ep[Other(s)].nextIn <= ep[s].nextOut
  /\ \A n \in Seqs : pc[s][n] = "idle" <=> n > ep[s].nextOut
  /\ \A n \in Seqs : work[s][n] = "none" <=> n > ep[s].nextIn
  /\ \A n \in ep[s].handlers : n <= ep[s].nextIn
  /\ ep[s].active \subseteq ep[s].handlers
  /\ \A n \in Seqs : work[s][n] = "running" => n \in ep[s].handlers

IInv == /\ TypeInv
        /\ \A s \in Sides : /\ FlowInv(s) /\ FollowInv(s) /\ SlotInv(s) /\ CountInv(s)
                            /\ ep[s].status # "protocol"

-----------------------------------------------------------------------------
(* Flows.                                                                  *)

\* A flow is a sequence of frames.
LEMMA FlowType ==
  ASSUME TypeInv, NEW s \in Sides
  PROVE  /\ Flow(s) \in Seq(FrameType) /\ Size(s) \in Nat
         /\ \A i \in 1..Size(s) : /\ Flow(s)[i] \in FrameType
                                  /\ Flow(s)[i].id \in {0} \cup Seqs /\ Flow(s)[i].id \in Nat
<1>1. wire[s] \in Seq(FrameType) /\ ep[s].queue \in Seq(FrameType)
  BY DEF TypeInv, EndType
<1>2. Flow(s) \in Seq(FrameType)
  BY <1>1, ConcatProperties DEF Flow
<1>3. Size(s) \in Nat /\ \A i \in 1..Size(s) : Flow(s)[i] \in FrameType
  BY <1>2, ElementOfSeq, LenProperties DEF Size
<1>4. \A f \in FrameType : f.id \in {0} \cup Seqs /\ f.id \in Nat
  BY SeqsAre DEF FrameType
<1> QED BY <1>2, <1>3, <1>4

\* What a step may do to the flow of end s, as long as it is heard: cut off its end,
\* append a frame, or take its head.
Cut(s) ==
  /\ Size(s)' <= Size(s)
  /\ \A i \in 1..Size(s)' : Flow(s)'[i] = Flow(s)[i]
  /\ Up(s)' => Size(s)' = Size(s)
Sent(s, f) ==
  /\ Size(s)' = Size(s) + 1
  /\ \A i \in 1..Size(s) : Flow(s)'[i] = Flow(s)[i]
  /\ Flow(s)'[Size(s)'] = f
Taken(s) ==
  /\ Size(s) = Size(s)' + 1
  /\ \A i \in 1..Size(s)' : Flow(s)'[i] = Flow(s)[i + 1]

\* A flow whose parts do not change.
LEMMA SameFlow ==
  ASSUME TypeInv, NEW s \in Sides, Flow(s)' = Flow(s)
  PROVE  Cut(s)
<1>1. Size(s)' = Size(s) /\ Size(s) \in Nat
  BY FlowType DEF Size
<1> QED BY <1>1 DEF Cut

\* A concatenation, element by element.
LEMMA ConcatAt ==
  ASSUME NEW w \in Seq(FrameType), NEW q \in Seq(FrameType)
  PROVE  /\ w \o q \in Seq(FrameType) /\ Len(w \o q) = Len(w) + Len(q)
         /\ Len(w) \in Nat /\ Len(q) \in Nat
         /\ \A i \in 1..Len(w) : (w \o q)[i] = w[i]
         /\ \A i \in 1..Len(q) : (w \o q)[Len(w) + i] = q[i]
<1>1. Len(w) \in Nat /\ Len(q) \in Nat
  BY LenProperties
<1>2. /\ w \o q \in Seq(FrameType) /\ Len(w \o q) = Len(w) + Len(q)
      /\ \A i \in 1 .. Len(w) + Len(q) : (w \o q)[i] = IF i <= Len(w) THEN w[i] ELSE q[i - Len(w)]
  BY ConcatProperties
<1> DEFINE c == w \o q
<1>3. \A i \in 1 .. Len(w) + Len(q) : c[i] = IF i <= Len(w) THEN w[i] ELSE q[i - Len(w)]
  BY <1>2
<1> HIDE DEF c
<1>4. \A i \in 1..Len(w) : c[i] = w[i]
  BY <1>1, <1>3
<1>5. ASSUME NEW i \in 1..Len(q) PROVE c[Len(w) + i] = q[i]
  <2>1. Len(w) + i \in 1 .. Len(w) + Len(q) /\ ~(Len(w) + i <= Len(w)) /\ (Len(w) + i) - Len(w) = i
    BY <1>1
  <2> QED BY <1>3, <2>1
<1> QED BY <1>1, <1>2, <1>4, <1>5 DEF c

\* The brackets of a concatenation do not matter.
LEMMA ConcatMoves ==
  \A a, b, c \in Seq(FrameType) : (a \o b) \o c = a \o (b \o c)
<1> SUFFICES ASSUME NEW a \in Seq(FrameType), NEW b \in Seq(FrameType), NEW c \in Seq(FrameType)
             PROVE  (a \o b) \o c = a \o (b \o c)
  OBVIOUS
<1>1. /\ a \o b \in Seq(FrameType) /\ b \o c \in Seq(FrameType)
  BY ConcatAt
<1> QED BY ConcatAssociative

\* A frame that is queued comes last.
LEMMA QueuedLast ==
  ASSUME TypeInv, NEW s \in Sides, NEW f \in FrameType,
         wire'[s] = wire[s], ep'[s].queue = Append(ep[s].queue, f)
  PROVE  Sent(s, f)
<1>1. wire[s] \in Seq(FrameType) /\ ep[s].queue \in Seq(FrameType) /\ <<f>> \in Seq(FrameType)
  BY DEF TypeInv, EndType
<1>2. Append(ep[s].queue, f) = ep[s].queue \o <<f>>
  BY <1>1, AppendIsConcat
<1>3. Flow(s)' = Flow(s) \o <<f>>
  <2>1. Flow(s)' = wire[s] \o (ep[s].queue \o <<f>>)
    BY <1>2 DEF Flow
  <2>2. wire[s] \o (ep[s].queue \o <<f>>) = (wire[s] \o ep[s].queue) \o <<f>>
    BY <1>1, ConcatMoves, Zenon
  <2> QED BY <2>1, <2>2 DEF Flow
<1>4. Flow(s) \in Seq(FrameType)
  BY FlowType
<1>5. Flow(s) \o <<f>> = Append(Flow(s), f)
  BY <1>4, AppendIsConcat
<1> QED BY <1>3, <1>4, <1>5, AppendProperties DEF Sent, Size

\* The head of what is on the connection is the head of the flow.
LEMMA HeadTaken ==
  ASSUME TypeInv, NEW s \in Sides, wire[s] # <<>>
  PROVE  /\ Size(s) > 0 /\ Flow(s)[1] = Head(wire[s])
         /\ wire'[s] = Tail(wire[s]) /\ ep'[s].queue = ep[s].queue => Taken(s)
<1> DEFINE w == wire[s]
           q == ep[s].queue
           t == Tail(wire[s])
<1>1. w \in Seq(FrameType) /\ q \in Seq(FrameType)
  BY DEF TypeInv, EndType
<1>2. /\ t \in Seq(FrameType) /\ Len(t) = Len(w) - 1
      /\ \A i \in 1..Len(t) : t[i] = w[i + 1]
  BY <1>1, HeadTailProperties
<1>3. Head(w) = w[1] /\ Len(w) > 0
  BY <1>1, EmptySeq
<1>4. Flow(s) = w \o q /\ (wire'[s] = t /\ ep'[s].queue = q => Flow(s)' = t \o q)
  BY DEF Flow
<1>5. Head(wire[s]) = w[1] /\ w = wire[s]
  BY <1>3
<1> HIDE DEF w, q, t
<1>6. /\ Len(w \o q) = Len(w) + Len(q) /\ Len(w) \in Nat /\ Len(q) \in Nat
      /\ \A i \in 1..Len(w) : (w \o q)[i] = w[i]
      /\ \A i \in 1..Len(q) : (w \o q)[Len(w) + i] = q[i]
  BY <1>1, ConcatAt
<1>7. /\ Len(t \o q) = Len(t) + Len(q) /\ Len(t) \in Nat
      /\ \A i \in 1..Len(t) : (t \o q)[i] = t[i]
      /\ \A i \in 1..Len(q) : (t \o q)[Len(t) + i] = q[i]
  BY <1>1, <1>2, ConcatAt
<1>8. ASSUME NEW i \in 1..Len(t) + Len(q) PROVE (t \o q)[i] = (w \o q)[i + 1]
  <2>1. CASE i <= Len(t)
    <3>1. i \in 1..Len(t) /\ i + 1 \in 1..Len(w)
      BY <1>2, <1>6, <1>7, <2>1
    <3> QED BY <1>2, <1>6, <1>7, <3>1
  <2>2. CASE i > Len(t)
    <3>1. PICK k \in 1..Len(q) : i = Len(t) + k /\ i + 1 = Len(w) + k
      <4>1. i - Len(t) \in 1..Len(q) /\ i = Len(t) + (i - Len(t)) /\ i + 1 = Len(w) + (i - Len(t))
        BY <1>2, <1>6, <1>7, <2>2
      <4> QED BY <4>1
    <3> QED BY <1>6, <1>7, <3>1
  <2>3. i \in Nat /\ Len(t) \in Nat
    BY <1>6, <1>7
  <2>4. i <= Len(t) \/ i > Len(t)
    BY <2>3
  <2> QED BY <2>1, <2>2, <2>4
<1>9. (w \o q)[1] = w[1] /\ Len(w \o q) > 0
  BY <1>3, <1>6
<1>10. Len(w \o q) = Len(t \o q) + 1
  BY <1>2, <1>6, <1>7
<1>11. Size(s) > 0 /\ Flow(s)[1] = Head(wire[s])
  BY <1>4, <1>5, <1>9 DEF Size
<1>12. ASSUME Flow(s)' = t \o q PROVE Taken(s)
  <2>1. Size(s) = Len(w \o q) /\ Size(s)' = Len(t \o q)
    BY <1>4, <1>12 DEF Size
  <2>2. Size(s)' = Len(t) + Len(q)
    BY <1>7, <2>1
  <2> QED BY <1>4, <1>8, <1>10, <1>12, <2>1, <2>2 DEF Taken
<1> QED BY <1>4, <1>11, <1>12 DEF t, q

\* What the writer writes stays where it was in the flow.
LEMMA WrittenStays ==
  ASSUME TypeInv, NEW s \in Sides, ep[s].queue # <<>>,
         wire'[s] = Append(wire[s], Head(ep[s].queue)), ep'[s].queue = Tail(ep[s].queue)
  PROVE  Flow(s)' = Flow(s)
<1> DEFINE h == <<Head(ep[s].queue)>>
           t == Tail(ep[s].queue)
<1>1. wire[s] \in Seq(FrameType) /\ ep[s].queue \in Seq(FrameType)
  BY DEF TypeInv, EndType
<1>2. /\ Head(ep[s].queue) \in FrameType /\ t \in Seq(FrameType) /\ Len(t) = Len(ep[s].queue) - 1
      /\ \A i \in 1..Len(t) : t[i] = ep[s].queue[i + 1]
  BY <1>1, HeadTailProperties
<1>3. h \in Seq(FrameType) /\ Len(h) = 1 /\ h[1] = ep[s].queue[1] /\ Len(ep[s].queue) > 0
  BY <1>1, <1>2, EmptySeq
<1>4. wire'[s] = wire[s] \o h
  BY <1>1, <1>2, AppendIsConcat
<1>5. Flow(s)' = (wire[s] \o h) \o t
  BY <1>4 DEF Flow
<1> HIDE DEF h, t
<1>6. h \o t = ep[s].queue
  <2>1. /\ h \o t \in Seq(FrameType) /\ Len(h \o t) = Len(h) + Len(t) /\ Len(t) \in Nat
        /\ \A i \in 1..Len(h) : (h \o t)[i] = h[i]
        /\ \A i \in 1..Len(t) : (h \o t)[Len(h) + i] = t[i]
    BY <1>2, <1>3, ConcatAt
  <2>2. Len(h \o t) = Len(ep[s].queue)
    BY <1>2, <1>3, <2>1
  <2>3. ASSUME NEW i \in 1..Len(h \o t) PROVE (h \o t)[i] = ep[s].queue[i]
    <3>1. CASE i = 1
      BY <1>3, <2>1, <3>1
    <3>2. CASE i > 1
      <4>1. PICK k \in 1..Len(t) : i = 1 + k
        <5>1. i - 1 \in 1..Len(t) /\ i = 1 + (i - 1)
          BY <1>3, <2>1, <3>2
        <5> QED BY <5>1
      <4>2. (h \o t)[i] = t[k] /\ ep[s].queue[i] = t[k]
        BY <1>2, <1>3, <2>1, <4>1
      <4> QED BY <4>2
    <3> QED BY <2>1, <1>3, <3>1, <3>2
  <2> QED BY <1>1, <2>1, <2>2, <2>3, SeqEqual
<1>7. (wire[s] \o h) \o t = wire[s] \o (h \o t)
  BY <1>1, <1>2, <1>3, ConcatMoves, Zenon
<1> QED BY <1>5, <1>6, <1>7 DEF Flow

\* A stopped end's queue is forgotten: what is on the connection is left.
LEMMA QueueForgotten ==
  ASSUME TypeInv, NEW s \in Sides, wire'[s] = wire[s], ep'[s].queue = <<>>, ~Up(s)'
  PROVE  Cut(s)
<1> DEFINE w == wire[s]
           q == ep[s].queue
<1>1. w \in Seq(FrameType) /\ q \in Seq(FrameType)
  BY DEF TypeInv, EndType
<1>2. Flow(s) = w \o q /\ Flow(s)' = w
  <2>1. w \o <<>> = w
    BY <1>1, ConcatEmptySeq
  <2> QED BY <2>1 DEF Flow
<1> HIDE DEF w, q
<1>3. Len(w) \in Nat /\ Len(q) \in Nat
  BY <1>1, LenProperties
<1>4. /\ Len(w \o q) = Len(w) + Len(q)
      /\ \A i \in 1..Len(w) : (w \o q)[i] = w[i]
  BY <1>1, ConcatAt
<1> QED BY <1>2, <1>3, <1>4 DEF Cut, Size

-----------------------------------------------------------------------------
(* What a change of the flow does to the invariant.                        *)

\* Around a change of the flow of end s: nobody comes back, what was settled was settled
\* before, and finished work stays as it is.
Kept(s) ==
  /\ Heard(s)' => Heard(s)
  /\ Up(s)' => Up(s)
  /\ Up(Other(s))' => Up(Other(s)) /\ Heard(s)' /\ \A n \in Seqs : Settled(s, n)' => Settled(s, n)
  /\ \A n \in Seqs : work[s][n] \in Results => work'[s][n] = work[s][n]
NotRead(s) == ep'[Other(s)].nextIn = ep[Other(s)].nextIn /\ ep'[Other(s)].ready = ep[Other(s)].ready

\* Nothing is added.
LEMMA CutHello ==
  ASSUME TypeInv, NEW s \in Sides, HelloInv(s), Kept(s), NotRead(s), Heard(s)' => Cut(s)
  PROVE  HelloInv(s)'
<1>1. SUFFICES ASSUME Heard(s)' PROVE HelloInv(s)'
  BY DEF HelloInv
<1>2. Size(s) \in Nat /\ Cut(s) /\ Heard(s)
  BY <1>1, FlowType DEF Kept
<1>3. Size(s)' \in Nat
  BY <1>2 DEF Cut, Size
<1> QED BY <1>1, <1>2, <1>3 DEF HelloInv, Cut, Kept, NotRead, Stands

\* The requests are in order still, in what is left of a flow.
LEMMA CutRequests ==
  ASSUME TypeInv, NEW s \in Sides, RequestInv(s), Kept(s), NotRead(s), Heard(s)' => Cut(s),
         ep'[s].nextOut = ep[s].nextOut
  PROVE  RequestInv(s)'
<1>1. SUFFICES ASSUME Heard(s)' PROVE RequestInv(s)'
  BY DEF RequestInv
<1>2. Size(s) \in Nat /\ Cut(s) /\ Heard(s)
  BY <1>1, FlowType DEF Kept
<1>3. Size(s)' \in Nat
  BY <1>2 DEF Cut, Size
<1>4. ASSUME NEW i \in 1..Size(s)', NEW m, Before(s, i, m) PROVE Before(s, i, m)'
  BY <1>2, <1>3, <1>4 DEF Before, Cut
<1>5. \A i \in 1..Size(s)' : /\ Stands(s, i, "request")' => Stands(s, i, "request")
                             /\ Later(s, i) => Later(s, i)'
                             /\ Flow(s)'[i] = Flow(s)[i] /\ i \in 1..Size(s)
  BY <1>2, <1>3 DEF Cut, NotRead, Stands, Later
<1>6. ASSUME NEW i \in 1..Size(s)', Stands(s, i, "request")'
      PROVE  /\ Later(s, i)'
             /\ \A m \in Seqs : ep'[Other(s)].nextIn < m /\ m < Flow(s)'[i].id => Before(s, i, m)'
  BY <1>2, <1>4, <1>5, <1>6 DEF RequestInv, NotRead
<1>7. \A i, j \in 1..Size(s)' :
        i < j /\ Stands(s, i, "request")' /\ Stands(s, j, "request")' => Flow(s)'[i].id < Flow(s)'[j].id
  BY <1>2, <1>5 DEF RequestInv
<1>8. ASSUME Up(s)', NEW m \in Seqs, ep'[Other(s)].nextIn < m, m <= ep'[s].nextOut
      PROVE  \E j \in 1..Size(s)' : Flow(s)'[j] = Request(m)
  <2>1. \E j \in 1..Size(s) : Flow(s)[j] = Request(m)
    BY <1>2, <1>8 DEF RequestInv, NotRead, Kept
  <2> QED BY <1>2, <1>5, <1>8, <2>1 DEF Cut
<1> QED BY <1>6, <1>7, <1>8 DEF RequestInv

\* The cancellations follow their requests still.
LEMMA CutCancels ==
  ASSUME TypeInv, NEW s \in Sides, CancelInv(s), Kept(s), NotRead(s), Heard(s)' => Cut(s)
  PROVE  CancelInv(s)'
<1>1. SUFFICES ASSUME Heard(s)' PROVE CancelInv(s)'
  BY DEF CancelInv
<1>2. Size(s) \in Nat /\ Cut(s) /\ Heard(s)
  BY <1>1, FlowType DEF Kept
<1>3. Size(s)' \in Nat
  BY <1>2 DEF Cut, Size
<1>4. ASSUME NEW i \in 1..Size(s)', NEW m, Before(s, i, m) PROVE Before(s, i, m)'
  BY <1>2, <1>3, <1>4 DEF Before, Cut
<1> QED BY <1>2, <1>3, <1>4 DEF CancelInv, Cut, NotRead, Stands

\* The responses carry the answers of their work still.
LEMMA CutResponses ==
  ASSUME TypeInv, NEW s \in Sides, ResponseInv(s), Kept(s), Heard(s)' => Cut(s)
  PROVE  ResponseInv(s)'
<1>1. SUFFICES ASSUME Heard(s)' PROVE ResponseInv(s)'
  BY DEF ResponseInv
<1>2. Size(s) \in Nat /\ Cut(s) /\ Heard(s)
  BY <1>1, FlowType DEF Kept
<1>3. Size(s)' \in Nat
  BY <1>2 DEF Cut, Size
<1> QED BY <1>2, <1>3 DEF ResponseInv, Cut, Kept, Stands

\* A call that has been answered has no second response on its way.
LEMMA CutPending ==
  ASSUME TypeInv, NEW s \in Sides, PendingInv(s), Kept(s), Heard(s)' => Cut(s)
  PROVE  PendingInv(s)'
<1>1. SUFFICES ASSUME Up(Other(s))' PROVE PendingInv(s)'
  BY DEF PendingInv
<1>2. Size(s) \in Nat /\ Cut(s) /\ Up(Other(s))
  BY <1>1, FlowType DEF Kept
<1>3. Size(s)' \in Nat
  BY <1>2 DEF Cut, Size
<1>4. ASSUME NEW n \in Seqs, Settled(s, n)'
      PROVE  /\ work'[s][n] \in Results
             /\ \A i \in 1..Size(s)' : Stands(s, i, "response")' => Flow(s)'[i].id # n
  <2>1. /\ work[s][n] \in Results
        /\ \A i \in 1..Size(s) : Stands(s, i, "response") => Flow(s)[i].id # n
    BY <1>1, <1>2, <1>4 DEF PendingInv, Kept
  <2> QED BY <1>2, <1>3, <2>1 DEF Kept, Cut, Stands
<1> QED BY <1>4 DEF PendingInv

\* A step that adds nothing to the flow keeps the invariant.
LEMMA CutKeeps ==
  ASSUME TypeInv, NEW s \in Sides, FlowInv(s), Kept(s), NotRead(s), Heard(s)' => Cut(s),
         ep'[s].nextOut = ep[s].nextOut
  PROVE  FlowInv(s)'
BY CutHello, CutRequests, CutCancels, CutResponses, CutPending DEF FlowInv

\* A frame that is not a hello is appended.
LEMMA SentHello ==
  ASSUME TypeInv, NEW s \in Sides, NEW f \in FrameType, f.kind # "hello",
         HelloInv(s), Kept(s), NotRead(s), Heard(s)' => Sent(s, f), Up(s)
  PROVE  HelloInv(s)'
<1>1. SUFFICES ASSUME Heard(s)' PROVE HelloInv(s)'
  BY DEF HelloInv
<1>2. Size(s) \in Nat /\ Sent(s, f) /\ Heard(s)
  BY <1>1, FlowType DEF Kept
<1>3. \A i \in 1..Size(s)' : i \in 1..Size(s) \/ i = Size(s)'
  BY <1>2 DEF Sent
<1> QED BY <1>1, <1>2, <1>3 DEF HelloInv, Sent, Kept, NotRead, Stands

\* A frame that is not a request is appended.
LEMMA SentNoRequest ==
  ASSUME TypeInv, NEW s \in Sides, NEW f \in FrameType, f.kind # "request",
         RequestInv(s), Kept(s), NotRead(s), Heard(s)' => Sent(s, f), Up(s),
         ep'[s].nextOut = ep[s].nextOut
  PROVE  RequestInv(s)'
<1>1. SUFFICES ASSUME Heard(s)' PROVE RequestInv(s)'
  BY DEF RequestInv
<1>2. Size(s) \in Nat /\ Sent(s, f) /\ Heard(s)
  BY <1>1, FlowType DEF Kept
<1>3. \A i \in 1..Size(s)' : Stands(s, i, "request")' => i \in 1..Size(s)
  BY <1>2 DEF Sent, Stands
<1>4. ASSUME NEW i \in 1..Size(s), NEW m, Before(s, i, m) PROVE Before(s, i, m)'
  BY <1>2, <1>4 DEF Before, Sent
<1>5. \A i \in 1..Size(s) : /\ Stands(s, i, "request")' => Stands(s, i, "request")
                            /\ Later(s, i) => Later(s, i)'
                            /\ Flow(s)'[i] = Flow(s)[i] /\ i \in 1..Size(s)'
  BY <1>2 DEF Sent, NotRead, Stands, Later
<1>6. ASSUME NEW i \in 1..Size(s)', Stands(s, i, "request")'
      PROVE  /\ Later(s, i)'
             /\ \A m \in Seqs : ep'[Other(s)].nextIn < m /\ m < Flow(s)'[i].id => Before(s, i, m)'
  BY <1>2, <1>3, <1>4, <1>5, <1>6 DEF RequestInv, NotRead
<1>7. \A i, j \in 1..Size(s)' :
        i < j /\ Stands(s, i, "request")' /\ Stands(s, j, "request")' => Flow(s)'[i].id < Flow(s)'[j].id
  BY <1>2, <1>3, <1>5 DEF RequestInv
<1>8. ASSUME Up(s)', NEW m \in Seqs, ep'[Other(s)].nextIn < m, m <= ep'[s].nextOut
      PROVE  \E j \in 1..Size(s)' : Flow(s)'[j] = Request(m)
  <2>1. \E j \in 1..Size(s) : Flow(s)[j] = Request(m)
    BY <1>2, <1>8 DEF RequestInv, NotRead, Kept
  <2> QED BY <1>5, <2>1
<1> QED BY <1>6, <1>7, <1>8 DEF RequestInv

\* A frame that is not a cancellation, or cancels what was requested, is appended.
LEMMA SentCancels ==
  ASSUME TypeInv, NEW s \in Sides, NEW f \in FrameType,
         f.kind = "cancel" => f.id \in Seqs /\ f.id <= ep[s].nextOut,
         CancelInv(s), RequestInv(s), Kept(s), NotRead(s), Heard(s)' => Sent(s, f), Up(s)
  PROVE  CancelInv(s)'
<1>1. SUFFICES ASSUME Heard(s)' PROVE CancelInv(s)'
  BY DEF CancelInv
<1>2. Size(s) \in Nat /\ Sent(s, f) /\ Heard(s)
  BY <1>1, FlowType DEF Kept
<1>3. \A i \in 1..Size(s)' : i \in 1..Size(s) \/ i = Size(s)'
  BY <1>2 DEF Sent
<1>4. ASSUME NEW i \in 1..Size(s), NEW m, Before(s, i, m) PROVE Before(s, i, m)'
  BY <1>2, <1>4 DEF Before, Sent
<1>5. ASSUME f.kind = "cancel"
      PROVE  f.id <= ep'[Other(s)].nextIn \/ Before(s, Size(s), f.id)'
  <2>1. ep[Other(s)].nextIn \in Nat /\ f.id \in Nat
    BY <1>5, SidesAre, SeqsAre DEF TypeInv, EndType
  <2>2. CASE f.id <= ep[Other(s)].nextIn
    BY <2>2 DEF NotRead
  <2>3. CASE ep[Other(s)].nextIn < f.id
    <3>1. PICK j \in 1..Size(s) : Flow(s)[j] = Request(f.id)
      BY <1>2, <1>5, <2>3 DEF RequestInv
    <3>2. j \in 1..Size(s)' /\ j < Size(s)' /\ Flow(s)'[j] = Request(f.id)
      BY <1>2, <3>1 DEF Sent
    <3> QED BY <3>2 DEF Before
  <2> QED BY <2>1, <2>2, <2>3
<1>6. ASSUME NEW i \in 1..Size(s)', Stands(s, i, "cancel")'
      PROVE  Flow(s)'[i].id <= ep'[Other(s)].nextIn \/ Before(s, i, Flow(s)[i].id)'
  <2>1. CASE i \in 1..Size(s)
    BY <1>2, <1>4, <1>6, <2>1 DEF CancelInv, Sent, NotRead, Stands
  <2>2. CASE i = Size(s)'
    BY <1>2, <1>5, <1>6, <2>2 DEF Sent, Stands
  <2> QED BY <1>3, <2>1, <2>2
<1> QED BY <1>6 DEF CancelInv

\* A frame that is not a response is appended.
LEMMA SentNoResponse ==
  ASSUME TypeInv, NEW s \in Sides, NEW f \in FrameType, f.kind # "response",
         ResponseInv(s), PendingInv(s), Kept(s), Heard(s)' => Sent(s, f)
  PROVE  ResponseInv(s)' /\ PendingInv(s)'
<1>1. ASSUME Heard(s)' PROVE Size(s) \in Nat /\ Sent(s, f) /\ Heard(s)
  BY <1>1, FlowType DEF Kept
<1>2. ASSUME Heard(s)', NEW i \in 1..Size(s)', Stands(s, i, "response")'
      PROVE  i \in 1..Size(s) /\ Flow(s)'[i] = Flow(s)[i] /\ Stands(s, i, "response")
  BY <1>1, <1>2 DEF Sent, Stands
<1>3. ResponseInv(s)'
  BY <1>1, <1>2 DEF ResponseInv, Kept
<1>4. ASSUME Up(Other(s))', NEW n \in Seqs, Settled(s, n)'
      PROVE  /\ work'[s][n] \in Results
             /\ \A i \in 1..Size(s)' : Stands(s, i, "response")' => Flow(s)'[i].id # n
  <2>1. /\ work[s][n] \in Results /\ Heard(s)'
        /\ \A i \in 1..Size(s) : Stands(s, i, "response") => Flow(s)[i].id # n
    BY <1>4 DEF PendingInv, Kept
  <2> QED BY <1>2, <2>1 DEF Kept
<1> QED BY <1>3, <1>4 DEF PendingInv

\* The answer of work that has just ended is appended.
LEMMA SentResponse ==
  ASSUME TypeInv, NEW s \in Sides, NEW n \in Seqs, NEW r \in Results,
         work[s][n] \notin Results, work'[s][n] = r,
         ResponseInv(s), PendingInv(s), Kept(s), Heard(s)' => Sent(s, Response(n, r))
  PROVE  ResponseInv(s)' /\ PendingInv(s)'
<1>1. ASSUME Heard(s)' PROVE Size(s) \in Nat /\ Sent(s, Response(n, r)) /\ Heard(s)
  BY <1>1, FlowType DEF Kept
<1>2. Response(n, r).kind = "response" /\ Response(n, r).id = n /\ Response(n, r).result = r
  BY FramesAre
<1>3. ASSUME Heard(s)', NEW i \in 1..Size(s)', Stands(s, i, "response")'
      PROVE  \/ /\ i \in 1..Size(s) /\ Flow(s)'[i] = Flow(s)[i] /\ Stands(s, i, "response")
                /\ Flow(s)[i].id # n
             \/ i = Size(s)' /\ Flow(s)'[i] = Response(n, r)
  <2>1. CASE i \in 1..Size(s)
    BY <1>1, <1>3, <2>1 DEF Sent, Stands, ResponseInv
  <2>2. CASE i = Size(s)'
    BY <1>1, <1>3, <2>2 DEF Sent
  <2> QED BY <1>1, <1>3, <2>1, <2>2 DEF Sent
<1>4. ResponseInv(s)'
  <2>1. SUFFICES ASSUME Heard(s)' PROVE ResponseInv(s)'
    BY DEF ResponseInv
  <2>2. ASSUME NEW i \in 1..Size(s)', Stands(s, i, "response")'
        PROVE  /\ Flow(s)'[i].id \in Seqs /\ Flow(s)'[i].result \in Results
               /\ work'[s][Flow(s)'[i].id] = Flow(s)'[i].result
    <3>1. CASE i = Size(s)' /\ Flow(s)'[i] = Response(n, r)
      BY <1>2, <3>1
    <3>2. CASE i \in 1..Size(s) /\ Flow(s)'[i] = Flow(s)[i] /\ Stands(s, i, "response")
      BY <1>1, <2>1, <3>2 DEF ResponseInv, Kept
    <3> QED BY <1>3, <2>1, <2>2, <3>1, <3>2
  <2>3. ASSUME NEW i \in 1..Size(s)', NEW j \in 1..Size(s)', i < j,
               Stands(s, i, "response")', Stands(s, j, "response")'
        PROVE  Flow(s)'[i].id # Flow(s)'[j].id
    <3>1. i # Size(s)'
      BY <1>1, <2>1, <2>3 DEF Sent
    <3>2. /\ i \in 1..Size(s) /\ Flow(s)'[i] = Flow(s)[i] /\ Stands(s, i, "response")
          /\ Flow(s)[i].id # n
      BY <1>3, <2>1, <2>3, <3>1
    <3>3. CASE j = Size(s)' /\ Flow(s)'[j] = Response(n, r)
      BY <1>2, <3>2, <3>3
    <3>4. CASE j \in 1..Size(s) /\ Flow(s)'[j] = Flow(s)[j] /\ Stands(s, j, "response")
      BY <1>1, <2>1, <2>3, <3>2, <3>4 DEF ResponseInv
    <3> QED BY <1>3, <2>1, <2>3, <3>3, <3>4
  <2> QED BY <2>2, <2>3 DEF ResponseInv
<1>5. ASSUME Up(Other(s))', NEW m \in Seqs, Settled(s, m)'
      PROVE  /\ work'[s][m] \in Results
             /\ \A i \in 1..Size(s)' : Stands(s, i, "response")' => Flow(s)'[i].id # m
  <2>1. /\ work[s][m] \in Results /\ Heard(s)'
        /\ \A i \in 1..Size(s) : Stands(s, i, "response") => Flow(s)[i].id # m
    BY <1>5 DEF PendingInv, Kept
  <2>2. m # n
    BY <2>1
  <2> QED BY <1>2, <1>3, <2>1, <2>2 DEF Kept
<1> QED BY <1>4, <1>5 DEF PendingInv

\* The next request is appended.
LEMMA SentRequest ==
  ASSUME TypeInv, NEW s \in Sides, NEW n \in Seqs, n = ep[s].nextOut + 1, ep'[s].nextOut = n,
         ep[Other(s)].nextIn <= ep[s].nextOut,
         RequestInv(s), Kept(s), NotRead(s), Heard(s)' => Sent(s, Request(n)), Up(s)
  PROVE  RequestInv(s)'
<1>1. SUFFICES ASSUME Heard(s)' PROVE RequestInv(s)'
  BY DEF RequestInv
<1>2. Size(s) \in Nat /\ Sent(s, Request(n)) /\ Heard(s)
  BY <1>1, FlowType DEF Kept
<1>3. Request(n).kind = "request" /\ Request(n).id = n
  BY FramesAre
<1>4. ASSUME NEW i \in 1..Size(s), NEW m, Before(s, i, m) PROVE Before(s, i, m)'
  BY <1>2, <1>4 DEF Before, Sent
<1>5. n \in Nat /\ ep[s].nextOut \in Nat /\ ep[Other(s)].nextIn \in Nat
      /\ \A i \in 1..Size(s) : Flow(s)[i].id \in Nat
  <2>1. \A i \in 1..Size(s) : Flow(s)[i].id \in Nat
    BY FlowType
  <2> QED BY <2>1, SidesAre, SeqsAre DEF TypeInv, EndType
<1>6. \A i \in 1..Size(s) : /\ Stands(s, i, "request")' => Stands(s, i, "request")
                            /\ Later(s, i) => Later(s, i)' /\ Flow(s)[i].id < n
                            /\ Flow(s)'[i] = Flow(s)[i] /\ i \in 1..Size(s)' /\ i < Size(s)'
  BY <1>2, <1>5 DEF Sent, NotRead, Stands, Later
<1>7. Flow(s)'[Size(s)'] = Request(n) /\ \A i \in 1..Size(s)' : i \in 1..Size(s) \/ i = Size(s)'
  BY <1>2 DEF Sent
<1>8. \A m \in Seqs : ep[Other(s)].nextIn < m /\ m <= ep[s].nextOut =>
         \E j \in 1..Size(s) : Flow(s)'[j] = Request(m)
  BY <1>2, <1>6 DEF RequestInv
<1>9. ASSUME NEW i \in 1..Size(s)', Stands(s, i, "request")'
      PROVE  /\ Later(s, i)'
             /\ \A m \in Seqs : ep'[Other(s)].nextIn < m /\ m < Flow(s)'[i].id => Before(s, i, m)'
  <2>1. CASE i \in 1..Size(s)
    BY <1>2, <1>4, <1>6, <1>9, <2>1 DEF RequestInv, NotRead
  <2>2. CASE i = Size(s)'
    <3>1. Flow(s)'[i].id = n
      BY <1>3, <1>7, <2>2
    <3>2. Later(s, i)'
      BY <1>5, <3>1 DEF Later, NotRead
    <3>3. ASSUME NEW m \in Seqs, ep'[Other(s)].nextIn < m, m < n PROVE Before(s, i, m)'
      <4>1. m <= ep[s].nextOut /\ ep[Other(s)].nextIn < m
        <5>1. m \in Nat /\ m < n /\ n = ep[s].nextOut + 1
          BY <3>3, SeqsAre
        <5>2. ep[Other(s)].nextIn < m
          BY <3>3 DEF NotRead
        <5> QED BY <1>5, <5>1, <5>2
      <4>2. PICK j \in 1..Size(s) : Flow(s)'[j] = Request(m)
        BY <1>8, <4>1
      <4> QED BY <1>6, <2>2, <4>2 DEF Before
    <3> QED BY <3>1, <3>2, <3>3
  <2> QED BY <1>7, <2>1, <2>2
<1>10. ASSUME NEW i \in 1..Size(s)', NEW j \in 1..Size(s)', i < j,
              Stands(s, i, "request")', Stands(s, j, "request")'
       PROVE  Flow(s)'[i].id < Flow(s)'[j].id
  <2>1. i \in 1..Size(s)
    BY <1>2, <1>10 DEF Sent
  <2>2. CASE j \in 1..Size(s)
    BY <1>2, <1>6, <1>10, <2>1, <2>2 DEF RequestInv
  <2>3. CASE j = Size(s)'
    BY <1>2, <1>3, <1>6, <1>7, <1>10, <2>1, <2>3 DEF RequestInv
  <2> QED BY <1>7, <2>2, <2>3
<1>11. ASSUME Up(s)', NEW m \in Seqs, ep'[Other(s)].nextIn < m, m <= ep'[s].nextOut
       PROVE  \E j \in 1..Size(s)' : Flow(s)'[j] = Request(m)
  <2>1. CASE m = n
    <3>1. Size(s)' \in 1..Size(s)'
      BY <1>2 DEF Sent
    <3> QED BY <1>7, <2>1, <3>1
  <2>2. CASE m # n
    <3>1. m <= ep[s].nextOut /\ ep[Other(s)].nextIn < m
      <4>1. m \in Nat /\ m <= n /\ n = ep[s].nextOut + 1
        BY <1>11, SeqsAre
      <4>2. ep[Other(s)].nextIn < m
        BY <1>11 DEF NotRead
      <4> QED BY <1>5, <2>2, <4>1, <4>2
    <3>2. PICK j \in 1..Size(s) : Flow(s)'[j] = Request(m)
      BY <1>8, <3>1
    <3> QED BY <1>6, <3>2
  <2> QED BY <2>1, <2>2
<1> QED BY <1>9, <1>10, <1>11 DEF RequestInv

\* A request, a cancellation and a response of its own work may be sent.
LEMMA RequestKeeps ==
  ASSUME TypeInv, NEW s \in Sides, FlowInv(s), Kept(s), NotRead(s), Up(s),
         NEW n \in Seqs, n = ep[s].nextOut + 1, ep'[s].nextOut = n,
         ep[Other(s)].nextIn <= ep[s].nextOut, Heard(s)' => Sent(s, Request(n))
  PROVE  FlowInv(s)'
<1>1. Request(n) \in FrameType /\ Request(n).kind = "request"
  BY FramesAre
<1> QED BY <1>1, SentHello, SentRequest, SentCancels, SentNoResponse DEF FlowInv

\* The flow of an end that sends a cancellation.
LEMMA CancelKeeps ==
  ASSUME TypeInv, NEW s \in Sides, FlowInv(s), Kept(s), NotRead(s), Up(s),
         ep'[s].nextOut = ep[s].nextOut,
         NEW n \in Seqs, n <= ep[s].nextOut, Heard(s)' => Sent(s, Cancel(n))
  PROVE  FlowInv(s)'
<1>1. Cancel(n) \in FrameType /\ Cancel(n).kind = "cancel" /\ Cancel(n).id = n
  BY FramesAre
<1> QED BY <1>1, SentHello, SentNoRequest, SentCancels, SentNoResponse DEF FlowInv

\* The flow of an end that answers a request.
LEMMA ResponseKeeps ==
  ASSUME TypeInv, NEW s \in Sides, FlowInv(s), Kept(s), NotRead(s), Up(s),
         ep'[s].nextOut = ep[s].nextOut,
         NEW n \in Seqs, NEW r \in Results, work[s][n] \notin Results, work'[s][n] = r,
         Heard(s)' => Sent(s, Response(n, r))
  PROVE  FlowInv(s)'
<1>1. Response(n, r) \in FrameType /\ Response(n, r).kind = "response"
  BY FramesAre
<1> QED BY <1>1, SentHello, SentNoRequest, SentCancels, SentResponse DEF FlowInv

\* What follows a caller that gave up still does when the flow grows, and the other end
\* takes nothing back.
Extends(s) == \A i \in 1..Size(s) : i \in 1..Size(s)' /\ Flow(s)'[i] = Flow(s)[i]
Heeds(e, f) == \A n \in Seqs : Undone(e, n) => Undone(f, n)
\* A cancellation that is on its way, or was heeded, stays so while both ends are up.
LEMMA FollowKeeps ==
  ASSUME NEW s \in Sides, FollowInv(s), Up(s)' => Up(s), Up(Other(s))' => Up(Other(s)),
         Up(s)' /\ Up(Other(s))' => Extends(s) /\ Heeds(ep[Other(s)], ep'[Other(s)]),
         \A n \in Seqs : pc'[s][n] = "gaveup" /\ Up(s)' /\ Up(Other(s))' => pc[s][n] = "gaveup" \/ Told(s, n)'
  PROVE  FollowInv(s)'
<1>1. ASSUME Up(s)', Up(Other(s))', NEW n \in Seqs, pc'[s][n] = "gaveup"
      PROVE  Told(s, n)' \/ Undone(ep[Other(s)], n)'
  <2>1. CASE Told(s, n)'
    BY <2>1
  <2>2. CASE pc[s][n] = "gaveup" /\ Told(s, n)
    <3>1. PICK i \in 1..Size(s) : Flow(s)[i] = Cancel(n)
      BY <2>2 DEF Told
    <3>2. i \in 1..Size(s)' /\ Flow(s)'[i] = Cancel(n)
      BY <1>1, <3>1 DEF Extends
    <3> QED BY <3>2 DEF Told, Cancel, Frame
  <2>3. CASE pc[s][n] = "gaveup" /\ Undone(ep[Other(s)], n)
    BY <1>1, <2>3 DEF Heeds, Undone
  <2> QED BY <1>1, <2>1, <2>2, <2>3 DEF FollowInv
<1> QED BY <1>1 DEF FollowInv

\* Nothing is cut off an end that is up, and what is sent comes last.
LEMMA CutExtends ==
  ASSUME TypeInv, NEW s \in Sides, Cut(s), Up(s)'
  PROVE  Extends(s)
<1>1. Size(s) \in Nat
  BY FlowType
<1> QED BY <1>1 DEF Cut, Extends

\* A frame is in the flow once it is sent, and all that was there before.
LEMMA SentExtends ==
  ASSUME TypeInv, NEW s \in Sides, NEW f, Sent(s, f)
  PROVE  Extends(s) /\ \E i \in 1..Size(s)' : Flow(s)'[i] = f
<1>1. Size(s) \in Nat
  BY FlowType
<1> QED BY <1>1 DEF Sent, Extends

-----------------------------------------------------------------------------
(* The reader takes the head of the flow.                                  *)

\* Around the reading of a frame of end s: work of s stays, and s itself does not move.
Reads(s) ==
  /\ Heard(s) /\ Size(s) > 0
  /\ Heard(s)' => Taken(s)
  /\ Up(Other(s))' => Up(Other(s)) /\ Heard(s)'
  /\ ep'[s] = ep[s] /\ work'[s] = work[s]

\* What is at place i after the head is taken was behind it.
LEMMA TakenAt ==
  ASSUME TypeInv, NEW s \in Sides, Reads(s), Heard(s)'
  PROVE  /\ Size(s) \in Nat /\ Size(s)' \in Nat /\ 1 \in 1..Size(s) /\ Size(s) = Size(s)' + 1
         /\ \A i \in 1..Size(s)' : i + 1 \in 1..Size(s) /\ Flow(s)'[i] = Flow(s)[i + 1]
         /\ \A k \in 1..Size(s) : k = 1 \/ (k - 1 \in 1..Size(s)' /\ Flow(s)'[k - 1] = Flow(s)[k])
<1>1. Size(s) \in Nat /\ Taken(s) /\ Size(s) > 0
  BY FlowType DEF Reads
<1>2. Size(s)' \in Nat
  BY <1>1 DEF Taken, Size
<1>3. 1 \in 1..Size(s)
  BY <1>1
<1>4. \A i \in 1..Size(s)' : i + 1 \in 1..Size(s) /\ Flow(s)'[i] = Flow(s)[i + 1]
  BY <1>1, <1>2 DEF Taken
<1>5. ASSUME NEW k \in 1..Size(s), k # 1 PROVE k - 1 \in 1..Size(s)' /\ Flow(s)'[k - 1] = Flow(s)[k]
  <2>1. k - 1 \in 1..Size(s)' /\ (k - 1) + 1 = k
    BY <1>1, <1>2, <1>5 DEF Taken
  <2> QED BY <1>4, <2>1
<1> QED BY <1>1, <1>2, <1>3, <1>4, <1>5 DEF Taken

\* What stood before a frame stands before it, unless it was taken.
LEMMA TakenBefore ==
  ASSUME TypeInv, NEW s \in Sides, Reads(s), Heard(s)',
         NEW i \in 1..Size(s)', NEW m, Before(s, i + 1, m), Flow(s)[1] # Request(m)
  PROVE  Before(s, i, m)'
<1>1. PICK j \in 1..Size(s) : j < i + 1 /\ Flow(s)[j] = Request(m)
  BY DEF Before
<1>2. j # 1
  BY <1>1
<1>3. j - 1 \in 1..Size(s)' /\ j - 1 < i /\ Flow(s)'[j - 1] = Request(m)
  BY <1>1, <1>2, TakenAt
<1> QED BY <1>3 DEF Before

\* The head is the hello, or the hello has been read.
LEMMA HelloFirst ==
  ASSUME TypeInv, NEW s \in Sides, HelloInv(s), Heard(s), Size(s) > 0
  PROVE  Stands(s, 1, "hello") <=> ~ep[Other(s)].ready
<1>1. Size(s) \in Nat
  BY FlowType
<1>2. 1 \in 1..Size(s) /\ Size(s) # 0
  BY <1>1
<1> QED BY <1>2 DEF HelloInv

\* The hello, once read.
LEMMA ReadHello ==
  ASSUME TypeInv, NEW s \in Sides, HelloInv(s), Reads(s),
         ep'[Other(s)].ready = (ep[Other(s)].ready \/ Stands(s, 1, "hello"))
  PROVE  HelloInv(s)'
<1>1. SUFFICES ASSUME Heard(s)' PROVE HelloInv(s)'
  BY DEF HelloInv
<1>2. ep'[Other(s)].ready
  BY HelloFirst, SidesAre DEF Reads, TypeInv, EndType
<1>3. \A i \in 1..Size(s)' : ~Stands(s, i, "hello")'
  <2>1. ASSUME NEW i \in 1..Size(s)' PROVE ~Stands(s, i, "hello")'
    <3>1. i + 1 \in 1..Size(s) /\ i + 1 # 1 /\ Flow(s)'[i] = Flow(s)[i + 1]
      BY <1>1, TakenAt
    <3> QED BY <3>1 DEF HelloInv, Stands, Reads
  <2> QED BY <2>1
<1> QED BY <1>2, <1>3 DEF HelloInv

\* The first request is the next one.
LEMMA RequestNext ==
  ASSUME TypeInv, NEW s \in Sides, RequestInv(s), Heard(s), Size(s) > 0, Stands(s, 1, "request")
  PROVE  /\ Flow(s)[1].id = ep[Other(s)].nextIn + 1 /\ Flow(s)[1].id \in Seqs
         /\ Flow(s)[1].id <= ep[s].nextOut
<1>1. Size(s) \in Nat /\ 1 \in 1..Size(s)
  BY FlowType
<1>2. Flow(s)[1].id \in {0} \cup Seqs
  BY <1>1, FlowType
<1>3. ep[Other(s)].nextIn \in Nat /\ ep[s].nextOut \in Nat
  BY SidesAre DEF TypeInv, EndType
<1>4. Later(s, 1)
  BY <1>1 DEF RequestInv
<1>5. Flow(s)[1].id \in Seqs /\ Flow(s)[1].id \in Nat
  BY <1>2, <1>3, <1>4, SeqsAre DEF Later
<1>6. ASSUME ep[Other(s)].nextIn + 1 < Flow(s)[1].id PROVE FALSE
  <2> DEFINE m == ep[Other(s)].nextIn + 1
  <2>1. m \in Nat /\ m > 0 /\ m <= Flow(s)[1].id /\ ep[Other(s)].nextIn < m
    BY <1>3, <1>5, <1>6
  <2>2. m \in Seqs
    BY <1>5, <2>1, SeqsAre
  <2>3. Before(s, 1, m)
    BY <1>1, <1>6, <2>1, <2>2 DEF RequestInv
  <2>4. PICK j \in 1..Size(s) : j < 1
    BY <2>3 DEF Before
  <2> QED BY <1>1, <2>4
<1> QED BY <1>3, <1>4, <1>5, <1>6 DEF Later

\* A request, once read, is the last that the reader has heard of.
LEMMA ReadRequests ==
  ASSUME TypeInv, NEW s \in Sides, RequestInv(s), Reads(s),
         ep'[Other(s)].nextIn = IF Stands(s, 1, "request") THEN Flow(s)[1].id ELSE ep[Other(s)].nextIn
  PROVE  RequestInv(s)'
<1>1. SUFFICES ASSUME Heard(s)' PROVE RequestInv(s)'
  BY DEF RequestInv
<1>2. /\ Size(s) \in Nat /\ Size(s)' \in Nat /\ 1 \in 1..Size(s) /\ Heard(s) /\ Size(s) > 0
      /\ \A i \in 1..Size(s)' : i + 1 \in 1..Size(s) /\ Flow(s)'[i] = Flow(s)[i + 1]
      /\ \A k \in 1..Size(s) : k = 1 \/ (k - 1 \in 1..Size(s)' /\ Flow(s)'[k - 1] = Flow(s)[k])
  BY <1>1, TakenAt DEF Reads
<1>3. /\ ep[Other(s)].nextIn \in Nat /\ ep[s].nextOut \in Nat /\ ep'[s].nextOut = ep[s].nextOut
      /\ \A n \in Seqs : n \in Nat
      /\ \A i \in 1..Size(s) : Flow(s)[i].id \in Nat
  <2>1. \A i \in 1..Size(s) : Flow(s)[i].id \in Nat
    BY FlowType
  <2> QED BY <2>1, SidesAre, SeqsAre DEF TypeInv, EndType, Reads
<1>4. ep[Other(s)].nextIn <= ep'[Other(s)].nextIn /\ ep'[Other(s)].nextIn \in Nat
  BY <1>2, <1>3, RequestNext
<1>5. ASSUME NEW m \in Seqs, Flow(s)[1] = Request(m) PROVE m <= ep'[Other(s)].nextIn
  <2>1. Stands(s, 1, "request") /\ Flow(s)[1].id = m
    BY <1>5, FramesAre DEF Stands
  <2> QED BY <1>3, <2>1
<1>6. ASSUME NEW i \in 1..Size(s)', Stands(s, i, "request")'
      PROVE  /\ Later(s, i)'
             /\ \A m \in Seqs : ep'[Other(s)].nextIn < m /\ m < Flow(s)'[i].id => Before(s, i, m)'
  <2>1. i + 1 \in 1..Size(s) /\ Flow(s)'[i] = Flow(s)[i + 1] /\ Stands(s, i + 1, "request") /\ 1 < i + 1
    BY <1>2, <1>6 DEF Stands
  <2>2. Later(s, i + 1) /\ (Stands(s, 1, "request") => Flow(s)[1].id < Flow(s)[i + 1].id)
    BY <1>2, <2>1 DEF RequestInv
  <2>3. Later(s, i)'
    BY <1>3, <2>1, <2>2 DEF Later
  <2>4. ASSUME NEW m \in Seqs, ep'[Other(s)].nextIn < m, m < Flow(s)'[i].id PROVE Before(s, i, m)'
    <3>1. ep[Other(s)].nextIn < m /\ m < Flow(s)[i + 1].id
      <4>1. m \in Nat /\ ep'[Other(s)].nextIn \in Nat
        BY <1>3, <1>4
      <4> QED BY <1>3, <1>4, <2>1, <2>4, <4>1
    <3>2. Before(s, i + 1, m)
      BY <1>2, <2>1, <3>1 DEF RequestInv
    <3>3. Flow(s)[1] # Request(m)
      <4>1. m \in Nat /\ ep'[Other(s)].nextIn \in Nat
        BY <1>3, <1>4
      <4> QED BY <1>5, <2>4, <4>1
    <3> QED BY <1>1, <3>2, <3>3, TakenBefore
  <2> QED BY <2>3, <2>4
<1>7. ASSUME NEW i \in 1..Size(s)', NEW j \in 1..Size(s)', i < j,
             Stands(s, i, "request")', Stands(s, j, "request")'
      PROVE  Flow(s)'[i].id < Flow(s)'[j].id
  <2>1. i + 1 \in 1..Size(s) /\ j + 1 \in 1..Size(s) /\ i + 1 < j + 1
        /\ Stands(s, i + 1, "request") /\ Stands(s, j + 1, "request")
    BY <1>2, <1>7 DEF Stands
  <2> QED BY <1>2, <2>1 DEF RequestInv
<1>8. ASSUME Up(s)', NEW m \in Seqs, ep'[Other(s)].nextIn < m, m <= ep'[s].nextOut
      PROVE  \E j \in 1..Size(s)' : Flow(s)'[j] = Request(m)
  <2>1. m \in Nat /\ ep'[Other(s)].nextIn \in Nat
    BY <1>3, <1>4
  <2>2. ep[Other(s)].nextIn < m /\ m <= ep[s].nextOut /\ Up(s)
    BY <1>3, <1>4, <1>8, <2>1 DEF Reads, Up
  <2>3. PICK k \in 1..Size(s) : Flow(s)[k] = Request(m)
    BY <1>2, <2>2 DEF RequestInv
  <2>4. k # 1
    BY <1>5, <1>8, <2>1, <2>3
  <2> QED BY <1>2, <2>3, <2>4
<1> QED BY <1>6, <1>7, <1>8 DEF RequestInv

\* The first cancellation comes after its request.
LEMMA CancelKnown ==
  ASSUME TypeInv, NEW s \in Sides, CancelInv(s), Heard(s), Size(s) > 0, Stands(s, 1, "cancel")
  PROVE  Flow(s)[1].id <= ep[Other(s)].nextIn
<1>1. Size(s) \in Nat /\ 1 \in 1..Size(s)
  BY FlowType
<1>2. ASSUME Before(s, 1, Flow(s)[1].id) PROVE FALSE
  BY <1>1, <1>2 DEF Before
<1> QED BY <1>1, <1>2 DEF CancelInv

\* The cancellations follow their requests, or requests that were read.
LEMMA ReadCancels ==
  ASSUME TypeInv, NEW s \in Sides, CancelInv(s), RequestInv(s), Reads(s),
         ep'[Other(s)].nextIn = IF Stands(s, 1, "request") THEN Flow(s)[1].id ELSE ep[Other(s)].nextIn
  PROVE  CancelInv(s)'
<1>1. SUFFICES ASSUME Heard(s)' PROVE CancelInv(s)'
  BY DEF CancelInv
<1>2. /\ Size(s) \in Nat /\ Size(s)' \in Nat /\ 1 \in 1..Size(s) /\ Heard(s) /\ Size(s) > 0
      /\ \A i \in 1..Size(s)' : i + 1 \in 1..Size(s) /\ Flow(s)'[i] = Flow(s)[i + 1]
  BY <1>1, TakenAt DEF Reads
<1>3. ep[Other(s)].nextIn \in Nat /\ \A i \in 1..Size(s) : Flow(s)[i].id \in Nat
  <2>1. \A i \in 1..Size(s) : Flow(s)[i].id \in Nat
    BY FlowType
  <2> QED BY <2>1, SidesAre DEF TypeInv, EndType
<1>4. ep[Other(s)].nextIn <= ep'[Other(s)].nextIn /\ ep'[Other(s)].nextIn \in Nat
  BY <1>2, <1>3, RequestNext
<1>5. ASSUME NEW m, Flow(s)[1] = Request(m) PROVE m = ep'[Other(s)].nextIn
  <2>1. Request(m).kind = "request" /\ Request(m).id = m
    BY DEF Request, Frame
  <2> QED BY <1>5, <2>1 DEF Stands
<1>6. ASSUME NEW i \in 1..Size(s)', Stands(s, i, "cancel")'
      PROVE  Flow(s)'[i].id <= ep'[Other(s)].nextIn \/ Before(s, i, Flow(s)[i].id)'
  <2>1. i + 1 \in 1..Size(s) /\ Flow(s)'[i] = Flow(s)[i + 1] /\ Stands(s, i + 1, "cancel")
    BY <1>2, <1>6 DEF Stands
  <2>2. PICK m : m = Flow(s)[i + 1].id
    OBVIOUS
  <2>3. m \in Nat /\ Flow(s)'[i].id = m
    BY <1>3, <2>1, <2>2
  <2>4. m <= ep[Other(s)].nextIn \/ Before(s, i + 1, m)
    BY <1>2, <2>1, <2>2 DEF CancelInv
  <2>5. CASE m <= ep[Other(s)].nextIn
    BY <1>3, <1>4, <2>3, <2>5
  <2>6. CASE Before(s, i + 1, m) /\ Flow(s)[1] = Request(m)
    BY <1>4, <1>5, <2>3, <2>6
  <2>7. CASE Before(s, i + 1, m) /\ Flow(s)[1] # Request(m)
    <3>1. Before(s, i, m)'
      BY <1>1, <2>7, TakenBefore
    <3> QED BY <2>3, <3>1 DEF Before
  <2> QED BY <2>4, <2>5, <2>6, <2>7
<1> QED BY <1>6 DEF CancelInv

\* The responses that are left carry the answers of their work.
LEMMA ReadResponses ==
  ASSUME TypeInv, NEW s \in Sides, ResponseInv(s), Reads(s)
  PROVE  ResponseInv(s)'
<1>1. SUFFICES ASSUME Heard(s)' PROVE ResponseInv(s)'
  BY DEF ResponseInv
<1>2. /\ Heard(s)
      /\ \A i \in 1..Size(s)' : i + 1 \in 1..Size(s) /\ Flow(s)'[i] = Flow(s)[i + 1]
  BY <1>1, TakenAt DEF Reads
<1>3. ASSUME NEW i \in 1..Size(s)', Stands(s, i, "response")'
      PROVE  /\ Flow(s)'[i].id \in Seqs /\ Flow(s)'[i].result \in Results
             /\ work'[s][Flow(s)'[i].id] = Flow(s)'[i].result
  <2>1. i + 1 \in 1..Size(s) /\ Flow(s)'[i] = Flow(s)[i + 1] /\ Stands(s, i + 1, "response")
    BY <1>2, <1>3 DEF Stands
  <2> QED BY <1>2, <2>1 DEF ResponseInv, Reads
<1>4. ASSUME NEW i \in 1..Size(s)', NEW j \in 1..Size(s)', i < j,
             Stands(s, i, "response")', Stands(s, j, "response")'
      PROVE  Flow(s)'[i].id # Flow(s)'[j].id
  <2>1. i + 1 \in 1..Size(s) /\ j + 1 \in 1..Size(s) /\ i + 1 < j + 1
        /\ Stands(s, i + 1, "response") /\ Stands(s, j + 1, "response")
    BY <1>2, <1>4 DEF Stands
  <2> QED BY <1>2, <2>1 DEF ResponseInv
<1> QED BY <1>3, <1>4 DEF ResponseInv

\* The first response belongs to a call that is pending.
LEMMA ResponsePending ==
  ASSUME TypeInv, NEW s \in Sides, ResponseInv(s), PendingInv(s), Up(Other(s)), Heard(s),
         Size(s) > 0, Stands(s, 1, "response"),
         \A n \in Seqs : work[s][n] = "none" <=> n > ep[s].nextIn, ep[s].nextIn <= ep[Other(s)].nextOut
  PROVE  Flow(s)[1].id \in ep[Other(s)].pending
<1>1. Size(s) \in Nat /\ 1 \in 1..Size(s)
  BY FlowType
<1>2. PICK n \in Seqs : n = Flow(s)[1].id /\ work[s][n] \in Results
  BY <1>1 DEF ResponseInv
<1>3. n <= ep[Other(s)].nextOut
  <2>1. n \in Nat /\ ep[s].nextIn \in Nat /\ ep[Other(s)].nextOut \in Nat
    BY SidesAre, SeqsAre DEF TypeInv, EndType
  <2>2. work[s][n] # "none"
    BY <1>2 DEF Results
  <2> QED BY <2>1, <2>2
<1>4. ~Settled(s, n)
  BY <1>1, <1>2 DEF PendingInv
<1> QED BY <1>2, <1>3, <1>4 DEF Settled

\* A call whose response was read has no second response on its way.
LEMMA ReadPending ==
  ASSUME TypeInv, NEW s \in Sides, ResponseInv(s), PendingInv(s), Reads(s),
         \A n \in Seqs : Up(Other(s))' /\ Settled(s, n)' =>
           Settled(s, n) \/ (Stands(s, 1, "response") /\ n = Flow(s)[1].id)
  PROVE  PendingInv(s)'
<1>1. SUFFICES ASSUME Up(Other(s))' PROVE PendingInv(s)'
  BY DEF PendingInv
<1>2. /\ Heard(s) /\ Heard(s)' /\ Up(Other(s)) /\ Size(s) \in Nat /\ 1 \in 1..Size(s)
      /\ \A i \in 1..Size(s)' : i + 1 \in 1..Size(s) /\ 1 < i + 1 /\ Flow(s)'[i] = Flow(s)[i + 1]
  BY <1>1, TakenAt DEF Reads
<1>3. ASSUME NEW n \in Seqs, Settled(s, n)'
      PROVE  /\ work'[s][n] \in Results
             /\ \A i \in 1..Size(s)' : Stands(s, i, "response")' => Flow(s)'[i].id # n
  <2>1. CASE Settled(s, n)
    <3>1. /\ work[s][n] \in Results
          /\ \A i \in 1..Size(s) : Stands(s, i, "response") => Flow(s)[i].id # n
      BY <1>2, <2>1 DEF PendingInv
    <3> QED BY <1>2, <3>1 DEF Reads, Stands
  <2>2. CASE Stands(s, 1, "response") /\ n = Flow(s)[1].id
    <3>1. work'[s][n] \in Results
      BY <1>2, <2>2 DEF ResponseInv, Reads
    <3>2. ASSUME NEW i \in 1..Size(s)', Stands(s, i, "response")' PROVE Flow(s)'[i].id # n
      <4>1. i + 1 \in 1..Size(s) /\ 1 < i + 1 /\ Stands(s, i + 1, "response")
        BY <1>2, <3>2 DEF Stands
      <4> QED BY <1>2, <2>2, <4>1 DEF ResponseInv
    <3> QED BY <3>1, <3>2
  <2> QED BY <1>1, <1>3, <2>1, <2>2
<1> QED BY <1>3 DEF PendingInv

\* A step that takes the head of the flow keeps the invariant.
LEMMA ReadKeeps ==
  ASSUME TypeInv, NEW s \in Sides, FlowInv(s), Reads(s),
         ep'[Other(s)].ready = (ep[Other(s)].ready \/ Stands(s, 1, "hello")),
         ep'[Other(s)].nextIn = IF Stands(s, 1, "request") THEN Flow(s)[1].id ELSE ep[Other(s)].nextIn,
         \A n \in Seqs : Up(Other(s))' /\ Settled(s, n)' =>
           Settled(s, n) \/ (Stands(s, 1, "response") /\ n = Flow(s)[1].id)
  PROVE  FlowInv(s)'
BY ReadHello, ReadRequests, ReadCancels, ReadResponses, ReadPending DEF FlowInv

\* What follows a caller that gave up still does when the cancellation is read.
LEMMA ReadFollows ==
  ASSUME TypeInv, NEW s \in Sides, FollowInv(s), Reads(s), pc'[s] = pc[s],
         Up(Other(s))' => /\ Heeds(ep[Other(s)], ep'[Other(s)])
                          /\ \A n \in Seqs : Flow(s)[1] = Cancel(n) => Undone(ep'[Other(s)], n)
  PROVE  FollowInv(s)'
<1>1. ASSUME Up(s)', Up(Other(s))', NEW n \in Seqs, pc'[s][n] = "gaveup"
      PROVE  Told(s, n)' \/ Undone(ep[Other(s)], n)'
  <2>1. Up(s) /\ Up(Other(s)) /\ Heard(s)' /\ pc[s][n] = "gaveup"
    BY <1>1 DEF Reads, Up
  <2>2. CASE Told(s, n)
    <3>1. PICK k \in 1..Size(s) : Flow(s)[k] = Cancel(n)
      BY <2>2 DEF Told
    <3>2. CASE k = 1
      BY <1>1, <3>1, <3>2 DEF Undone
    <3>3. CASE k # 1
      <4>1. k - 1 \in 1..Size(s)' /\ Flow(s)'[k - 1] = Cancel(n)
        BY <2>1, <3>1, <3>3, TakenAt
      <4> QED BY <4>1 DEF Told, Cancel, Frame
    <3> QED BY <3>2, <3>3
  <2>3. CASE Undone(ep[Other(s)], n)
    BY <1>1, <2>3 DEF Heeds, Undone
  <2> QED BY <2>1, <2>2, <2>3 DEF FollowInv
<1> QED BY <1>1 DEF FollowInv

-----------------------------------------------------------------------------
(* Steps that number, read and begin nothing.                              *)

\* What such a step may make of the endpoint of the end that takes it: it neither comes
\* back up nor forgets a call it can still be answered.
Mild(e, f) ==
  /\ f \in EndType
  /\ f.ready = e.ready /\ f.nextOut = e.nextOut /\ f.nextIn = e.nextIn
  /\ f.reading => e.reading
  /\ f.status = "up" => e.status = "up" /\ f.reading = e.reading /\ e.pending \subseteq f.pending
  /\ f.status = "up" => f.active \subseteq e.active /\ e.cancelled \cap f.active \subseteq f.cancelled
  /\ f.status # "protocol"
  /\ f.handlers \subseteq e.handlers /\ f.active \subseteq f.handlers
  /\ \A n \in Seqs : f.slot[n] \in Results => e.slot[n] = f.slot[n]

\* Such a step of end s, and what it may do to the connection, the calls and the work.
Steady(s) ==
  /\ Mild(ep[s], ep'[s]) /\ ep'[Other(s)] = ep[Other(s)]
  /\ ep'[s].reading => wire'[Other(s)] = wire[Other(s)]
  /\ pc'[Other(s)] = pc[Other(s)] /\ work'[Other(s)] = work[Other(s)]
  /\ \A n \in Seqs : pc'[s][n] = "idle" <=> pc[s][n] = "idle"
  /\ \A n \in Seqs : pc'[s][n] = "gaveup" /\ Up(s)' /\ Up(Other(s))' => pc[s][n] = "gaveup" \/ Told(s, n)'
  /\ \A n \in Seqs : /\ work'[s][n] = "none" <=> work[s][n] = "none"
                     /\ work[s][n] \in Results => work'[s][n] = work[s][n]
                     /\ work'[s][n] = "running" => n \in ep'[s].handlers

\* What a steady step of end s leaves to prove is the flow of s.
LEMMA SteadyRest ==
  ASSUME IInv, NEW s \in Sides, Steady(s)
  PROVE  /\ Kept(s) /\ NotRead(s) /\ ep'[s].nextOut = ep[s].nextOut
         /\ FlowInv(s)' /\ FollowInv(s)' =>
              \A t \in Sides : /\ FlowInv(t)' /\ FollowInv(t)' /\ SlotInv(t)' /\ CountInv(t)'
                               /\ ep'[t].status # "protocol"
         /\ (Up(s)' /\ Up(Other(s))' => Extends(s)) => FollowInv(s)'
<1> DEFINE o == Other(s)
<1>1. o \in Sides /\ Other(o) = s /\ \A t \in Sides : t = s \/ t = o
  BY SidesAre
<1>2. /\ TypeInv /\ FlowInv(o) /\ CountInv(s) /\ CountInv(o) /\ SlotInv(s) /\ SlotInv(o)
      /\ FollowInv(s) /\ FollowInv(o) /\ ep[o].status # "protocol"
  BY <1>1 DEF IInv
<1> HIDE DEF o
<1>3. Kept(s)
  <2>1. Heard(s)' = Heard(s) /\ Up(o)' = Up(o) /\ (Up(s)' => Up(s))
    BY DEF Steady, Mild, Heard, Up, o
  <2>2. Up(o) => Heard(s)
    BY <1>2 DEF CountInv, Up, Heard, o
  <2>3. \A n \in Seqs : Settled(s, n)' => Settled(s, n)
    BY DEF Settled, Steady
  <2>4. \A n \in Seqs : work[s][n] \in Results => work'[s][n] = work[s][n]
    BY DEF Steady
  <2> QED BY <2>1, <2>2, <2>3, <2>4 DEF Kept, o
<1>4. NotRead(s)
  BY DEF NotRead, Steady
<1>5. Kept(o) /\ NotRead(o)
  <2>1. /\ Heard(o)' => Heard(o)
        /\ Up(o)' = Up(o)
        /\ Up(s)' => Up(s) /\ Heard(o)'
    BY <1>1, <1>2 DEF Steady, Mild, Heard, Up, CountInv, o
  <2>2. \A n \in Seqs : Up(s)' /\ Settled(o, n)' => Settled(o, n)
    BY <1>1 DEF Steady, Mild, Settled, Up
  <2>3. \A n \in Seqs : work[o][n] \in Results => work'[o][n] = work[o][n]
    BY DEF Steady, o
  <2>4. NotRead(o)
    BY <1>1 DEF NotRead, Steady, Mild
  <2> QED BY <1>1, <2>1, <2>2, <2>3, <2>4 DEF Kept
<1>6. Heard(o)' => Cut(o)
  <2>1. ASSUME Heard(o)' PROVE Flow(o)' = Flow(o)
    BY <1>1, <2>1 DEF Heard, Flow, Steady, o
  <2> QED BY <1>1, <1>2, <2>1, SameFlow
<1>7. FlowInv(o)'
  <2>1. ep'[o].nextOut = ep[o].nextOut
    BY DEF Steady, o
  <2> QED BY <1>1, <1>2, <1>5, <1>6, <2>1, CutKeeps
<1>8. SlotInv(s)' /\ SlotInv(o)'
  <2>1. SlotInv(s)'
    BY <1>2 DEF SlotInv, Steady
  <2>2. SlotInv(o)'
    BY <1>1, <1>2 DEF SlotInv, Steady, Mild, o
  <2> QED BY <2>1, <2>2
<1>9. CountInv(s)'
  <2>1. Up(s)' => ep'[s].reading
    BY <1>2 DEF CountInv, Steady, Mild, Up
  <2>2. ep'[s].nextOut <= Bound(s) /\ ep'[o].nextIn <= ep'[s].nextOut
    BY <1>2 DEF CountInv, Steady, Mild, o
  <2>3. \A n \in Seqs : pc'[s][n] = "idle" <=> n > ep'[s].nextOut
    BY <1>2 DEF CountInv, Steady, Mild
  <2>4. \A n \in Seqs : work'[s][n] = "none" <=> n > ep'[s].nextIn
    BY <1>2 DEF CountInv, Steady, Mild
  <2>5. \A n \in ep'[s].handlers : n <= ep'[s].nextIn
    BY <1>2 DEF CountInv, Steady, Mild
  <2>6. ep'[s].active \subseteq ep'[s].handlers
    BY DEF Steady, Mild
  <2>7. \A n \in Seqs : work'[s][n] = "running" => n \in ep'[s].handlers
    BY DEF Steady
  <2> QED BY <2>1, <2>2, <2>3, <2>4, <2>5, <2>6, <2>7 DEF CountInv, o
<1>10. CountInv(o)'
  <2>1. ep'[s].nextIn = ep[s].nextIn
    BY DEF Steady, Mild
  <2> QED BY <1>1, <1>2, <2>1 DEF CountInv, Steady, Up, o
<1>11. ep'[s].status # "protocol" /\ ep'[o].status # "protocol" /\ ep'[s].nextOut = ep[s].nextOut
  BY <1>2 DEF Steady, Mild, o
<1>12. FollowInv(o)'
  <2>1. (Up(o)' => Up(o)) /\ (Up(s)' => Up(s)) /\ pc'[o] = pc[o]
    BY DEF Steady, Mild, Up, o
  <2>2. ASSUME Up(s)', Up(o)' PROVE Extends(o)
    <3>1. Heard(o)'
      BY <1>1, <1>5, <2>2 DEF Kept
    <3> QED BY <1>1, <1>2, <1>6, <2>2, <3>1, CutExtends
  <2>3. ASSUME Up(s)' PROVE Heeds(ep[s], ep'[s])
    BY <2>3 DEF Heeds, Undone, Steady, Mild, Up
  <2> QED BY <1>1, <1>2, <2>1, <2>2, <2>3, FollowKeeps
<1>13. ASSUME Up(s)' /\ Up(o)' => Extends(s) PROVE FollowInv(s)'
  <2>1. (Up(o)' => Up(o)) /\ (Up(s)' => Up(s)) /\ Heeds(ep[o], ep'[o])
    BY DEF Steady, Mild, Up, Heeds, o
  <2> QED BY <1>2, <1>13, <2>1, FollowKeeps DEF Steady, o
<1> QED BY <1>1, <1>3, <1>4, <1>7, <1>8, <1>9, <1>10, <1>11, <1>12, <1>13 DEF o

\* A steady step that adds nothing to the flow of its end.
LEMMA SteadyKeeps ==
  ASSUME IInv, TypeInv', NEW s \in Sides, Steady(s), Heard(s)' => Cut(s)
  PROVE  IInv'
<1>1. Kept(s) /\ NotRead(s) /\ ep'[s].nextOut = ep[s].nextOut
  BY SteadyRest
<1>2. FlowInv(s)'
  BY <1>1, CutKeeps DEF IInv
<1>3. ASSUME Up(s)', Up(Other(s))' PROVE Extends(s)
  BY <1>1, <1>3, CutExtends DEF Kept, IInv
<1>4. FollowInv(s)'
  BY <1>3, SteadyRest
<1> QED BY <1>2, <1>4, SteadyRest DEF IInv

-----------------------------------------------------------------------------
(* Types.                                                                  *)

\* An endpoint is replaced.
LEMMA SetIs ==
  ASSUME TypeInv, NEW s \in Sides, NEW e \in EndType, Set(s, e)
  PROVE  ep' \in [Sides -> EndType] /\ ep'[s] = e /\ ep'[Other(s)] = ep[Other(s)]
BY SidesAre DEF TypeInv, Set

\* The endpoints there are.
LEMMA EndsAre ==
  ASSUME IInv, NEW s \in Sides
  PROVE  /\ ep[s] \in EndType /\ ep[Other(s)] \in EndType /\ Mild(ep[s], ep[s])
         /\ CountInv(s) /\ TypeInv /\ FlowInv(s)
BY SidesAre DEF IInv, TypeInv, CountInv, Mild

\* A call returns.
LEMMA ReturnsIs ==
  ASSUME TypeInv, NEW s \in Sides, NEW n \in Seqs, NEW r \in PCs, Returns(s, n, r)
  PROVE  /\ pc' \in [Sides -> [Seqs -> PCs]] /\ pc'[Other(s)] = pc[Other(s)]
         /\ \A m \in Seqs : pc'[s][m] = IF m = n THEN r ELSE pc[s][m]
BY SidesAre DEF TypeInv, Returns

\* An endpoint that stops is mild.
LEMMA StopMild ==
  ASSUME NEW s \in Sides, NEW e \in EndType, NEW d \in EndType, NEW why \in Statuses \ {"up", "protocol"},
         Mild(e, d), d.status = "up"
  PROVE  Mild(e, Stop(s, d, why)) /\ Stop(s, d, why).status # "up" /\ Stop(s, d, why).queue = d.queue
BY StopIs DEF Mild, Stopped

\* A step that changes nothing but the endpoint of end s, mildly.
LEMMA MildSteady ==
  ASSUME IInv, NEW s \in Sides, NEW e, Mild(ep[s], e), Set(s, e), UNCHANGED <<pc, work>>,
         ep[s].handlers \subseteq e.handlers, e.reading => wire'[Other(s)] = wire[Other(s)]
  PROVE  Steady(s) /\ ep'[s] = e /\ ep' \in [Sides -> EndType]
<1>1. ep'[s] = e /\ ep'[Other(s)] = ep[Other(s)] /\ ep' \in [Sides -> EndType]
  BY SetIs DEF IInv, Mild
<1>2. \A n \in Seqs : work[s][n] = "running" => n \in e.handlers
  BY EndsAre DEF CountInv
<1> QED BY <1>1, <1>2 DEF Steady

-----------------------------------------------------------------------------
(* The callers.                                                            *)

\* The write of a request has completed.
LEMMA WriteReturnsKeeps ==
  ASSUME IInv, NEW s \in Sides, NEW n \in Seqs, WriteReturns(s, n)
  PROVE  IInv'
<1>1. TypeInv /\ CountInv(s) /\ Mild(ep[s], ep[s])
  BY EndsAre
<1>2. /\ pc' \in [Sides -> [Seqs -> PCs]] /\ pc'[Other(s)] = pc[Other(s)]
      /\ \A m \in Seqs : pc'[s][m] = IF m = n THEN "waiting" ELSE pc[s][m]
  BY <1>1, ReturnsIs DEF WriteReturns, PCs
<1>3. pc[s][n] = "writing" /\ UNCHANGED <<ep, wire, parent, work, done>>
  BY DEF WriteReturns
<1>4. Steady(s)
  BY <1>1, <1>2, <1>3 DEF Steady, CountInv
<1>5. TypeInv'
  BY <1>1, <1>2, <1>3 DEF TypeInv
<1>6. Flow(s)' = Flow(s)
  BY <1>3 DEF Flow
<1> QED BY <1>1, <1>4, <1>5, <1>6, SameFlow, SteadyKeeps

\* An answer is taken out of its slot.
LEMMA TakeIs ==
  ASSUME IInv, NEW s \in Sides, NEW n \in Seqs, Take(s, n), pc[s][n] # "idle",
         UNCHANGED <<wire, parent, work, done>>
  PROVE  /\ ep' \in [Sides -> EndType] /\ pc' \in [Sides -> [Seqs -> PCs]]
         /\ Steady(s) /\ Flow(s)' = Flow(s)
         /\ pc'[s][n] = ep[s].slot[n]
         /\ \A m \in Seqs : m # n => pc'[s][m] = pc[s][m]
<1> DEFINE d == ep[s]
           r == d.slot[n]
           k == IF r \in Results THEN d.retained - 1 ELSE d.retained
           sl == [d.slot EXCEPT ![n] = "none"]
           e == [d EXCEPT !.slot = sl, !.retained = k]
<1>1. TypeInv /\ CountInv(s) /\ d \in EndType /\ Mild(d, d)
  BY EndsAre
<1>2. Set(s, e) /\ Returns(s, n, r) /\ r # "none"
  BY <1>1 DEF Take, EndType
<1>3. r \in PCs /\ r # "idle" /\ r # "gaveup" /\ d.retained \in Int
  BY <1>1, <1>2 DEF EndType, PCs, Results
<1>4. /\ sl \in [Seqs -> Results \cup {"none", "closed"}] /\ k \in Int
      /\ \A m \in Seqs : sl[m] \in Results => d.slot[m] = sl[m]
  BY <1>1, <1>3 DEF EndType, Results
<1> HIDE DEF sl, k
<1>5. e \in EndType /\ Mild(d, e) /\ e.queue = d.queue /\ e.handlers = d.handlers /\ e.reading = d.reading
  <2>1. e \in EndType
    BY <1>1, <1>4 DEF EndType
  <2>2. /\ e.status = d.status /\ e.ready = d.ready /\ e.nextOut = d.nextOut /\ e.nextIn = d.nextIn
        /\ e.reading = d.reading /\ e.pending = d.pending /\ e.handlers = d.handlers
        /\ e.cancelled = d.cancelled /\ e.active = d.active /\ e.slot = sl /\ e.queue = d.queue
    BY <1>1 DEF EndType
  <2> QED BY <1>1, <1>4, <2>1, <2>2 DEF Mild
<1> HIDE DEF e
<1>6. ep'[s] = e /\ ep'[Other(s)] = ep[Other(s)] /\ ep' \in [Sides -> EndType]
  BY <1>1, <1>2, <1>5, SetIs
<1>7. /\ pc' \in [Sides -> [Seqs -> PCs]] /\ pc'[Other(s)] = pc[Other(s)]
      /\ \A m \in Seqs : pc'[s][m] = IF m = n THEN r ELSE pc[s][m]
  BY <1>1, <1>2, <1>3, ReturnsIs
<1>8. Steady(s)
  <2>1. \A m \in Seqs : work[s][m] = "running" => m \in e.handlers
    BY <1>1, <1>5 DEF CountInv
  <2> QED BY <1>3, <1>5, <1>6, <1>7, <2>1 DEF Steady
<1>9. Flow(s)' = Flow(s)
  BY <1>5, <1>6 DEF Flow
<1> QED BY <1>6, <1>7, <1>8, <1>9

\* A caller takes its answer.
LEMMA ConsumeKeeps ==
  ASSUME IInv, NEW s \in Sides, NEW n \in Seqs, Consume(s, n)
  PROVE  IInv'
<1>1. TypeInv /\ CountInv(s)
  BY EndsAre
<1>2. /\ ep' \in [Sides -> EndType] /\ pc' \in [Sides -> [Seqs -> PCs]]
      /\ Steady(s) /\ Flow(s)' = Flow(s) /\ UNCHANGED <<wire, parent, work, done>>
  BY TakeIs DEF Consume
<1>3. TypeInv'
  BY <1>1, <1>2 DEF TypeInv
<1> QED BY <1>1, <1>2, <1>3, SameFlow, SteadyKeeps

\* A caller gives up: what becomes of its entry.
Abandons(s, n) == [ep[s] EXCEPT !.abandoned = @ \cup {n}]
\* Its entry stays in the pending table.
LEMMA AbandonIs ==
  ASSUME IInv, NEW s \in Sides, NEW n \in Seqs
  PROVE  /\ Abandons(s, n) \in EndType /\ Mild(ep[s], Abandons(s, n))
         /\ Abandons(s, n).status = ep[s].status /\ Abandons(s, n).queue = ep[s].queue
         /\ Abandons(s, n).handlers = ep[s].handlers /\ Abandons(s, n).flushing = ep[s].flushing
         /\ Abandons(s, n).reading = ep[s].reading /\ Abandons(s, n).retained = ep[s].retained
<1>1. ep[s] \in EndType /\ Mild(ep[s], ep[s])
  BY EndsAre
<1> QED BY <1>1 DEF Abandons, EndType, Mild

\* The invariant when a caller gives up before its request is written.
LEMMA GiveUpWritingKeeps ==
  ASSUME IInv, NEW s \in Sides, NEW n \in Seqs, GiveUpWriting(s, n)
  PROVE  IInv'
<1>1. TypeInv /\ CountInv(s) /\ ep[s] \in EndType
  BY EndsAre
<1>2. UNCHANGED <<wire, parent, work, done>> /\ pc[s][n] = "writing"
  BY DEF GiveUpWriting
<1>3. CASE Take(s, n)
  <2>1. /\ ep' \in [Sides -> EndType] /\ pc' \in [Sides -> [Seqs -> PCs]]
        /\ Steady(s) /\ Flow(s)' = Flow(s)
    BY <1>2, <1>3, TakeIs
  <2>2. TypeInv'
    BY <1>1, <1>2, <2>1 DEF TypeInv
  <2> QED BY <1>1, <2>1, <2>2, SameFlow, SteadyKeeps
<1>4. CASE Set(s, Stop(s, Abandons(s, n), "gaveup")) /\ Returns(s, n, "gaveup")
  <2> DEFINE e == Stop(s, Abandons(s, n), "gaveup")
  <2>1. e \in EndType /\ Mild(ep[s], e) /\ e.queue = ep[s].queue /\ e.handlers = ep[s].handlers
        /\ e.status # "up"
    <3>1. "gaveup" \in Statuses \ {"up", "protocol"}
      BY DEF Statuses
    <3>2. Stopped(Abandons(s, n), e) /\ e.status # "up" /\ e.status # "protocol"
      BY <3>1, AbandonIs, StopIs DEF Mild
    <3> QED BY <3>2, AbandonIs DEF Stopped, Mild
  <2> HIDE DEF e
  <2>2. ep'[s] = e /\ ep'[Other(s)] = ep[Other(s)] /\ ep' \in [Sides -> EndType]
    BY <1>1, <1>4, <2>1, SetIs DEF e
  <2>3. /\ pc' \in [Sides -> [Seqs -> PCs]] /\ pc'[Other(s)] = pc[Other(s)]
        /\ \A m \in Seqs : pc'[s][m] = IF m = n THEN "gaveup" ELSE pc[s][m]
    BY <1>1, <1>4, ReturnsIs DEF PCs
  <2>4. Steady(s)
    BY <1>1, <1>2, <2>1, <2>2, <2>3 DEF Steady, CountInv, Up
  <2>5. Flow(s)' = Flow(s)
    BY <1>2, <2>1, <2>2 DEF Flow
  <2>6. TypeInv'
    BY <1>1, <1>2, <2>2, <2>3 DEF TypeInv
  <2> QED BY <1>1, <2>4, <2>5, <2>6, SameFlow, SteadyKeeps
<1> QED BY <1>3, <1>4 DEF GiveUpWriting, Abandons

-----------------------------------------------------------------------------
(* The writers.                                                            *)

\* A step that changes nothing but the endpoint of end s, mildly, and what is on the
\* connection, and adds nothing to the flow of s.
LEMMA StepKeeps ==
  ASSUME IInv, NEW s \in Sides, NEW e, Mild(ep[s], e), Set(s, e), UNCHANGED <<pc, parent, work, done>>,
         ep[s].handlers \subseteq e.handlers, e.reading => wire'[Other(s)] = wire[Other(s)],
         wire' \in [Sides -> Seq(FrameType)], Heard(s)' => Cut(s)
  PROVE  IInv'
<1>1. Steady(s) /\ ep'[s] = e /\ ep' \in [Sides -> EndType]
  BY MildSteady
<1>2. TypeInv'
  BY <1>1 DEF IInv, TypeInv
<1> QED BY <1>1, <1>2, SteadyKeeps

\* A step that changes nothing but the endpoint of end s, mildly, and not its queue.
LEMMA AloneKeeps ==
  ASSUME IInv, NEW s \in Sides, NEW e, Mild(ep[s], e), Set(s, e), UNCHANGED <<wire, pc, parent, work, done>>,
         ep[s].handlers \subseteq e.handlers, e.queue = ep[s].queue
  PROVE  IInv'
<1>1. TypeInv /\ ep'[s] = e
  BY SetIs DEF IInv, Mild
<1>2. Flow(s)' = Flow(s)
  BY <1>1 DEF Flow
<1>3. Cut(s)
  BY <1>1, <1>2, SameFlow
<1>4. wire' \in [Sides -> Seq(FrameType)]
  BY <1>1 DEF TypeInv
<1> QED BY <1>3, <1>4, StepKeeps

\* An end stops.
LEMMA StopKeeps ==
  ASSUME IInv, NEW s \in Sides, NEW why \in Statuses \ {"up", "protocol"}, Up(s),
         Set(s, Stop(s, ep[s], why)), UNCHANGED <<wire, pc, parent, work, done>>
  PROVE  IInv'
<1> DEFINE e == Stop(s, ep[s], why)
<1>1. ep[s] \in EndType /\ Mild(ep[s], ep[s])
  BY EndsAre
<1>2. Mild(ep[s], e) /\ e.queue = ep[s].queue
  BY <1>1, StopMild DEF Up
<1>3. e.handlers = ep[s].handlers
  BY <1>1, StopIs DEF Stopped
<1> QED BY <1>2, <1>3, AloneKeeps

\* A frame is written.
LEMMA WriteFrameKeeps ==
  ASSUME IInv, NEW s \in Sides, WriteFrame(s)
  PROVE  IInv'
<1> DEFINE d == ep[s]
           h == Head(d.queue)
           e == [d EXCEPT !.queue = Tail(@), !.flushing = Append(@, h)]
<1>1. TypeInv /\ d \in EndType /\ Mild(d, d) /\ d.queue # <<>>
  BY EndsAre DEF WriteFrame
<1>2. h \in FrameType /\ Tail(d.queue) \in Seq(FrameType) /\ Append(d.flushing, h) \in Seq(FrameType)
  <2>1. d.queue \in Seq(FrameType) /\ d.flushing \in Seq(FrameType)
    BY <1>1 DEF EndType
  <2>2. h \in FrameType /\ Tail(d.queue) \in Seq(FrameType)
    BY <1>1, <2>1, HeadTailProperties
  <2> QED BY <2>1, <2>2, AppendProperties
<1>3. Set(s, e) /\ UNCHANGED <<pc, parent, work, done>>
  BY DEF WriteFrame
<1>4. /\ wire' \in [Sides -> Seq(FrameType)] /\ wire'[Other(s)] = wire[Other(s)]
      /\ Heard(s) => wire'[s] = Append(wire[s], h)
  <2>1. wire[s] \in Seq(FrameType) /\ Append(wire[s], h) \in Seq(FrameType)
    BY <1>1, <1>2, AppendProperties DEF TypeInv
  <2>2. wire' = [wire EXCEPT ![s] = IF Heard(s) THEN Append(wire[s], h) ELSE wire[s]]
    BY DEF WriteFrame, Heard
  <2> HIDE DEF h
  <2> QED BY <1>1, <2>1, <2>2, SidesAre DEF TypeInv
<1>5. Mild(d, e) /\ e.handlers = d.handlers /\ e.queue = Tail(d.queue)
  <2>1. e \in EndType
    BY <1>1, <1>2 DEF EndType
  <2>2. /\ e.status = d.status /\ e.ready = d.ready /\ e.nextOut = d.nextOut /\ e.nextIn = d.nextIn
        /\ e.reading = d.reading /\ e.pending = d.pending /\ e.handlers = d.handlers
        /\ e.cancelled = d.cancelled /\ e.active = d.active /\ e.slot = d.slot /\ e.queue = Tail(d.queue)
    BY <1>1 DEF EndType
  <2> QED BY <1>1, <2>1, <2>2 DEF Mild
<1> HIDE DEF e
<1>6. ep'[s] = e /\ ep'[Other(s)] = ep[Other(s)]
  BY <1>1, <1>3, <1>5, SetIs DEF Mild
<1>7. Heard(s)' => Cut(s)
  <2>1. SUFFICES ASSUME Heard(s)' PROVE Cut(s)
    OBVIOUS
  <2>2. wire'[s] = Append(wire[s], Head(ep[s].queue)) /\ ep'[s].queue = Tail(ep[s].queue)
    BY <1>4, <1>5, <1>6, <2>1 DEF Heard
  <2> QED BY <1>1, <2>2, WrittenStays, SameFlow
<1> QED BY <1>3, <1>4, <1>5, <1>7, StepKeeps

\* The write of a frame completes.
LEMMA WriteCompletesKeeps ==
  ASSUME IInv, NEW s \in Sides, WriteCompletes(s)
  PROVE  IInv'
<1> DEFINE d == ep[s]
           e == [d EXCEPT !.flushing = Tail(@)]
<1>1. d \in EndType /\ Mild(d, d) /\ d.flushing # <<>>
  BY EndsAre DEF WriteCompletes
<1>2. Tail(d.flushing) \in Seq(FrameType)
  BY <1>1, HeadTailProperties DEF EndType
<1>3. e \in EndType
  BY <1>1, <1>2 DEF EndType
<1>4. /\ e.status = d.status /\ e.ready = d.ready /\ e.nextOut = d.nextOut /\ e.nextIn = d.nextIn
      /\ e.reading = d.reading /\ e.pending = d.pending /\ e.handlers = d.handlers
      /\ e.cancelled = d.cancelled /\ e.active = d.active /\ e.slot = d.slot /\ e.queue = d.queue
  BY <1>1 DEF EndType
<1>5. Mild(d, e)
  BY <1>1, <1>3, <1>4 DEF Mild
<1>6. Set(s, e) /\ UNCHANGED <<wire, pc, parent, work, done>>
  BY DEF WriteCompletes
<1> HIDE DEF e
<1> QED BY <1>4, <1>5, <1>6, AloneKeeps

\* A write that fails.
LEMMA WriteFailsKeeps ==
  ASSUME IInv, NEW s \in Sides, WriteFails(s)
  PROVE  IInv'
BY StopKeeps DEF WriteFails, Statuses

\* The writes of a stopped end complete.
LEMMA DrainWritesKeeps ==
  ASSUME IInv, NEW s \in Sides, DrainWrites(s)
  PROVE  IInv'
<1> DEFINE d == ep[s]
           e == [d EXCEPT !.queue = <<>>, !.flushing = <<>>]
<1>1. TypeInv /\ d \in EndType /\ Mild(d, d) /\ d.status # "up"
  BY EndsAre DEF DrainWrites, Up
<1>2. e \in EndType
  <2>1. <<>> \in Seq(FrameType)
    OBVIOUS
  <2> QED BY <1>1, <2>1 DEF EndType
<1>3. /\ e.status = d.status /\ e.ready = d.ready /\ e.nextOut = d.nextOut /\ e.nextIn = d.nextIn
      /\ e.reading = d.reading /\ e.pending = d.pending /\ e.handlers = d.handlers
      /\ e.cancelled = d.cancelled /\ e.active = d.active /\ e.slot = d.slot /\ e.queue = <<>>
  BY <1>1 DEF EndType
<1>4. Mild(d, e)
  BY <1>1, <1>2, <1>3 DEF Mild
<1>5. Set(s, e) /\ UNCHANGED <<wire, pc, parent, work, done>>
  BY DEF DrainWrites
<1> HIDE DEF e
<1>6. Cut(s)
  <2>1. ep'[s] = e
    BY <1>1, <1>2, <1>5, SetIs
  <2>2. wire'[s] = wire[s] /\ ep'[s].queue = <<>> /\ ~Up(s)'
    BY <1>1, <1>3, <1>5, <2>1 DEF Up
  <2> QED BY <1>1, <2>2, QueueForgotten
<1>7. wire' \in [Sides -> Seq(FrameType)] /\ wire'[Other(s)] = wire[Other(s)]
  BY <1>1, <1>5 DEF TypeInv
<1> QED BY <1>3, <1>4, <1>5, <1>6, <1>7, StepKeeps

-----------------------------------------------------------------------------
(* The ends of the reader, and of the endpoint.                            *)

\* An end that no longer reads hears nothing.
LEMMA ReaderEnds ==
  ASSUME IInv, NEW s \in Sides, NEW e, Mild(ep[s], e), Set(s, e), UNCHANGED <<pc, parent, work, done>>,
         ep[s].handlers \subseteq e.handlers, e.queue = ep[s].queue, ~e.reading,
         wire' = [wire EXCEPT ![Other(s)] = <<>>]
  PROVE  IInv'
<1>1. TypeInv /\ ep'[s] = e
  BY SetIs DEF IInv, Mild
<1>2. wire' \in [Sides -> Seq(FrameType)] /\ wire'[s] = wire[s]
  <2>1. <<>> \in Seq(FrameType)
    OBVIOUS
  <2> QED BY <1>1, <2>1, SidesAre DEF TypeInv
<1>3. Flow(s)' = Flow(s)
  BY <1>1, <1>2 DEF Flow
<1>4. Cut(s)
  BY <1>1, <1>3, SameFlow
<1> QED BY <1>2, <1>4, StepKeeps

\* The reader sees the end of the connection.
LEMMA PeerGoneKeeps ==
  ASSUME IInv, NEW s \in Sides, PeerGone(s)
  PROVE  IInv'
<1> DEFINE d == Stop(s, ep[s], "closed")
           e == [d EXCEPT !.reading = FALSE]
<1>1. ep[s] \in EndType /\ Mild(ep[s], ep[s])
  BY EndsAre
<1>2. d \in EndType /\ Mild(ep[s], d) /\ d.status # "up" /\ d.queue = ep[s].queue
      /\ d.handlers = ep[s].handlers
  <2>1. "closed" \in Statuses \ {"up", "protocol"}
    BY DEF Statuses
  <2>2. Stopped(ep[s], d)
    BY <1>1, <2>1, StopIs
  <2>3. ep[s].status = "up"
    BY DEF PeerGone, Up
  <2> QED BY <1>1, <2>1, <2>2, <2>3, StopMild DEF Stopped
<1>3. Set(s, e)
  BY DEF PeerGone, Fail
<1> HIDE DEF d
<1>4. e \in EndType
  BY <1>2 DEF EndType
<1>5. /\ e.status = d.status /\ e.ready = d.ready /\ e.nextOut = d.nextOut /\ e.nextIn = d.nextIn
      /\ e.reading = FALSE /\ e.pending = d.pending /\ e.handlers = d.handlers
      /\ e.cancelled = d.cancelled /\ e.active = d.active /\ e.slot = d.slot /\ e.queue = d.queue
  BY <1>2 DEF EndType
<1>6. Mild(ep[s], e)
  BY <1>2, <1>4, <1>5 DEF Mild
<1>7. UNCHANGED <<pc, parent, work, done>> /\ wire' = [wire EXCEPT ![Other(s)] = <<>>]
  BY DEF PeerGone
<1> HIDE DEF e
<1> QED BY <1>2, <1>3, <1>5, <1>6, <1>7, ReaderEnds

\* The reader of a stopped endpoint returns.
LEMMA ReaderReturnsKeeps ==
  ASSUME IInv, NEW s \in Sides, ReaderReturns(s)
  PROVE  IInv'
<1> DEFINE d == ep[s]
           e == [d EXCEPT !.reading = FALSE]
<1>1. d \in EndType /\ Mild(d, d) /\ d.status # "up"
  BY EndsAre DEF ReaderReturns, Up
<1>2. e \in EndType
  BY <1>1 DEF EndType
<1>3. /\ e.status = d.status /\ e.ready = d.ready /\ e.nextOut = d.nextOut /\ e.nextIn = d.nextIn
      /\ e.reading = FALSE /\ e.pending = d.pending /\ e.handlers = d.handlers
      /\ e.cancelled = d.cancelled /\ e.active = d.active /\ e.slot = d.slot /\ e.queue = d.queue
  BY <1>1 DEF EndType
<1>4. Mild(d, e)
  BY <1>1, <1>2, <1>3 DEF Mild
<1>5. Set(s, e) /\ UNCHANGED <<pc, parent, work, done>> /\ wire' = [wire EXCEPT ![Other(s)] = <<>>]
  BY DEF ReaderReturns
<1> HIDE DEF e
<1> QED BY <1>3, <1>4, <1>5, ReaderEnds

\* The endpoint is closed.
LEMMA CloseKeeps ==
  ASSUME IInv, NEW s \in Sides, Close(s)
  PROVE  IInv'
BY StopKeeps DEF Close, Statuses

\* The other end's hello is awaited no longer.
LEMMA ReadyGivesUpKeeps ==
  ASSUME IInv, NEW s \in Sides, ReadyGivesUp(s)
  PROVE  IInv'
BY StopKeeps DEF ReadyGivesUp, Statuses

\* A step that leaves everything but what is joined.
LEMMA StutterKeeps ==
  ASSUME IInv, UNCHANGED <<ep, wire, pc, parent, work>>, done' \subseteq Sides
  PROVE  IInv'
<1>1. TypeInv'
  BY DEF IInv, TypeInv
<1>2. PICK s \in Sides : TRUE
  BY DEF Sides
<1>3. TypeInv /\ Mild(ep[s], ep[s]) /\ CountInv(s)
  BY EndsAre
<1>4. Steady(s) /\ Flow(s)' = Flow(s)
  BY <1>3 DEF Steady, CountInv, Flow
<1> QED BY <1>1, <1>3, <1>4, SameFlow, SteadyKeeps

\* The endpoint is joined.
LEMMA JoinKeeps ==
  ASSUME IInv, NEW s \in Sides, Join(s)
  PROVE  IInv'
<1>1. UNCHANGED <<ep, wire, pc, parent, work>> /\ done' \subseteq Sides
  BY DEF Join, IInv, TypeInv
<1> QED BY <1>1, StutterKeeps

-----------------------------------------------------------------------------
(* Steps that send, and the return of a handler.                           *)

\* An endpoint that is told to stop is mild, whether or not it had stopped.
LEMMA StopsMild ==
  ASSUME NEW s \in Sides, NEW e \in EndType, NEW d \in EndType, NEW why \in Statuses \ {"up", "protocol"},
         Mild(e, d)
  PROVE  /\ Mild(e, Stop(s, d, why)) /\ Stop(s, d, why).status # "up"
         /\ Stop(s, d, why).queue = d.queue /\ Stop(s, d, why).handlers = d.handlers
<1>1. CASE d.status = "up"
  BY <1>1, StopMild, StopIs DEF Stopped
<1>2. CASE d.status # "up"
  BY <1>2 DEF Stop
<1> QED BY <1>1, <1>2

\* An endpoint that queues a frame is mild.
LEMMA EnqueueMild ==
  ASSUME NEW e \in EndType, NEW d \in EndType, NEW f \in FrameType, Mild(e, d)
  PROVE  /\ Mild(e, Enqueue(d, f)) /\ Enqueue(d, f).queue = Append(d.queue, f)
         /\ Enqueue(d, f).handlers = d.handlers /\ Enqueue(d, f).status = d.status
<1> DEFINE g == Enqueue(d, f)
<1>1. /\ g \in EndType /\ g.queue = Append(d.queue, f)
      /\ g.status = d.status /\ g.ready = d.ready /\ g.nextOut = d.nextOut /\ g.nextIn = d.nextIn
      /\ g.reading = d.reading /\ g.pending = d.pending /\ g.handlers = d.handlers
      /\ g.cancelled = d.cancelled /\ g.active = d.active /\ g.slot = d.slot
  BY EnqueueIs
<1> HIDE DEF g
<1>2. Mild(e, g) /\ g.queue = Append(d.queue, f) /\ g.handlers = d.handlers /\ g.status = d.status
  BY <1>1 DEF Mild
<1> QED BY <1>2 DEF g

\* A caller that gives up while the answer is awaited sends a cancellation, or stops the end.
LEMMA GiveUpKeeps ==
  ASSUME IInv, NEW s \in Sides, NEW n \in Seqs, GiveUp(s, n)
  PROVE  IInv'
<1> DEFINE d == Abandons(s, n)
           e == IF CanSend(d) THEN Enqueue(d, Cancel(n)) ELSE Stop(s, d, "busy")
<1>1. TypeInv /\ CountInv(s) /\ FlowInv(s) /\ ep[s] \in EndType
  BY EndsAre
<1>2. /\ d \in EndType /\ Mild(ep[s], d) /\ d.status = ep[s].status
      /\ d.queue = ep[s].queue /\ d.handlers = ep[s].handlers
  BY AbandonIs
<1>3. /\ pc[s][n] = "waiting" /\ UNCHANGED <<wire, parent, work, done>>
      /\ Set(s, e) /\ Returns(s, n, "gaveup")
  BY DEF GiveUp, Abandons
<1>4. /\ pc' \in [Sides -> [Seqs -> PCs]] /\ pc'[Other(s)] = pc[Other(s)]
      /\ \A m \in Seqs : pc'[s][m] = IF m = n THEN "gaveup" ELSE pc[s][m]
  BY <1>1, <1>3, ReturnsIs DEF PCs
<1> HIDE DEF d
<1>5. Mild(ep[s], e) /\ e.handlers = ep[s].handlers
  <2>1. "busy" \in Statuses \ {"up", "protocol"} /\ Cancel(n) \in FrameType
    BY FramesAre DEF Statuses
  <2>2. CASE CanSend(d)
    BY <1>1, <1>2, <2>1, <2>2, EnqueueMild
  <2>3. CASE ~CanSend(d)
    BY <1>1, <1>2, <2>1, <2>3, StopsMild
  <2> QED BY <2>2, <2>3
<1>6. CanSend(d) => e.queue = Append(ep[s].queue, Cancel(n)) /\ Up(s)
  <2>1. Cancel(n) \in FrameType
    BY FramesAre
  <2> QED BY <1>2, <2>1, EnqueueIs DEF CanSend, Up
<1>7. ~CanSend(d) => e.queue = ep[s].queue /\ e.status # "up"
  <2>1. "busy" \in Statuses \ {"up", "protocol"}
    BY DEF Statuses
  <2> QED BY <1>1, <1>2, <2>1, StopsMild
<1> HIDE DEF e
<1>8. ep'[s] = e /\ ep'[Other(s)] = ep[Other(s)] /\ ep' \in [Sides -> EndType]
  BY <1>1, <1>3, <1>5, SetIs DEF Mild
<1>9. CanSend(d) => Sent(s, Cancel(n)) /\ Told(s, n)'
  <2>1. SUFFICES ASSUME CanSend(d) PROVE Sent(s, Cancel(n)) /\ Told(s, n)'
    OBVIOUS
  <2>2. Cancel(n) \in FrameType /\ wire'[s] = wire[s] /\ ep'[s].queue = Append(ep[s].queue, Cancel(n))
    BY <1>3, <1>6, <1>8, <2>1, FramesAre
  <2>3. Sent(s, Cancel(n))
    BY <1>1, <2>2, QueuedLast
  <2>4. PICK i \in 1..Size(s)' : Flow(s)'[i] = Cancel(n)
    BY <1>1, <2>3, SentExtends
  <2> QED BY <2>3, <2>4 DEF Told, Cancel, Frame
<1>10. Steady(s)
  <2>1. pc[s][n] # "idle"
    BY <1>3
  <2>2. \A m \in Seqs : work[s][m] = "running" => m \in e.handlers
    BY <1>1, <1>5 DEF CountInv
  <2>3. Up(s)' => CanSend(d)
    BY <1>7, <1>8 DEF Up
  <2> QED BY <1>3, <1>4, <1>5, <1>8, <1>9, <2>1, <2>2, <2>3 DEF Steady
<1>11. TypeInv'
  BY <1>1, <1>3, <1>4, <1>8 DEF TypeInv
<1>12. CASE CanSend(d)
  <2>1. Kept(s) /\ NotRead(s) /\ ep'[s].nextOut = ep[s].nextOut
    BY <1>10, SteadyRest
  <2>2. n <= ep[s].nextOut
    <3>1. n \in Nat /\ ep[s].nextOut \in Nat
      BY <1>1, SeqsAre DEF EndType
    <3> QED BY <1>1, <1>3, <3>1 DEF CountInv
  <2>3. FlowInv(s)'
    BY <1>1, <1>6, <1>9, <1>12, <2>1, <2>2, CancelKeeps
  <2>4. FollowInv(s)'
    BY <1>1, <1>9, <1>10, <1>12, SentExtends, SteadyRest
  <2> QED BY <1>10, <1>11, <2>3, <2>4, SteadyRest DEF IInv
<1>13. CASE ~CanSend(d)
  <2>1. Flow(s)' = Flow(s)
    BY <1>3, <1>7, <1>8, <1>13 DEF Flow
  <2> QED BY <1>1, <1>10, <1>11, <2>1, SameFlow, SteadyKeeps
<1> QED BY <1>12, <1>13

\* A handler answers, or stops the end.
LEMMA AnswerKeeps ==
  ASSUME IInv, NEW s \in Sides, NEW n \in Seqs, Answer(s, n)
  PROVE  IInv'
<1> DEFINE d == ep[s]
<1>1. TypeInv /\ CountInv(s) /\ FlowInv(s) /\ d \in EndType /\ Mild(d, d)
  BY EndsAre
<1>2. PICK r \in Outcomes :
        /\ work' = [work EXCEPT ![s][n] = r]
        /\ Set(s, IF CanSend(d) THEN Enqueue(d, Response(n, r)) ELSE Stop(s, d, "busy"))
  BY DEF Answer
<1> DEFINE e == IF CanSend(d) THEN Enqueue(d, Response(n, r)) ELSE Stop(s, d, "busy")
<1>3. work[s][n] = "running" /\ UNCHANGED <<wire, pc, parent, done>> /\ Set(s, e)
  BY <1>2 DEF Answer
<1>4. r \in Results /\ r # "none" /\ r # "running" /\ work[s][n] \notin Results
  BY <1>3, BridgeAssumption DEF Results
<1>5. /\ work' \in [Sides -> [Seqs -> Results \cup {"none", "running"}]]
      /\ work'[Other(s)] = work[Other(s)]
      /\ \A m \in Seqs : work'[s][m] = IF m = n THEN r ELSE work[s][m]
  BY <1>1, <1>2, <1>4, SidesAre DEF TypeInv
<1>6. Mild(d, e) /\ e.handlers = d.handlers
  <2>1. "busy" \in Statuses \ {"up", "protocol"} /\ Response(n, r) \in FrameType
    BY <1>4, FramesAre DEF Statuses
  <2>2. CASE CanSend(d)
    BY <1>1, <2>1, <2>2, EnqueueMild
  <2>3. CASE ~CanSend(d)
    BY <1>1, <2>1, <2>3, StopsMild
  <2> QED BY <2>2, <2>3
<1>7. CanSend(d) => e.queue = Append(d.queue, Response(n, r)) /\ Up(s)
  <2>1. Response(n, r) \in FrameType
    BY <1>4, FramesAre
  <2> QED BY <1>1, <2>1, EnqueueIs DEF CanSend, Up
<1>8. ~CanSend(d) => e.queue = d.queue
  <2>1. "busy" \in Statuses \ {"up", "protocol"}
    BY DEF Statuses
  <2> QED BY <1>1, <2>1, StopsMild
<1> HIDE DEF e
<1>9. ep'[s] = e /\ ep'[Other(s)] = ep[Other(s)] /\ ep' \in [Sides -> EndType]
  BY <1>1, <1>3, <1>6, SetIs DEF Mild
<1>10. Steady(s)
  <2>1. \A m \in Seqs : work'[s][m] = "running" => m \in e.handlers
    BY <1>1, <1>4, <1>5, <1>6 DEF CountInv
  <2>2. \A m \in Seqs : /\ work'[s][m] = "none" <=> work[s][m] = "none"
                        /\ work[s][m] \in Results => work'[s][m] = work[s][m]
    BY <1>3, <1>4, <1>5
  <2> QED BY <1>3, <1>5, <1>6, <1>9, <2>1, <2>2 DEF Steady
<1>11. TypeInv'
  BY <1>1, <1>3, <1>5, <1>9 DEF TypeInv
<1>12. CASE CanSend(d)
  <2>1. Kept(s) /\ NotRead(s) /\ ep'[s].nextOut = ep[s].nextOut
    BY <1>10, SteadyRest
  <2>2. Response(n, r) \in FrameType /\ wire'[s] = wire[s] /\ ep'[s].queue = Append(ep[s].queue, Response(n, r))
    BY <1>3, <1>4, <1>7, <1>9, <1>12, FramesAre
  <2>3. Sent(s, Response(n, r))
    BY <1>1, <2>2, QueuedLast
  <2>4. FlowInv(s)'
    BY <1>1, <1>4, <1>5, <1>7, <1>12, <2>1, <2>3, ResponseKeeps
  <2>5. FollowInv(s)'
    BY <1>1, <1>10, <2>3, SentExtends, SteadyRest
  <2> QED BY <1>10, <1>11, <2>4, <2>5, SteadyRest DEF IInv
<1>13. CASE ~CanSend(d)
  <2>1. Flow(s)' = Flow(s)
    BY <1>3, <1>8, <1>9, <1>13 DEF Flow
  <2> QED BY <1>1, <1>10, <1>11, <2>1, SameFlow, SteadyKeeps
<1> QED BY <1>12, <1>13

\* A handler returns.
LEMMA HandlerReturnsKeeps ==
  ASSUME IInv, NEW s \in Sides, NEW n \in Seqs, HandlerReturns(s, n)
  PROVE  IInv'
<1> DEFINE d == ep[s]
           k == IF n \in d.active THEN d.retained - 1 ELSE d.retained
           e == [d EXCEPT !.handlers = @ \ {n}, !.active = @ \ {n}, !.cancelled = @ \ {n},
                          !.retained = k]
<1>1. TypeInv /\ CountInv(s) /\ d \in EndType /\ Mild(d, d)
  BY EndsAre
<1>2. /\ work[s][n] # "running" /\ UNCHANGED <<wire, pc, parent, work, done>> /\ Set(s, Handled(s, d, n))
  BY DEF HandlerReturns
<1>3. Handled(s, d, n) = e
  BY <1>1 DEF Handled, EndType
<1>4. k \in Int
  BY <1>1 DEF EndType
<1> HIDE DEF k
<1>5. e \in EndType
  BY <1>1, <1>4 DEF EndType
<1>6. /\ e.status = d.status /\ e.ready = d.ready /\ e.nextOut = d.nextOut /\ e.nextIn = d.nextIn
      /\ e.reading = d.reading /\ e.pending = d.pending /\ e.handlers = d.handlers \ {n}
      /\ e.active = d.active \ {n} /\ e.cancelled = d.cancelled \ {n} /\ e.slot = d.slot /\ e.queue = d.queue
  BY <1>1 DEF EndType
<1>7. Mild(d, e)
  BY <1>1, <1>5, <1>6 DEF Mild
<1> HIDE DEF e
<1>8. ep'[s] = e /\ ep'[Other(s)] = ep[Other(s)] /\ ep' \in [Sides -> EndType]
  BY <1>1, <1>2, <1>3, <1>5, SetIs
<1>9. Steady(s)
  <2>1. \A m \in Seqs : work[s][m] = "running" => m \in e.handlers
    BY <1>1, <1>2, <1>6 DEF CountInv
  <2> QED BY <1>2, <1>7, <1>8, <2>1 DEF Steady
<1>10. TypeInv' /\ Flow(s)' = Flow(s)
  BY <1>1, <1>2, <1>6, <1>8 DEF TypeInv, Flow
<1> QED BY <1>1, <1>9, <1>10, SameFlow, SteadyKeeps

\* A call is admitted: its request is sent under the next id.
LEMMA CallKeeps ==
  ASSUME IInv, NEW s \in Sides, NEW p \in {0} \cup Seqs, Call(s, p)
  PROVE  IInv'
<1> DEFINE o == Other(s)
           d == ep[s]
           n == d.nextOut + 1
           g == Enqueue(d, Request(n))
           e == [g EXCEPT !.nextOut = n, !.pending = @ \cup {n}]
<1>1. /\ TypeInv /\ CountInv(s) /\ CountInv(o) /\ FlowInv(s) /\ FlowInv(o) /\ SlotInv(s) /\ SlotInv(o)
      /\ FollowInv(s) /\ FollowInv(o) /\ d \in EndType /\ d.status # "protocol" /\ ep[o].status # "protocol"
  BY SidesAre, EndsAre DEF IInv
<1>2. o \in Sides /\ Other(o) = s /\ o # s /\ \A t \in Sides : t = s \/ t = o
  BY SidesAre
<1>3. d.nextOut \in Nat /\ n \in Nat /\ n \in Seqs /\ n <= Bound(s) /\ CanSend(d)
  <2>1. d.nextOut \in Nat /\ n <= Bound(s) /\ CanSend(d)
    BY <1>1 DEF Call, EndType
  <2> QED BY <2>1, SeqsAre
<1>4. /\ Set(s, e) /\ Returns(s, n, "writing") /\ parent' = [parent EXCEPT ![s][n] = p]
      /\ UNCHANGED <<wire, work, done>>
  BY DEF Call
<1> HIDE DEF o, n
<1>5. Request(n) \in FrameType
  BY <1>3, FramesAre
<1>6. /\ g \in EndType /\ g.queue = Append(d.queue, Request(n))
      /\ g.status = d.status /\ g.ready = d.ready /\ g.nextIn = d.nextIn
      /\ g.reading = d.reading /\ g.pending = d.pending /\ g.handlers = d.handlers
      /\ g.cancelled = d.cancelled /\ g.active = d.active /\ g.slot = d.slot
  BY <1>1, <1>5, EnqueueIs
<1> HIDE DEF g
<1>7. e \in EndType
  <2>1. g.pending \cup {n} \in SUBSET Seqs
    BY <1>3, <1>6 DEF EndType
  <2> QED BY <1>3, <1>6, <2>1 DEF EndType
<1>8. /\ e.queue = Append(d.queue, Request(n)) /\ e.nextOut = n /\ e.pending = d.pending \cup {n}
      /\ e.status = "up" /\ d.status = "up" /\ e.ready = d.ready /\ e.nextIn = d.nextIn
      /\ e.reading = d.reading /\ e.handlers = d.handlers /\ e.cancelled = d.cancelled /\ e.active = d.active /\ e.slot = d.slot
  BY <1>3, <1>6 DEF EndType, CanSend
<1> HIDE DEF e
<1>9. ep'[s] = e /\ ep'[o] = ep[o] /\ ep' \in [Sides -> EndType]
  BY <1>1, <1>4, <1>7, SetIs DEF o
<1>10. /\ pc' \in [Sides -> [Seqs -> PCs]] /\ pc'[o] = pc[o]
       /\ \A m \in Seqs : pc'[s][m] = IF m = n THEN "writing" ELSE pc[s][m]
  BY <1>1, <1>3, <1>4, ReturnsIs DEF PCs, o
<1>11. TypeInv'
  <2>1. parent' \in [Sides -> [Seqs -> {0} \cup Seqs]]
    BY <1>1, <1>3, <1>4 DEF TypeInv
  <2> QED BY <1>1, <1>4, <1>9, <1>10, <2>1 DEF TypeInv
<1>12. FlowInv(s)'
  <2>1. Up(s) /\ Up(s)' /\ Heard(s)' = Heard(s) /\ Up(o)' = Up(o)
    BY <1>8, <1>9 DEF Up, Heard, o
  <2>2. Up(o) => Heard(s)
    BY <1>1 DEF CountInv, Up, Heard, o
  <2>3. \A m \in Seqs : Settled(s, m)' => Settled(s, m)
    BY <1>9 DEF Settled, o
  <2>4. Kept(s) /\ NotRead(s)
    BY <1>4, <1>9, <2>1, <2>2, <2>3 DEF Kept, NotRead, o
  <2>5. Sent(s, Request(n))
    BY <1>1, <1>4, <1>5, <1>8, <1>9, QueuedLast
  <2>6. n = d.nextOut + 1
    BY DEF n
  <2> QED BY <1>1, <1>3, <1>8, <1>9, <2>1, <2>4, <2>5, <2>6, RequestKeeps DEF CountInv, o
<1>13. FlowInv(o)'
  <2>1. Heard(o)' = Heard(o) /\ Up(o)' = Up(o) /\ Up(s) /\ (Up(s) => Heard(o))
    BY <1>1, <1>2, <1>8, <1>9 DEF Up, Heard, CountInv
  <2>2. ASSUME NEW m \in Seqs, Settled(o, m)' PROVE Settled(o, m)
    <3>1. m <= n /\ m # n /\ m \notin d.pending
      BY <1>2, <1>8, <1>9, <2>2 DEF Settled
    <3>2. m \in Nat /\ n = d.nextOut + 1
      BY SeqsAre DEF n
    <3>3. m <= d.nextOut
      BY <1>3, <3>1, <3>2
    <3> QED BY <1>2, <3>1, <3>3 DEF Settled
  <2>3. Kept(o)
    BY <1>2, <1>4, <2>1, <2>2 DEF Kept
  <2>4. NotRead(o)
    BY <1>2, <1>8, <1>9 DEF NotRead
  <2>5. Flow(o)' = Flow(o)
    BY <1>4, <1>9 DEF Flow
  <2>6. Cut(o)
    BY <1>1, <1>2, <2>5, SameFlow
  <2> QED BY <1>1, <1>2, <1>9, <2>3, <2>4, <2>6, CutKeeps
<1>18. FollowInv(s)'
  <2>1. Sent(s, Request(n)) /\ Extends(s)
    BY <1>1, <1>4, <1>5, <1>8, <1>9, QueuedLast, SentExtends
  <2>2. Up(s) /\ Up(o)' = Up(o) /\ Heeds(ep[o], ep'[o])
    BY <1>8, <1>9 DEF Up, Heeds
  <2>3. \A m \in Seqs : pc'[s][m] = "gaveup" => pc[s][m] = "gaveup"
    BY <1>10
  <2> QED BY <1>1, <2>1, <2>2, <2>3, FollowKeeps DEF o
<1>19. FollowInv(o)'
  <2>1. Flow(o)' = Flow(o)
    BY <1>4, <1>9 DEF Flow
  <2>2. Cut(o)
    BY <1>1, <1>2, <2>1, SameFlow
  <2>3. Up(o)' = Up(o) /\ Up(s) /\ Heeds(ep[s], ep'[s]) /\ pc'[o] = pc[o]
    BY <1>8, <1>9, <1>10 DEF Up, Heeds, Undone
  <2> QED BY <1>1, <1>2, <2>2, <2>3, CutExtends, FollowKeeps
<1>14. SlotInv(s)' /\ SlotInv(o)'
  BY <1>1, <1>2, <1>4, <1>8, <1>9 DEF SlotInv, o
<1>15. CountInv(s)'
  <2>1. ep[o].nextIn <= n
    <3>1. ep[o].nextIn <= d.nextOut /\ ep[o].nextIn \in Nat /\ n = d.nextOut + 1
      BY <1>1, <1>2 DEF CountInv, TypeInv, EndType, o, n
    <3> QED BY <1>3, <3>1
  <2>2. ASSUME NEW m \in Seqs PROVE pc'[s][m] = "idle" <=> m > n
    <3>1. m \in Nat /\ n = d.nextOut + 1
      BY SeqsAre DEF n
    <3>2. pc[s][m] = "idle" <=> m > d.nextOut
      BY <1>1 DEF CountInv
    <3>3. m > n <=> m > d.nextOut /\ m # n
      BY <1>3, <3>1
    <3> QED BY <1>10, <3>2, <3>3
  <2> QED BY <1>1, <1>3, <1>4, <1>8, <1>9, <2>1, <2>2 DEF CountInv, Up, o
<1>16. CountInv(o)'
  BY <1>1, <1>2, <1>4, <1>8, <1>9, <1>10 DEF CountInv, Up
<1>17. ep'[s].status # "protocol" /\ ep'[o].status # "protocol"
  BY <1>1, <1>8, <1>9
<1> QED BY <1>2, <1>11, <1>12, <1>13, <1>14, <1>15, <1>16, <1>17, <1>18, <1>19 DEF IInv

-----------------------------------------------------------------------------
(* The reader.                                                             *)

\* A reader that refuses a frame.
LEMMA FailIs ==
  ASSUME NEW s \in Sides, NEW e \in EndType, NEW why \in Statuses \ {"up"}
  PROVE  LET f == Fail(s, e, why) IN
         /\ f \in EndType /\ ~f.reading /\ f.status # "up"
         /\ f.status = IF e.status = "up" THEN why ELSE e.status
         /\ f.nextOut = e.nextOut /\ f.nextIn = e.nextIn /\ f.handlers = e.handlers
         /\ f.queue = e.queue /\ f.active \subseteq e.active
         /\ \A n \in Seqs : f.slot[n] \in Results => f.slot[n] = e.slot[n]
<1> DEFINE g == Stop(s, e, why)
           f == [g EXCEPT !.reading = FALSE]
<1>1. Stopped(e, g) /\ g.status = IF e.status = "up" THEN why ELSE e.status
  BY StopIs
<1>2. f = Fail(s, e, why)
  BY DEF Fail
<1> HIDE DEF g
<1>3. g \in EndType
  BY <1>1 DEF Stopped
<1>4. /\ f \in EndType /\ f.reading = FALSE /\ f.status = g.status /\ f.nextOut = g.nextOut
      /\ f.nextIn = g.nextIn /\ f.handlers = g.handlers /\ f.queue = g.queue
      /\ f.active = g.active /\ f.slot = g.slot
  BY <1>3 DEF EndType
<1> HIDE DEF f
<1> QED BY <1>1, <1>2, <1>4 DEF Stopped

\* What the frame that end s reads may make of its endpoint.
Gets(s, e) ==
  LET o == Other(s) IN
  /\ e \in EndType
  /\ e.status = "up" => ep[s].status = "up" /\ e.reading
  /\ e.status # "protocol" /\ e.nextOut = ep[s].nextOut
  /\ e.reading => /\ e.ready = (ep[s].ready \/ Stands(o, 1, "hello"))
                  /\ e.nextIn = IF Stands(o, 1, "request") THEN Flow(o)[1].id ELSE ep[s].nextIn
  /\ e.status = "up" => \A n \in ep[s].pending :
       n \in e.pending \/ (Stands(o, 1, "response") /\ n = Flow(o)[1].id)
  /\ e.status = "up" => /\ Heeds(ep[s], e)
                        /\ \A n \in Seqs : Flow(o)[1] = Cancel(n) => Undone(e, n)
  /\ \A n \in Seqs : e.slot[n] \in Results => work[o][n] = e.slot[n]
  /\ e.active \subseteq e.handlers /\ e.nextIn <= ep[o].nextOut

\* What becomes of the work of end s.
Begins(s, e) ==
  /\ work' \in [Sides -> [Seqs -> Results \cup {"none", "running"}]]
  /\ work'[Other(s)] = work[Other(s)]
  /\ \A n \in Seqs : work[s][n] \in Results => work'[s][n] = work[s][n]
  /\ \A n \in Seqs : work'[s][n] = "none" <=> n > e.nextIn
  /\ \A n \in Seqs : work'[s][n] = "running" => n \in e.handlers
  /\ \A n \in e.handlers : n <= e.nextIn

\* The frame is taken off the connection.
Takes(s, e) ==
  /\ CanRead(s) /\ Set(s, e)
  /\ wire' = [wire EXCEPT ![Other(s)] = IF e.reading THEN Tail(@) ELSE <<>>]
  /\ UNCHANGED <<pc, parent, done>>

\* The invariant of an end that is no longer heard, and has stopped.
LEMMA UnheardKeeps ==
  ASSUME NEW s, ~Heard(s)', ~Up(Other(s))'
  PROVE  FlowInv(s)'
BY DEF FlowInv, HelloInv, RequestInv, CancelInv, ResponseInv, PendingInv

\* What a reading leaves to prove is the flow of the end that reads.
LEMMA ReadRest ==
  ASSUME IInv, NEW s \in Sides, NEW e, Gets(s, e), Begins(s, e), Takes(s, e)
  PROVE  /\ TypeInv' /\ Kept(s) /\ NotRead(s) /\ wire'[s] = wire[s] /\ ep'[s] = e
         /\ FlowInv(s)' /\ (Up(s)' => Extends(s)) => IInv'
<1> DEFINE o == Other(s)
<1>1. o \in Sides /\ Other(o) = s /\ o # s /\ \A t \in Sides : t = s \/ t = o
  BY SidesAre
<1>2. /\ TypeInv /\ CountInv(s) /\ CountInv(o) /\ FlowInv(s) /\ FlowInv(o) /\ SlotInv(s) /\ SlotInv(o)
      /\ FollowInv(s) /\ FollowInv(o) /\ ep[o].status # "protocol" /\ ep[s] \in EndType /\ ep[o] \in EndType
  BY <1>1, EndsAre DEF IInv
<1>3. ep'[s] = e /\ ep'[o] = ep[o] /\ ep' \in [Sides -> EndType]
  BY <1>2, SetIs DEF Gets, Takes
<1>4. /\ ep[s].reading /\ wire[o] # <<>> /\ UNCHANGED <<pc, parent, done>>
      /\ wire' = [wire EXCEPT ![o] = IF e.reading THEN Tail(wire[o]) ELSE <<>>]
  BY DEF Takes, CanRead
<1>5. Gets(s, e) /\ Begins(s, e)
  OBVIOUS
<1>6. wire' \in [Sides -> Seq(FrameType)] /\ wire'[s] = wire[s]
      /\ (e.reading => wire'[o] = Tail(wire[o]))
  <2>1. Tail(wire[o]) \in Seq(FrameType) /\ <<>> \in Seq(FrameType)
    BY <1>1, <1>2, <1>4, HeadTailProperties DEF TypeInv
  <2> QED BY <1>1, <1>2, <1>4, <2>1 DEF TypeInv
<1>7. TypeInv'
  BY <1>2, <1>3, <1>4, <1>5, <1>6 DEF TypeInv, Begins
<1>8. NotRead(s)
  BY <1>3 DEF NotRead, o
<1>9. Kept(s)
  <2>1. Heard(s)' = Heard(s) /\ Up(o)' = Up(o) /\ (Up(s)' => Up(s))
    BY <1>3, <1>5 DEF Gets, Heard, Up, o
  <2>2. Up(o) => Heard(s)
    BY <1>2 DEF CountInv, Up, Heard, o
  <2>3. \A n \in Seqs : Settled(s, n)' => Settled(s, n)
    BY <1>3 DEF Settled, o
  <2>4. \A n \in Seqs : work[s][n] \in Results => work'[s][n] = work[s][n]
    BY <1>5 DEF Begins
  <2> QED BY <2>1, <2>2, <2>3, <2>4 DEF Kept, o
<1>10. FlowInv(o)' /\ FollowInv(o)'
  <2>1. CASE ~e.reading
    <3>1. ~Heard(o)' /\ ~Up(s)'
      BY <1>1, <1>3, <1>5, <2>1 DEF Heard, Up, Gets
    <3>2. FollowInv(o)'
      BY <1>1, <3>1 DEF FollowInv
    <3> QED BY <1>1, <3>1, <3>2, UnheardKeeps
  <2>2. CASE e.reading
    <3>1. Heard(o) /\ Size(o) > 0 /\ Taken(o)
      BY <1>1, <1>2, <1>3, <1>4, <1>6, <2>2, HeadTaken DEF Heard
    <3>2. Up(s)' => Up(s) /\ Heard(o)'
      BY <1>1, <1>3, <1>5 DEF Gets, Up, Heard
    <3>3. Reads(o)
      BY <1>1, <1>3, <1>5, <3>1, <3>2 DEF Reads, Begins, o
    <3>4. /\ ep'[s].ready = (ep[s].ready \/ Stands(o, 1, "hello"))
          /\ ep'[s].nextIn = IF Stands(o, 1, "request") THEN Flow(o)[1].id ELSE ep[s].nextIn
      BY <1>3, <1>5, <2>2 DEF Gets, o
    <3>5. ASSUME NEW n \in Seqs, Up(s)', Settled(o, n)'
          PROVE  Settled(o, n) \/ (Stands(o, 1, "response") /\ n = Flow(o)[1].id)
      <4>1. n <= ep[s].nextOut /\ n \notin e.pending /\ e.status = "up"
        BY <1>1, <1>3, <1>5, <3>5 DEF Settled, Gets, Up
      <4> QED BY <1>1, <1>5, <4>1 DEF Settled, Gets, o
    <3>6. FlowInv(o)'
      BY <1>1, <1>2, <3>3, <3>4, <3>5, ReadKeeps
    <3>7. FollowInv(o)'
      <4>1. pc'[o] = pc[o]
        BY <1>4
      <4>2. Up(s)' => /\ Heeds(ep[s], ep'[s])
                      /\ \A n \in Seqs : Flow(o)[1] = Cancel(n) => Undone(ep'[s], n)
        BY <1>3, <1>5 DEF Up, Gets, o
      <4> QED BY <1>1, <1>2, <3>3, <4>1, <4>2, ReadFollows
    <3> QED BY <3>6, <3>7
  <2> QED BY <2>1, <2>2
<1>11. SlotInv(o)' /\ SlotInv(s)'
  <2>1. SlotInv(o)'
    BY <1>1, <1>3, <1>5 DEF SlotInv, Gets, Begins, o
  <2>2. SlotInv(s)'
    BY <1>2, <1>3, <1>5 DEF SlotInv, Begins, o
  <2> QED BY <2>1, <2>2
<1>12. CountInv(s)'
  <2>1. Up(s)' => ep'[s].reading
    BY <1>3, <1>5 DEF Up, Gets
  <2>2. ep'[s].nextOut = ep[s].nextOut /\ ep'[o].nextIn = ep[o].nextIn /\ pc'[s] = pc[s]
    BY <1>3, <1>4, <1>5 DEF Gets
  <2>3. /\ \A n \in Seqs : work'[s][n] = "none" <=> n > ep'[s].nextIn
        /\ \A n \in ep'[s].handlers : n <= ep'[s].nextIn
        /\ ep'[s].active \subseteq ep'[s].handlers
        /\ \A n \in Seqs : work'[s][n] = "running" => n \in ep'[s].handlers
    BY <1>3, <1>5 DEF Gets, Begins
  <2> QED BY <1>2, <2>1, <2>2, <2>3 DEF CountInv, o
<1>13. CountInv(o)'
  <2>1. ep'[s].nextIn <= ep[o].nextOut /\ work'[o] = work[o]
    BY <1>3, <1>5 DEF Gets, Begins, o
  <2> QED BY <1>1, <1>2, <1>3, <1>4, <2>1 DEF CountInv, Up
<1>14. ep'[s].status # "protocol" /\ ep'[o].status # "protocol"
  BY <1>2, <1>3, <1>5 DEF Gets
<1>15. ASSUME Up(s)' => Extends(s) PROVE FollowInv(s)'
  <2>1. (Up(s)' => Up(s)) /\ Up(o)' = Up(o) /\ Heeds(ep[o], ep'[o]) /\ pc'[s] = pc[s]
    BY <1>3, <1>4, <1>5 DEF Gets, Up, Heeds
  <2> QED BY <1>2, <1>15, <2>1, FollowKeeps DEF o
<1> QED BY <1>1, <1>3, <1>6, <1>7, <1>8, <1>9, <1>10, <1>11, <1>12, <1>13, <1>14, <1>15 DEF IInv

\* The frame that is read is the head of the flow of the other end.
LEMMA ReadIs ==
  ASSUME IInv, NEW s \in Sides, Read(s)
  PROVE  LET o == Other(s)
             f == Flow(o)[1]
         IN /\ o \in Sides /\ Other(o) = s /\ TypeInv /\ ep[s] \in EndType
            /\ FlowInv(o) /\ FlowInv(s) /\ SlotInv(o) /\ CountInv(s) /\ CountInv(o)
            /\ ep[s].status # "protocol" /\ (ep[s].status = "up" => ep[s].reading)
            /\ ep[s].reading /\ Heard(o) /\ Size(o) > 0 /\ f \in FrameType
            /\ Takes(s, Accepted(s, ep[s], f))
            /\ IF f.kind = "request"
               THEN work' = [work EXCEPT ![s][f.id] =
                      IF f.id \in Accepted(s, ep[s], f).handlers THEN "running"
                      ELSE IF Accepted(s, ep[s], f).nextIn = f.id THEN "busy" ELSE @]
               ELSE UNCHANGED work
<1> DEFINE o == Other(s)
           f == Flow(o)[1]
<1>1. o \in Sides /\ Other(o) = s
  BY SidesAre
<1>2. /\ TypeInv /\ ep[s] \in EndType /\ FlowInv(o) /\ FlowInv(s) /\ SlotInv(o)
      /\ CountInv(s) /\ CountInv(o) /\ ep[s].status # "protocol"
  BY <1>1, EndsAre DEF IInv
<1>3. ep[s].reading /\ wire[o] # <<>>
  BY DEF Read, CanRead
<1>4. Size(o) > 0 /\ f = Head(wire[o])
  BY <1>1, <1>2, <1>3, HeadTaken
<1>5. f \in FrameType
  <2>1. Size(o) \in Nat /\ 1 \in 1..Size(o)
    BY <1>1, <1>2, <1>4, FlowType
  <2> QED BY <1>1, <1>2, <2>1, FlowType
<1>6. Heard(o)
  BY <1>1, <1>3 DEF Heard
<1>7. Takes(s, Accepted(s, ep[s], f))
  BY <1>4 DEF Read, Takes
<1>8. IF f.kind = "request"
      THEN work' = [work EXCEPT ![s][f.id] =
             IF f.id \in Accepted(s, ep[s], f).handlers THEN "running"
             ELSE IF Accepted(s, ep[s], f).nextIn = f.id THEN "busy" ELSE @]
      ELSE UNCHANGED work
  BY <1>4 DEF Read
<1> HIDE DEF f
<1> QED BY <1>1, <1>2, <1>3, <1>4, <1>5, <1>6, <1>7, <1>8 DEF f, CountInv, Up

\* A frame that begins nothing and is not answered.
LEMMA ReadQuietly ==
  ASSUME IInv, NEW s \in Sides, NEW e, Gets(s, e), Takes(s, e), UNCHANGED work,
         e.nextIn = ep[s].nextIn, e.handlers = ep[s].handlers, e.queue = ep[s].queue
  PROVE  IInv'
<1>1. TypeInv /\ CountInv(s) /\ FlowInv(s)
  BY EndsAre
<1>2. Begins(s, e)
  BY <1>1 DEF Begins, CountInv, TypeInv
<1>3. Kept(s) /\ NotRead(s) /\ wire'[s] = wire[s] /\ ep'[s] = e
  BY <1>2, ReadRest
<1>4. Flow(s)' = Flow(s) /\ ep'[s].nextOut = ep[s].nextOut
  BY <1>3 DEF Flow, Gets
<1>5. FlowInv(s)' /\ (Up(s)' => Extends(s))
  BY <1>1, <1>3, <1>4, SameFlow, CutKeeps, CutExtends
<1> QED BY <1>2, <1>5, ReadRest

\* The hello is read, once.
LEMMA ReadHelloKeeps ==
  ASSUME IInv, NEW s \in Sides, Read(s), Stands(Other(s), 1, "hello")
  PROVE  IInv'
<1> DEFINE o == Other(s)
           f == Flow(o)[1]
           d == ep[s]
           e == [d EXCEPT !.ready = TRUE]
<1>1. /\ o \in Sides /\ Other(o) = s /\ TypeInv /\ d \in EndType
      /\ FlowInv(o) /\ SlotInv(o) /\ CountInv(s) /\ CountInv(o)
      /\ d.status # "protocol" /\ (d.status = "up" => d.reading)
      /\ Heard(o) /\ Size(o) > 0 /\ Takes(s, Accepted(s, d, f))
      /\ (f.kind # "request" => UNCHANGED work)
  BY ReadIs
<1>2. f.kind = "hello"
  BY DEF Stands
<1>3. ~d.ready
  BY <1>1, HelloFirst DEF FlowInv
<1>4. Accepted(s, d, f) = e
  BY <1>2, <1>3 DEF Accepted
<1>5. e \in EndType
  BY <1>1 DEF EndType
<1>6. /\ e.status = d.status /\ e.ready = TRUE /\ e.nextOut = d.nextOut /\ e.nextIn = d.nextIn
      /\ e.reading = d.reading /\ e.pending = d.pending /\ e.handlers = d.handlers
      /\ e.cancelled = d.cancelled /\ e.active = d.active /\ e.slot = d.slot /\ e.queue = d.queue
  BY <1>1 DEF EndType
<1>7. ~Stands(o, 1, "request")
  BY <1>2 DEF Stands
<1> HIDE DEF e, f
<1>8. Gets(s, e)
  <2>3. Heeds(d, e) /\ \A m \in Seqs : f # Cancel(m)
    BY <1>2, <1>6, FramesAre DEF Heeds, Undone
  <2>1. \A n \in Seqs : e.slot[n] \in Results => work[o][n] = e.slot[n]
    BY <1>1, <1>6 DEF SlotInv
  <2>2. e.active \subseteq e.handlers /\ e.nextIn <= ep[o].nextOut
    BY <1>1, <1>6 DEF CountInv
  <2> QED BY <1>1, <1>5, <1>6, <1>7, <2>1, <2>2, <2>3 DEF Gets, o, f
<1> QED BY <1>1, <1>2, <1>4, <1>6, <1>8, ReadQuietly

\* A reader that stops for want of room.
LEMMA FailGets ==
  ASSUME IInv, NEW s \in Sides, NEW d \in EndType,
         d.status = ep[s].status, d.nextOut = ep[s].nextOut, d.nextIn <= ep[Other(s)].nextOut,
         d.active = ep[s].active, d.handlers = ep[s].handlers, d.slot = ep[s].slot
  PROVE  Gets(s, Fail(s, d, "busy"))
<1> DEFINE o == Other(s)
           f == Fail(s, d, "busy")
<1>1. /\ f \in EndType /\ ~f.reading /\ f.status # "up"
      /\ f.status = IF d.status = "up" THEN "busy" ELSE d.status
      /\ f.nextOut = d.nextOut /\ f.nextIn = d.nextIn /\ f.handlers = d.handlers
      /\ f.active \subseteq d.active
      /\ \A n \in Seqs : f.slot[n] \in Results => f.slot[n] = d.slot[n]
  <2>1. "busy" \in Statuses \ {"up"}
    BY DEF Statuses
  <2> QED BY <2>1, FailIs
<1> HIDE DEF f
<1>2. o \in Sides /\ Other(o) = s /\ CountInv(s) /\ SlotInv(o) /\ ep[s].status # "protocol"
  BY SidesAre DEF IInv
<1>3. \A n \in Seqs : f.slot[n] \in Results => work[o][n] = f.slot[n]
  BY <1>1, <1>2 DEF SlotInv
<1>4. f.active \subseteq f.handlers
  BY <1>1, <1>2 DEF CountInv
<1>5. Gets(s, f)
  BY <1>1, <1>2, <1>3, <1>4 DEF Gets, o
<1> QED BY <1>5 DEF f

\* A response finds its call.
LEMMA ReadResponseKeeps ==
  ASSUME IInv, NEW s \in Sides, Read(s), Stands(Other(s), 1, "response")
  PROVE  IInv'
<1> DEFINE o == Other(s)
           f == Flow(o)[1]
           d == ep[s]
           n == f.id
           e == AcceptResponse(s, d, n, f.result)
<1>1. /\ o \in Sides /\ Other(o) = s /\ TypeInv /\ d \in EndType
      /\ FlowInv(o) /\ SlotInv(o) /\ CountInv(s) /\ CountInv(o)
      /\ d.status # "protocol" /\ (d.status = "up" => d.reading) /\ d.reading
      /\ Heard(o) /\ Size(o) > 0 /\ Takes(s, Accepted(s, d, f))
      /\ (f.kind # "request" => UNCHANGED work)
  BY ReadIs
<1>2. f.kind = "response"
  BY DEF Stands
<1>3. d.ready
  <2>1. ~Stands(o, 1, "hello")
    BY <1>2 DEF Stands
  <2> QED BY <1>1, <2>1, HelloFirst DEF FlowInv
<1>4. Accepted(s, d, f) = e
  <2>1. d.ready = TRUE
    BY <1>1, <1>3 DEF EndType
  <2> QED BY <1>2, <2>1 DEF Accepted
<1>5. n \in Seqs /\ f.result \in Results /\ work[o][n] = f.result
  <2>1. Size(o) \in Nat /\ 1 \in 1..Size(o)
    BY <1>1, FlowType
  <2> QED BY <1>1, <2>1 DEF FlowInv, ResponseInv
<1>6. d.status = "up" => n \in d.pending
  <2>1. SUFFICES ASSUME Up(s) PROVE n \in d.pending
    BY DEF Up
  <2> QED BY <1>1, <2>1, ResponsePending DEF FlowInv, CountInv
<1>7. ~Stands(o, 1, "request") /\ ~Stands(o, 1, "hello") /\ Stands(o, 1, "response")
  BY <1>2 DEF Stands
<1>8. /\ \A m \in Seqs : d.slot[m] \in Results => work[o][m] = d.slot[m]
      /\ d.active \subseteq d.handlers /\ d.nextIn <= ep[o].nextOut
  BY <1>1 DEF SlotInv, CountInv
<1> HIDE DEF f
<1> SUFFICES /\ Gets(s, e) /\ e.nextIn = d.nextIn /\ e.handlers = d.handlers /\ e.queue = d.queue
  BY <1>1, <1>2, <1>4, ReadQuietly
<1>9. CASE n \notin d.pending
  <2>1. d.status # "up" /\ e = Fail(s, d, "protocol")
    BY <1>6, <1>9 DEF AcceptResponse
  <2>2. Stop(s, d, "protocol") = d /\ Stop(s, d, "busy") = d
    BY <2>1 DEF Stop
  <2>3. e = Fail(s, d, "busy")
    BY <2>1, <2>2 DEF Fail
  <2>4. e.nextIn = d.nextIn /\ e.handlers = d.handlers /\ e.queue = d.queue
    <3>1. "busy" \in Statuses \ {"up"}
      BY DEF Statuses
    <3> QED BY <1>1, <2>3, <3>1, FailIs
  <2> QED BY <1>1, <1>8, <2>3, <2>4, FailGets
<1>10. CASE n \in d.pending \cap d.abandoned
  <2> DEFINE g == [d EXCEPT !.pending = @ \ {n}, !.abandoned = @ \ {n}]
  <2>1. e = g
    BY <1>10 DEF AcceptResponse
  <2>2. g \in EndType
    BY <1>1 DEF EndType
  <2>3. /\ g.status = d.status /\ g.ready = d.ready /\ g.nextOut = d.nextOut /\ g.nextIn = d.nextIn
        /\ g.reading = d.reading /\ g.pending = d.pending \ {n} /\ g.handlers = d.handlers
        /\ g.cancelled = d.cancelled /\ g.active = d.active /\ g.slot = d.slot /\ g.queue = d.queue
    BY <1>1 DEF EndType
  <2> HIDE DEF g, e
  <2>5. Heeds(d, g) /\ \A m \in Seqs : f # Cancel(m)
    BY <1>2, <2>3, FramesAre DEF Heeds, Undone
  <2>4. Gets(s, g)
    BY <1>1, <1>3, <1>7, <1>8, <2>2, <2>3, <2>5 DEF Gets, o, n, f
  <2> QED BY <2>1, <2>3, <2>4
<1>11. CASE n \in d.pending \ d.abandoned /\ ~HasRoom(d)
  <2>1. e = Fail(s, d, "busy")
    BY <1>11 DEF AcceptResponse
  <2>2. e.nextIn = d.nextIn /\ e.handlers = d.handlers /\ e.queue = d.queue
    <3>1. "busy" \in Statuses \ {"up"}
      BY DEF Statuses
    <3> QED BY <1>1, <2>1, <3>1, FailIs
  <2> QED BY <1>1, <1>8, <2>1, <2>2, FailGets
<1>12. CASE n \in d.pending \ d.abandoned /\ HasRoom(d)
  <2> DEFINE sl == [d.slot EXCEPT ![n] = f.result]
             k == d.retained + 1
             g == [d EXCEPT !.pending = @ \ {n}, !.slot = sl, !.retained = k]
  <2>1. e = g
    BY <1>1, <1>12 DEF AcceptResponse, EndType
  <2>2. sl \in [Seqs -> Results \cup {"none", "closed"}]
        /\ \A m \in Seqs : sl[m] \in Results => work[o][m] = sl[m]
    BY <1>1, <1>5, <1>8 DEF EndType
  <2>6. k \in Int
    BY <1>1 DEF EndType
  <2> HIDE DEF sl, k
  <2>3. g \in EndType
    BY <1>1, <2>2, <2>6 DEF EndType
  <2>4. /\ g.status = d.status /\ g.ready = d.ready /\ g.nextOut = d.nextOut /\ g.nextIn = d.nextIn
        /\ g.reading = d.reading /\ g.pending = d.pending \ {n} /\ g.handlers = d.handlers
        /\ g.cancelled = d.cancelled /\ g.active = d.active /\ g.slot = sl /\ g.queue = d.queue
    BY <1>1 DEF EndType
  <2> HIDE DEF g, e
  <2>7. Heeds(d, g) /\ \A m \in Seqs : f # Cancel(m)
    BY <1>2, <2>4, FramesAre DEF Heeds, Undone
  <2>5. Gets(s, g)
    BY <1>1, <1>3, <1>7, <1>8, <2>2, <2>3, <2>4, <2>7 DEF Gets, o, n, f
  <2> QED BY <2>1, <2>4, <2>5
<1> QED BY <1>9, <1>10, <1>11, <1>12

\* A cancellation comes after its request.
LEMMA ReadCancelKeeps ==
  ASSUME IInv, NEW s \in Sides, Read(s), Stands(Other(s), 1, "cancel")
  PROVE  IInv'
<1> DEFINE o == Other(s)
           f == Flow(o)[1]
           d == ep[s]
           n == f.id
           k == d.cancelled \cup (d.active \cap {n})
           e == [d EXCEPT !.cancelled = k]
<1>1. /\ o \in Sides /\ Other(o) = s /\ TypeInv /\ d \in EndType
      /\ FlowInv(o) /\ SlotInv(o) /\ CountInv(s) /\ CountInv(o)
      /\ d.status # "protocol" /\ (d.status = "up" => d.reading) /\ d.reading
      /\ Heard(o) /\ Size(o) > 0 /\ f \in FrameType /\ Takes(s, Accepted(s, d, f))
      /\ (f.kind # "request" => UNCHANGED work)
  BY ReadIs
<1>2. f.kind = "cancel"
  BY DEF Stands
<1>3. d.ready = TRUE
  <2>1. ~Stands(o, 1, "hello")
    BY <1>2 DEF Stands
  <2> QED BY <1>1, <2>1, HelloFirst DEF FlowInv, EndType
<1>4. ~(n > d.nextIn)
  <2>1. n <= d.nextIn
    BY <1>1, CancelKnown DEF FlowInv
  <2>2. n \in Nat /\ d.nextIn \in Nat
    BY <1>1, SeqsAre DEF FrameType, EndType
  <2> QED BY <2>1, <2>2
<1>5. Accepted(s, d, f) = e
  <2>1. Accepted(s, d, f) = AcceptCancel(s, d, n)
    BY <1>2, <1>3 DEF Accepted
  <2>2. AcceptCancel(s, d, n) = e
    BY <1>4 DEF AcceptCancel
  <2> QED BY <2>1, <2>2
<1>6. ~Stands(o, 1, "request") /\ ~Stands(o, 1, "hello") /\ ~Stands(o, 1, "response")
  BY <1>2 DEF Stands
<1>7. e \in EndType
  <2>1. k \in SUBSET Seqs
    BY <1>1 DEF EndType
  <2> HIDE DEF k
  <2> QED BY <1>1, <2>1 DEF EndType
<1>8. /\ e.status = d.status /\ e.ready = d.ready /\ e.nextOut = d.nextOut /\ e.nextIn = d.nextIn
      /\ e.reading = d.reading /\ e.pending = d.pending /\ e.handlers = d.handlers
      /\ e.cancelled = k /\ e.active = d.active /\ e.slot = d.slot /\ e.queue = d.queue
  BY <1>1 DEF EndType
<1>10. Heeds(d, e) /\ \A m \in Seqs : f = Cancel(m) => Undone(e, m)
  <2>1. Heeds(d, e)
    BY <1>8 DEF Heeds, Undone
  <2>2. n <= d.nextIn /\ (n \in d.active => n \in k)
    BY <1>1, CancelKnown DEF FlowInv
  <2> QED BY <1>8, <2>1, <2>2, FramesAre DEF Undone
<1> HIDE DEF e, f
<1>9. Gets(s, e)
  <2>1. \A m \in Seqs : e.slot[m] \in Results => work[o][m] = e.slot[m]
    BY <1>1, <1>8 DEF SlotInv
  <2>2. e.active \subseteq e.handlers /\ e.nextIn <= ep[o].nextOut
    BY <1>1, <1>8 DEF CountInv
  <2> QED BY <1>1, <1>3, <1>6, <1>7, <1>8, <1>10, <2>1, <2>2 DEF Gets, o, f
<1> QED BY <1>1, <1>2, <1>5, <1>8, <1>9, ReadQuietly

\* What the request that end s reads begins: work that runs, or is refused.
LEMMA RequestBegins ==
  ASSUME IInv, NEW s \in Sides, NEW e, NEW n \in Seqs, NEW w \in {"running", "busy"},
         work' = [work EXCEPT ![s][n] = w], n = ep[s].nextIn + 1, e.nextIn = n,
         e.handlers = ep[s].handlers \cup (IF w = "running" THEN {n} ELSE {})
  PROVE  Begins(s, e) /\ work[s][n] \notin Results /\ work'[s][n] = w
<1>1. TypeInv /\ CountInv(s) /\ ep[s].nextIn \in Nat /\ ep[s].handlers \subseteq Seqs
  BY EndsAre DEF EndType
<1>2. n \in Nat /\ \A m \in Seqs : m \in Nat
  BY SeqsAre
<1>3. /\ work' \in [Sides -> [Seqs -> Results \cup {"none", "running"}]]
      /\ work'[Other(s)] = work[Other(s)]
      /\ \A m \in Seqs : work'[s][m] = IF m = n THEN w ELSE work[s][m]
  BY <1>1, SidesAre DEF TypeInv, Results
<1>4. work[s][n] = "none" /\ work[s][n] \notin Results
  BY <1>1, <1>2 DEF CountInv, Results
<1>5. ASSUME NEW m \in Seqs PROVE work'[s][m] = "none" <=> m > n
  <2>1. work[s][m] = "none" <=> m > ep[s].nextIn
    BY <1>1 DEF CountInv
  <2>2. m > n <=> m > ep[s].nextIn /\ m # n
    BY <1>1, <1>2
  <2> QED BY <1>3, <2>1, <2>2
<1>6. ASSUME NEW m \in Seqs, work'[s][m] = "running" PROVE m \in e.handlers
  BY <1>1, <1>3, <1>6 DEF CountInv
<1>7. ASSUME NEW m \in e.handlers PROVE m <= n
  <2>1. CASE m = n
    BY <1>2, <2>1
  <2>2. CASE m # n
    <3>1. m \in ep[s].handlers
      BY <1>7, <2>2
    <3>2. m \in Seqs /\ m <= ep[s].nextIn
      BY <1>1, <3>1 DEF CountInv
    <3> QED BY <1>1, <1>2, <3>2
  <2> QED BY <2>1, <2>2
<1> QED BY <1>3, <1>4, <1>5, <1>6, <1>7 DEF Begins

\* A request starts its handler.
LEMMA AcceptKeeps ==
  ASSUME IInv, NEW s \in Sides, Read(s), Stands(Other(s), 1, "request"),
         Cardinality(ep[s].active) < MaxActiveCalls, HasRoom(ep[s])
  PROVE  IInv'
<1> DEFINE o == Other(s)
           f == Flow(o)[1]
           d == ep[s]
           n == f.id
           k == IF d.status = "up" THEN d.cancelled ELSE d.cancelled \cup {n}
           i == d.retained + 1
           e == [d EXCEPT !.nextIn = n, !.active = @ \cup {n}, !.retained = i,
                          !.handlers = @ \cup {n}, !.cancelled = k]
<1>1. /\ o \in Sides /\ Other(o) = s /\ TypeInv /\ d \in EndType
      /\ FlowInv(o) /\ FlowInv(s) /\ SlotInv(o) /\ CountInv(s) /\ CountInv(o)
      /\ d.status # "protocol" /\ (d.status = "up" => d.reading) /\ d.reading
      /\ Heard(o) /\ Size(o) > 0 /\ f \in FrameType /\ Takes(s, Accepted(s, d, f))
  BY ReadIs
<1>2. f.kind = "request"
  BY DEF Stands
<1>3. d.ready = TRUE
  <2>1. ~Stands(o, 1, "hello")
    BY <1>2 DEF Stands
  <2> QED BY <1>1, <2>1, HelloFirst DEF FlowInv, EndType
<1>4. n = d.nextIn + 1 /\ n \in Seqs /\ n <= ep[o].nextOut
  BY <1>1, RequestNext DEF FlowInv
<1>5. Accepted(s, d, f) = e
  <2>1. Accepted(s, d, f) = Accept(s, d, n)
    BY <1>2, <1>3 DEF Accepted
  <2>2. Accept(s, d, n) = e
    BY <1>1, <1>4 DEF Accept, EndType
  <2> QED BY <2>1, <2>2
<1>6. work' = [work EXCEPT ![s][n] = IF n \in e.handlers THEN "running"
                                     ELSE IF e.nextIn = n THEN "busy" ELSE @]
  BY <1>2, <1>5, ReadIs
<1>7. ~Stands(o, 1, "response") /\ ~Stands(o, 1, "hello") /\ Stands(o, 1, "request")
  BY <1>2 DEF Stands
<1>8. k \in SUBSET Seqs /\ i \in Int /\ d.cancelled \subseteq k
  BY <1>1, <1>4 DEF EndType
<1> HIDE DEF f, k, i
<1>9. e \in EndType
  <2>1. n \in Nat
    BY <1>4, SeqsAre
  <2> HIDE DEF n
  <2> QED BY <1>1, <1>4, <1>8, <2>1 DEF EndType
<1>10. /\ e.status = d.status /\ e.ready = d.ready /\ e.nextOut = d.nextOut /\ e.nextIn = n
       /\ e.reading = d.reading /\ e.pending = d.pending /\ e.handlers = d.handlers \cup {n}
       /\ e.cancelled = k /\ e.active = d.active \cup {n} /\ e.slot = d.slot /\ e.queue = d.queue
  BY <1>1 DEF EndType
<1> HIDE DEF e
<1>11. Gets(s, e)
  <2>3. Heeds(d, e)
    <3>1. n \in Nat /\ d.nextIn \in Nat /\ \A m \in Seqs : m \in Nat
      BY <1>1, <1>4, SeqsAre DEF EndType
    <3>2. \A m \in Seqs : m <= d.nextIn => m # n /\ m <= n
      BY <1>4, <3>1
    <3> HIDE DEF n
    <3> QED BY <1>8, <1>10, <3>2 DEF Heeds, Undone
  <2>4. \A m \in Seqs : f # Cancel(m)
    BY <1>2, FramesAre
  <2>1. \A m \in Seqs : e.slot[m] \in Results => work[o][m] = e.slot[m]
    BY <1>1, <1>10 DEF SlotInv
  <2>2. e.active \subseteq e.handlers /\ e.nextIn <= ep[o].nextOut
    BY <1>1, <1>4, <1>10 DEF CountInv
  <2> QED BY <1>1, <1>3, <1>7, <1>9, <1>10, <2>1, <2>2, <2>3, <2>4 DEF Gets, o, n, f
<1>12. Begins(s, e)
  <2>1. work' = [work EXCEPT ![s][n] = "running"]
    BY <1>6, <1>10
  <2> QED BY <1>4, <1>10, <2>1, RequestBegins
<1>13. Kept(s) /\ NotRead(s) /\ wire'[s] = wire[s] /\ ep'[s] = e
  BY <1>1, <1>5, <1>11, <1>12, ReadRest
<1>14. Flow(s)' = Flow(s) /\ ep'[s].nextOut = ep[s].nextOut
  BY <1>10, <1>13 DEF Flow
<1>15. FlowInv(s)' /\ (Up(s)' => Extends(s))
  BY <1>1, <1>13, <1>14, SameFlow, CutKeeps, CutExtends
<1> QED BY <1>1, <1>5, <1>11, <1>12, <1>15, ReadRest

\* A request is refused as busy.
LEMMA RefuseKeeps ==
  ASSUME IInv, NEW s \in Sides, Read(s), Stands(Other(s), 1, "request"),
         ~(Cardinality(ep[s].active) < MaxActiveCalls /\ HasRoom(ep[s]))
  PROVE  IInv'
<1> DEFINE o == Other(s)
           f == Flow(o)[1]
           d == ep[s]
           n == f.id
           g == [d EXCEPT !.nextIn = n]
           e == IF CanSend(g) THEN Enqueue(g, Response(n, "busy")) ELSE Fail(s, g, "busy")
<1>1. /\ o \in Sides /\ Other(o) = s /\ TypeInv /\ d \in EndType
      /\ FlowInv(o) /\ FlowInv(s) /\ SlotInv(o) /\ CountInv(s) /\ CountInv(o)
      /\ d.status # "protocol" /\ (d.status = "up" => d.reading) /\ d.reading
      /\ Heard(o) /\ Size(o) > 0 /\ f \in FrameType /\ Takes(s, Accepted(s, d, f))
  BY ReadIs
<1>2. f.kind = "request"
  BY DEF Stands
<1>3. d.ready = TRUE
  <2>1. ~Stands(o, 1, "hello")
    BY <1>2 DEF Stands
  <2> QED BY <1>1, <2>1, HelloFirst DEF FlowInv, EndType
<1>4. n = d.nextIn + 1 /\ n \in Seqs /\ n <= ep[o].nextOut /\ n \in Nat
  BY <1>1, RequestNext, SeqsAre DEF FlowInv
<1>5. Accepted(s, d, f) = e
  <2>1. Accepted(s, d, f) = Accept(s, d, n)
    BY <1>2, <1>3 DEF Accepted
  <2>2. Accept(s, d, n) = e
    BY <1>4 DEF Accept
  <2> QED BY <2>1, <2>2
<1>6. work' = [work EXCEPT ![s][n] = IF n \in e.handlers THEN "running"
                                     ELSE IF e.nextIn = n THEN "busy" ELSE @]
  BY <1>2, <1>5, ReadIs
<1>7. ~Stands(o, 1, "response") /\ ~Stands(o, 1, "hello") /\ Stands(o, 1, "request")
  BY <1>2 DEF Stands
<1> HIDE DEF f
<1>8. g \in EndType
  <2> HIDE DEF n
  <2> QED BY <1>1, <1>4 DEF EndType
<1>9. /\ g.status = d.status /\ g.ready = d.ready /\ g.nextOut = d.nextOut /\ g.nextIn = n
      /\ g.reading = d.reading /\ g.pending = d.pending /\ g.handlers = d.handlers
      /\ g.cancelled = d.cancelled /\ g.active = d.active /\ g.slot = d.slot /\ g.queue = d.queue
  BY <1>1 DEF EndType
<1> HIDE DEF g
<1>10. Response(n, "busy") \in FrameType /\ "busy" \in Results /\ "busy" \in Statuses \ {"up"}
  BY <1>4, FramesAre DEF Results, Statuses
<1>11. e.handlers = d.handlers /\ e.nextIn = n /\ e.nextOut = d.nextOut
  <2>1. CASE CanSend(g)
    BY <1>8, <1>9, <1>10, <2>1, EnqueueIs
  <2>2. CASE ~CanSend(g)
    BY <1>8, <1>9, <1>10, <2>2, FailIs
  <2> QED BY <2>1, <2>2
<1>12. CanSend(g) => /\ e \in EndType /\ e.status = d.status /\ e.ready = d.ready /\ e.reading = d.reading
                     /\ e.pending = d.pending /\ e.cancelled = d.cancelled /\ e.active = d.active /\ e.slot = d.slot
                     /\ e.queue = Append(d.queue, Response(n, "busy")) /\ Up(s)
  BY <1>8, <1>9, <1>10, EnqueueIs, SMTT(30) DEF CanSend, Up
<1>13. ~CanSend(g) => e.queue = d.queue
  BY <1>8, <1>9, <1>10, FailIs
<1>14. ~CanSend(g) => Gets(s, e)
  BY <1>4, <1>8, <1>9, FailGets
<1> HIDE DEF e
<1>15. CanSend(g) => Gets(s, e)
  <2>1. SUFFICES ASSUME CanSend(g) PROVE Gets(s, e)
    OBVIOUS
  <2>2. \A m \in Seqs : e.slot[m] \in Results => work[o][m] = e.slot[m]
    BY <1>1, <1>12, <2>1 DEF SlotInv
  <2>3. e.active \subseteq e.handlers /\ e.nextIn <= ep[o].nextOut
    BY <1>1, <1>4, <1>11, <1>12, <2>1 DEF CountInv
  <2>4. Heeds(d, e)
    <3>1. n \in Nat /\ d.nextIn \in Nat /\ \A m \in Seqs : m \in Nat
      BY <1>1, <1>4, SeqsAre DEF EndType
    <3>2. \A m \in Seqs : m <= d.nextIn => m <= n
      BY <1>4, <3>1
    <3> HIDE DEF n
    <3> QED BY <1>11, <1>12, <2>1, <3>2 DEF Heeds, Undone
  <2>5. \A m \in Seqs : f # Cancel(m)
    BY <1>2, FramesAre
  <2> QED BY <1>1, <1>3, <1>7, <1>11, <1>12, <2>1, <2>2, <2>3, <2>4, <2>5 DEF Gets, o, n, f
<1>16. Begins(s, e) /\ work[s][n] \notin Results /\ work'[s][n] = "busy"
  <2>1. n \notin d.handlers
    BY <1>1, <1>4 DEF CountInv, EndType
  <2>2. work' = [work EXCEPT ![s][n] = "busy"]
    BY <1>6, <1>11, <2>1
  <2>3. e.handlers = ep[s].handlers \cup (IF "busy" = "running" THEN {n} ELSE {})
    BY <1>11
  <2>4. n \in Seqs /\ n = ep[s].nextIn + 1 /\ e.nextIn = n
    BY <1>4, <1>11
  <2>5. PICK w \in {"running", "busy"} : w = "busy"
    OBVIOUS
  <2> HIDE DEF d, n
  <2>6. Begins(s, e) /\ work[s][n] \notin Results /\ work'[s][n] = w
    BY <2>2, <2>3, <2>4, <2>5, RequestBegins
  <2> QED BY <2>5, <2>6
<1>17. Kept(s) /\ NotRead(s) /\ wire'[s] = wire[s] /\ ep'[s] = e
  BY <1>1, <1>5, <1>14, <1>15, <1>16, ReadRest
<1>18. ep'[s].nextOut = ep[s].nextOut
  BY <1>11, <1>17
<1>19. FlowInv(s)' /\ (Up(s)' => Extends(s))
  <2>1. CASE CanSend(g)
    <3>1. Sent(s, Response(n, "busy")) /\ Extends(s)
      BY <1>1, <1>10, <1>12, <1>17, <2>1, QueuedLast, SentExtends
    <3> QED BY <1>1, <1>4, <1>10, <1>12, <1>16, <1>17, <1>18, <2>1, <3>1, ResponseKeeps
  <2>2. CASE ~CanSend(g)
    <3>1. Flow(s)' = Flow(s)
      BY <1>13, <1>17, <2>2 DEF Flow
    <3> QED BY <1>1, <1>17, <1>18, <3>1, SameFlow, CutKeeps, CutExtends
  <2> QED BY <2>1, <2>2
<1> QED BY <1>1, <1>5, <1>14, <1>15, <1>16, <1>19, ReadRest

\* A frame is read.
LEMMA ReadFrameKeeps ==
  ASSUME IInv, NEW s \in Sides, Read(s)
  PROVE  IInv'
<1>1. Flow(Other(s))[1].kind \in {"hello", "request", "cancel", "response"}
  BY ReadIs DEF FrameType
<1> QED BY <1>1, ReadHelloKeeps, AcceptKeeps, RefuseKeeps, ReadCancelKeeps, ReadResponseKeeps DEF Stands

-----------------------------------------------------------------------------
(* The invariant.                                                          *)

\* Both ends start with their hello queued.
LEMMA InitInv == Init => IInv
<1> SUFFICES ASSUME Init PROVE IInv
  OBVIOUS
<1>1. NewEndpoint \in EndType
  <2>1. <<Hello>> \in Seq(FrameType) /\ <<>> \in Seq(FrameType)
    BY FramesAre
  <2> QED BY <2>1 DEF NewEndpoint, EndType, Statuses
<1>2. TypeInv
  BY <1>1 DEF Init, TypeInv, PCs
<1>3. ASSUME NEW s \in Sides
      PROVE  FlowInv(s) /\ FollowInv(s) /\ SlotInv(s) /\ CountInv(s) /\ ep[s].status # "protocol"
  <2> DEFINE o == Other(s)
  <2>1. o \in Sides
    BY SidesAre
  <2>2. \A t \in {s, o} :
          /\ ep[t].status = "up" /\ ep[t].ready = FALSE /\ ep[t].reading = TRUE
          /\ ep[t].nextOut = 0 /\ ep[t].nextIn = 0 /\ ep[t].pending = {} /\ ep[t].active = {}
          /\ ep[t].handlers = {} /\ ep[t].queue = <<Hello>> /\ wire[t] = <<>>
          /\ \A n \in Seqs : ep[t].slot[n] = "none" /\ pc[t][n] = "idle" /\ work[t][n] = "none"
    BY <2>1 DEF Init, NewEndpoint
  <2>3. Flow(s) = <<Hello>> /\ Size(s) = 1 /\ Flow(s)[1] = Hello
    <3>1. <<Hello>> \in Seq(FrameType)
      BY FramesAre
    <3>2. <<>> \o <<Hello>> = <<Hello>>
      BY <3>1, ConcatEmptySeq
    <3>3. Flow(s) = <<Hello>>
      BY <2>2, <3>2 DEF Flow
    <3> QED BY <3>3 DEF Size
  <2>4. \A i \in 1..Size(s) : i = 1 /\ Flow(s)[i].kind = "hello"
    BY <2>3, FramesAre
  <2>5. HelloInv(s)
    BY <2>2, <2>3, <2>4 DEF HelloInv, Stands
  <2>6. CancelInv(s) /\ ResponseInv(s)
    BY <2>4 DEF CancelInv, ResponseInv, Stands
  <2>7. RequestInv(s)
    BY <2>2, <2>4, SeqsAre DEF RequestInv, Stands
  <2>8. PendingInv(s)
    BY <2>2, SeqsAre DEF PendingInv, Settled
  <2>9. SlotInv(s)
    BY <2>2 DEF SlotInv, Results
  <2>10. CountInv(s)
    <3>1. Bound(s) \in Nat
      BY SeqsAre
    <3> QED BY <2>2, <3>1, SeqsAre DEF CountInv
  <2>11. FollowInv(s)
    BY <2>2 DEF FollowInv
  <2> QED BY <2>2, <2>5, <2>6, <2>7, <2>8, <2>9, <2>10, <2>11 DEF FlowInv
<1> QED BY <1>2, <1>3 DEF IInv

\* The invariant holds for every number of calls and every limit: what the two ends say
\* to each other stays in order, whatever is cancelled, refused, lost or closed.
THEOREM Invariant == Spec => []IInv
<1>1. Init => IInv
  BY InitInv
<1>2. IInv /\ [Next]_vars => IInv'
  <2> SUFFICES ASSUME IInv, [Next]_vars PROVE IInv'
    OBVIOUS
  <2>1. ASSUME NEW s \in Sides, NEW p \in {0} \cup Seqs, Call(s, p) PROVE IInv'
    BY <2>1, CallKeeps
  <2>2. ASSUME NEW s \in Sides, Caller(s) PROVE IInv'
    BY <2>2, WriteReturnsKeeps, ConsumeKeeps, GiveUpWritingKeeps, GiveUpKeeps DEF Caller
  <2>3. ASSUME NEW s \in Sides, Writer(s) PROVE IInv'
    BY <2>3, WriteFrameKeeps, WriteCompletesKeeps, WriteFailsKeeps, DrainWritesKeeps DEF Writer
  <2>4. ASSUME NEW s \in Sides, Reader(s) PROVE IInv'
    BY <2>4, ReadFrameKeeps, PeerGoneKeeps, ReaderReturnsKeeps DEF Reader
  <2>5. ASSUME NEW s \in Sides, Handler(s) PROVE IInv'
    BY <2>5, AnswerKeeps, HandlerReturnsKeeps DEF Handler
  <2>6. ASSUME NEW s \in Sides, Stopper(s) PROVE IInv'
    BY <2>6, CloseKeeps, ReadyGivesUpKeeps, JoinKeeps DEF Stopper
  <2>7. CASE UNCHANGED vars
    <3>1. UNCHANGED <<ep, wire, pc, parent, work>> /\ done' \subseteq Sides
      BY <2>7 DEF vars, IInv, TypeInv
    <3> QED BY <3>1, StutterKeeps
  <2> QED BY <2>1, <2>2, <2>3, <2>4, <2>5, <2>6, <2>7 DEF Next
<1> QED BY <1>1, <1>2, PTL DEF Spec

\* Two correct endpoints never take each other's frames for a protocol violation
\* (acceptRequest, acceptResponse, acceptCancel).
THEOREM NoProtocolFailureAlways == Spec => []NoProtocolFailure
<1>1. IInv => NoProtocolFailure
  BY DEF IInv, NoProtocolFailure
<1> QED BY <1>1, Invariant, PTL

\* What is told is in the queue or on the connection.
LEMMA ToldIsThere ==
  ASSUME TypeInv, NEW s \in Sides, NEW n \in Seqs, Told(s, n)
  PROVE  Contains(ep[s].queue \o wire[s], Cancel(n))
<1> DEFINE w == wire[s]
           q == ep[s].queue
<1>1. w \in Seq(FrameType) /\ q \in Seq(FrameType)
  BY DEF TypeInv, EndType
<1>2. PICK i \in 1..Len(w \o q) : (w \o q)[i] = Cancel(n)
  BY DEF Told, Flow, Size
<1> HIDE DEF w, q
<1>3. /\ Len(w) \in Nat /\ Len(q) \in Nat /\ Len(w \o q) = Len(w) + Len(q)
      /\ \A k \in 1..Len(w) : (w \o q)[k] = w[k]
      /\ \A k \in 1..Len(q) : (w \o q)[Len(w) + k] = q[k]
  BY <1>1, ConcatAt
<1>4. /\ Len(q \o w) = Len(q) + Len(w)
      /\ \A k \in 1..Len(q) : (q \o w)[k] = q[k]
      /\ \A k \in 1..Len(w) : (q \o w)[Len(q) + k] = w[k]
  BY <1>1, ConcatAt
<1>5. PICK j \in 1..Len(q \o w) : (q \o w)[j] = Cancel(n)
  <2>1. CASE i <= Len(w)
    <3>1. i \in 1..Len(w) /\ Len(q) + i \in 1..Len(q \o w)
      BY <1>2, <1>3, <1>4, <2>1
    <3>2. (q \o w)[Len(q) + i] = Cancel(n)
      BY <1>2, <1>3, <1>4, <3>1
    <3> QED BY <3>1, <3>2
  <2>2. CASE i > Len(w)
    <3>1. PICK k \in 1..Len(q) : i = Len(w) + k
      <4>1. i - Len(w) \in 1..Len(q) /\ i = Len(w) + (i - Len(w))
        BY <1>2, <1>3, <2>2
      <4> QED BY <4>1
    <3>2. k \in 1..Len(q \o w)
      BY <1>3, <1>4, <3>1
    <3>3. (q \o w)[k] = Cancel(n)
      BY <1>2, <1>3, <1>4, <3>1
    <3> QED BY <3>2, <3>3
  <2>3. i \in Nat /\ (i <= Len(w) \/ i > Len(w))
    BY <1>3
  <2> QED BY <2>1, <2>2, <2>3
<1>6. Contains(q \o w, Cancel(n))
  BY <1>5 DEF Contains
<1> QED BY <1>6 DEF w, q

\* A caller that gave up leaves no work behind: its cancellation is on its way, or the other
\* end no longer works for it (Call: "native work cannot outlive ...").
THEOREM CancelFollowsAlways == Spec => []CancelFollows
<1>1. IInv => CancelFollows
  <2> SUFFICES ASSUME IInv, NEW s \in Sides, NEW n \in Seqs, pc[s][n] = "gaveup", Up(s), Up(Other(s))
               PROVE  \/ Contains(ep[s].queue \o wire[s], Cancel(n))
                      \/ /\ n <= ep[Other(s)].nextIn
                         /\ n \in ep[Other(s)].active => n \in ep[Other(s)].cancelled
    BY DEF CancelFollows
  <2>1. TypeInv /\ FollowInv(s)
    BY DEF IInv
  <2>2. Told(s, n) \/ Undone(ep[Other(s)], n)
    BY <2>1 DEF FollowInv
  <2> QED BY <2>1, <2>2, ToldIsThere DEF Undone
<1> QED BY <1>1, Invariant, PTL

-----------------------------------------------------------------------------
(* The bridge implements RemoteCall.                                       *)

\* What a caller has heard, and what has become of the work, as RemoteCall sees them.
Seen(x)      == IF x = "writing" THEN "waiting" ELSE x
remoteCaller == [c \in Ids |-> IF pc[c[1]][c[2]] = "writing" THEN "waiting" ELSE pc[c[1]][c[2]]]
remoteWork   == [c \in Ids |-> work[Other(c[1])][c[2]]]

\* The calls.
LEMMA IdsAre ==
  /\ \A c \in Ids : c[1] \in Sides /\ c[2] \in Seqs /\ c[2] <= Bound(c[1]) /\ c = <<c[1], c[2]>>
  /\ \A s \in Sides, n \in Seqs : n <= Bound(s) => <<s, n>> \in Ids
BY DEF Ids

\* The calls an end has made, and those whose work has begun, are calls.
LEMMA Known ==
  ASSUME IInv, NEW s \in Sides, NEW n \in Seqs
  PROVE  /\ pc[s][n] # "idle" => <<s, n>> \in Ids
         /\ work[s][n] # "none" => <<Other(s), n>> \in Ids
<1> DEFINE o == Other(s)
<1>1. o \in Sides /\ Other(o) = s
  BY SidesAre
<1>2. CountInv(s) /\ CountInv(o)
  BY <1>1 DEF IInv
<1>3. /\ ep[s].nextOut \in Nat /\ ep[o].nextOut \in Nat /\ ep[s].nextIn \in Nat
      /\ n \in Nat /\ Bound(s) \in Nat /\ Bound(o) \in Nat
  BY <1>1, SeqsAre DEF IInv, TypeInv, EndType
<1>4. ASSUME pc[s][n] # "idle" PROVE n <= Bound(s)
  BY <1>2, <1>3, <1>4 DEF CountInv
<1>5. ASSUME work[s][n] # "none" PROVE n <= Bound(o)
  <2>1. n <= ep[s].nextIn /\ ep[s].nextIn <= ep[o].nextOut /\ ep[o].nextOut <= Bound(o)
    BY <1>1, <1>2, <1>3, <1>5 DEF CountInv
  <2> QED BY <1>3, <2>1
<1> QED BY <1>1, <1>4, <1>5, IdsAre

\* A call that goes on, and work that goes on.
LEMMA CallerMoves ==
  ASSUME TypeInv, NEW s \in Sides, NEW n \in Seqs, NEW r, <<s, n>> \in Ids, Returns(s, n, r)
  PROVE  /\ remoteCaller' = [remoteCaller EXCEPT ![<<s, n>>] = Seen(r)]
         /\ remoteCaller[<<s, n>>] = Seen(pc[s][n])
<1>1. ASSUME NEW c \in Ids PROVE pc'[c[1]][c[2]] = IF c = <<s, n>> THEN r ELSE pc[c[1]][c[2]]
  <2>1. c[1] \in Sides /\ c[2] \in Seqs /\ (c = <<s, n>> <=> c[1] = s /\ c[2] = n)
    BY IdsAre
  <2> QED BY <2>1 DEF TypeInv, Returns
<1> QED BY <1>1 DEF remoteCaller, Seen

\* The work of one call moves.
LEMMA WorkMoves ==
  ASSUME TypeInv, NEW s \in Sides, NEW n \in Seqs, NEW w, <<Other(s), n>> \in Ids,
         work' = [work EXCEPT ![s][n] = w]
  PROVE  /\ remoteWork' = [remoteWork EXCEPT ![<<Other(s), n>>] = w]
         /\ remoteWork[<<Other(s), n>>] = work[s][n]
<1>1. ASSUME NEW c \in Ids
      PROVE  work'[Other(c[1])][c[2]] = IF c = <<Other(s), n>> THEN w ELSE work[Other(c[1])][c[2]]
  <2>1. c[1] \in Sides /\ c[2] \in Seqs /\ (c = <<Other(s), n>> <=> Other(c[1]) = s /\ c[2] = n)
    BY IdsAre, SidesAre
  <2>2. Other(c[1]) \in Sides
    BY <2>1, SidesAre
  <2> QED BY <2>1, <2>2 DEF TypeInv
<1>2. Other(Other(s)) = s
  BY SidesAre
<1>3. \A c \in Ids : remoteWork[c] = work[Other(c[1])][c[2]]
  BY DEF remoteWork
<1> QED BY <1>1, <1>2, <1>3 DEF remoteWork

\* What does not change.
LEMMA CallersStay == UNCHANGED pc => UNCHANGED remoteCaller
BY DEF remoteCaller
\* No work moves.
LEMMA WorkStays == UNCHANGED work => UNCHANGED remoteWork
BY DEF remoteWork

\* A caller hears of its call.
LEMMA Settles ==
  ASSUME IInv, NEW s \in Sides, NEW n \in Seqs, pc[s][n] \in {"writing", "waiting"},
         NEW r, Returns(s, n, r), UNCHANGED work,
         r \in {"gaveup", "closed"} \/ (r \in Results /\ work[Other(s)][n] = r)
  PROVE  Remote!Next
<1> DEFINE c == <<s, n>>
<1>1. c \in Ids /\ TypeInv
  BY Known DEF IInv
<1>2. remoteCaller' = [remoteCaller EXCEPT ![c] = r] /\ remoteCaller[c] = "waiting"
  BY <1>1, CallerMoves DEF Seen, Results
<1>3. remoteWork' = remoteWork /\ remoteWork[c] = work[Other(s)][n]
  BY <1>1, WorkStays DEF remoteWork
<1>4. r \in Remote!Lost \cup (Remote!Answers \cap {remoteWork[c]})
  BY <1>3 DEF Remote!Lost, Remote!Answers, Results
<1>5. Remote!Settle(c)
  BY <1>2, <1>3, <1>4 DEF Remote!Settle, remoteCaller, remoteWork
<1> QED BY <1>1, <1>5 DEF Remote!Next

\* A caller takes the answer of its work.
LEMMA TakeSettles ==
  ASSUME IInv, NEW s \in Sides, NEW n \in Seqs, pc[s][n] \in {"writing", "waiting"},
         Take(s, n), UNCHANGED work
  PROVE  Remote!Next
<1> DEFINE r == ep[s].slot[n]
<1>1. Returns(s, n, r) /\ r # "none"
  BY DEF Take
<1>2. r \in Results \cup {"closed"}
  BY <1>1 DEF IInv, TypeInv, EndType
<1>3. r \in Results => work[Other(s)][n] = r
  BY SidesAre DEF IInv, SlotInv
<1> QED BY <1>1, <1>2, <1>3, Settles

\* Every step of the bridge is one of RemoteCall, or a stutter.
LEMMA Refines == IInv /\ [Next]_vars => Remote!Next \/ UNCHANGED <<remoteCaller, remoteWork>>
<1> SUFFICES ASSUME IInv, [Next]_vars PROVE Remote!Next \/ UNCHANGED <<remoteCaller, remoteWork>>
  OBVIOUS
<1> DEFINE Goal == Remote!Next \/ UNCHANGED <<remoteCaller, remoteWork>>
<1>1. ASSUME UNCHANGED <<pc, work>> PROVE Goal
  BY <1>1, CallersStay, WorkStays
<1>2. ASSUME NEW s \in Sides, NEW p \in {0} \cup Seqs, Call(s, p) PROVE Goal
  <2>9. PICK n : n = ep[s].nextOut + 1
    OBVIOUS
  <2> DEFINE c == <<s, n>>
  <2>1. ep[s].nextOut \in Nat /\ n \in Nat /\ n <= Bound(s) /\ Returns(s, n, "writing") /\ UNCHANGED work
    BY <1>2, <2>9 DEF Call, IInv, TypeInv, EndType
  <2>2. n \in Seqs /\ n > ep[s].nextOut
    BY <2>1, <2>9, SeqsAre
  <2>3. pc[s][n] = "idle"
    BY <2>2 DEF IInv, CountInv
  <2>4. c \in Ids
    BY <2>1, <2>2, IdsAre
  <2>5. remoteCaller' = [remoteCaller EXCEPT ![c] = "waiting"] /\ remoteCaller[c] = "idle"
    BY <2>1, <2>2, <2>3, <2>4, CallerMoves DEF Seen, IInv
  <2>6. UNCHANGED remoteWork
    BY <2>1, WorkStays
  <2>7. Remote!Make(c)
    BY <2>5, <2>6 DEF Remote!Make, remoteCaller, remoteWork
  <2>8. Remote!Next
    BY <2>4, <2>7 DEF Remote!Next
  <2> QED BY <2>8
<1>3. ASSUME NEW s \in Sides, NEW n \in Seqs, WriteReturns(s, n) PROVE Goal
  <2>1. pc[s][n] = "writing" /\ Returns(s, n, "waiting") /\ UNCHANGED work
    BY <1>3 DEF WriteReturns
  <2>2. <<s, n>> \in Ids
    BY <2>1, Known
  <2>3. remoteCaller' = [remoteCaller EXCEPT ![<<s, n>>] = "waiting"] /\ remoteCaller[<<s, n>>] = "waiting"
    BY <2>1, <2>2, CallerMoves DEF Seen, IInv
  <2>4. UNCHANGED remoteCaller
    BY <2>3 DEF remoteCaller
  <2> QED BY <2>1, <2>4, WorkStays
<1>4. ASSUME NEW s \in Sides, NEW n \in Seqs, Consume(s, n) PROVE Goal
  BY <1>4, TakeSettles DEF Consume
<1>5. ASSUME NEW s \in Sides, NEW n \in Seqs, GiveUpWriting(s, n) PROVE Goal
  <2>1. UNCHANGED work /\ pc[s][n] = "writing" /\ (Take(s, n) \/ Returns(s, n, "gaveup"))
    BY <1>5 DEF GiveUpWriting
  <2> QED BY <2>1, TakeSettles, Settles
<1>6. ASSUME NEW s \in Sides, NEW n \in Seqs, GiveUp(s, n) PROVE Goal
  <2>1. UNCHANGED work /\ pc[s][n] = "waiting" /\ Returns(s, n, "gaveup")
    BY <1>6 DEF GiveUp
  <2> QED BY <2>1, Settles
<1>7. ASSUME NEW s \in Sides, Read(s) PROVE Goal
  <2> DEFINE o == Other(s)
  <2>4. PICK n : n = Flow(o)[1].id
    OBVIOUS
  <2>1. UNCHANGED pc /\ UNCHANGED remoteCaller
    BY <1>7, CallersStay DEF Read
  <2>2. CASE ~Stands(o, 1, "request")
    <3>1. UNCHANGED work
      BY <1>7, <2>2, ReadIs DEF Stands
    <3> QED BY <2>1, <3>1, WorkStays
  <2>3. CASE Stands(o, 1, "request")
    <3>1. /\ o \in Sides /\ Other(o) = s /\ TypeInv /\ FlowInv(o) /\ CountInv(s) /\ CountInv(o)
          /\ Heard(o) /\ Size(o) > 0
      BY <1>7, ReadIs
    <3>2. n = ep[s].nextIn + 1 /\ n \in Seqs /\ n <= ep[o].nextOut
      BY <2>3, <2>4, <3>1, RequestNext DEF FlowInv
    <3>3. n \in Nat /\ ep[s].nextIn \in Nat /\ ep[o].nextOut \in Nat
      BY <3>1, <3>2, SeqsAre DEF TypeInv, EndType
    <3>4. PICK w \in {"running", "busy", work[s][n]} : work' = [work EXCEPT ![s][n] = w]
      <4> DEFINE e == Accepted(s, ep[s], Flow(o)[1])
      <4>1. work' = [work EXCEPT ![s][n] = IF n \in e.handlers THEN "running"
                                           ELSE IF e.nextIn = n THEN "busy" ELSE work[s][n]]
        BY <1>7, <2>3, <2>4, <3>1, <3>2, ReadIs DEF Stands, TypeInv
      <4> HIDE DEF e
      <4> QED BY <4>1
    <3>5. work[s][n] = "none" /\ pc[o][n] # "idle"
      BY <3>1, <3>2, <3>3 DEF CountInv
    <3>6. <<o, n>> \in Ids /\ o = Other(s)
      BY <3>1, <3>2, <3>5, Known
    <3>7. /\ remoteWork' = [remoteWork EXCEPT ![<<o, n>>] = w] /\ remoteWork[<<o, n>>] = "none"
      <4>1. <<Other(s), n>> \in Ids /\ n \in Seqs /\ TypeInv
        BY <3>1, <3>2, <3>6
      <4>2. /\ remoteWork' = [remoteWork EXCEPT ![<<Other(s), n>>] = w]
            /\ remoteWork[<<Other(s), n>>] = work[s][n]
        BY <3>4, <4>1, WorkMoves
      <4> QED BY <3>5, <4>2
    <3>8. remoteCaller[<<o, n>>] # "idle"
      BY <3>5, <3>6 DEF remoteCaller
    <3>9. CASE w = work[s][n]
      <4>1. UNCHANGED work
        BY <3>1, <3>2, <3>4, <3>9 DEF TypeInv
      <4> QED BY <2>1, <4>1, WorkStays
    <3>10. CASE w \in {"running", "busy"}
      <4>1. Remote!Begin(<<o, n>>)
        BY <2>1, <3>7, <3>8, <3>10 DEF Remote!Begin, remoteCaller, remoteWork
      <4>2. Remote!Next
        BY <3>6, <4>1 DEF Remote!Next
      <4> QED BY <4>2
    <3> QED BY <3>4, <3>9, <3>10
  <2> QED BY <2>2, <2>3
<1>8. ASSUME NEW s \in Sides, NEW n \in Seqs, Answer(s, n) PROVE Goal
  <2>1. PICK r \in Outcomes : work' = [work EXCEPT ![s][n] = r]
    BY <1>8 DEF Answer
  <2>2. work[s][n] = "running" /\ UNCHANGED pc /\ r \in {"ok", "error"}
    BY <1>8, BridgeAssumption DEF Answer
  <2>3. <<Other(s), n>> \in Ids
    BY <2>2, Known
  <2>4. /\ remoteWork' = [remoteWork EXCEPT ![<<Other(s), n>>] = r]
        /\ remoteWork[<<Other(s), n>>] = "running" /\ UNCHANGED remoteCaller
    <3>1. TypeInv
      BY DEF IInv
    <3>2. UNCHANGED remoteCaller
      BY <2>2, CallersStay
    <3> QED BY <2>1, <2>2, <2>3, <3>1, <3>2, WorkMoves
  <2>5. Remote!End(<<Other(s), n>>)
    BY <2>2, <2>4 DEF Remote!End, remoteCaller, remoteWork
  <2> QED BY <2>3, <2>5 DEF Remote!Next
<1>9. ASSUME NEW s \in Sides, NEW n \in Seqs, HandlerReturns(s, n) PROVE Goal
  BY <1>1, <1>9 DEF HandlerReturns
<1>10. ASSUME NEW s \in Sides, Writer(s) PROVE Goal
  BY <1>1, <1>10 DEF Writer, WriteFrame, WriteCompletes, WriteFails, DrainWrites
<1>11. ASSUME NEW s \in Sides, PeerGone(s) \/ ReaderReturns(s) PROVE Goal
  BY <1>1, <1>11 DEF PeerGone, ReaderReturns
<1>12. ASSUME NEW s \in Sides, Stopper(s) PROVE Goal
  BY <1>1, <1>12 DEF Stopper, Close, ReadyGivesUp, Join
<1>13. ASSUME UNCHANGED vars PROVE Goal
  BY <1>1, <1>13 DEF vars
<1> HIDE DEF Goal
<1>14. ASSUME NEW s \in Sides, Caller(s) \/ Reader(s) \/ Handler(s) PROVE Goal
  BY <1>3, <1>4, <1>5, <1>6, <1>7, <1>8, <1>9, <1>11, <1>14 DEF Caller, Reader, Handler
<1>15. Goal
  BY <1>2, <1>10, <1>12, <1>13, <1>14 DEF Next
<1> QED BY <1>15 DEF Goal

\* Every call at either end is performed at most once and answered once, with the answer of
\* its own work, or is lost: the bridge implements the calls that RemoteCall specifies.
THEOREM ImplementsRemoteCallAlways == Spec => ImplementsRemoteCall
<1>1. Init => Remote!Init
  BY IdsAre, SidesAre DEF Init, Remote!Init
<1>2. IInv /\ [Next]_vars => [Remote!Next]_<<[c \in Ids |-> IF pc[c[1]][c[2]] = "writing" THEN "waiting"
                                                            ELSE pc[c[1]][c[2]]],
                               [c \in Ids |-> work[Other(c[1])][c[2]]]>>
  BY Refines DEF remoteCaller, remoteWork
<1> QED BY <1>1, <1>2, Invariant, PTL DEF Spec, ImplementsRemoteCall, Remote!Spec

-----------------------------------------------------------------------------
(* The limits, and the bytes that are retained.                            *)

\* Answers that wait in their slots, and frames that wait for the writer.
Filled(e) == {n \in Seqs : e.slot[n] \in Results}
Load(e)   == Len(e.queue) + Len(e.flushing)

\* The limits of BridgeLimits; what the retained bytes are; and the calls c of the end that
\* still wait for an answer, each with its entry in the pending table.
Limits(e) ==
  /\ Cardinality(e.pending) <= MaxPendingCalls /\ Cardinality(e.active) <= MaxActiveCalls
  /\ Load(e) <= MaxPendingWrites /\ e.retained + Load(e) <= MaxRetained
Exact(e) == e.retained = Cardinality(e.active) + Cardinality(Filled(e))
Entry(e, c) == \A n \in Seqs :
  /\ n \in e.abandoned => n \in e.pending
  /\ n \in e.pending => e.slot[n] = "none" /\ n <= e.nextOut
  /\ e.slot[n] # "none" => n <= e.nextOut
  /\ c[n] \in {"writing", "waiting"} /\ e.slot[n] = "none" => n \in e.pending \ e.abandoned
Bounded(e, c) == Limits(e) /\ Exact(e) /\ Entry(e, c)
BoundInv == \A s \in Sides : Bounded(ep[s], pc[s])

\* The limits are positive numbers.
LEMMA LimitsAre ==
  /\ MaxPendingCalls \in Nat /\ MaxActiveCalls \in Nat /\ MaxPendingWrites \in Nat /\ MaxRetained \in Nat
  /\ MaxPendingWrites > 0 /\ MaxRetained > 0
BY BridgeAssumption

\* The sizes of what an endpoint holds.
LEMMA SizesAre ==
  ASSUME NEW e \in EndType
  PROVE  /\ Len(e.queue) \in Nat /\ Len(e.flushing) \in Nat /\ Load(e) \in Nat
         /\ Len(Writes(e)) = Load(e) /\ e.retained \in Int
         /\ IsFiniteSet(e.pending) /\ Cardinality(e.pending) \in Nat
         /\ IsFiniteSet(e.active) /\ Cardinality(e.active) \in Nat
         /\ IsFiniteSet(Filled(e)) /\ Cardinality(Filled(e)) \in Nat
<1>1. e.queue \in Seq(FrameType) /\ e.flushing \in Seq(FrameType) /\ e.retained \in Int
      /\ e.pending \in SUBSET Seqs /\ e.active \in SUBSET Seqs
  BY DEF EndType
<1>2. Len(e.queue) \in Nat /\ Len(e.flushing) \in Nat /\ Len(Writes(e)) = Load(e)
  BY <1>1, ConcatAt DEF Writes, Load
<1>3. Filled(e) \in SUBSET Seqs
  <2>1. \A n \in Filled(e) : n \in Seqs
    BY DEF Filled
  <2> QED BY <2>1
<1>4. /\ IsFiniteSet(e.pending) /\ Cardinality(e.pending) \in Nat
      /\ IsFiniteSet(e.active) /\ Cardinality(e.active) \in Nat
  BY <1>1, IdSets
<1>5. IsFiniteSet(Filled(e)) /\ Cardinality(Filled(e)) \in Nat
  BY <1>3, IdSets
<1>6. Load(e) \in Nat
  <2>1. PICK a, b : a = Len(e.queue) /\ b = Len(e.flushing)
    OBVIOUS
  <2>2. a \in Nat /\ b \in Nat
    BY <1>2, <2>1
  <2>3. a + b \in Nat
    BY <2>2
  <2> QED BY <2>1, <2>3 DEF Load
<1> QED BY <1>1, <1>2, <1>4, <1>5, <1>6

\* What an endpoint has room for, in numbers.
LEMMA RoomIs ==
  ASSUME NEW e \in EndType
  PROVE  /\ HasRoom(e) <=> e.retained + Load(e) < MaxRetained
         /\ CanSend(e) <=> /\ e.status = "up" /\ Load(e) < MaxPendingWrites
                           /\ e.retained + Load(e) < MaxRetained
BY SizesAre DEF HasRoom, CanSend, CanWrite

\* What an endpoint's limits are about.
LEMMA SameBounded ==
  ASSUME NEW c, NEW d, NEW e, Bounded(d, c),
         e.pending = d.pending, e.abandoned = d.abandoned, e.slot = d.slot, e.active = d.active,
         e.retained = d.retained, e.queue = d.queue, e.flushing = d.flushing, e.nextOut = d.nextOut
  PROVE  Bounded(e, c)
BY DEF Bounded, Limits, Exact, Entry, Filled, Load

\* An endpoint that stops keeps no entry and answers those that wait.
LEMMA StopBounded ==
  ASSUME NEW s \in Sides, NEW c, NEW d \in EndType, NEW why, Bounded(d, c)
  PROVE  Bounded(Stop(s, d, why), c)
<1>1. CASE d.status # "up"
  BY <1>1 DEF Stop
<1>2. CASE d.status = "up"
  <2> DEFINE sl == [n \in Seqs |-> IF n \in d.pending \ d.abandoned THEN "closed" ELSE d.slot[n]]
             a == IF s = "host" THEN {} ELSE d.active
             t == IF s = "host" THEN d.retained - Cardinality(d.active) ELSE d.retained
             r == d.reading /\ s = "host"
             e == [d EXCEPT !.status = why, !.reading = r, !.pending = {}, !.abandoned = {},
                            !.slot = sl, !.cancelled = d.cancelled \cup d.active, !.active = a,
                            !.retained = t]
  <2>1. Stop(s, d, why) = e
    BY <1>2 DEF Stop
  <2>2. /\ Limits(d) /\ Exact(d) /\ Entry(d, c)
        /\ Load(d) \in Nat /\ d.retained \in Int
        /\ Cardinality(d.active) \in Nat /\ Cardinality(Filled(d)) \in Nat
    BY SizesAre DEF Bounded
  <2>3. \A n \in Seqs : sl[n] = IF n \in d.pending \ d.abandoned THEN "closed" ELSE d.slot[n]
    OBVIOUS
  <2>4. Cardinality({}) = 0
    BY FS_EmptySet
  <2>5. /\ Cardinality(a) \in Nat /\ t \in Int /\ t <= d.retained
        /\ Cardinality(a) <= Cardinality(d.active)
        /\ t = Cardinality(a) + Cardinality(Filled(d))
    BY <2>2, <2>4 DEF Exact
  <2> HIDE DEF sl, a, t, r
  <2>6. /\ e.pending = {} /\ e.abandoned = {} /\ e.slot = sl /\ e.active = a /\ e.retained = t
        /\ e.queue = d.queue /\ e.flushing = d.flushing /\ e.nextOut = d.nextOut
    BY DEF EndType
  <2> HIDE DEF e
  <2>7. Filled(e) = Filled(d)
    BY <2>2, <2>3, <2>6 DEF Filled, Entry, Results
  <2>8. Load(e) = Load(d)
    BY <2>6 DEF Load
  <2>9. Limits(e)
    BY <2>2, <2>4, <2>5, <2>6, <2>8, LimitsAre DEF Limits
  <2>10. Exact(e)
    BY <2>5, <2>6, <2>7 DEF Exact
  <2>11. Entry(e, c)
    BY <2>2, <2>3, <2>6 DEF Entry
  <2> QED BY <2>1, <2>9, <2>10, <2>11 DEF Bounded
<1> QED BY <1>1, <1>2

\* So does one whose reader refuses a frame.
LEMMA FailBounded ==
  ASSUME NEW s \in Sides, NEW c, NEW d \in EndType, NEW why \in Statuses \ {"up"}, Bounded(d, c)
  PROVE  Bounded(Fail(s, d, why), c)
<1> DEFINE g == Stop(s, d, why)
           e == [g EXCEPT !.reading = FALSE]
<1>1. g \in EndType /\ Bounded(g, c)
  BY StopIs, StopBounded DEF Stopped
<1> HIDE DEF g
<1>2. /\ e.pending = g.pending /\ e.abandoned = g.abandoned /\ e.slot = g.slot /\ e.active = g.active
      /\ e.retained = g.retained /\ e.queue = g.queue /\ e.flushing = g.flushing /\ e.nextOut = g.nextOut
  BY <1>1 DEF EndType
<1>3. e = Fail(s, d, why)
  BY DEF Fail, g
<1> HIDE DEF e
<1> QED BY <1>1, <1>2, <1>3, SameBounded

\* A frame is queued where there is room for it.
LEMMA SendBounded ==
  ASSUME NEW c, NEW d \in EndType, NEW f \in FrameType, Bounded(d, c), CanSend(d)
  PROVE  Bounded(Enqueue(d, f), c)
<1> DEFINE e == Enqueue(d, f)
<1>1. /\ e \in EndType /\ e.queue = Append(d.queue, f)
      /\ e.pending = d.pending /\ e.abandoned = d.abandoned /\ e.slot = d.slot /\ e.active = d.active
      /\ e.retained = d.retained /\ e.flushing = d.flushing /\ e.nextOut = d.nextOut
  BY EnqueueIs
<1> HIDE DEF e
<1>2. Len(Append(d.queue, f)) = Len(d.queue) + 1
  BY AppendProperties DEF EndType
<1>3. /\ Load(d) \in Nat /\ Load(e) = Load(d) + 1 /\ d.retained \in Int
      /\ Load(d) < MaxPendingWrites /\ d.retained + Load(d) < MaxRetained
  <2>1. Len(d.queue) \in Nat /\ Len(d.flushing) \in Nat /\ Load(d) \in Nat /\ d.retained \in Int
    BY SizesAre
  <2>2. Load(e) = Load(d) + 1
    <3>1. PICK a, b : a = Len(d.queue) /\ b = Len(d.flushing)
      OBVIOUS
    <3>2. Load(e) = (a + 1) + b /\ Load(d) = a + b
      BY <1>1, <1>2, <3>1 DEF Load
    <3>3. a \in Nat /\ b \in Nat
      BY <2>1, <3>1
    <3> QED BY <3>2, <3>3
  <2>3. Load(d) < MaxPendingWrites /\ d.retained + Load(d) < MaxRetained
    BY RoomIs
  <2> QED BY <2>1, <2>2, <2>3
<1>4. Limits(e)
  BY <1>1, <1>3, LimitsAre DEF Limits, Bounded
<1>5. Exact(e) /\ Entry(e, c)
  BY <1>1 DEF Exact, Entry, Filled, Bounded
<1> QED BY <1>4, <1>5 DEF Bounded, e

\* A caller that gives up has an entry to abandon.
LEMMA AbandonBounded ==
  ASSUME IInv, BoundInv, NEW s \in Sides, NEW n \in Seqs, pc[s][n] \in {"writing", "waiting"},
         ep[s].slot[n] = "none", Returns(s, n, "gaveup")
  PROVE  Bounded(Abandons(s, n), pc'[s])
<1> DEFINE d == ep[s]
           e == Abandons(s, n)
<1>1. TypeInv /\ d \in EndType /\ Bounded(d, pc[s])
  BY EndsAre DEF BoundInv
<1>2. /\ e.abandoned = d.abandoned \cup {n}
      /\ e.pending = d.pending /\ e.slot = d.slot /\ e.active = d.active
      /\ e.retained = d.retained /\ e.queue = d.queue /\ e.flushing = d.flushing /\ e.nextOut = d.nextOut
  BY <1>1 DEF Abandons, EndType
<1>3. \A m \in Seqs : pc'[s][m] = IF m = n THEN "gaveup" ELSE pc[s][m]
  BY <1>1, ReturnsIs DEF PCs
<1> HIDE DEF e
<1>4. Entry(e, pc'[s])
  BY <1>1, <1>2, <1>3 DEF Entry, Bounded
<1>5. Limits(e) /\ Exact(e)
  BY <1>1, <1>2 DEF Bounded, Limits, Exact, Filled, Load
<1> QED BY <1>4, <1>5 DEF Bounded, e

\* A step of one end leaves the other's limits alone.
LEMMA OneBounded ==
  ASSUME IInv, BoundInv, NEW s \in Sides, NEW e, Set(s, e), pc'[Other(s)] = pc[Other(s)], Bounded(e, pc'[s])
  PROVE  BoundInv'
<1>1. ep'[s] = e /\ ep'[Other(s)] = ep[Other(s)]
  BY SidesAre DEF IInv, TypeInv, Set
<1> QED BY <1>1, SidesAre DEF BoundInv
\* The end that takes a step, and what it may say of the two ends.
LEMMA BothAre ==
  ASSUME IInv, BoundInv, NEW s \in Sides
  PROVE  /\ TypeInv /\ ep[s] \in EndType /\ Bounded(ep[s], pc[s]) /\ pc[s] \in [Seqs -> PCs]
         /\ CountInv(s) /\ \A m \in Seqs : m \in Nat
BY EndsAre, SeqsAre DEF BoundInv, TypeInv

\* A step that moves no call.
LEMMA QuietBounded ==
  ASSUME IInv, BoundInv, NEW s \in Sides, NEW e, Set(s, e), UNCHANGED pc, Bounded(e, pc[s])
  PROVE  BoundInv'
BY OneBounded

\* The write of a request is reported to its caller.
LEMMA WriteReturnsBounded ==
  ASSUME IInv, BoundInv, NEW s \in Sides, NEW n \in Seqs, WriteReturns(s, n)
  PROVE  BoundInv'
<1>1. /\ TypeInv /\ Bounded(ep[s], pc[s]) /\ pc[s][n] = "writing" /\ UNCHANGED ep
      /\ Returns(s, n, "waiting") /\ "waiting" \in PCs
  BY BothAre DEF WriteReturns, PCs
<1>2. /\ pc'[Other(s)] = pc[Other(s)]
      /\ \A m \in Seqs : pc'[s][m] = IF m = n THEN "waiting" ELSE pc[s][m]
  BY <1>1, ReturnsIs
<1>3. \A m \in Seqs : pc'[s][m] \in {"writing", "waiting"} => pc[s][m] \in {"writing", "waiting"}
  BY <1>1, <1>2
<1>4. Entry(ep[s], pc'[s])
  BY <1>1, <1>3 DEF Bounded, Entry
<1>5. Bounded(ep[s], pc'[s])
  BY <1>1, <1>4 DEF Bounded
<1>6. ep'[s] = ep[s] /\ ep'[Other(s)] = ep[Other(s)]
  BY <1>1
<1> QED BY <1>2, <1>5, <1>6, SidesAre DEF BoundInv

\* An answer is taken: the slot is empty, and the bytes it held are free.
LEMMA TakeBounded ==
  ASSUME IInv, BoundInv, NEW s \in Sides, NEW n \in Seqs, Take(s, n)
  PROVE  BoundInv'
<1> DEFINE d == ep[s]
           r == d.slot[n]
           sl == [d.slot EXCEPT ![n] = "none"]
           k == IF r \in Results THEN d.retained - 1 ELSE d.retained
           e == [d EXCEPT !.slot = sl, !.retained = k]
<1>1. /\ TypeInv /\ d \in EndType /\ Bounded(d, pc[s]) /\ CountInv(s)
      /\ r # "none" /\ Returns(s, n, r) /\ Set(s, e)
  BY BothAre DEF Take
<1>2. r \in Results \cup {"closed"} /\ r \in PCs
  BY <1>1 DEF EndType, PCs
<1>3. /\ pc'[Other(s)] = pc[Other(s)]
      /\ \A m \in Seqs : pc'[s][m] = IF m = n THEN r ELSE pc[s][m]
  BY <1>1, <1>2, ReturnsIs
<1>4. \A m \in Seqs : sl[m] = IF m = n THEN "none" ELSE d.slot[m]
  BY <1>1 DEF EndType
<1>5. Limits(d) /\ Exact(d) /\ Entry(d, pc[s])
  BY <1>1 DEF Bounded
<1>6. /\ Load(d) \in Nat /\ d.retained \in Int /\ Cardinality(d.active) \in Nat
      /\ IsFiniteSet(Filled(d)) /\ Cardinality(Filled(d)) \in Nat
  BY <1>1, SizesAre
<1>7. k = Cardinality(d.active) + Cardinality(Filled(d) \ {n}) /\ k <= d.retained
  <2>1. CASE r \in Results
    <3>1. n \in Filled(d)
      BY <2>1 DEF Filled
    <3>2. Cardinality(Filled(d) \ {n}) = Cardinality(Filled(d)) - 1
      BY <1>6, <3>1, FS_RemoveElement
    <3> QED BY <1>5, <1>6, <2>1, <3>2 DEF Exact
  <2>2. CASE r \notin Results
    <3>1. Filled(d) \ {n} = Filled(d)
      BY <2>2 DEF Filled
    <3>2. k = d.retained
      BY <2>2
    <3>3. d.retained = Cardinality(d.active) + Cardinality(Filled(d) \ {n})
      BY <1>5, <3>1 DEF Exact
    <3> HIDE DEF k, d
    <3> QED BY <1>6, <3>2, <3>3
  <2> QED BY <2>1, <2>2
<1> HIDE DEF sl, k
<1>8. /\ e.pending = d.pending /\ e.abandoned = d.abandoned /\ e.slot = sl /\ e.active = d.active
      /\ e.retained = k /\ e.queue = d.queue /\ e.flushing = d.flushing /\ e.nextOut = d.nextOut
  BY <1>1 DEF EndType
<1>9. Set(s, e)
  BY <1>1
<1> HIDE DEF e
<1>10. Filled(e) = Filled(d) \ {n}
  BY <1>4, <1>8 DEF Filled, Results
<1>11. Load(e) = Load(d)
  BY <1>8 DEF Load
<1>12. Exact(e)
  BY <1>7, <1>8, <1>10 DEF Exact
<1>13. Limits(e)
  <2>1. k \in Int
    BY <1>6 DEF k
  <2>2. d.retained + Load(d) <= MaxRetained => k + Load(d) <= MaxRetained
    BY <1>6, <1>7, <2>1, LimitsAre
  <2> QED BY <1>5, <1>8, <1>11, <2>2 DEF Limits
<1>14. Entry(e, pc'[s])
  BY <1>2, <1>3, <1>4, <1>5, <1>8 DEF Entry, Results
<1> QED BY <1>3, <1>9, <1>12, <1>13, <1>14, OneBounded DEF Bounded
\* A caller that gives up before its request is written stops the endpoint.
LEMMA GiveUpWritingBounded ==
  ASSUME IInv, BoundInv, NEW s \in Sides, NEW n \in Seqs, GiveUpWriting(s, n)
  PROVE  BoundInv'
<1>1. CASE Take(s, n)
  BY <1>1, TakeBounded
<1>2. CASE /\ ep[s].slot[n] = "none" /\ Returns(s, n, "gaveup")
           /\ Set(s, Stop(s, Abandons(s, n), "gaveup"))
  <2>1. Bounded(Abandons(s, n), pc'[s]) /\ Abandons(s, n) \in EndType
    BY <1>2, AbandonBounded, AbandonIs DEF GiveUpWriting
  <2>2. pc'[Other(s)] = pc[Other(s)]
    BY <1>2, BothAre, ReturnsIs DEF PCs
  <2>3. Bounded(Stop(s, Abandons(s, n), "gaveup"), pc'[s])
    BY <2>1, StopBounded
  <2> QED BY <1>2, <2>2, <2>3, OneBounded
<1> QED BY <1>1, <1>2 DEF GiveUpWriting, Abandons

\* A caller that gives up later sends a cancellation, or stops the endpoint.
LEMMA GiveUpBounded ==
  ASSUME IInv, BoundInv, NEW s \in Sides, NEW n \in Seqs, GiveUp(s, n)
  PROVE  BoundInv'
<1> DEFINE e == Abandons(s, n)
<1>1. /\ pc[s][n] = "waiting" /\ ep[s].slot[n] = "none" /\ Returns(s, n, "gaveup")
      /\ Set(s, IF CanSend(e) THEN Enqueue(e, Cancel(n)) ELSE Stop(s, e, "busy"))
  BY DEF GiveUp, Abandons
<1>2. Bounded(e, pc'[s]) /\ e \in EndType
  BY <1>1, AbandonBounded, AbandonIs
<1>3. pc'[Other(s)] = pc[Other(s)]
  BY <1>1, BothAre, ReturnsIs DEF PCs
<1> HIDE DEF e
<1>4. CASE CanSend(e)
  <2>1. Bounded(Enqueue(e, Cancel(n)), pc'[s])
    BY <1>2, <1>4, SendBounded, FramesAre
  <2> QED BY <1>1, <1>3, <1>4, <2>1, OneBounded
<1>5. CASE ~CanSend(e)
  <2>1. Bounded(Stop(s, e, "busy"), pc'[s])
    BY <1>2, StopBounded
  <2> QED BY <1>1, <1>3, <1>5, <2>1, OneBounded
<1> QED BY <1>4, <1>5

\* An endpoint that stops, with nothing else changed.
LEMMA StopsBounded ==
  ASSUME IInv, BoundInv, NEW s \in Sides, NEW why, Set(s, Stop(s, ep[s], why)), UNCHANGED pc
  PROVE  BoundInv'
<1>1. Bounded(Stop(s, ep[s], why), pc[s])
  BY BothAre, StopBounded
<1> QED BY <1>1, QuietBounded

\* The frames that a writer has not completed are no more than before.
LEMMA FewerWrites ==
  ASSUME NEW c, NEW d \in EndType, NEW e, Bounded(d, c), Load(e) <= Load(d), Load(e) \in Nat,
         e.pending = d.pending, e.abandoned = d.abandoned, e.slot = d.slot, e.active = d.active,
         e.retained = d.retained, e.nextOut = d.nextOut
  PROVE  Bounded(e, c)
<1>1. Load(d) \in Nat /\ d.retained \in Int
  BY SizesAre
<1>2. Load(e) <= MaxPendingWrites /\ e.retained + Load(e) <= MaxRetained
  BY <1>1, LimitsAre DEF Bounded, Limits
<1>3. Limits(e)
  BY <1>2 DEF Bounded, Limits
<1>4. Exact(e) /\ Entry(e, c)
  BY DEF Bounded, Exact, Entry, Filled
<1> QED BY <1>3, <1>4 DEF Bounded

\* The writer takes a frame in hand: it waits no longer in the queue, and is not completed yet.
LEMMA WriteFrameBounded ==
  ASSUME IInv, BoundInv, NEW s \in Sides, WriteFrame(s)
  PROVE  BoundInv'
<1> DEFINE d == ep[s]
           q == Tail(d.queue)
           w == Append(d.flushing, Head(d.queue))
           e == [d EXCEPT !.queue = q, !.flushing = w]
<1>1. /\ d \in EndType /\ Bounded(d, pc[s]) /\ d.queue # <<>> /\ UNCHANGED pc
  BY BothAre DEF WriteFrame
<1>2. d.queue \in Seq(FrameType) /\ d.flushing \in Seq(FrameType) /\ Head(d.queue) \in FrameType
  BY <1>1, HeadTailProperties DEF EndType
<1>3. Len(q) = Len(d.queue) - 1 /\ Len(w) = Len(d.flushing) + 1
  BY <1>1, <1>2, HeadTailProperties, AppendProperties
<1>4. Set(s, e)
  BY <1>1 DEF WriteFrame, EndType
<1> HIDE DEF q, w
<1>5. /\ e.pending = d.pending /\ e.abandoned = d.abandoned /\ e.slot = d.slot /\ e.active = d.active
      /\ e.retained = d.retained /\ e.queue = q /\ e.flushing = w /\ e.nextOut = d.nextOut
  BY <1>1 DEF EndType
<1> HIDE DEF e
<1>6. Load(d) \in Nat /\ Load(e) = Load(d)
  <2>1. PICK a, b : a = Len(d.queue) /\ b = Len(d.flushing)
    OBVIOUS
  <2>2. a \in Nat /\ b \in Nat /\ Load(d) \in Nat
    BY <1>1, <2>1, SizesAre
  <2>3. Load(e) = (a - 1) + (b + 1) /\ Load(d) = a + b
    BY <1>3, <1>5, <2>1 DEF Load
  <2> QED BY <2>2, <2>3
<1>7. Load(e) <= Load(d) /\ Load(e) \in Nat
  BY <1>6
<1>8. Bounded(e, pc[s])
  BY <1>1, <1>5, <1>7, FewerWrites
<1> QED BY <1>1, <1>4, <1>8, QuietBounded

\* A write completes.
LEMMA WriteCompletesBounded ==
  ASSUME IInv, BoundInv, NEW s \in Sides, WriteCompletes(s)
  PROVE  BoundInv'
<1> DEFINE d == ep[s]
           w == Tail(d.flushing)
           e == [d EXCEPT !.flushing = w]
<1>1. /\ d \in EndType /\ Bounded(d, pc[s]) /\ d.flushing # <<>> /\ UNCHANGED pc /\ Set(s, e)
  BY BothAre DEF WriteCompletes
<1>2. Len(w) = Len(d.flushing) - 1
  BY <1>1, HeadTailProperties DEF EndType
<1> HIDE DEF w
<1>3. /\ e.pending = d.pending /\ e.abandoned = d.abandoned /\ e.slot = d.slot /\ e.active = d.active
      /\ e.retained = d.retained /\ e.queue = d.queue /\ e.flushing = w /\ e.nextOut = d.nextOut
  BY <1>1 DEF EndType
<1> HIDE DEF e
<1>4. Load(e) <= Load(d) /\ Load(e) \in Nat
  <2>1. PICK a, b : a = Len(d.queue) /\ b = Len(d.flushing)
    OBVIOUS
  <2>2. a \in Nat /\ b \in Nat /\ b > 0
    <3>1. Len(d.flushing) # 0
      BY <1>1, EmptySeq DEF EndType
    <3> QED BY <1>1, <2>1, <3>1, SizesAre
  <2>3. Load(e) = a + (b - 1) /\ Load(d) = a + b
    BY <1>2, <1>3, <2>1 DEF Load
  <2> QED BY <2>2, <2>3
<1>5. Bounded(e, pc[s])
  BY <1>1, <1>3, <1>4, FewerWrites
<1> QED BY <1>1, <1>5, QuietBounded

\* The writes of a stopped endpoint all complete.
LEMMA DrainWritesBounded ==
  ASSUME IInv, BoundInv, NEW s \in Sides, DrainWrites(s)
  PROVE  BoundInv'
<1> DEFINE d == ep[s]
           e == [d EXCEPT !.queue = <<>>, !.flushing = <<>>]
<1>1. /\ d \in EndType /\ Bounded(d, pc[s]) /\ UNCHANGED pc /\ Set(s, e)
  BY BothAre DEF DrainWrites
<1>2. /\ e.pending = d.pending /\ e.abandoned = d.abandoned /\ e.slot = d.slot /\ e.active = d.active
      /\ e.retained = d.retained /\ e.queue = <<>> /\ e.flushing = <<>> /\ e.nextOut = d.nextOut
  BY <1>1 DEF EndType
<1> HIDE DEF e
<1>3. Load(e) <= Load(d) /\ Load(e) \in Nat
  <2>1. Load(e) = 0
    BY <1>2 DEF Load
  <2>2. Load(d) \in Nat
    BY <1>1, SizesAre
  <2> QED BY <2>1, <2>2
<1>4. Bounded(e, pc[s])
  BY <1>1, <1>2, <1>3, FewerWrites
<1> QED BY <1>1, <1>4, QuietBounded
\* The reader ends, on a connection that is closed or that has nothing left.
LEMMA ReaderBounded ==
  ASSUME IInv, BoundInv, NEW s \in Sides, PeerGone(s) \/ ReaderReturns(s)
  PROVE  BoundInv'
<1> DEFINE d == ep[s]
<1>1. d \in EndType /\ Bounded(d, pc[s]) /\ UNCHANGED pc
  BY BothAre DEF PeerGone, ReaderReturns
<1>2. CASE PeerGone(s)
  <2>1. Set(s, Fail(s, d, "closed")) /\ "closed" \in Statuses \ {"up"}
    BY <1>2 DEF PeerGone, Statuses
  <2>2. Bounded(Fail(s, d, "closed"), pc[s])
    BY <1>1, <2>1, FailBounded
  <2> QED BY <1>1, <2>1, <2>2, QuietBounded
<1>3. CASE ReaderReturns(s)
  <2> DEFINE e == [d EXCEPT !.reading = FALSE]
  <2>1. Set(s, e)
    BY <1>3 DEF ReaderReturns
  <2>2. /\ e.pending = d.pending /\ e.abandoned = d.abandoned /\ e.slot = d.slot
        /\ e.active = d.active /\ e.retained = d.retained /\ e.queue = d.queue
        /\ e.flushing = d.flushing /\ e.nextOut = d.nextOut
    BY <1>1 DEF EndType
  <2> HIDE DEF e
  <2>3. Bounded(e, pc[s])
    BY <1>1, <2>2, SameBounded
  <2> QED BY <1>1, <2>1, <2>3, QuietBounded
<1> QED BY <1>2, <1>3

\* A handler answers.
LEMMA AnswerBounded ==
  ASSUME IInv, BoundInv, NEW s \in Sides, NEW n \in Seqs, Answer(s, n)
  PROVE  BoundInv'
<1> DEFINE d == ep[s]
<1>1. d \in EndType /\ Bounded(d, pc[s]) /\ UNCHANGED pc
  BY BothAre DEF Answer
<1>2. PICK r \in Outcomes : Set(s, IF CanSend(d) THEN Enqueue(d, Response(n, r)) ELSE Stop(s, d, "busy"))
  BY DEF Answer
<1>3. Response(n, r) \in FrameType
  BY FramesAre, BridgeAssumption DEF Results
<1>4. CASE CanSend(d)
  <2>1. Bounded(Enqueue(d, Response(n, r)), pc[s])
    BY <1>1, <1>3, <1>4, SendBounded
  <2> QED BY <1>1, <1>2, <1>4, <2>1, QuietBounded
<1>5. CASE ~CanSend(d)
  BY <1>1, <1>2, <1>5, StopsBounded
<1> QED BY <1>4, <1>5

\* A handler returns, and what its request retained is free.
LEMMA HandlerReturnsBounded ==
  ASSUME IInv, BoundInv, NEW s \in Sides, NEW n \in Seqs, HandlerReturns(s, n)
  PROVE  BoundInv'
<1> DEFINE d == ep[s]
           a == d.active \ {n}
           k == IF n \in d.active THEN d.retained - 1 ELSE d.retained
           e == [d EXCEPT !.handlers = @ \ {n}, !.active = a, !.cancelled = @ \ {n}, !.retained = k]
<1>1. d \in EndType /\ Bounded(d, pc[s]) /\ UNCHANGED pc
  BY BothAre DEF HandlerReturns
<1>2. Set(s, e)
  BY <1>1 DEF HandlerReturns, Handled, EndType
<1>3. Limits(d) /\ Exact(d) /\ Entry(d, pc[s])
  BY <1>1 DEF Bounded
<1>4. /\ Load(d) \in Nat /\ d.retained \in Int /\ Cardinality(Filled(d)) \in Nat
      /\ IsFiniteSet(d.active) /\ Cardinality(d.active) \in Nat
  BY <1>1, SizesAre
<1>5. /\ Cardinality(a) \in Nat /\ Cardinality(a) <= Cardinality(d.active)
      /\ k = Cardinality(a) + Cardinality(Filled(d)) /\ k <= d.retained /\ k \in Int
  <2>1. CASE n \in d.active
    <3>1. Cardinality(a) = Cardinality(d.active) - 1 /\ Cardinality(a) \in Nat
      BY <1>4, <2>1, FS_RemoveElement, FS_CardinalityType
    <3>2. k = d.retained - 1
      BY <2>1
    <3>3. d.retained = Cardinality(d.active) + Cardinality(Filled(d))
      BY <1>3 DEF Exact
    <3> HIDE DEF k, a, d
    <3> QED BY <1>4, <3>1, <3>2, <3>3
  <2>2. CASE n \notin d.active
    <3>1. a = d.active /\ k = d.retained
      BY <2>2
    <3>2. d.retained = Cardinality(d.active) + Cardinality(Filled(d))
      BY <1>3 DEF Exact
    <3> HIDE DEF k, a, d
    <3> QED BY <1>4, <3>1, <3>2
  <2> QED BY <2>1, <2>2
<1> HIDE DEF a, k
<1>6. /\ e.pending = d.pending /\ e.abandoned = d.abandoned /\ e.slot = d.slot /\ e.active = a
      /\ e.retained = k /\ e.queue = d.queue /\ e.flushing = d.flushing /\ e.nextOut = d.nextOut
  BY <1>1 DEF EndType
<1> HIDE DEF e
<1>7. Filled(e) = Filled(d) /\ Load(e) = Load(d)
  BY <1>6 DEF Filled, Load
<1>8. Limits(e)
  <2>1. Cardinality(a) <= MaxActiveCalls /\ k + Load(d) <= MaxRetained
    <3>1. Cardinality(d.active) <= MaxActiveCalls /\ d.retained + Load(d) <= MaxRetained
      BY <1>3 DEF Limits
    <3> HIDE DEF d
    <3> QED BY <1>4, <1>5, <3>1, LimitsAre
  <2> QED BY <1>3, <1>6, <1>7, <2>1 DEF Limits
<1>9. Exact(e)
  BY <1>5, <1>6, <1>7 DEF Exact
<1>10. Entry(e, pc[s])
  BY <1>3, <1>6 DEF Entry
<1> QED BY <1>1, <1>2, <1>8, <1>9, <1>10, QuietBounded DEF Bounded

\* A call is admitted where the pending table and the writer have room for it.
LEMMA CallBounded ==
  ASSUME IInv, BoundInv, NEW s \in Sides, NEW p \in {0} \cup Seqs, Call(s, p)
  PROVE  BoundInv'
<1> DEFINE d == ep[s]
           n == d.nextOut + 1
           g == Enqueue(d, Request(n))
           t == d.pending \cup {n}
           e == [g EXCEPT !.nextOut = n, !.pending = t]
<1>1. /\ TypeInv /\ d \in EndType /\ Bounded(d, pc[s]) /\ CountInv(s) /\ \A m \in Seqs : m \in Nat
      /\ CanSend(d) /\ n <= Bound(s) /\ Cardinality(d.pending) < MaxPendingCalls
      /\ Returns(s, n, "writing") /\ "writing" \in PCs
  BY BothAre DEF Call, PCs
<1>2. d.nextOut \in Nat /\ n \in Nat /\ n \in Seqs
  <2>1. d.nextOut \in Nat
    BY <1>1 DEF EndType
  <2>2. n \in Nat /\ 0 < n
    BY <2>1
  <2> QED BY <1>1, <2>1, <2>2, SeqsAre
<1>3. g \in EndType /\ Bounded(g, pc[s])
  BY <1>1, <1>2, SendBounded, FramesAre, EnqueueIs
<1>4. g.pending = d.pending /\ g.nextOut = d.nextOut
  BY <1>1 DEF Enqueue, EndType
<1>5. Set(s, e)
  <2>1. e = [g EXCEPT !.nextOut = n, !.pending = @ \cup {n}]
    BY <1>3, <1>4 DEF EndType
  <2> QED BY <2>1 DEF Call
<1>6. /\ pc'[Other(s)] = pc[Other(s)]
      /\ \A m \in Seqs : pc'[s][m] = IF m = n THEN "writing" ELSE pc[s][m]
  BY <1>1, <1>2, ReturnsIs
<1>7. Limits(g) /\ Exact(g) /\ Entry(g, pc[s])
  BY <1>3 DEF Bounded
<1>8. n > d.nextOut /\ \A m \in Nat : m <= d.nextOut => m <= n
  BY <1>2
<1>9. n \notin d.pending /\ n \notin g.abandoned /\ g.slot[n] = "none"
  BY <1>2, <1>4, <1>7, <1>8 DEF Entry
<1>10. Cardinality(t) <= MaxPendingCalls
  <2>1. IsFiniteSet(d.pending) /\ Cardinality(d.pending) \in Nat
    BY <1>1, SizesAre
  <2>2. Cardinality(t) = Cardinality(d.pending) + 1
    BY <1>9, <2>1, FS_AddElement
  <2> HIDE DEF t, d
  <2> QED BY <1>1, <2>1, <2>2, LimitsAre
<1> HIDE DEF g, n, t
<1>11. /\ e.pending = t /\ e.abandoned = g.abandoned /\ e.slot = g.slot /\ e.active = g.active
       /\ e.retained = g.retained /\ e.queue = g.queue /\ e.flushing = g.flushing /\ e.nextOut = n
  BY <1>3 DEF EndType
<1> HIDE DEF e
<1>12. Load(e) = Load(g) /\ Filled(e) = Filled(g)
  BY <1>11 DEF Load, Filled
<1>13. Limits(e) /\ Exact(e)
  BY <1>7, <1>10, <1>11, <1>12 DEF Limits, Exact
<1>14. Entry(e, pc'[s])
  <2> SUFFICES ASSUME NEW m \in Seqs
               PROVE  /\ m \in e.abandoned => m \in e.pending
                      /\ m \in e.pending => e.slot[m] = "none" /\ m <= e.nextOut
                      /\ e.slot[m] # "none" => m <= e.nextOut
                      /\ pc'[s][m] \in {"writing", "waiting"} /\ e.slot[m] = "none"
                           => m \in e.pending \ e.abandoned
    BY DEF Entry
  <2>1. CASE m = n
    <3>1. m <= n
      BY <1>2, <2>1
    <3> QED BY <1>9, <1>11, <2>1, <3>1 DEF t
  <2>2. CASE m # n
    BY <1>1, <1>4, <1>6, <1>7, <1>8, <1>11, <2>2 DEF Entry, t
  <2> QED BY <2>1, <2>2
<1> QED BY <1>5, <1>6, <1>13, <1>14, OneBounded DEF Bounded
\* A response finds the entry of its call: its caller is gone, or the answer takes the slot
\* and its byte, for which there is room.
LEMMA AcceptResponseBounded ==
  ASSUME NEW s \in Sides, NEW c, NEW d \in EndType, NEW n \in Seqs, NEW r \in Results, Bounded(d, c)
  PROVE  Bounded(AcceptResponse(s, d, n, r), c)
<1>1. Limits(d) /\ Exact(d) /\ Entry(d, c)
  BY DEF Bounded
<1>2. /\ Load(d) \in Nat /\ d.retained \in Int /\ IsFiniteSet(d.pending) /\ Cardinality(d.pending) \in Nat
      /\ IsFiniteSet(Filled(d)) /\ Cardinality(Filled(d)) \in Nat /\ Cardinality(d.active) \in Nat
  BY SizesAre
<1> DEFINE t == d.pending \ {n}
<1>3. n \in d.pending => Cardinality(t) <= MaxPendingCalls
  <2>1. SUFFICES ASSUME n \in d.pending PROVE Cardinality(t) <= MaxPendingCalls
    OBVIOUS
  <2>2. Cardinality(t) = Cardinality(d.pending) - 1
    BY <1>2, <2>1, FS_RemoveElement
  <2>3. Cardinality(d.pending) <= MaxPendingCalls
    BY <1>1 DEF Limits
  <2> HIDE DEF t
  <2> QED BY <1>2, <2>2, <2>3, LimitsAre
<1> HIDE DEF t
<1>4. CASE n \notin d.pending \/ (n \in d.pending \ d.abandoned /\ ~HasRoom(d))
  <2>1. PICK why \in Statuses \ {"up"} : AcceptResponse(s, d, n, r) = Fail(s, d, why)
    <3>1. "busy" \in Statuses \ {"up"} /\ "protocol" \in Statuses \ {"up"}
      BY DEF Statuses
    <3>2. CASE n \notin d.pending
      BY <3>1, <3>2 DEF AcceptResponse
    <3>3. CASE n \in d.pending \ d.abandoned /\ ~HasRoom(d)
      BY <3>1, <3>3 DEF AcceptResponse
    <3> QED BY <1>4, <3>2, <3>3
  <2> QED BY <2>1, FailBounded
<1>5. CASE n \in d.pending \cap d.abandoned
  <2> DEFINE e == [d EXCEPT !.pending = @ \ {n}, !.abandoned = @ \ {n}]
  <2>1. AcceptResponse(s, d, n, r) = e
    BY <1>5 DEF AcceptResponse
  <2>2. /\ e.pending = t /\ e.abandoned = d.abandoned \ {n} /\ e.slot = d.slot /\ e.active = d.active
        /\ e.retained = d.retained /\ e.queue = d.queue /\ e.flushing = d.flushing
        /\ e.nextOut = d.nextOut
    BY DEF EndType, t
  <2> HIDE DEF e
  <2>3. Limits(e) /\ Exact(e)
    <3>1. Load(e) = Load(d) /\ Filled(e) = Filled(d)
      BY <2>2 DEF Load, Filled
    <3> QED BY <1>1, <1>3, <1>5, <2>2, <3>1 DEF Limits, Exact
  <2>4. Entry(e, c)
    BY <1>1, <1>5, <2>2 DEF Entry, t
  <2> QED BY <2>1, <2>3, <2>4 DEF Bounded
<1>6. CASE n \in d.pending \ d.abandoned /\ HasRoom(d)
  <2> DEFINE sl == [d.slot EXCEPT ![n] = r]
             k == d.retained + 1
             e == [d EXCEPT !.pending = t, !.slot = sl, !.retained = k]
  <2>1. AcceptResponse(s, d, n, r) = e
    BY <1>6 DEF AcceptResponse, EndType, t
  <2>2. \A m \in Seqs : sl[m] = IF m = n THEN r ELSE d.slot[m]
    BY DEF EndType
  <2> HIDE DEF sl, k
  <2>3. /\ e.pending = t /\ e.abandoned = d.abandoned /\ e.slot = sl /\ e.active = d.active
        /\ e.retained = k /\ e.queue = d.queue /\ e.flushing = d.flushing
        /\ e.nextOut = d.nextOut
    BY DEF EndType
  <2> HIDE DEF e
  <2>4. d.slot[n] = "none" /\ n <= d.nextOut /\ r # "none"
    BY <1>1, <1>6 DEF Entry, Results
  <2>5. Load(e) = Load(d)
    BY <2>3 DEF Load
  <2>6. Cardinality(Filled(e)) = Cardinality(Filled(d)) + 1
    <3>1. n \notin Filled(d)
      BY <2>4 DEF Filled, Results
    <3>2. Filled(e) = Filled(d) \cup {n}
      BY <2>2, <2>3 DEF Filled
    <3> QED BY <1>2, <3>1, <3>2, FS_AddElement
  <2>7. k = d.retained + 1 /\ d.retained + Load(d) < MaxRetained
    BY <1>6, RoomIs DEF k
  <2>8. Limits(e)
    <3>1. k + Load(d) <= MaxRetained
      BY <1>2, <2>7, LimitsAre
    <3> QED BY <1>1, <1>3, <1>6, <2>3, <2>5, <3>1 DEF Limits
  <2>9. Exact(e)
    <3>1. d.retained = Cardinality(d.active) + Cardinality(Filled(d))
      BY <1>1 DEF Exact
    <3>2. k = Cardinality(d.active) + Cardinality(Filled(e))
      BY <1>2, <2>6, <2>7, <3>1
    <3> QED BY <2>3, <3>2 DEF Exact
  <2>10. Entry(e, c)
    BY <1>1, <1>6, <2>2, <2>3, <2>4 DEF Entry, t
  <2> QED BY <2>1, <2>8, <2>9, <2>10 DEF Bounded
<1> QED BY <1>4, <1>5, <1>6

\* A request takes a place among those that are handled, and a byte, or is refused.
LEMMA AcceptBounded ==
  ASSUME NEW s \in Sides, NEW c, NEW d \in EndType, NEW n \in Seqs, Bounded(d, c),
         n = d.nextIn + 1, n \notin d.active
  PROVE  Bounded(Accept(s, d, n), c)
<1>1. Limits(d) /\ Exact(d) /\ Entry(d, c) /\ n \in Nat
  BY SeqsAre DEF Bounded
<1>2. /\ Load(d) \in Nat /\ d.retained \in Int
      /\ Cardinality(Filled(d)) \in Nat /\ IsFiniteSet(d.active) /\ Cardinality(d.active) \in Nat
  BY SizesAre
<1>3. CASE Cardinality(d.active) < MaxActiveCalls /\ HasRoom(d)
  <2> DEFINE a == d.active \cup {n}
             k == d.retained + 1
             x == IF d.status = "up" THEN d.cancelled ELSE d.cancelled \cup {n}
             e == [d EXCEPT !.nextIn = n, !.active = a, !.retained = k,
                            !.handlers = @ \cup {n}, !.cancelled = x]
  <2>1. Accept(s, d, n) = e
    BY <1>3 DEF Accept, EndType
  <2>2. Cardinality(a) = Cardinality(d.active) + 1
    BY <1>2, FS_AddElement
  <2> HIDE DEF a, k, x
  <2>3. /\ e.pending = d.pending /\ e.abandoned = d.abandoned /\ e.slot = d.slot /\ e.active = a
        /\ e.retained = k /\ e.queue = d.queue /\ e.flushing = d.flushing
        /\ e.nextOut = d.nextOut
    BY DEF EndType
  <2> HIDE DEF e
  <2>4. Load(e) = Load(d) /\ Filled(e) = Filled(d)
    BY <2>3 DEF Load, Filled
  <2>5. k = d.retained + 1 /\ d.retained + Load(d) < MaxRetained
    BY <1>3, RoomIs DEF k
  <2>6. Limits(e)
    <3>1. k + Load(d) <= MaxRetained /\ Cardinality(a) <= MaxActiveCalls
      BY <1>2, <1>3, <2>2, <2>5, LimitsAre
    <3> QED BY <1>1, <2>3, <2>4, <3>1 DEF Limits
  <2>7. Exact(e)
    <3>1. d.retained = Cardinality(d.active) + Cardinality(Filled(d))
      BY <1>1 DEF Exact
    <3>2. k = Cardinality(a) + Cardinality(Filled(d))
      BY <1>2, <2>2, <2>5, <3>1
    <3> QED BY <2>3, <2>4, <3>2 DEF Exact
  <2>8. Entry(e, c)
    BY <1>1, <2>3 DEF Entry
  <2> QED BY <2>1, <2>6, <2>7, <2>8 DEF Bounded
<1>4. CASE ~(Cardinality(d.active) < MaxActiveCalls /\ HasRoom(d))
  <2> DEFINE g == [d EXCEPT !.nextIn = n]
  <2>1. Accept(s, d, n) = IF CanSend(g) THEN Enqueue(g, Response(n, "busy")) ELSE Fail(s, g, "busy")
    BY <1>4 DEF Accept
  <2>2. g \in EndType
    BY <1>1 DEF EndType
  <2>3. /\ g.pending = d.pending /\ g.abandoned = d.abandoned /\ g.slot = d.slot
        /\ g.active = d.active /\ g.retained = d.retained /\ g.queue = d.queue
        /\ g.flushing = d.flushing /\ g.nextOut = d.nextOut
    BY DEF EndType
  <2> HIDE DEF g
  <2>4. Bounded(g, c)
    BY <2>3, SameBounded
  <2>5. Response(n, "busy") \in FrameType /\ "busy" \in Statuses \ {"up"}
    BY FramesAre DEF Results, Statuses
  <2> QED BY <2>1, <2>2, <2>4, <2>5, SendBounded, FailBounded
<1> QED BY <1>3, <1>4
\* A frame is read.
LEMMA ReadBounded ==
  ASSUME IInv, BoundInv, NEW s \in Sides, Read(s)
  PROVE  BoundInv'
<1> DEFINE o == Other(s)
           f == Flow(o)[1]
           d == ep[s]
           e == Accepted(s, d, f)
<1>1. /\ o \in Sides /\ Other(o) = s /\ TypeInv /\ d \in EndType
      /\ FlowInv(o) /\ CountInv(s) /\ Heard(o) /\ Size(o) > 0 /\ f \in FrameType
      /\ Bounded(d, pc[s]) /\ Set(s, e) /\ UNCHANGED pc
  BY ReadIs, BothAre DEF Takes
<1>2. f.kind = "hello" <=> ~d.ready
  BY <1>1, HelloFirst DEF FlowInv, Stands
<1>3. d.ready \in BOOLEAN /\ f.kind \in {"hello", "request", "cancel", "response"}
  BY <1>1 DEF EndType, FrameType
<1>4. ASSUME f.kind = "request"
      PROVE  f.id = d.nextIn + 1 /\ f.id \in Seqs /\ f.id \notin d.active
  <2>1. Stands(o, 1, "request")
    BY <1>4 DEF Stands
  <2>2. f.id = d.nextIn + 1 /\ f.id \in Seqs
    BY <1>1, <2>1, RequestNext DEF FlowInv
  <2>3. d.nextIn \in Nat /\ \A m \in d.active : m <= d.nextIn
    BY <1>1 DEF CountInv, EndType
  <2> HIDE DEF f, d
  <2> QED BY <2>2, <2>3
<1>5. ASSUME f.kind = "response" PROVE f.id \in Seqs /\ f.result \in Results
  <2>1. Stands(o, 1, "response")
    BY <1>5 DEF Stands
  <2>2. 1 \in 1..Size(o)
    BY <1>1, FlowType
  <2> QED BY <1>1, <2>1, <2>2 DEF FlowInv, ResponseInv
<1> HIDE DEF f, d
<1>6. CASE f.kind = "hello"
  <2>1. e = [d EXCEPT !.ready = TRUE]
    BY <1>2, <1>6 DEF Accepted
  <2>2. /\ e.pending = d.pending /\ e.abandoned = d.abandoned /\ e.slot = d.slot
        /\ e.active = d.active /\ e.retained = d.retained /\ e.queue = d.queue
        /\ e.flushing = d.flushing /\ e.nextOut = d.nextOut
    BY <1>1, <2>1 DEF EndType
  <2> HIDE DEF e
  <2>3. Bounded(e, pc[s])
    BY <1>1, <2>2, SameBounded
  <2> QED BY <1>1, <2>3, QuietBounded
<1>7. CASE f.kind = "request"
  <2>1. e = Accept(s, d, f.id)
    BY <1>2, <1>3, <1>7 DEF Accepted
  <2>2. Bounded(Accept(s, d, f.id), pc[s])
    BY <1>1, <1>4, <1>7, AcceptBounded
  <2> QED BY <1>1, <2>1, <2>2, QuietBounded
<1>8. CASE f.kind = "response"
  <2>1. e = AcceptResponse(s, d, f.id, f.result)
    BY <1>2, <1>3, <1>8 DEF Accepted
  <2>2. Bounded(AcceptResponse(s, d, f.id, f.result), pc[s])
    BY <1>1, <1>5, <1>8, AcceptResponseBounded
  <2> QED BY <1>1, <2>1, <2>2, QuietBounded
<1>9. CASE f.kind = "cancel"
  <2>1. e = AcceptCancel(s, d, f.id)
    BY <1>2, <1>3, <1>9 DEF Accepted
  <2>2. Bounded(e, pc[s])
    <3>1. CASE f.id > d.nextIn
      <4>1. e = Fail(s, d, "protocol") /\ "protocol" \in Statuses \ {"up"}
        BY <2>1, <3>1 DEF AcceptCancel, Statuses
      <4> QED BY <1>1, <4>1, FailBounded
    <3>2. CASE ~(f.id > d.nextIn)
      <4>1. e = [d EXCEPT !.cancelled = @ \cup (d.active \cap {f.id})]
        BY <2>1, <3>2 DEF AcceptCancel
      <4>2. /\ e.pending = d.pending /\ e.abandoned = d.abandoned /\ e.slot = d.slot
            /\ e.active = d.active /\ e.retained = d.retained /\ e.queue = d.queue
            /\ e.flushing = d.flushing /\ e.nextOut = d.nextOut
        BY <1>1, <4>1 DEF EndType
      <4> HIDE DEF e
      <4> QED BY <1>1, <4>2, SameBounded
    <3> QED BY <3>1, <3>2
  <2> QED BY <1>1, <2>2, QuietBounded
<1> QED BY <1>3, <1>6, <1>7, <1>8, <1>9

\* An endpoint starts with its hello queued, and nothing retained.
LEMMA InitBounded == Init => BoundInv
<1> SUFFICES ASSUME Init, NEW s \in Sides PROVE Bounded(ep[s], pc[s])
  BY DEF BoundInv
<1>1. /\ ep[s].pending = {} /\ ep[s].abandoned = {} /\ ep[s].active = {} /\ ep[s].retained = 0
      /\ ep[s].queue = <<Hello>> /\ ep[s].flushing = <<>>
      /\ \A n \in Seqs : ep[s].slot[n] = "none" /\ pc[s][n] = "idle"
  BY DEF Init, NewEndpoint
<1>2. Cardinality({}) = 0
  BY FS_EmptySet
<1>3. Filled(ep[s]) = {}
  BY <1>1 DEF Filled, Results
<1>4. Load(ep[s]) = 1
  <2>1. Len(<<Hello>>) = 1 /\ Len(<<>>) = 0
    OBVIOUS
  <2> QED BY <1>1, <2>1 DEF Load
<1>5. Limits(ep[s])
  BY <1>1, <1>2, <1>4, LimitsAre DEF Limits
<1>6. Exact(ep[s])
  BY <1>1, <1>2, <1>3 DEF Exact
<1>7. Entry(ep[s], pc[s])
  BY <1>1 DEF Entry
<1> QED BY <1>5, <1>6, <1>7 DEF Bounded

\* Every limit of BridgeLimits is kept, and what an endpoint counts as retained is what it
\* retains: the requests it handles and the answers its callers have not taken.
THEOREM BoundInvariant == Spec => []BoundInv
<1>1. IInv /\ BoundInv /\ [Next]_vars => BoundInv'
  <2> SUFFICES ASSUME IInv, BoundInv, [Next]_vars PROVE BoundInv'
    OBVIOUS
  <2>1. ASSUME NEW s \in Sides, NEW p \in {0} \cup Seqs, Call(s, p) PROVE BoundInv'
    BY <2>1, CallBounded
  <2>2. ASSUME NEW s \in Sides, Caller(s) PROVE BoundInv'
    <3>1. PICK n \in Seqs : WriteReturns(s, n) \/ Consume(s, n) \/ GiveUpWriting(s, n) \/ GiveUp(s, n)
      BY <2>2 DEF Caller
    <3>2. Consume(s, n) => Take(s, n)
      BY DEF Consume
    <3> QED BY <3>1, <3>2, WriteReturnsBounded, TakeBounded, GiveUpWritingBounded, GiveUpBounded
  <2>3. ASSUME NEW s \in Sides, Writer(s) PROVE BoundInv'
    <3>1. CASE WriteFails(s)
      BY <3>1, StopsBounded DEF WriteFails
    <3> QED BY <2>3, <3>1, WriteFrameBounded, WriteCompletesBounded, DrainWritesBounded DEF Writer
  <2>4. ASSUME NEW s \in Sides, Reader(s) PROVE BoundInv'
    BY <2>4, ReadBounded, ReaderBounded DEF Reader
  <2>5. ASSUME NEW s \in Sides, Handler(s) PROVE BoundInv'
    BY <2>5, AnswerBounded, HandlerReturnsBounded DEF Handler
  <2>6. ASSUME NEW s \in Sides, Stopper(s) PROVE BoundInv'
    <3>1. CASE Close(s)
      BY <3>1, StopsBounded DEF Close
    <3>2. CASE ReadyGivesUp(s)
      BY <3>2, StopsBounded DEF ReadyGivesUp
    <3>3. CASE Join(s)
      BY <3>3 DEF Join, BoundInv
    <3> QED BY <2>6, <3>1, <3>2, <3>3 DEF Stopper
  <2>7. CASE UNCHANGED vars
    BY <2>7 DEF vars, BoundInv
  <2> QED BY <2>1, <2>2, <2>3, <2>4, <2>5, <2>6, <2>7 DEF Next
<1> QED BY <1>1, InitBounded, Invariant, PTL DEF Spec

\* The greatest id is the number of ids.
LEMMA MostIds == Cardinality(Seqs) \in Nat /\ Seqs = 1..Cardinality(Seqs)
<1>1. PICK k \in Nat : Seqs = 1..k
  BY BridgeAssumption DEF Seqs
<1> QED BY <1>1, FS_Interval

\* Every variable stays in its range, and every limit of BridgeLimits is kept.
THEOREM TypeCorrect == Spec => []TypeOK
<1>1. IInv /\ BoundInv => TypeOK
  <2> SUFFICES ASSUME IInv, BoundInv PROVE TypeOK
    OBVIOUS
  <2>1. TypeInv /\ \A s \in Sides : CountInv(s) /\ Bounded(ep[s], pc[s]) /\ ep[s] \in EndType
    BY BothAre DEF IInv
  <2>2. FrameType = Frames
    <3>1. {0} \cup Seqs = 0 .. Cardinality(Seqs)
      BY MostIds
    <3> QED BY <3>1 DEF FrameType, Frames
  <2>3. ASSUME NEW s \in Sides PROVE EndpointOK(ep[s])
    <3> DEFINE e == ep[s]
    <3>1. e \in EndType /\ Limits(e) /\ Entry(e, pc[s]) /\ e.active \subseteq e.handlers
      BY <2>1 DEF Bounded, CountInv
    <3>2. {e.nextOut, e.nextIn} \subseteq 0 .. Cardinality(Seqs)
      <4>1. \A t \in Sides : ep[t].nextOut \in 0 .. Cardinality(Seqs)
        <5> SUFFICES ASSUME NEW t \in Sides PROVE ep[t].nextOut \in 0 .. Cardinality(Seqs)
          OBVIOUS
        <5>1. ep[t].nextOut \in Nat /\ ep[t].nextOut <= Bound(t) /\ Bound(t) \in Nat
          BY <2>1, SeqsAre DEF CountInv, EndType
        <5>2. ep[t].nextOut = 0 \/ ep[t].nextOut \in Seqs
          BY <5>1, SeqsAre
        <5> QED BY <5>2, MostIds
      <4>2. e.nextIn \in Nat /\ e.nextIn <= ep[Other(s)].nextOut /\ Other(s) \in Sides
        BY <2>1, SidesAre DEF CountInv, EndType
      <4>3. e.nextIn \in 0 .. Cardinality(Seqs)
        BY <4>1, <4>2, MostIds
      <4> QED BY <4>1, <4>3
    <3>3. Len(Writes(e)) = Load(e)
      BY <3>1, SizesAre
    <3>4. e.abandoned \subseteq e.pending
      BY <3>1 DEF Entry, EndType
    <3>5. /\ e.status \in Statuses /\ {e.ready, e.reading} \subseteq BOOLEAN /\ e.pending \subseteq Seqs
          /\ e.handlers \subseteq Seqs /\ e.cancelled \subseteq Seqs
          /\ e.slot \in [Seqs -> Results \cup {"none", "closed"}]
          /\ e.queue \in Seq(Frames) /\ e.flushing \in Seq(Frames)
      BY <2>2, <3>1 DEF EndType
    <3>6. /\ Cardinality(e.pending) <= MaxPendingCalls /\ Cardinality(e.active) <= MaxActiveCalls
          /\ Len(Writes(e)) <= MaxPendingWrites /\ e.retained + Len(Writes(e)) <= MaxRetained
      BY <3>1, <3>3 DEF Limits
    <3> HIDE DEF e
    <3>7. EndpointOK(e)
      BY <3>1, <3>2, <3>4, <3>5, <3>6 DEF EndpointOK
    <3> QED BY <3>7 DEF e
  <2>4. ASSUME NEW s \in Sides
        PROVE  ep[s].retained = Cardinality(ep[s].active)
                                + Cardinality({n \in Seqs : ep[s].slot[n] \in Results})
    BY <2>1 DEF Bounded, Exact, Filled
  <2> QED BY <2>1, <2>2, <2>3, <2>4 DEF TypeOK, TypeInv, PCs
<1> QED BY <1>1, Invariant, BoundInvariant, PTL
==============================================================================
