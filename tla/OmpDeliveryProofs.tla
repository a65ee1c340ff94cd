-------------------------- MODULE OmpDeliveryProofs --------------------------
(***************************************************************************)
(* Machine-checked proofs about OmpDelivery: it implements DeliveryFifo,   *)
(* its receipts tell the truth, a reset is final, and its tables keep      *)
(* their limits and the bytes charged for them are exact.                  *)
(***************************************************************************)
EXTENDS OmpDelivery, SequenceTheorems, FiniteSetTheorems, WellFoundedInduction, TLAPS

EvidenceFields ==
  {"staged", "batches", "completed", "nextReport", "reports", "bytes", "failed"}
IsRecord(e) == e = [f \in EvidenceFields |-> e[f]]

RepType  == [batch: Nat, phase: 0 .. InContext, ids: Seq(Msgs)]
ItemType == [kind: {"observe", "switch", "end"}, owner: Owners, seq: Nat, rep: RepType]
CallType == [kind: {"observe", "switch", "end"}, owner: Owners, seq: Nat, rep: RepType,
             reply: {"none", "ok", "error"}, awaited: BOOLEAN]
IsMap(f) == f = [x \in DOMAIN f |-> f[x]]

AnswerKinds == {"none", "queued", "rejected", "failed", "lost"}

TypeInv ==
  /\ inbox \in [Owners -> Seq(Msgs)]
  /\ loop \in [Owners -> Msgs \cup {NoMsg}] /\ stageReq \in [Owners -> Msgs \cup {NoMsg}]
  /\ stageRsp \in [Owners -> {"none", "queued", "queue_full", "error"}]
  /\ arrived \in [Owners -> Seq(Msgs)] /\ submitted \in [Owners -> Seq(Msgs)]
  /\ answer \in [Msgs -> AnswerKinds]
  /\ observed \in [Msgs -> 0 .. InContext] /\ credited \in [Msgs -> 0 .. InContext]
  /\ current \in Owners /\ reset \in BOOLEAN /\ rseq \in [Owners -> Nat]
  /\ IsMap(ev) /\ DOMAIN ev = Owners /\ IsMap(batches) /\ DOMAIN batches = Owners
  /\ reports \in Seq(ItemType) /\ calls \subseteq CallType

HolderFields == {"kind", "owner", "pc"}
IsHolder(h) == h = [f \in HolderFields |-> h[f]]

\* A handler that holds the gate serves a request that is still unanswered.
HolderInv ==
  /\ IsHolder(holder)
  /\ holder.pc # "none" =>
       /\ holder.kind \in {"switch", "end"}
       /\ \E c \in calls : c.kind = holder.kind /\ c.owner = holder.owner /\ c.reply = "none"

\* Where a message is: untaken, with the loop, on its way to native, submitted.
InboxInv ==
  /\ \A o \in Owners : \A i \in DOMAIN inbox[o] :
       LET m == inbox[o][i] IN
       /\ m \in Sent /\ answer[m] = "none" /\ m \notin Submitted
       /\ \A p \in Owners : loop[p] # m /\ stageReq[p] # m
  /\ \A o, p \in Owners : \A i \in DOMAIN inbox[o], j \in DOMAIN inbox[p] :
       inbox[o][i] = inbox[p][j] => o = p /\ i = j

LoopInv ==
  \A o \in Owners : loop[o] # NoMsg =>
    /\ loop[o] \in Sent /\ answer[loop[o]] = "none"
    /\ stageRsp[o] = "queued" => loop[o] \in Submitted
    /\ stageRsp[o] = "queue_full" => loop[o] \notin Submitted
    /\ \A p \in Owners : loop[p] = loop[o] => p = o

StageInv ==
  \A o \in Owners :
    /\ stageReq[o] # NoMsg =>
         /\ stageReq[o] \in Sent \ Submitted /\ stageRsp[o] = "none"
         /\ answer[stageReq[o]] \in {"none", "failed", "lost"}
         /\ loop[o] = stageReq[o] \/ (loop[o] = NoMsg /\ ~Healthy)
         /\ \A p \in Owners : stageReq[p] = stageReq[o] \/ loop[p] = stageReq[o] => p = o
    /\ stageRsp[o] # "none" => loop[o] # NoMsg \/ ~Healthy

AnswerInv ==
  /\ \A m \in Msgs : answer[m] # "none" => m \in Sent
  /\ Submitted \subseteq Sent
  /\ ReceiptHonest

\* m comes before n in s.
Before(s, m, n) == \E i, j \in DOMAIN s : i < j /\ s[i] = m /\ s[j] = n

\* Each message is sent once, to one binding.
ArrivedOnce ==
  \A o, p \in Owners : \A i \in DOMAIN arrived[o], j \in DOMAIN arrived[p] :
    arrived[o][i] = arrived[p][j] => o = p /\ i = j

\* A binding's messages go through its places in the order in which they were sent.
InLine(o) ==
  LET s == arrived[o] IN
  /\ ToSet(inbox[o]) \cup ToSet(submitted[o])
       \cup ({loop[o], stageReq[o]} \ {NoMsg}) \subseteq ToSet(s)
  /\ \A i, j \in DOMAIN inbox[o] : i < j => Before(s, inbox[o][i], inbox[o][j])
  /\ stageReq[o] # NoMsg =>
       /\ \A i \in DOMAIN inbox[o] : Before(s, stageReq[o], inbox[o][i])
       /\ \A m \in ToSet(submitted[o]) : Before(s, m, stageReq[o])
  /\ \A i \in DOMAIN inbox[o] : \A m \in ToSet(submitted[o]) : Before(s, m, inbox[o][i])

LineInv == ArrivedOnce /\ \A o \in Owners : InLine(o)

PlaceInv == InboxInv /\ LoopInv /\ StageInv /\ AnswerInv

\* What the extension holds is what it submitted, in the phase native reached.
SubmitInv ==
  /\ \A o, p \in Owners : \A i \in DOMAIN submitted[o], j \in DOMAIN submitted[p] :
       submitted[o][i] = submitted[p][j] => o = p /\ i = j
  /\ \A m \in Msgs : observed[m] # 0 <=> m \in Submitted
  /\ wiped \subseteq Submitted

BatchOk(o) ==
  /\ IsMap(batches[o]) /\ DOMAIN batches[o] \subseteq 1 .. Len(submitted[o])
  /\ o > current => DOMAIN batches[o] = {}
  /\ \A b \in DOMAIN batches[o] :
       /\ batches[o][b] \in [id: Msgs, phase: Claimed .. Ended]
       /\ batches[o][b].id = submitted[o][b]
       /\ batches[o][b].phase = observed[submitted[o][b]]

\* What a reset wiped is out of reach once native has forgotten the reset.
ResetInv == ~reset => wiped \cap Unconfirmed(current) = {}

BatchInv == SubmitInv /\ (\A o \in Owners : BatchOk(o)) /\ ResetInv

\* A report claims no phase that native did not reach.
RepOk(r, obs) ==
  /\ r \in RepType /\ r.phase # 0
  /\ \A i \in DOMAIN r.ids : r.phase <= obs[r.ids[i]]

PendingInv ==
  /\ \A i \in DOMAIN reports : reports[i].kind = "observe" => RepOk(reports[i].rep, observed)
  /\ \A c \in calls : c.kind = "observe" => RepOk(c.rep, observed)

EvTyped(e) ==
  /\ IsRecord(e)
  /\ e.staged \in Seq(Msgs) /\ e.nextReport \in Nat
  /\ IsMap(e.batches)
  /\ \A b \in DOMAIN e.batches : e.batches[b] \in [ids: Seq(Msgs), phase: Claimed .. Ended]
  /\ IsMap(e.reports) /\ DOMAIN e.reports \subseteq Nat /\ IsFiniteSet(DOMAIN e.reports)

\* A message is held once: staged, or in one batch.
EvUnique(e) ==
  /\ \A i, j \in DOMAIN e.staged : e.staged[i] = e.staged[j] => i = j
  /\ \A b \in DOMAIN e.batches : \A i \in DOMAIN e.batches[b].ids :
       LET m == e.batches[b].ids[i] IN
       /\ m \notin ToSet(e.staged)
       /\ \A c \in DOMAIN e.batches : m \in ToSet(e.batches[c].ids) => c = b

EvReports(e, obs) ==
  \A n \in DOMAIN e.reports : n > e.nextReport /\ RepOk(e.reports[n], obs)

EvCredit(e, obs, cred) ==
  /\ \A i \in DOMAIN e.staged : cred[e.staged[i]] = 0
  /\ \A b \in DOMAIN e.batches : \A i \in DOMAIN e.batches[b].ids :
       LET m == e.batches[b].ids[i] IN
       cred[m] = e.batches[b].phase /\ e.batches[b].phase <= obs[m]

EvOk(e, obs, cred) ==
  ~e.failed /\ EvTyped(e) /\ EvUnique(e) /\ EvReports(e, obs) /\ EvCredit(e, obs, cred)

EvidenceInv ==
  Healthy =>
    /\ \A o \in Owners : EvOk(ev[o], observed, credited) /\ Holds(ev[o]) \subseteq Sent
    /\ \A o, p \in Owners : o # p => Holds(ev[o]) \cap Holds(ev[p]) = {}
    /\ \A o, p \in Owners : \A i \in DOMAIN inbox[o] : inbox[o][i] \notin Holds(ev[p])

CreditInv == \A m \in Msgs : credited[m] <= observed[m]

IInv == TypeInv /\ HolderInv /\ PlaceInv /\ BatchInv /\ PendingInv /\ EvidenceInv /\ CreditInv

-----------------------------------------------------------------------------
\* A set of natural numbers has a least element.
LEMMA LeastIs ==
  ASSUME NEW S \in SUBSET Nat, S # {}
  PROVE  Min(S) \in S /\ \A y \in S : Min(S) <= y
<1>1. IsWellFoundedOn(OpToRel(<, Nat), Nat)
  BY NatLessThanWellFounded
<1>2. PICK x \in S : \A y \in S : ~(<<y, x>> \in OpToRel(<, Nat))
  BY <1>1, WFMin, Zenon
<1>3. \A y \in S : ~(y < x)
  BY <1>2 DEF OpToRel
<1>4. x \in S /\ \A y \in S : x <= y
  BY <1>3
<1> QED BY <1>4 DEF Min

\* Induction over the natural numbers, for a set.
LEMMA SetInduction ==
  ASSUME NEW N, 0 \in N, \A n \in Nat : n \in N => n + 1 \in N
  PROVE  \A n \in Nat : n \in N
<1> DEFINE T == {n \in Nat : n \notin N}
<1> SUFFICES ASSUME T # {} PROVE FALSE
  BY DEF T
<1>1. PICK x \in T : \A y \in T : x <= y
  <2>1. T \in SUBSET Nat
    OBVIOUS
  <2> HIDE DEF T
  <2> QED BY <2>1, LeastIs
<1>2. x \in Nat /\ x # 0 /\ x \notin N
  OBVIOUS
<1>3. x - 1 \in Nat /\ ~(x <= x - 1) /\ (x - 1) + 1 = x
  BY <1>2
<1>4. x - 1 \in N
  BY <1>1, <1>3
<1> QED BY <1>2, <1>3, <1>4

\* The greatest of a set that ends with m.
LEMMA MaxLast ==
  ASSUME NEW m \in Nat, NEW s \in SUBSET (1 .. m), m \in s
  PROVE  Max(s) = m
<1>1. \A y \in s : m >= y
  OBVIOUS
<1>2. \A x \in s : (\A y \in s : x >= y) => x = m
  OBVIOUS
<1> QED BY <1>1, <1>2 DEF Max

\* h computes the fold of ApplyNext for every part of the first m numbers.
Iter(base, seq, m, h) ==
  h = [s \in SUBSET (1 .. m) |->
         IF s = {} THEN base ELSE ApplyNext(h[s \ {Max(s)}], seq[Max(s)])]

\* The recursive function that folds is well defined.
LEMMA IterExists ==
  ASSUME NEW base, NEW seq
  PROVE  \A m \in Nat : \E h : Iter(base, seq, m, h)
<1> DEFINE N == {m \in Nat : \E h : Iter(base, seq, m, h)}
<1>1. 0 \in N
  <2> DEFINE h == [s \in SUBSET (1 .. 0) |-> base]
  <2>0. 1 .. 0 = {} OBVIOUS
  <2>1. Iter(base, seq, 0, h)
    BY <2>0 DEF Iter
  <2> QED BY <2>1
<1>2. ASSUME NEW m \in Nat, m \in N PROVE m + 1 \in N
  <2>1. PICK h : Iter(base, seq, m, h)
    BY <1>2
  <2> DEFINE k == [s \in SUBSET (1 .. m+1) |->
       IF m + 1 \in s THEN ApplyNext(h[s \ {m + 1}], seq[m + 1]) ELSE h[s]]
  <2>2. ASSUME NEW s \in SUBSET (1 .. m+1)
        PROVE  k[s] = IF s = {} THEN base ELSE ApplyNext(k[s \ {Max(s)}], seq[Max(s)])
    <3> s \ {m+1} \in SUBSET (1 .. m)
      OBVIOUS
    <3>1. CASE m + 1 \in s
      <4>1. Max(s) = m + 1 BY <3>1, MaxLast
      <4>2. k[s \ {m+1}] = h[s \ {m+1}] OBVIOUS
      <4> QED BY <3>1, <4>1, <4>2
    <3>2. CASE m + 1 \notin s
      <4>1. s \in SUBSET (1 .. m) BY <3>2
      <4>2. k[s] = h[s] BY <3>2
      <4>3. s \ {Max(s)} \in SUBSET (1 .. m) BY <4>1
      <4>4. k[s \ {Max(s)}] = h[s \ {Max(s)}] BY <4>3, <3>2
      <4>5. h[s] = IF s = {} THEN base ELSE ApplyNext(h[s \ {Max(s)}], seq[Max(s)])
        BY <2>1, <4>1 DEF Iter
      <4> QED BY <4>2, <4>4, <4>5
    <3> QED BY <3>1, <3>2
  <2>3. k = [s \in SUBSET (1 .. m+1) |-> k[s]] OBVIOUS
  <2> HIDE DEF k
  <2>4. Iter(base, seq, m + 1, k)
    BY <2>2, <2>3 DEF Iter
  <2> QED BY <2>4
<1> HIDE DEF N
<1>3. \A m \in Nat : m \in N
  BY <1>1, <1>2, SetInduction
<1> QED BY <1>3 DEF N

\* What Enqueue makes of the reports that are due.
Applied(base, seq) == FoldLeft(ApplyNext, base, seq)

\* Folding ApplyNext over a sequence goes step by step.
LEMMA FoldSteps ==
  ASSUME NEW base, NEW seq, NEW n \in Nat, DOMAIN seq = 1 .. n
  PROVE  \E g : /\ g[0] = base
                /\ \A i \in 1 .. n : g[i] = ApplyNext(g[i - 1], seq[i])
                /\ Applied(base, seq) = g[n]
<1> DEFINE h == CHOOSE h : Iter(base, seq, n, h)
<1>1. Iter(base, seq, n, h)
  BY IterExists
<1>2. Applied(base, seq) = h[1 .. n]
  BY Zenon DEF Applied, FoldLeft, MapThenFoldSet, Iter
<1> HIDE DEF h
<1> DEFINE g == [i \in 0 .. n |-> h[1 .. i]]
<1>3. g[0] = base
  <2>1. 1 .. 0 = {} OBVIOUS
  <2> QED BY <1>1, <2>1 DEF Iter
<1>4. ASSUME NEW i \in 1 .. n PROVE g[i] = ApplyNext(g[i - 1], seq[i])
  <2>1. 1 .. i \in SUBSET (1 .. n) /\ 1 .. i # {} /\ i \in 1 .. i /\ i \in Nat
    OBVIOUS
  <2>2. Max(1 .. i) = i BY <2>1, MaxLast
  <2>3. (1 .. i) \ {i} = 1 .. (i - 1) OBVIOUS
  <2>4. h[1 .. i] = ApplyNext(h[(1 .. i) \ {i}], seq[i])
    BY <1>1, <2>1, <2>2 DEF Iter
  <2>5. i \in 0 .. n /\ i - 1 \in 0 .. n OBVIOUS
  <2> QED BY <2>3, <2>4, <2>5
<1>5. g[n] = h[1 .. n]
  OBVIOUS
<1> HIDE DEF g
<1> QED BY <1>2, <1>3, <1>4, <1>5

\* The fold over seq is reached from base in n steps.
InSteps(base, seq, n) ==
  \E g : /\ g[0] = base
         /\ \A i \in 1 .. n : g[i] = ApplyNext(g[i - 1], seq[i])
         /\ Applied(base, seq) = g[n]

\* FoldSteps by its name.
LEMMA FoldRun ==
  ASSUME NEW base, NEW seq, NEW n \in Nat, DOMAIN seq = 1 .. n
  PROVE  InSteps(base, seq, n)
BY FoldSteps DEF InSteps

\* A set of the first k numbers is finite.
LEMMA BoundedFinite ==
  ASSUME NEW k \in Nat, NEW S \in SUBSET (1 .. k)
  PROVE  IsFiniteSet(S) /\ Cardinality(S) \in Nat
<1>1. IsFiniteSet(1 .. k)
  BY FS_Interval
<1>2. IsFiniteSet(S)
  BY <1>1, FS_Subset
<1> QED BY <1>2, FS_CardinalityType

\* The numbers of a finite set can be put in order.
LEMMA AscendingExists ==
  \A k \in Nat : \A S \in SUBSET (1 .. k) :
    \E f \in [1 .. Cardinality(S) -> S] : \A i, j \in DOMAIN f : i < j => f[i] < f[j]
<1> DEFINE G(S) == \E f \in [1 .. Cardinality(S) -> S] : \A i, j \in DOMAIN f : i < j => f[i] < f[j]
           N == {k \in Nat : \A S \in SUBSET (1 .. k) : G(S)}
<1>1. 0 \in N
  <2>1. ASSUME NEW S \in SUBSET (1 .. 0) PROVE G(S)
    <3>0. S = {}
      OBVIOUS
    <3>1. S = {} /\ Cardinality(S) = 0
      BY <3>0, FS_EmptySet
    <3>2. [i \in 1 .. 0 |-> i] \in [1 .. 0 -> {}]
      OBVIOUS
    <3> QED BY <3>1, <3>2
  <2> QED BY <2>1
<1>2. ASSUME NEW k \in Nat, k \in N PROVE k + 1 \in N
  <2>1. ASSUME NEW S \in SUBSET (1 .. k + 1) PROVE G(S)
    <3>1. CASE k + 1 \notin S
      <4>1. S \in SUBSET (1 .. k) BY <3>1
      <4> QED BY <4>1, <1>2
    <3>2. CASE k + 1 \in S
      <4> DEFINE R == S \ {k + 1}
      <4>1. R \in SUBSET (1 .. k) OBVIOUS
      <4>2. G(R) BY <4>1, <1>2
      <4>0. k + 1 \in Nat
        OBVIOUS
      <4>3. IsFiniteSet(S)
        BY <4>0, BoundedFinite
      <4>4. IsFiniteSet(R) /\ Cardinality(R) = Cardinality(S) - 1 /\ Cardinality(S) \in Nat
        BY <4>3, <3>2, FS_RemoveElement, FS_CardinalityType
      <4>5. PICK n \in Nat : n = Cardinality(R)
        BY <4>4, FS_CardinalityType
      <4>6. Cardinality(S) = n + 1 BY <4>4, <4>5
      <4>7. PICK f \in [1 .. n -> R] : \A i, j \in DOMAIN f : i < j => f[i] < f[j]
        BY <4>2, <4>5
      <4> DEFINE h == [i \in 1 .. n + 1 |-> IF i = n + 1 THEN k + 1 ELSE f[i]]
      <4>8. h \in [1 .. n + 1 -> S]
        BY <4>7, <3>2
      <4>9. ASSUME NEW i \in 1 .. n + 1, NEW j \in 1 .. n + 1, i < j PROVE h[i] < h[j]
        <5>0. i \in 1 .. n /\ h[i] = f[i]
          BY <4>9
        <5>1. i \in 1 .. n /\ h[i] = f[i] /\ f[i] \in 1 .. k
          BY <5>0, <4>7, <4>1
        <5>2. CASE j = n + 1 BY <5>1, <5>2
        <5>3. CASE j # n + 1
          <6>1. j \in 1 .. n /\ h[j] = f[j] BY <5>3
          <6> QED BY <5>1, <6>1, <4>7, <4>9
        <5> QED BY <5>2, <5>3
      <4> HIDE DEF h
      <4> QED BY <4>6, <4>8, <4>9
    <3> QED BY <3>1, <3>2
  <2> HIDE DEF G
  <2> QED BY <2>1
<1> HIDE DEF N
<1>3. \A k \in Nat : k \in N
  BY <1>1, <1>2, SetInduction
<1> QED BY <1>3 DEF N

\* What Ascending returns.
LEMMA AscendingIs ==
  ASSUME NEW k \in Nat, NEW S \in SUBSET (1 .. k)
  PROVE  /\ Ascending(S) \in [1 .. Cardinality(S) -> S]
         /\ \A i, j \in 1 .. Cardinality(S) : i < j => Ascending(S)[i] < Ascending(S)[j]
         /\ Cardinality(S) \in Nat
<1>2. Cardinality(S) \in Nat
  BY BoundedFinite
<1>3. \E f \in [1 .. Cardinality(S) -> S] : \A i, j \in DOMAIN f : i < j => f[i] < f[j]
  BY AscendingExists
<1> DEFINE f == Ascending(S)
<1>4. f \in [1 .. Cardinality(S) -> S] /\ \A i, j \in DOMAIN f : i < j => f[i] < f[j]
  BY <1>3 DEF Ascending
<1> HIDE DEF f
<1>5. DOMAIN f = 1 .. Cardinality(S)
  BY <1>4
<1>6. \A i, j \in 1 .. Cardinality(S) : i < j => f[i] < f[j]
  BY <1>4, <1>5
<1> QED BY <1>2, <1>4, <1>6 DEF f

-----------------------------------------------------------------------------
\* What the sets of the elements of sequences are.

\* The elements of a sequence over T.
LEMMA ToSetIs ==
  ASSUME NEW T, NEW s \in Seq(T)
  PROVE  ToSet(s) \subseteq T /\ \A x : x \in ToSet(s) <=> \E i \in DOMAIN s : s[i] = x
BY DEF ToSet

\* A message put in an owner's place, in a function typed as the loops are.
LEMMA PutTyped ==
  ASSUME NEW m \in Msgs, NEW o \in Owners
  PROVE  \A f \in [Owners -> Msgs \cup {NoMsg}] :
           [f EXCEPT ![o] = m] \in [Owners -> Msgs \cup {NoMsg}]
OBVIOUS

\* The head and the tail of a sequence that is not empty.
LEMMA TailIs ==
  ASSUME NEW T, NEW s \in Seq(T), s # <<>>
  PROVE  /\ Head(s) \in T /\ Tail(s) \in Seq(T)
         /\ 1 \in DOMAIN s /\ Head(s) = s[1] /\ DOMAIN Tail(s) = 1 .. Len(s) - 1
         /\ \A i \in DOMAIN Tail(s) : i + 1 \in DOMAIN s /\ Tail(s)[i] = s[i + 1]
BY HeadTailProperties

\* A sequence with one element more.
LEMMA AppendIs ==
  ASSUME NEW T, NEW s \in Seq(T), NEW x \in T
  PROVE  /\ Append(s, x) \in Seq(T) /\ Len(Append(s, x)) = Len(s) + 1
         /\ DOMAIN s = 1 .. Len(s) /\ DOMAIN Append(s, x) = 1 .. Len(s) + 1 /\ Len(s) \in Nat
         /\ \A i \in DOMAIN s : Append(s, x)[i] = s[i]
         /\ Append(s, x)[Len(s) + 1] = x
         /\ ToSet(Append(s, x)) = ToSet(s) \cup {x}
<1>1. /\ Append(s, x) \in Seq(T) /\ Len(Append(s, x)) = Len(s) + 1 /\ Len(s) \in Nat
      /\ DOMAIN s = 1 .. Len(s) /\ DOMAIN Append(s, x) = 1 .. Len(s) + 1
      /\ \A i \in 1 .. Len(s) : Append(s, x)[i] = s[i]
      /\ Append(s, x)[Len(s) + 1] = x
  BY AppendProperties
<1>2. ToSet(Append(s, x)) = ToSet(s) \cup {x}
  BY <1>1 DEF ToSet
<1> QED BY <1>1, <1>2

\* RemoveFirst takes one place out of a sequence.
LEMMA RemoveFirstIs ==
  ASSUME NEW T, NEW s \in Seq(T), NEW e, Contains(s, e)
  PROVE  /\ RemoveFirst(s, e) \in Seq(T)
         /\ \E k \in DOMAIN s :
              /\ s[k] = e
              /\ DOMAIN RemoveFirst(s, e) = 1 .. Len(s) - 1
              /\ \A i \in DOMAIN RemoveFirst(s, e) :
                   IF i < k THEN i \in DOMAIN s /\ RemoveFirst(s, e)[i] = s[i]
                   ELSE i + 1 \in DOMAIN s /\ RemoveFirst(s, e)[i] = s[i + 1]
<1> DEFINE I == {i \in 1 .. Len(s) : s[i] = e}
           k == Min(I)
<1>1. I # {} /\ I \in SUBSET Nat
  BY DEF Contains
<1>2. k \in I
  BY <1>1, LeastIs
<1>3. k \in 1 .. Len(s) /\ Len(s) \in Nat /\ s[k] = e
  BY <1>2
<1>4. RemoveFirst(s, e) = SubSeq(s, 1, k - 1) \o SubSeq(s, k + 1, Len(s))
  BY <1>1 DEF RemoveFirst, RemoveAt, SelectInSeq
<1> HIDE DEF k
<1> DEFINE a == SubSeq(s, 1, k - 1)
           b == SubSeq(s, k + 1, Len(s))
<1>5. a \in Seq(T) /\ Len(a) = k - 1 /\ \A i \in 1 .. k - 1 : a[i] = s[i]
  <2>1. 1 \in Int /\ k - 1 \in Int /\ \A i \in 1 .. k - 1 : s[i] \in T
    BY <1>3
  <2> QED BY <2>1, <1>3, SubSeqProperties
<1>6. b \in Seq(T) /\ Len(b) = Len(s) - k /\ \A i \in 1 .. Len(s) - k : b[i] = s[k + i]
  <2>1. k + 1 \in Int /\ Len(s) \in Int /\ \A i \in k + 1 .. Len(s) : s[i] \in T
    BY <1>3
  <2>2. /\ b \in Seq(T) /\ Len(b) = IF k + 1 <= Len(s) THEN Len(s) - (k + 1) + 1 ELSE 0
        /\ \A i \in 1 .. Len(s) - (k + 1) + 1 : b[i] = s[k + 1 + i - 1]
    BY <2>1, SubSeqProperties
  <2> QED BY <2>2, <1>3
<1> HIDE DEF a, b
<1>7. /\ a \o b \in Seq(T) /\ Len(a \o b) = Len(a) + Len(b)
      /\ \A i \in 1 .. Len(a) + Len(b) : (a \o b)[i] = IF i <= Len(a) THEN a[i] ELSE b[i - Len(a)]
  BY <1>5, <1>6, ConcatProperties
<1> DEFINE d == a \o b
<1>8. d \in Seq(T) /\ DOMAIN d = 1 .. Len(s) - 1
  <2>1. Len(d) = Len(s) - 1
    BY <1>3, <1>5, <1>6, <1>7
  <2> QED BY <2>1, <1>7
<1>9. ASSUME NEW i \in 1 .. Len(s) - 1
      PROVE IF i < k THEN i \in 1 .. Len(s) /\ d[i] = s[i]
            ELSE i + 1 \in 1 .. Len(s) /\ d[i] = s[i + 1]
  <2>1. i \in 1 .. Len(a) + Len(b)
    BY <1>3, <1>5, <1>6
  <2>2. CASE i < k
    <3>1. i <= Len(a) /\ i \in 1 .. k - 1 /\ i \in 1 .. Len(s) BY <1>3, <1>5, <2>2
    <3> QED BY <3>1, <2>1, <2>2, <1>5, <1>7
  <2>3. CASE ~(i < k)
    <3>1. ~(i <= Len(a)) /\ i - Len(a) = i - k + 1 /\ i - k + 1 \in 1 .. Len(s) - k
      BY <1>3, <1>5, <2>3
    <3>2. d[i] = b[i - k + 1]
      BY <3>1, <2>1, <1>7
    <3>3. b[i - k + 1] = s[k + (i - k + 1)] /\ k + (i - k + 1) = i + 1
      BY <3>1, <1>6, <1>3
    <3> QED BY <3>2, <3>3, <2>3, <1>3
  <2> QED BY <2>2, <2>3
<1>10. DOMAIN s = 1 .. Len(s)
  OBVIOUS
<1> HIDE DEF d
<1>11. RemoveFirst(s, e) = d
  BY <1>4 DEF d, a, b
<1> QED BY <1>3, <1>8, <1>9, <1>10, <1>11

\* t is s without one of its elements.
OneOut(s, t) ==
  \E k \in DOMAIN s :
    /\ DOMAIN t = 1 .. Len(s) - 1
    /\ \A i \in DOMAIN t : IF i < k THEN i \in DOMAIN s /\ t[i] = s[i]
                           ELSE i + 1 \in DOMAIN s /\ t[i] = s[i + 1]

\* RemoveFirst takes one element out.
LEMMA RemoveFirstShort ==
  ASSUME NEW T, NEW s \in Seq(T), NEW e, Contains(s, e)
  PROVE  RemoveFirst(s, e) \in Seq(T) /\ OneOut(s, RemoveFirst(s, e))
BY RemoveFirstIs DEF OneOut

-----------------------------------------------------------------------------
\* What the operations on a binding's evidence keep.

\* The messages the evidence holds.
LEMMA HoldsIs ==
  ASSUME NEW e, EvTyped(e)
  PROVE  \A m : m \in Holds(e) <=>
           \/ \E i \in DOMAIN e.staged : e.staged[i] = m
           \/ \E b \in DOMAIN e.batches : \E i \in DOMAIN e.batches[b].ids : e.batches[b].ids[i] = m
BY DEF Holds, BatchMessages, ToSet

\* A reservation adds one message, which native has not reached.
LEMMA ReserveOk ==
  ASSUME NEW e, NEW obs, NEW cred, EvOk(e, obs, cred), NEW m \in Msgs, m \notin Holds(e), cred[m] = 0
  PROVE  EvOk(Reserve(e, m), obs, cred) /\ Holds(Reserve(e, m)) = Holds(e) \cup {m}
<1> DEFINE s == Append(e.staged, m)
           k == Reserve(e, m)
<1>t. EvTyped(e)
  BY DEF EvOk
<1> HIDE DEF s
<1>1. /\ k.staged = s /\ k.batches = e.batches /\ k.nextReport = e.nextReport
      /\ k.reports = e.reports /\ k.failed = e.failed
      /\ IsRecord(k)
  BY <1>t DEF EvTyped, IsRecord, EvidenceFields, Reserve, s
<1> HIDE DEF k
<1> USE DEF EvOk
<1>2. /\ s \in Seq(Msgs)
      /\ DOMAIN e.staged = 1 .. Len(e.staged) /\ DOMAIN s = 1 .. Len(e.staged) + 1
      /\ Len(e.staged) \in Nat /\ \A i \in DOMAIN e.staged : s[i] = e.staged[i]
      /\ s[Len(e.staged) + 1] = m
      /\ ToSet(s) = ToSet(e.staged) \cup {m}
  BY AppendIs DEF EvTyped, s
<1>3. EvTyped(k)
  BY <1>1, <1>2 DEF EvTyped
<1>4. \A i \in DOMAIN e.staged : e.staged[i] # m
  BY HoldsIs
<1>5. \A b \in DOMAIN e.batches : \A i \in DOMAIN e.batches[b].ids : e.batches[b].ids[i] # m
  BY HoldsIs
<1>6. \A i, j \in DOMAIN k.staged : k.staged[i] = k.staged[j] => i = j
  BY <1>1, <1>2, <1>4 DEF EvUnique
<1>7. EvUnique(k)
  BY <1>1, <1>2, <1>5, <1>6 DEF EvUnique
<1>8. EvReports(k, obs)
  BY <1>1 DEF EvReports
<1>9. EvCredit(k, obs, cred)
  BY <1>1, <1>2 DEF EvCredit
<1>10. Holds(k) = Holds(e) \cup {m}
  BY <1>1, <1>2 DEF Holds, BatchMessages
<1> QED BY <1>1, <1>3, <1>7, <1>8, <1>9, <1>10 DEF k

\* A withdrawal takes one message out.
LEMMA WithdrawOk ==
  ASSUME NEW e, NEW obs, NEW cred, EvOk(e, obs, cred), NEW m, ~Withdraw(e, m).failed
  PROVE  EvOk(Withdraw(e, m), obs, cred) /\ Holds(Withdraw(e, m)) \subseteq Holds(e)
<1> USE DEF EvOk
<1>0. Contains(e.staged, m)
  BY DEF Withdraw, Fail, EvTyped, IsRecord, EvidenceFields
<1> DEFINE k == Withdraw(e, m)
           s == RemoveFirst(e.staged, m)
<1>1. /\ k.staged = s /\ k.batches = e.batches /\ k.nextReport = e.nextReport
      /\ k.reports = e.reports /\ k.failed = e.failed
      /\ IsRecord(k)
  BY <1>0 DEF EvTyped, Withdraw, IsRecord, EvidenceFields
<1>2. s \in Seq(Msgs) /\ OneOut(e.staged, s)
  <2>1. e.staged \in Seq(Msgs) BY DEF EvTyped
  <2> QED BY <2>1, <1>0, RemoveFirstShort
<1> HIDE DEF k, s
<1>3. PICK x \in DOMAIN e.staged :
              /\ DOMAIN s = 1 .. Len(e.staged) - 1
              /\ \A i \in DOMAIN s :
                   IF i < x THEN i \in DOMAIN e.staged /\ s[i] = e.staged[i]
                   ELSE i + 1 \in DOMAIN e.staged /\ s[i] = e.staged[i + 1]
  BY <1>2 DEF OneOut
<1>4. e.staged \in Seq(Msgs) /\ x \in Nat
  BY <1>3 DEF EvTyped
<1>5. \A i, j \in DOMAIN s : s[i] = s[j] => i = j
  BY <1>3, <1>4 DEF EvUnique
<1>6. \A i \in DOMAIN s : \E j \in DOMAIN e.staged : s[i] = e.staged[j]
  BY <1>3, <1>4
<1>7. ToSet(s) \subseteq ToSet(e.staged)
  BY <1>6 DEF ToSet
<1>8. EvTyped(k)
  BY <1>1, <1>2 DEF EvTyped
<1>9. EvUnique(k)
  BY <1>1, <1>5, <1>7 DEF EvUnique
<1>10. EvReports(k, obs)
  BY <1>1 DEF EvReports
<1>11. EvCredit(k, obs, cred)
  BY <1>1, <1>6 DEF EvCredit
<1>12. Holds(k) \subseteq Holds(e)
  BY <1>1, <1>7 DEF Holds, BatchMessages
<1> QED BY <1>1, <1>8, <1>9, <1>10, <1>11, <1>12 DEF k

\* How the evidence e relates to e0, from which reports were applied: nothing is
\* added, a batch is ahead of what was credited and not of native, and what is no
\* longer held has reached the context.
Folded(e0, e, obs, cred) ==
  /\ ~e.failed /\ EvTyped(e) /\ EvUnique(e)
  /\ ToSet(e.staged) \subseteq ToSet(e0.staged) /\ Holds(e) \subseteq Holds(e0)
  /\ \A b \in DOMAIN e.batches : \A i \in DOMAIN e.batches[b].ids :
       LET m == e.batches[b].ids[i] IN
       cred[m] <= e.batches[b].phase /\ e.batches[b].phase <= obs[m]
  /\ \A m \in Holds(e0) \ Holds(e) : obs[m] = InContext

\* A claim moves a prefix of what is staged into a batch.
LEMMA ClaimOk ==
  ASSUME NEW e0, NEW e, NEW obs \in [Msgs -> 0 .. InContext], NEW cred, NEW r,
         \A i \in DOMAIN e0.staged : cred[e0.staged[i]] = 0,
         Folded(e0, e, obs, cred), RepOk(r, obs), r.batch \notin DOMAIN e.batches,
         ~Claim(e, r).failed
  PROVE  /\ Folded(e0, Claim(e, r), obs, cred)
         /\ Claim(e, r).reports = e.reports /\ Claim(e, r).nextReport = e.nextReport
<1> USE DEF Claimed, Ended, InContext
<1>0. r.phase = Claimed /\ IsPrefix(r.ids, e.staged) /\ EvTyped(e) /\ ~e.failed
      /\ Claim(e, r) = [e EXCEPT !.staged  = SubSeq(@, Len(r.ids) + 1, Len(@)),
                  !.batches = Extended(@, r.batch, [ids |-> r.ids, phase |-> Claimed]),
                  !.bytes   = @ + 1]
  <2>1. Fail(e).failed
    BY DEF Folded, EvTyped, Fail, IsRecord, EvidenceFields
  <2> QED BY <2>1 DEF Claim, Folded, Claimable
<1> DEFINE k == Claim(e, r)
           q == [ids |-> r.ids, phase |-> Claimed]
           t == SubSeq(e.staged, Len(r.ids) + 1, Len(e.staged))
           n == Len(r.ids)
<1>1. /\ k.staged = t /\ k.nextReport = e.nextReport /\ k.batches = Extended(e.batches, r.batch, q)
      /\ k.reports = e.reports /\ k.failed = e.failed
      /\ IsRecord(k)
  BY <1>0 DEF EvTyped, IsRecord, EvidenceFields
<1> HIDE DEF k
<1>2. r.ids \in Seq(Msgs) /\ e.staged \in Seq(Msgs) /\ n \in Nat /\ Len(e.staged) \in Nat
      /\ n <= Len(e.staged) /\ SubSeq(r.ids, 1, n) = SubSeq(e.staged, 1, n)
  BY <1>0 DEF RepOk, RepType, EvTyped, IsPrefix
<1>3. \A i \in 1 .. n : i \in DOMAIN e.staged /\ r.ids[i] = e.staged[i]
  <2>1. /\ \A i \in 1 .. n : r.ids[i] \in Msgs
        /\ \A i \in 1 .. n : e.staged[i] \in Msgs
    BY <1>2
  <2>2. \A i \in 1 .. n - 1 + 1 : SubSeq(r.ids, 1, n)[i] = r.ids[1 + i - 1]
    BY <2>1, <1>2, SubSeqProperties
  <2>3. \A i \in 1 .. n - 1 + 1 : SubSeq(e.staged, 1, n)[i] = e.staged[1 + i - 1]
    BY <2>1, <1>2, SubSeqProperties
  <2> QED BY <2>2, <2>3, <1>2
<1>4. /\ t \in Seq(Msgs) /\ DOMAIN t = 1 .. Len(e.staged) - n
      /\ \A i \in DOMAIN t : i + n \in DOMAIN e.staged /\ t[i] = e.staged[i + n]
  <2>1. \A i \in n + 1 .. Len(e.staged) : e.staged[i] \in Msgs
    BY <1>2
  <2>2. n + 1 \in Int /\ Len(e.staged) \in Int
    BY <1>2
  <2> HIDE DEF n
  <2>0. t = SubSeq(e.staged, n + 1, Len(e.staged))
    BY DEF n
  <2> HIDE DEF t
  <2>3. /\ t \in Seq(Msgs)
        /\ Len(t) = IF n + 1 <= Len(e.staged) THEN Len(e.staged) - (n + 1) + 1 ELSE 0
        /\ \A i \in 1 .. Len(e.staged) - (n + 1) + 1 : t[i] = e.staged[n + 1 + i - 1]
    BY <2>0, <2>1, <2>2, SubSeqProperties
  <2>4. DOMAIN t = 1 .. Len(t) BY <2>3
  <2>5. DOMAIN t = 1 .. Len(e.staged) - n
    BY <1>2, <2>3, <2>4
  <2>6. \A i \in DOMAIN t : i + n \in DOMAIN e.staged /\ t[i] = e.staged[i + n]
    BY <1>2, <2>3, <2>5
  <2> QED BY <2>3, <2>5, <2>6
<1>5. DOMAIN r.ids = 1 .. n
  BY <1>2
<1> HIDE DEF t, n
<1>6. /\ IsMap(k.batches) /\ DOMAIN k.batches = DOMAIN e.batches \cup {r.batch}
      /\ k.batches[r.batch] = q
      /\ \A b \in DOMAIN e.batches : k.batches[b] = e.batches[b]
  BY <1>1 DEF Extended, IsMap, Folded
<1>7. q.ids = r.ids /\ q.phase = 1 /\ q \in [ids: Seq(Msgs), phase: Claimed .. Ended]
  BY <1>2
<1> HIDE DEF q
<1>8. EvTyped(k)
  BY <1>1, <1>4, <1>6, <1>7, <1>0 DEF EvTyped
<1>9. ToSet(t) \subseteq ToSet(e.staged) /\ ToSet(r.ids) \subseteq ToSet(e.staged)
      /\ ToSet(t) \cap ToSet(r.ids) = {} /\ ToSet(e.staged) \subseteq ToSet(t) \cup ToSet(r.ids)
  <2>1. ToSet(t) \subseteq ToSet(e.staged) BY <1>4 DEF ToSet
  <2>2. ToSet(r.ids) \subseteq ToSet(e.staged) BY <1>3, <1>5 DEF ToSet
  <2>3. \A i \in DOMAIN t, j \in DOMAIN r.ids : t[i] # r.ids[j]
    <3> SUFFICES ASSUME NEW i \in DOMAIN t, NEW j \in DOMAIN r.ids, t[i] = r.ids[j] PROVE FALSE
      OBVIOUS
    <3>1. i + n \in DOMAIN e.staged /\ j \in DOMAIN e.staged /\ e.staged[i + n] = e.staged[j]
      BY <1>3, <1>4, <1>5
    <3>2. i + n = j BY <3>1 DEF Folded, EvUnique
    <3>3. i \in Nat /\ i >= 1 /\ j <= n /\ j \in Nat BY <1>2, <1>4, <1>5
    <3> QED BY <3>2, <3>3, <1>2
  <2>4. ASSUME NEW j \in DOMAIN e.staged PROVE e.staged[j] \in ToSet(t) \cup ToSet(r.ids)
    <3>0. j \in 1 .. Len(e.staged) BY <1>2
    <3>1. CASE j <= n
      <4>1. j \in DOMAIN r.ids /\ r.ids[j] = e.staged[j] BY <3>0, <3>1, <1>3, <1>5
      <4> QED BY <4>1 DEF ToSet
    <3>2. CASE ~(j <= n)
      <4>1. j - n \in DOMAIN t /\ (j - n) + n = j BY <3>0, <3>2, <1>2, <1>4
      <4>2. t[j - n] = e.staged[j] BY <4>1, <1>4
      <4> QED BY <4>1, <4>2 DEF ToSet
    <3> QED BY <3>1, <3>2
  <2> QED BY <2>1, <2>2, <2>3, <2>4 DEF ToSet
<1>10. \A b \in DOMAIN e.batches : \A i \in DOMAIN e.batches[b].ids :
         e.batches[b].ids[i] \notin ToSet(r.ids) /\ e.batches[b].ids[i] \notin ToSet(t)
  BY <1>9 DEF Folded, EvUnique
<1>11. EvUnique(k)
  <2>1. \A i, j \in DOMAIN k.staged : k.staged[i] = k.staged[j] => i = j
    <3>1. \A i, j \in DOMAIN e.staged : e.staged[i] = e.staged[j] => i = j
      BY DEF Folded, EvUnique
    <3>2. \A i, j \in DOMAIN t : t[i] = t[j] => i + n = j + n
      BY <1>4, <3>1
    <3>3. \A i \in DOMAIN t : i \in Int BY <1>4
    <3> QED BY <1>1, <1>2, <3>2, <3>3
  <2>2. ASSUME NEW b \in DOMAIN k.batches, NEW i \in DOMAIN k.batches[b].ids
        PROVE LET m == k.batches[b].ids[i] IN
              /\ m \notin ToSet(k.staged)
              /\ \A c \in DOMAIN k.batches : m \in ToSet(k.batches[c].ids) => c = b
    <3>1. CASE b = r.batch
      <4>1. k.batches[b].ids = r.ids /\ k.batches[b].ids[i] \in ToSet(r.ids)
        BY <3>1, <1>6, <1>7, <2>2 DEF ToSet
      <4>2. \A c \in DOMAIN e.batches : k.batches[b].ids[i] \notin ToSet(e.batches[c].ids)
        BY <4>1, <1>10 DEF ToSet
      <4> QED BY <4>1, <4>2, <3>1, <1>1, <1>6, <1>9
    <3>2. CASE b # r.batch
      <4>1. b \in DOMAIN e.batches /\ k.batches[b] = e.batches[b] BY <3>2, <1>6
      <4>2. k.batches[b].ids[i] \notin ToSet(r.ids) /\ k.batches[b].ids[i] \notin ToSet(t)
        BY <4>1, <1>10, <2>2
      <4>3. \A c \in DOMAIN e.batches : e.batches[b].ids[i] \in ToSet(e.batches[c].ids) => c = b
        BY <4>1, <2>2 DEF Folded, EvUnique
      <4> QED BY <4>1, <4>2, <4>3, <1>1, <1>6, <1>7
    <3> QED BY <3>1, <3>2
  <2> QED BY <2>1, <2>2 DEF EvUnique
<1>12. Holds(k) = Holds(e)
  <2>1. BatchMessages(k) = BatchMessages(e) \cup ToSet(r.ids)
    BY <1>6, <1>7 DEF BatchMessages
  <2> QED BY <2>1, <1>1, <1>9 DEF Holds
<1>13. ASSUME NEW b \in DOMAIN k.batches, NEW i \in DOMAIN k.batches[b].ids
       PROVE LET m == k.batches[b].ids[i] IN
             cred[m] <= k.batches[b].phase /\ k.batches[b].phase <= obs[m]
  <2>1. CASE b = r.batch
    <3>1. k.batches[b].ids = r.ids /\ k.batches[b].phase = 1 /\ i \in DOMAIN r.ids
      BY <2>1, <1>6, <1>7, <1>13
    <3>2. r.ids[i] \in ToSet(e0.staged)
      BY <3>1, <1>9 DEF Folded, ToSet
    <3>3. cred[r.ids[i]] = 0
      BY <3>2 DEF ToSet
    <3>4. 1 <= obs[r.ids[i]]
      BY <3>1, <1>0 DEF RepOk
    <3> QED BY <3>1, <3>3, <3>4
  <2>2. CASE b # r.batch
    <3>1. b \in DOMAIN e.batches /\ k.batches[b] = e.batches[b] BY <2>2, <1>6
    <3> QED BY <3>1, <1>13 DEF Folded
  <2> QED BY <2>1, <2>2
<1>14. ToSet(k.staged) \subseteq ToSet(e0.staged) /\ Holds(k) \subseteq Holds(e0)
       /\ \A m \in Holds(e0) \ Holds(k) : obs[m] = InContext
  BY <1>1, <1>9, <1>12 DEF Folded
<1>15. ~k.failed
  BY <1>0, <1>1
<1> QED BY <1>1, <1>8, <1>11, <1>13, <1>14, <1>15 DEF Folded, k

\* An observation of a batch moves it one phase ahead, or out.
LEMMA AdvanceOk ==
  ASSUME NEW e0, NEW e, NEW obs \in [Msgs -> 0 .. InContext], NEW cred \in [Msgs -> 0 .. InContext],
         NEW r,         Folded(e0, e, obs, cred), RepOk(r, obs), r.batch \in DOMAIN e.batches,
         ~Advance(e, r).failed
  PROVE  /\ Folded(e0, Advance(e, r), obs, cred)
         /\ Advance(e, r).reports = e.reports /\ Advance(e, r).nextReport = e.nextReport
<1> USE DEF Claimed, Ended, InContext
<1> DEFINE d == r.batch
<1>0. r.ids = e.batches[d].ids /\ r.phase = e.batches[d].phase + 1 /\ EvTyped(e) /\ ~e.failed
  <2>1. Fail(e).failed
    BY DEF Folded, EvTyped, Fail, IsRecord, EvidenceFields
  <2> QED BY <2>1 DEF Advance, Folded
<1>1. /\ IsMap(e.batches) /\ e.batches[d].ids \in Seq(Msgs) /\ e.batches[d].phase \in 1 .. 3
      /\ e.batches[d] \in [ids: Seq(Msgs), phase: 1 .. 3]
  BY <1>0 DEF EvTyped
<1>2. CASE r.phase # InContext
  <2> DEFINE f == [e.batches EXCEPT ![d].phase = r.phase]
             k == [e EXCEPT !.batches = f]
  <2>1. Advance(e, r) = k
    BY <1>0, <1>2 DEF Advance
  <2>2. /\ IsMap(f) /\ DOMAIN f = DOMAIN e.batches
        /\ f[d].ids = e.batches[d].ids /\ f[d].phase = r.phase
        /\ f[d] \in [ids: Seq(Msgs), phase: 1 .. 3]
        /\ \A b \in DOMAIN e.batches : b # d => f[b] = e.batches[b]
    <3>1. r.phase \in 1 .. 3
      BY <1>0, <1>1, <1>2
    <3> QED BY <1>1, <3>1 DEF IsMap
  <2> HIDE DEF f
  <2>3. /\ k.staged = e.staged /\ k.batches = f /\ k.nextReport = e.nextReport
        /\ k.reports = e.reports /\ k.failed = e.failed
        /\ IsRecord(k)
    BY <1>0 DEF EvTyped, IsRecord, EvidenceFields
  <2> HIDE DEF k
  <2>4. \A b \in DOMAIN f : f[b].ids = e.batches[b].ids /\ f[b] \in [ids: Seq(Msgs), phase: 1 .. 3]
    BY <2>2, <1>0 DEF EvTyped
  <2>5. EvTyped(k)
    BY <1>0, <2>2, <2>3, <2>4 DEF EvTyped
  <2>6. EvUnique(k)
    BY <2>2, <2>3, <2>4 DEF EvUnique, Folded
  <2>7. Holds(k) = Holds(e)
    BY <2>2, <2>3, <2>4 DEF Holds, BatchMessages
  <2>8. ASSUME NEW b \in DOMAIN k.batches, NEW i \in DOMAIN k.batches[b].ids
        PROVE LET m == k.batches[b].ids[i] IN
              cred[m] <= k.batches[b].phase /\ k.batches[b].phase <= obs[m]
    <3>1. i \in DOMAIN e.batches[b].ids /\ k.batches[b].ids = e.batches[b].ids /\ b \in DOMAIN e.batches
      BY <2>8, <2>2, <2>3, <2>4
    <3> DEFINE m == e.batches[b].ids[i]
    <3>2. cred[m] <= e.batches[b].phase /\ e.batches[b].phase <= obs[m]
      BY <3>1 DEF Folded
    <3>3. CASE b # d
      BY <3>1, <3>2, <3>3, <2>2, <2>3
    <3>4. CASE b = d
      <4>1. m \in Msgs
        BY <3>1, <3>4, <1>1
      <4>2. r.phase <= obs[m]
        BY <1>0, <3>1, <3>4 DEF RepOk
      <4>4. k.batches[b].phase = r.phase
        BY <2>2, <2>3, <3>4
      <4> HIDE DEF m
      <4>5. cred[m] <= r.phase
        <5>1. PICK p \in 1 .. 3 : p = e.batches[b].phase BY <1>1, <3>4
        <5>2. cred[m] <= p /\ r.phase = p + 1 BY <5>1, <3>2, <3>4, <1>0 DEF m
        <5>3. cred[m] \in Nat BY <4>1
        <5> QED BY <5>1, <5>2, <5>3
      <4> QED BY <4>2, <4>4, <4>5, <3>1 DEF m
    <3> QED BY <3>3, <3>4
  <2>9. ToSet(k.staged) \subseteq ToSet(e0.staged) /\ Holds(k) \subseteq Holds(e0)
        /\ \A m \in Holds(e0) \ Holds(k) : obs[m] = InContext
    BY <2>3, <2>7 DEF Folded
  <2> QED BY <1>0, <2>1, <2>3, <2>5, <2>6, <2>8, <2>9 DEF Folded
<1>3. CASE r.phase = InContext
  <2> DEFINE f == Without(e.batches, d)
             k == Complete(e, r)
  <2>1. Advance(e, r) = k
    BY <1>0, <1>3 DEF Advance
  <2>2. /\ IsMap(f) /\ DOMAIN f = DOMAIN e.batches \ {d}
        /\ \A b \in DOMAIN f : f[b] = e.batches[b]
    BY DEF Without, Restrict, IsMap
  <2>3. /\ k.staged = e.staged /\ k.batches = f /\ k.nextReport = e.nextReport
        /\ k.reports = e.reports /\ k.failed = e.failed
        /\ IsRecord(k)
    <3> DEFINE c == IF Len(Append(e.completed, d)) > Tracked THEN Tail(Append(e.completed, d))
                    ELSE Append(e.completed, d)
               u == e.bytes - Len(r.ids) - (IF Len(Append(e.completed, d)) > Tracked THEN 1 ELSE 0)
    <3>1. k = [e EXCEPT !.batches = f, !.completed = c, !.bytes = u]
      BY Zenon DEF Complete
    <3> HIDE DEF f, c, u, k
    <3> QED BY <3>1, <1>0 DEF EvTyped, IsRecord, EvidenceFields
  <2> HIDE DEF f, k
  <2>5. EvTyped(k)
    BY <1>0, <2>2, <2>3 DEF EvTyped
  <2>6. EvUnique(k)
    BY <2>2, <2>3 DEF EvUnique, Folded
  <2>7. Holds(k) \subseteq Holds(e) /\ Holds(e) \subseteq Holds(k) \cup ToSet(e.batches[d].ids)
    BY <2>2, <2>3 DEF Holds, BatchMessages
  <2>8. \A m \in ToSet(e.batches[d].ids) : obs[m] = InContext
    <3>1. ASSUME NEW i \in DOMAIN e.batches[d].ids PROVE obs[e.batches[d].ids[i]] = InContext
      <4>1. e.batches[d].ids[i] \in Msgs
        BY <1>1
      <4>2. obs[e.batches[d].ids[i]] \in 0 .. 4
        BY <4>1
      <4>3. 4 <= obs[e.batches[d].ids[i]]
        BY <1>0, <1>3 DEF RepOk
      <4> QED BY <4>2, <4>3
    <3> QED BY <3>1 DEF ToSet
  <2>9. ToSet(k.staged) \subseteq ToSet(e0.staged) /\ Holds(k) \subseteq Holds(e0)
        /\ \A m \in Holds(e0) \ Holds(k) : obs[m] = InContext
    BY <2>3, <2>7, <2>8 DEF Folded
  <2>10. \A b \in DOMAIN k.batches : \A i \in DOMAIN k.batches[b].ids :
            LET m == k.batches[b].ids[i] IN
            cred[m] <= k.batches[b].phase /\ k.batches[b].phase <= obs[m]
    BY <2>2, <2>3 DEF Folded
  <2> QED BY <1>0, <2>1, <2>3, <2>5, <2>6, <2>9, <2>10 DEF Folded
<1> QED BY <1>2, <1>3

\* Nothing that is staged is credited.
Uncredited(e0, cred) == \A i \in DOMAIN e0.staged : cred[e0.staged[i]] = 0

\* k is what applying a report to e may be.
Keeping(e0, e, k, obs, cred) ==
  Folded(e0, k, obs, cred) /\ k.reports = e.reports /\ k.nextReport = e.nextReport

\* A report that is applied keeps the relation.
LEMMA ApplyOk ==
  ASSUME NEW e0, NEW e, NEW obs \in [Msgs -> 0 .. InContext], NEW cred \in [Msgs -> 0 .. InContext],
         NEW r, Uncredited(e0, cred), Folded(e0, e, obs, cred), RepOk(r, obs), ~Apply(e, r).failed
  PROVE  Keeping(e0, e, Apply(e, r), obs, cred)
<1>0. \A i \in DOMAIN e0.staged : cred[e0.staged[i]] = 0
  BY DEF Uncredited
<1>1. CASE r.batch \in DOMAIN e.batches
  <2>1. Apply(e, r) = Advance(e, r)
    BY <1>1 DEF Apply
  <2>2. /\ Folded(e0, Advance(e, r), obs, cred)
        /\ Advance(e, r).reports = e.reports /\ Advance(e, r).nextReport = e.nextReport
    BY <1>0, <1>1, <2>1, AdvanceOk
  <2> QED BY <2>1, <2>2 DEF Keeping
<1>2. CASE r.batch \notin DOMAIN e.batches
  <2>1. Apply(e, r) = Claim(e, r)
    BY <1>2 DEF Apply
  <2>2. /\ Folded(e0, Claim(e, r), obs, cred)
        /\ Claim(e, r).reports = e.reports /\ Claim(e, r).nextReport = e.nextReport
    BY <1>0, <1>2, <2>1, ClaimOk
  <2> QED BY <2>1, <2>2 DEF Keeping
<1> QED BY <1>1, <1>2

\* The relation is about the messages, not about the reports kept back.
LEMMA FoldedSame ==
  ASSUME NEW e0, NEW e, NEW k, NEW obs, NEW cred, Folded(e0, e, obs, cred),
         k.staged = e.staged, k.batches = e.batches, k.failed = e.failed, IsRecord(k),
         k.nextReport \in Nat, IsMap(k.reports), DOMAIN k.reports \subseteq Nat,
         IsFiniteSet(DOMAIN k.reports)
  PROVE  Folded(e0, k, obs, cred)
<1>1. EvTyped(k)
  BY DEF Folded, EvTyped
<1>2. EvUnique(k)
  BY DEF Folded, EvUnique
<1>3. Holds(k) = Holds(e)
  BY DEF Holds, BatchMessages
<1> QED BY <1>1, <1>2, <1>3 DEF Folded

\* The reports whose turn has come are at hand.
LEMMA DueIs ==
  ASSUME NEW k \in Nat, NEW D \in SUBSET Nat, IsFiniteSet(D), \A n \in D : n > k
  PROVE  LET due == {n \in D : \A j \in (k + 1) .. n : j \in D}
         IN  /\ Cardinality(due) \in Nat
             /\ \A i \in 1 .. Cardinality(due) : k + i \in D
<1> DEFINE due == {n \in D : \A j \in (k + 1) .. n : j \in D}
<1>1. IsFiniteSet(due)
  BY FS_Subset
<1>2. PICK c \in Nat : c = Cardinality(due)
  BY <1>1, FS_CardinalityType
<1>3. ASSUME NEW i \in 1 .. c, k + i \notin D PROVE FALSE
  <2>1. due \subseteq (k + 1) .. (k + i - 1)
    <3>1. ASSUME NEW n \in due, n >= k + i PROVE FALSE
      <4>1. k + i \in (k + 1) .. n
        BY <3>1
      <4> QED BY <4>1, <1>3
    <3>2. \A n \in due : n \in Nat /\ n > k
      OBVIOUS
    <3>3. \A n \in due : ~(n >= k + i)
      BY <3>1
    <3>4. k + i \in Nat
      OBVIOUS
    <3> HIDE DEF due
    <3> QED BY <3>2, <3>3, <3>4
  <2>2. IsFiniteSet((k + 1) .. (k + i - 1))
        /\ Cardinality((k + 1) .. (k + i - 1)) = IF k + 1 > k + i - 1 THEN 0 ELSE (k + i - 1) - (k + 1) + 1
    <3>1. k + 1 \in Int /\ k + i - 1 \in Int
      OBVIOUS
    <3> QED BY <3>1, FS_Interval
  <2>3. Cardinality((k + 1) .. (k + i - 1)) = i - 1
    BY <2>2
  <2>4. Cardinality(due) <= Cardinality((k + 1) .. (k + i - 1))
    BY <2>1, <2>2, FS_Subset
  <2>5. c <= i - 1
    BY <2>3, <2>4, <1>2
  <2> QED BY <2>5
<1> QED BY <1>2, <1>3

\* The positions right after k that due counts are all in D.
NoHole(k, D, due) ==
  Cardinality(due) \in Nat /\ \A i \in 1 .. Cardinality(due) : k + i \in D

\* DueIs by its name.
LEMMA DueRun ==
  ASSUME NEW k \in Nat, NEW D \in SUBSET Nat, IsFiniteSet(D), \A n \in D : n > k
  PROVE  NoHole(k, D, {n \in D : \A j \in (k + 1) .. n : j \in D})
BY DueIs DEF NoHole

\* The registry takes report n in: it is ahead, and there is room for it.
Admits(e, n) ==
  /\ ~(n <= e.nextReport) /\ ~(n - e.nextReport > Tracked)
  /\ n \notin DOMAIN e.reports /\ ~(Cardinality(DOMAIN e.reports) >= Tracked)
Buffered(e, n, r) == [e EXCEPT !.reports = Extended(@, n, r), !.bytes = @ + 1]

\* A report that is not taken in fails the evidence.
LEMMA EnqueueIs ==
  ASSUME NEW e, NEW n, NEW r
  PROVE  Enqueue(e, n, r) = IF Admits(e, n)
                            THEN Applied(Buffered(e, n, r), Contiguous(Buffered(e, n, r)))
                            ELSE Fail(e)
BY Zenon DEF Enqueue, Applied, Admits, Buffered

\* g is the run of c reports, from the one after the last applied, that report n lets
\* through: as long as nothing fails, each step keeps the relation to the evidence e, and
\* the reports that are left are honest and ahead.
Runs(e, n, r, obs, cred, c, g) ==
  /\ g[0] = Buffered(e, n, r)
  /\ \A i \in Nat : i + 1 <= c => g[i + 1] = ApplyNext(g[i], e.nextReport + i + 1)
  /\ Enqueue(e, n, r) = g[c]
  /\ \A i \in Nat : i <= c /\ ~g[i].failed =>
       /\ Folded(e, g[i], obs, cred)
       /\ \A j \in DOMAIN g[i].reports : j > e.nextReport + i /\ RepOk(g[i].reports[j], obs)
       /\ i < c => e.nextReport + i + 1 \in DOMAIN g[i].reports
       /\ g[i].nextReport = e.nextReport + i

\* What the registry makes of a report and of those it lets through.
LEMMA EnqueueRuns ==
  ASSUME NEW e, NEW obs \in [Msgs -> 0 .. InContext], NEW cred \in [Msgs -> 0 .. InContext],
         NEW n \in Nat, NEW r, EvOk(e, obs, cred), RepOk(r, obs), Admits(e, n)
  PROVE  \E c \in Nat : \E g : Runs(e, n, r, obs, cred, c, g)
<1> DEFINE x == Buffered(e, n, r)
           k == e.nextReport
           D == DOMAIN e.reports \cup {n}
<1>0. EvTyped(e) /\ EvUnique(e) /\ EvReports(e, obs) /\ EvCredit(e, obs, cred) /\ ~e.failed
  BY DEF EvOk
<1>1. n > k /\ n \notin DOMAIN e.reports /\ Enqueue(e, n, r) = Applied(x, Contiguous(x))
      /\ k \in Nat
  <2>1. k \in Nat
    BY <1>0 DEF EvTyped
  <2>2. Enqueue(e, n, r) = Applied(x, Contiguous(x))
    BY EnqueueIs
  <2> QED BY <2>1, <2>2 DEF Admits
<1>2. /\ x.staged = e.staged /\ x.batches = e.batches /\ x.nextReport = k
      /\ x.failed = e.failed /\ IsRecord(x) /\ x.reports = Extended(e.reports, n, r)
  BY <1>0 DEF EvTyped, IsRecord, EvidenceFields, Buffered
<1> HIDE DEF x
<1>3. /\ IsMap(x.reports) /\ DOMAIN x.reports = D /\ D \subseteq Nat /\ IsFiniteSet(D)
      /\ \A j \in D : j > k /\ RepOk(x.reports[j], obs)
  <2>1. IsFiniteSet(D)
    BY <1>0, FS_AddElement DEF EvTyped
  <2>2. \A j \in DOMAIN e.reports : j > k /\ RepOk(e.reports[j], obs)
    BY <1>0 DEF EvReports
  <2> QED BY <1>0, <1>1, <1>2, <2>1, <2>2 DEF Extended, IsMap, EvTyped
<1>4. Uncredited(e, cred)
  BY <1>0 DEF EvCredit, Uncredited
<1>5. Folded(e, e, obs, cred)
  <2>1. ASSUME NEW b \in DOMAIN e.batches, NEW i \in DOMAIN e.batches[b].ids
        PROVE LET m == e.batches[b].ids[i] IN
              cred[m] <= e.batches[b].phase /\ e.batches[b].phase <= obs[m]
    <3>1. e.batches[b].phase \in Claimed .. Ended
      BY <1>0 DEF EvTyped
    <3>2. PICK p \in Nat : p = e.batches[b].phase
      BY <3>1 DEF Claimed, Ended
    <3>3. cred[e.batches[b].ids[i]] = p /\ e.batches[b].phase <= obs[e.batches[b].ids[i]]
      BY <3>2, <1>0 DEF EvCredit
    <3> QED BY <3>2, <3>3
  <2> QED BY <1>0, <2>1 DEF Folded
<1>6. Folded(e, x, obs, cred)
  BY <1>1, <1>2, <1>3, <1>5, FoldedSame
<1> DEFINE seq == Contiguous(x)
<1>7. PICK c \in Nat : seq = [i \in 1 .. c |-> k + i] /\ \A i \in 1 .. c : k + i \in D
  <2> DEFINE due == {j \in D : \A l \in (k + 1) .. j : l \in D}
  <2> HIDE DEF D
  <2>1. Cardinality(due) \in Nat /\ \A i \in 1 .. Cardinality(due) : k + i \in D
    <3>1. NoHole(k, D, due)
      BY <1>1, <1>3, DueRun
    <3> QED BY <3>1 DEF NoHole
  <2>2. seq = [i \in 1 .. Cardinality(due) |-> k + i]
    BY <1>2, <1>3 DEF Contiguous
  <2> QED BY <2>1, <2>2
<1> HIDE DEF seq, D
<1>8. PICK g : /\ g[0] = x
               /\ \A i \in 1 .. c : g[i] = ApplyNext(g[i - 1], seq[i])
               /\ Applied(x, seq) = g[c]
  <2>1. DOMAIN seq = 1 .. c
    BY <1>7
  <2>2. InSteps(x, seq, c)
    BY <2>1, FoldRun
  <2> QED BY <2>2 DEF InSteps
<1> DEFINE G(i) == ~g[i].failed =>
             /\ Folded(e, g[i], obs, cred) /\ g[i].nextReport = k + i
             /\ DOMAIN g[i].reports = D \ (k + 1 .. k + i)
             /\ \A j \in DOMAIN g[i].reports : g[i].reports[j] = x.reports[j]
           N == {i \in Nat : i <= c => G(i)}
<1>9. 0 \in N
  <2>1. k + 1 .. k + 0 = {} /\ k + 0 = k
    BY <1>1
  <2> QED BY <2>1, <1>2, <1>3, <1>6, <1>8
<1>10. ASSUME NEW i \in Nat, i \in N PROVE i + 1 \in N
  <2> SUFFICES ASSUME i + 1 <= c, ~g[i + 1].failed PROVE G(i + 1)
    OBVIOUS
  <2> DEFINE y == g[i]
             t == k + i + 1
  <2>1. g[i + 1] = ApplyNext(y, t)
    <3>1. i + 1 \in 1 .. c /\ (i + 1) - 1 = i
      OBVIOUS
    <3>2. seq[i + 1] = t
      BY <3>1, <1>1, <1>7
    <3> QED BY <3>1, <3>2, <1>8
  <2>2. ~y.failed
    BY <2>1 DEF ApplyNext
  <2>3. /\ Folded(e, y, obs, cred) /\ y.nextReport = k + i
        /\ DOMAIN y.reports = D \ (k + 1 .. k + i)
        /\ \A j \in DOMAIN y.reports : y.reports[j] = x.reports[j]
    BY <2>2, <1>10
  <2> DEFINE z == [y EXCEPT !.reports = Without(@, t), !.bytes = @ - 1]
             a == Apply(z, y.reports[t])
             w == [a EXCEPT !.nextReport = t]
  <2>4. g[i + 1] = IF a.failed THEN a ELSE w
    BY <2>1, <2>2, Zenon DEF ApplyNext
  <2>5. t \in Nat /\ t \in D /\ t \notin k + 1 .. k + i
        /\ k + 1 .. k + (i + 1) = (k + 1 .. k + i) \cup {t} /\ t = k + (i + 1)
    <3>1. i + 1 \in 1 .. c
      OBVIOUS
    <3>2. k + (i + 1) \in D /\ k \in Nat
      BY <3>1, <1>1, <1>7
    <3>3. t = k + (i + 1)
      BY <3>2
    <3>4. t \in Nat /\ t \notin k + 1 .. k + i /\ k + 1 .. k + (i + 1) = (k + 1 .. k + i) \cup {t}
      BY <3>2, <3>3
    <3> QED BY <3>2, <3>3, <3>4
  <2>6. /\ z.staged = y.staged /\ z.batches = y.batches /\ z.nextReport = y.nextReport
        /\ z.failed = y.failed /\ IsRecord(z) /\ z.reports = Without(y.reports, t)
    BY <2>3 DEF Folded, EvTyped, IsRecord, EvidenceFields
  <2> HIDE DEF y, z, t
  <2>7. /\ IsMap(z.reports) /\ DOMAIN z.reports = D \ (k + 1 .. k + (i + 1))
        /\ DOMAIN z.reports \subseteq Nat /\ IsFiniteSet(DOMAIN z.reports)
        /\ \A j \in DOMAIN z.reports : z.reports[j] = x.reports[j]
    <3>1. DOMAIN z.reports = D \ (k + 1 .. k + (i + 1)) /\ IsMap(z.reports)
          /\ \A j \in DOMAIN z.reports : z.reports[j] = x.reports[j]
      BY <2>3, <2>5, <2>6 DEF Without, Restrict, IsMap
    <3>2. DOMAIN z.reports \subseteq D
      BY <3>1
    <3> QED BY <3>1, <3>2, <1>3, FS_Subset
  <2>8. RepOk(y.reports[t], obs)
    BY <2>3, <2>5, <1>3
  <2>9. Folded(e, z, obs, cred)
    <3>1. z.nextReport \in Nat
      BY <2>6, <2>3, <1>1
    <3> QED BY <2>3, <2>6, <2>7, <3>1, FoldedSame
  <2>10. ~a.failed
    BY <2>4
  <2>11. Folded(e, a, obs, cred) /\ a.reports = z.reports
    <3> DEFINE p == y.reports[t]
    <3>1. RepOk(p, obs) /\ ~Apply(z, p).failed
      BY <2>8, <2>10
    <3> HIDE DEF p
    <3>2. Keeping(e, z, Apply(z, p), obs, cred)
      BY <3>1, <2>9, <1>4, ApplyOk
    <3> QED BY <3>2 DEF Keeping, p
  <2> HIDE DEF a
  <2>12. /\ w.staged = a.staged /\ w.batches = a.batches /\ w.nextReport = t
         /\ w.failed = a.failed /\ IsRecord(w) /\ w.reports = a.reports
    BY <2>11 DEF Folded, EvTyped, IsRecord, EvidenceFields
  <2> HIDE DEF w
  <2>13. Folded(e, w, obs, cred)
    BY <2>5, <2>7, <2>11, <2>12, FoldedSame
  <2>14. g[i + 1] = w
    BY <2>4, <2>10
  <2> QED BY <2>5, <2>7, <2>11, <2>12, <2>13, <2>14
<1> HIDE DEF N
<1>11. \A i \in Nat : i \in N
  BY <1>9, <1>10, SetInduction
<1>12. Enqueue(e, n, r) = g[c]
  BY <1>1, <1>8 DEF seq
<1>13. ASSUME NEW i \in Nat, i <= c, ~g[i].failed
       PROVE  /\ Folded(e, g[i], obs, cred)
              /\ \A j \in DOMAIN g[i].reports : j > k + i /\ RepOk(g[i].reports[j], obs)
              /\ i < c => k + i + 1 \in DOMAIN g[i].reports
              /\ g[i].nextReport = k + i
  <2> DEFINE v == g[i]
  <2>1. /\ Folded(e, v, obs, cred) /\ v.nextReport = k + i
        /\ DOMAIN v.reports = D \ (k + 1 .. k + i)
        /\ \A j \in DOMAIN v.reports : v.reports[j] = x.reports[j]
    BY <1>11, <1>13 DEF N
  <2> HIDE DEF v
  <2>2. ASSUME NEW j \in DOMAIN v.reports PROVE j > k + i /\ RepOk(v.reports[j], obs)
    <3>1. j \in D /\ j > k /\ j \in Nat /\ j \notin k + 1 .. k + i
      BY <2>1, <1>3
    <3>2. j > k + i
      BY <3>1, <1>1
    <3> QED BY <3>1, <3>2, <2>1, <1>3
  <2>3. ASSUME i < c PROVE k + i + 1 \in DOMAIN v.reports
    <3>1. i + 1 \in 1 .. c /\ k + (i + 1) = k + i + 1
      BY <2>3, <1>1
    <3>2. k + i + 1 \in D
      BY <3>1, <1>7
    <3>3. k + i + 1 \notin k + 1 .. k + i
      BY <1>1
    <3> QED BY <3>2, <3>3, <2>1
  <2> QED BY <2>1, <2>2, <2>3 DEF v
<1>14. ASSUME NEW i \in Nat, i + 1 <= c PROVE g[i + 1] = ApplyNext(g[i], k + i + 1)
  <2>1. i + 1 \in 1 .. c /\ (i + 1) - 1 = i /\ k + (i + 1) = k + i + 1
    BY <1>14, <1>1
  <2>2. seq[i + 1] = k + i + 1
    BY <2>1, <1>7
  <2> QED BY <2>1, <2>2, <1>8
<1>15. g[0] = Buffered(e, n, r)
  BY <1>8 DEF x
<1>16. Runs(e, n, r, obs, cred, c, g)
  BY <1>12, <1>13, <1>14, <1>15 DEF Runs
<1> QED BY <1>16

\* What a registry that did not fail made of a report and of those it let through.
LEMMA EnqueueOk ==
  ASSUME NEW e, NEW obs \in [Msgs -> 0 .. InContext], NEW cred \in [Msgs -> 0 .. InContext],
         NEW n \in Nat, NEW r, EvOk(e, obs, cred), RepOk(r, obs), ~Enqueue(e, n, r).failed
  PROVE  Folded(e, Enqueue(e, n, r), obs, cred) /\ EvReports(Enqueue(e, n, r), obs)
<1>1. Admits(e, n)
  <2>1. Fail(e).failed
    BY DEF EvOk, EvTyped, Fail, IsRecord, EvidenceFields
  <2> QED BY <2>1, EnqueueIs
<1>0. PICK c \in Nat : \E g : Runs(e, n, r, obs, cred, c, g)
  BY <1>1, EnqueueRuns
<1>2. PICK g : Runs(e, n, r, obs, cred, c, g)
  BY <1>0
<1>3. c <= c /\ Enqueue(e, n, r) = g[c]
  BY <1>2 DEF Runs
<1>4. /\ Folded(e, g[c], obs, cred) /\ g[c].nextReport = e.nextReport + c
      /\ \A j \in DOMAIN g[c].reports : j > e.nextReport + c /\ RepOk(g[c].reports[j], obs)
  BY <1>2, <1>3 DEF Runs
<1>5. EvReports(g[c], obs)
  BY <1>4 DEF EvReports
<1> QED BY <1>3, <1>4, <1>5

\* The credit a registry gives after reports were applied is honest.
LEMMA CreditOk ==
  ASSUME NEW e, NEW x, observed \in [Msgs -> 0 .. InContext],
         credited \in [Msgs -> 0 .. InContext], CreditInv, EvOk(e, observed, credited),
         Folded(e, x, observed, credited), EvReports(x, observed),
         NEW cr, cr = [m \in Msgs |-> CreditOf(e, x, m)]
  PROVE  /\ cr \in [Msgs -> 0 .. InContext]
         /\ \A m \in Msgs : credited[m] <= cr[m] /\ cr[m] <= observed[m]
         /\ \A m \in Msgs \ Holds(e) : cr[m] = credited[m]
         /\ EvOk(x, observed, cr)
<1> USE DEF Claimed, Ended, InContext
<1> DEFINE In(b, m) == Contains(x.batches[b].ids, m)
           holding(m) == {b \in DOMAIN x.batches : In(b, m)}
<1>1. \A b, m : In(b, m) <=> \E i \in 1 .. Len(x.batches[b].ids) : x.batches[b].ids[i] = m
  BY DEF Contains
<1>2. EvTyped(x) /\ EvUnique(x) /\ EvTyped(e) /\ EvCredit(e, observed, credited)
  BY DEF Folded, EvOk
<1>3. ASSUME NEW b \in DOMAIN x.batches
      PROVE  /\ x.batches[b].ids \in Seq(Msgs) /\ x.batches[b].phase \in 1 .. 3
             /\ DOMAIN x.batches[b].ids = 1 .. Len(x.batches[b].ids)
  BY <1>2 DEF EvTyped
<1>4. ASSUME NEW m \in Msgs, NEW b \in DOMAIN x.batches, In(b, m)
      PROVE  /\ cr[m] = x.batches[b].phase /\ m \in Holds(x)
             /\ credited[m] <= x.batches[b].phase /\ x.batches[b].phase <= observed[m]
             /\ m \notin ToSet(x.staged)
  <2>1. PICK i \in DOMAIN x.batches[b].ids : x.batches[b].ids[i] = m
    BY <1>1, <1>3, <1>4
  <2>2. credited[m] <= x.batches[b].phase /\ x.batches[b].phase <= observed[m]
    BY <2>1 DEF Folded
  <2>3. m \notin ToSet(x.staged) /\ \A c \in DOMAIN x.batches : m \in ToSet(x.batches[c].ids) => c = b
    BY <2>1, <1>2 DEF EvUnique
  <2>4. ASSUME NEW c \in holding(m) PROVE c = b
    <3>1. c \in DOMAIN x.batches /\ In(c, m)
      OBVIOUS
    <3>2. PICK j \in DOMAIN x.batches[c].ids : x.batches[c].ids[j] = m
      BY <3>1, <1>1, <1>3
    <3>3. m \in ToSet(x.batches[c].ids)
      BY <3>2 DEF ToSet
    <3> QED BY <3>1, <3>3, <2>3
  <2>5. holding(m) = {b}
    BY <2>4, <1>4
  <2>6. (CHOOSE c \in holding(m) : TRUE) = b
    BY <2>5
  <2>7. CreditOf(e, x, m) = x.batches[CHOOSE c \in holding(m) : TRUE].phase
    BY <2>5, Zenon DEF CreditOf
  <2>8. m \in Holds(x)
    BY <2>1, <1>2, HoldsIs
  <2> QED BY <2>2, <2>3, <2>6, <2>7, <2>8
<1>5. ASSUME NEW m \in Msgs, \A b \in DOMAIN x.batches : ~In(b, m)
      PROVE  cr[m] = IF m \in Holds(e) \ Holds(x) THEN InContext ELSE credited[m]
  <2>1. holding(m) = {}
    BY <1>5
  <2>2. CreditOf(e, x, m) = IF m \in Holds(e) \ Holds(x) THEN InContext ELSE credited[m]
    BY <2>1, Zenon DEF CreditOf
  <2> QED BY <2>2
<1> HIDE DEF In, holding
<1>6. Holds(x) \subseteq Holds(e) /\ \A m \in Holds(e) \ Holds(x) : observed[m] = InContext
  BY DEF Folded
<1>7. ASSUME NEW m \in Msgs
      PROVE  /\ cr[m] \in 0 .. InContext /\ credited[m] <= cr[m] /\ cr[m] <= observed[m]
             /\ m \notin Holds(e) => cr[m] = credited[m]
  <2>0. credited[m] \in 0 .. 4 /\ observed[m] \in 0 .. 4 /\ credited[m] <= observed[m]
    BY DEF CreditInv
  <2>1. CASE \E b \in DOMAIN x.batches : In(b, m)
    <3>1. PICK b \in DOMAIN x.batches : In(b, m)
      BY <2>1
    <3> QED BY <3>1, <1>3, <1>4, <1>6
  <2>2. CASE \A b \in DOMAIN x.batches : ~In(b, m)
    <3>1. CASE m \in Holds(e) \ Holds(x)
      BY <3>1, <2>0, <2>2, <1>5, <1>6
    <3>2. CASE m \notin Holds(e) \ Holds(x)
      BY <3>2, <2>0, <2>2, <1>5, <1>6
    <3> QED BY <3>1, <3>2
  <2> QED BY <2>1, <2>2
<1>8. cr \in [Msgs -> 0 .. InContext]
  BY <1>7
<1>9. ASSUME NEW i \in DOMAIN x.staged PROVE cr[x.staged[i]] = 0
  <2> DEFINE m == x.staged[i]
  <2>1. m \in Msgs /\ m \in ToSet(x.staged)
    BY <1>2 DEF EvTyped, ToSet
  <2>2. \A b \in DOMAIN x.batches : ~In(b, m)
    BY <2>1, <1>4
  <2>3. m \in Holds(x)
    BY <2>1 DEF Holds
  <2>4. credited[m] = 0
    <3>1. m \in ToSet(e.staged)
      BY <2>1 DEF Folded
    <3> HIDE DEF m
    <3> QED BY <3>1, <1>2 DEF ToSet, EvCredit
  <2> HIDE DEF m
  <2>5. cr[m] = 0
    BY <2>1, <2>2, <2>3, <2>4, <1>5
  <2> QED BY <2>5 DEF m
<1>10. ASSUME NEW b \in DOMAIN x.batches, NEW i \in DOMAIN x.batches[b].ids
       PROVE  LET m == x.batches[b].ids[i] IN
              cr[m] = x.batches[b].phase /\ x.batches[b].phase <= observed[m]
  <2> DEFINE m == x.batches[b].ids[i]
  <2>1. m \in Msgs /\ In(b, m)
    BY <1>1, <1>3
  <2> HIDE DEF m
  <2>2. cr[m] = x.batches[b].phase /\ x.batches[b].phase <= observed[m]
    BY <2>1, <1>4
  <2> QED BY <2>2 DEF m
<1>11. EvCredit(x, observed, cr)
  BY <1>9, <1>10 DEF EvCredit
<1>12. EvOk(x, observed, cr)
  BY <1>2, <1>11 DEF EvOk, Folded
<1> QED BY <1>7, <1>8, <1>12

\* No phase is ever undone.
Onward(obs, next) == \A m \in Msgs : obs[m] <= next[m]

\* What native reached stays reached.
LEMMA OnwardOk ==
  ASSUME NEW obs \in [Msgs -> 0 .. InContext], NEW next \in [Msgs -> 0 .. InContext], Onward(obs, next)
  PROVE  /\ \A r : RepOk(r, obs) => RepOk(r, next)
         /\ \A e, cred : EvOk(e, obs, cred) => EvOk(e, next, cred)
<1> USE DEF Claimed, Ended, InContext
<1>1. ASSUME NEW r, RepOk(r, obs) PROVE RepOk(r, next)
  <2>1. r.ids \in Seq(Msgs) /\ r.phase \in 0 .. 4
    BY <1>1 DEF RepOk, RepType
  <2>2. ASSUME NEW i \in DOMAIN r.ids PROVE r.phase <= next[r.ids[i]]
    <3>1. r.ids[i] \in Msgs
      BY <2>1
    <3>2. r.phase <= obs[r.ids[i]] /\ obs[r.ids[i]] <= next[r.ids[i]]
      BY <3>1, <1>1 DEF RepOk, Onward
    <3>3. obs[r.ids[i]] \in 0 .. 4 /\ next[r.ids[i]] \in 0 .. 4
      BY <3>1
    <3> QED BY <2>1, <3>2, <3>3
  <2> QED BY <1>1, <2>2 DEF RepOk
<1>2. ASSUME NEW e, NEW cred, EvOk(e, obs, cred) PROVE EvOk(e, next, cred)
  <2>1. EvReports(e, next)
    BY <1>1, <1>2 DEF EvOk, EvReports
  <2>2. ASSUME NEW b \in DOMAIN e.batches, NEW i \in DOMAIN e.batches[b].ids
        PROVE  e.batches[b].phase <= next[e.batches[b].ids[i]]
    <3>1. e.batches[b].ids[i] \in Msgs /\ e.batches[b].phase \in 1 .. 3
      BY <1>2 DEF EvOk, EvTyped
    <3>2. /\ e.batches[b].phase <= obs[e.batches[b].ids[i]]
          /\ obs[e.batches[b].ids[i]] <= next[e.batches[b].ids[i]]
      BY <3>1, <1>2 DEF EvOk, EvCredit, Onward
    <3>3. obs[e.batches[b].ids[i]] \in 0 .. 4 /\ next[e.batches[b].ids[i]] \in 0 .. 4
      BY <3>1
    <3> QED BY <3>1, <3>2, <3>3
  <2> QED BY <1>2, <2>1, <2>2 DEF EvOk, EvCredit
<1> QED BY <1>1, <1>2

-----------------------------------------------------------------------------
\* Steps that leave a part of the invariant alone, or nearly.

\* A message stays where it is.
LEMMA PlaceStable ==
  ASSUME PlaceInv, errs \subseteq errs',
         UNCHANGED <<inbox, loop, stageReq, stageRsp, answer, submitted, arrived>>
  PROVE  PlaceInv'
<1>1. Sent' = Sent /\ Submitted' = Submitted /\ (~Healthy => ~Healthy')
  BY DEF Sent, Submitted, Healthy
<1> QED BY <1>1 DEF PlaceInv, InboxInv, LoopInv, StageInv, AnswerInv, ReceiptHonest

\* The batches are kept or discarded.
LEMMA BatchStable ==
  ASSUME BatchInv, TypeInv, UNCHANGED <<submitted, observed, current, reset, wiped>>,
         \A o \in Owners : batches'[o] = batches[o] \/ batches'[o] = <<>>
  PROVE  BatchInv'
<1>1. SubmitInv' /\ Submitted' = Submitted
  BY DEF BatchInv, SubmitInv, Submitted
<1>2. DOMAIN <<>> = {}
  OBVIOUS
<1>3. ASSUME NEW o \in Owners PROVE BatchOk(o)' /\ Unconfirmed(o)' \subseteq Unconfirmed(o)
  <2>1. CASE batches'[o] = batches[o]
    BY <2>1 DEF BatchInv, BatchOk, Unconfirmed
  <2>2. CASE batches'[o] = <<>>
    <3>1. DOMAIN batches'[o] = {} /\ IsMap(batches'[o])
      BY <2>2, <1>2 DEF IsMap
    <3> QED BY <3>1 DEF BatchOk, Unconfirmed
  <2> QED BY <2>1, <2>2
<1>4. ResetInv'
  BY <1>3 DEF BatchInv, ResetInv, TypeInv
<1> QED BY <1>1, <1>3, <1>4 DEF BatchInv

\* The evidence is kept, or shrinks.
LEMMA EvidenceKept ==
  ASSUME EvidenceInv, TypeInv, TypeInv', errs \subseteq errs', UNCHANGED <<credited, arrived>>,
         Onward(observed, observed'),
         \A o \in Owners : \A i \in DOMAIN inbox'[o] : \E j \in DOMAIN inbox[o] : inbox'[o][i] = inbox[o][j],
         Healthy' => \A o \in Owners :
           EvOk(ev[o], observed, credited) => EvOk(ev'[o], observed, credited) /\ Holds(ev'[o]) \subseteq Holds(ev[o])
  PROVE  EvidenceInv'
<1> SUFFICES ASSUME Healthy' PROVE EvidenceInv'
  BY DEF EvidenceInv
<1>1. Healthy /\ Sent' = Sent
  BY DEF Healthy, Sent
<1>2. \A o \in Owners : EvOk(ev'[o], observed, credited) /\ Holds(ev'[o]) \subseteq Holds(ev[o])
  BY <1>1 DEF EvidenceInv
<1>3. \A o \in Owners : EvOk(ev'[o], observed', credited')
  BY <1>2, OnwardOk DEF TypeInv
<1>4. \A o \in Owners : Holds(ev[o]) \subseteq Sent
  BY <1>1 DEF EvidenceInv
<1>5. \A o, p \in Owners : o # p => Holds(ev'[o]) \cap Holds(ev'[p]) = {}
  BY <1>1, <1>2 DEF EvidenceInv
<1>6. \A o, p \in Owners : \A i \in DOMAIN inbox'[o] : inbox'[o][i] \notin Holds(ev'[p])
  BY <1>1, <1>2 DEF EvidenceInv
<1> QED BY <1>1, <1>2, <1>3, <1>4, <1>5, <1>6 DEF EvidenceInv

\* Every report under way was already under way.
PendingKept ==
  /\ \A i \in DOMAIN reports' : reports'[i].kind = "observe" =>
       \E j \in DOMAIN reports : reports[j].kind = "observe" /\ reports[j].rep = reports'[i].rep
  /\ \A c \in calls' : c.kind = "observe" =>
       \/ \E j \in DOMAIN reports : reports[j].kind = "observe" /\ reports[j].rep = c.rep
       \/ \E d \in calls : d.kind = "observe" /\ d.rep = c.rep

\* No report is added.
LEMMA PendingStable ==
  ASSUME PendingInv, TypeInv, TypeInv', Onward(observed, observed'), PendingKept
  PROVE  PendingInv'
<1>1. \A r : RepOk(r, observed) => RepOk(r, observed')
  BY OnwardOk DEF TypeInv
<1> QED BY <1>1 DEF PendingInv, PendingKept

\* Nothing observed is a special case.
LEMMA OnwardSame ==
  ASSUME TypeInv, observed' = observed
  PROVE  Onward(observed, observed')
<1>1. ASSUME NEW m \in Msgs PROVE observed[m] <= observed'[m]
  <2>1. observed[m] \in 0 .. 4
    BY DEF TypeInv, InContext
  <2>2. PICK p \in 0 .. 4 : p = observed[m]
    BY <2>1
  <2> QED BY <2>2
<1> QED BY <1>1 DEF Onward

-----------------------------------------------------------------------------
\* What the helpers of the actions return.

\* The end reports of a queue are reports of it.
LEMMA EndReportsIs ==
  ASSUME NEW rs \in Seq(ItemType)
  PROVE  /\ EndReports(rs) \in Seq(ItemType)
         /\ \A i \in DOMAIN EndReports(rs) : \E j \in DOMAIN rs :
              EndReports(rs)[i] = rs[j] /\ rs[j].kind = "end"
<1> DEFINE S == {i \in DOMAIN rs : rs[i].kind = "end"}
           f == Ascending(S)
           n == Cardinality(S)
<1>1. Len(rs) \in Nat /\ S \in SUBSET (1 .. Len(rs))
  OBVIOUS
<1> HIDE DEF S
<1>2. f \in [1 .. n -> S] /\ n \in Nat
  BY <1>1, AscendingIs
<1>3. EndReports(rs) = [i \in DOMAIN f |-> rs[f[i]]]
  BY DEF EndReports, S
<1> HIDE DEF f, n
<1>4. \A i \in 1 .. n : f[i] \in DOMAIN rs /\ rs[f[i]].kind = "end" /\ rs[f[i]] \in ItemType
  BY <1>2 DEF S
<1>5. EndReports(rs) = [i \in 1 .. n |-> rs[f[i]]]
  BY <1>2, <1>3
<1>6. EndReports(rs) \in Seq(ItemType)
  BY <1>2, <1>4, <1>5, IsASeq
<1> QED BY <1>4, <1>5, <1>6

\* A queue grows by the reports that are added.
LEMMA ReportIs ==
  ASSUME TypeInv, NEW o \in Owners, NEW n \in Nat, NEW rs, rs \in Seq(RepType), Len(rs) = n,
         Report(o, rs)
  PROVE  /\ reports' \in Seq(ItemType) /\ rseq' \in [Owners -> Nat]
         /\ \A i \in DOMAIN reports' :
              \/ i \in DOMAIN reports /\ reports'[i] = reports[i]
              \/ \E j \in 1 .. n : reports'[i].kind = "observe" /\ reports'[i].rep = rs[j]
<1> DEFINE s == [i \in 1 .. Len(rs) |-> Item("observe", o, rseq[o] + i, rs[i])]
<1>0. rseq[o] \in Nat
  BY DEF TypeInv
<1>1. ASSUME NEW i \in 1 .. n
      PROVE s[i] \in ItemType /\ s[i].kind = "observe" /\ s[i].rep = rs[i]
  <2>1. rs[i] \in RepType /\ rseq[o] + i \in Nat
    BY <1>0
  <2> QED BY <2>1 DEF Item, ItemType
<1>2. DOMAIN s = 1 .. n
  OBVIOUS
<1>3. s = [i \in 1 .. n |-> s[i]]
  OBVIOUS
<1>4. reports' = reports \o s /\ rseq' = [rseq EXCEPT ![o] = @ + n]
  BY DEF Report
<1> HIDE DEF s
<1>5. s \in Seq(ItemType) /\ Len(s) = n
  <2>1. s \in Seq(ItemType)
    BY <1>1, <1>3, IsASeq
  <2> QED BY <2>1, <1>2
<1>6. reports \in Seq(ItemType) /\ Len(reports) \in Nat
  BY DEF TypeInv
<1>7. /\ reports' \in Seq(ItemType) /\ Len(reports') = Len(reports) + n
      /\ \A i \in 1 .. Len(reports) + n :
           reports'[i] = IF i <= Len(reports) THEN reports[i] ELSE s[i - Len(reports)]
  BY <1>4, <1>5, <1>6, ConcatProperties
<1>8. ASSUME NEW i \in DOMAIN reports'
      PROVE  \/ i \in DOMAIN reports /\ reports'[i] = reports[i]
             \/ \E j \in 1 .. n : reports'[i].kind = "observe" /\ reports'[i].rep = rs[j]
  <2>0. i \in 1 .. Len(reports) + n
    BY <1>7, <1>6
  <2>1. CASE i <= Len(reports)
    BY <2>0, <2>1, <1>6, <1>7
  <2>2. CASE ~(i <= Len(reports))
    <3>1. i - Len(reports) \in 1 .. n
      BY <2>0, <2>2, <1>6
    <3>2. reports'[i] = s[i - Len(reports)]
      BY <2>0, <2>2, <1>7
    <3> QED BY <3>1, <3>2, <1>1
  <2> QED BY <2>1, <2>2
<1>9. rseq' \in [Owners -> Nat]
  BY <1>4, <1>0 DEF TypeInv
<1> QED BY <1>7, <1>8, <1>9

\* An answered, or abandoned, call is the same call.
LEMMA CallIs ==
  ASSUME NEW c \in CallType
  PROVE  /\ \A r \in {"none", "ok", "error"} :
              LET d == [c EXCEPT !.reply = r]
              IN  d \in CallType /\ d.kind = c.kind /\ d.owner = c.owner /\ d.rep = c.rep
                  /\ d.reply = r
         /\ LET d == [c EXCEPT !.awaited = FALSE]
            IN  d \in CallType /\ d.kind = c.kind /\ d.owner = c.owner /\ d.rep = c.rep
                /\ d.reply = c.reply
BY DEF CallType

\* The calls only change their state.
SameCalls ==
  \A c \in calls' : \E d \in calls : c.kind = d.kind /\ c.owner = d.owner /\ c.rep = d.rep

\* A reply leaves the other calls.
LEMMA ReplyIs ==
  ASSUME calls \subseteq CallType, NEW c \in calls, NEW r \in {"ok", "error"}, Reply(c, r)
  PROVE  /\ calls' \subseteq CallType /\ SameCalls
         /\ \A d \in calls : d # c => d \in calls'
<1>1. calls' \subseteq calls \cup {[c EXCEPT !.reply = r]} /\ calls \ {c} \subseteq calls'
  BY DEF Reply
<1> DEFINE d == [c EXCEPT !.reply = r]
<1>2. d \in CallType /\ d.kind = c.kind /\ d.owner = c.owner /\ d.rep = c.rep
  <2>1. c \in CallType /\ r \in {"none", "ok", "error"}
    OBVIOUS
  <2> QED BY <2>1, CallIs
<1> HIDE DEF d
<1>3. calls' \subseteq calls \cup {d}
  BY <1>1 DEF d
<1> QED BY <1>1, <1>2, <1>3 DEF SameCalls

\* The gate's holder serves a call.
LEMMA ServingIs ==
  ASSUME HolderInv, holder.pc # "none"
  PROVE  /\ Serving \in calls /\ Serving.kind = holder.kind /\ Serving.owner = holder.owner
         /\ Serving.reply = "none" /\ holder.kind \in {"switch", "end"}
BY DEF HolderInv, Serving

\* The holder is done with its call.
LEMMA FinishIs ==
  ASSUME calls \subseteq CallType, HolderInv, holder.pc # "none", NEW r \in {"ok", "error"}, Finish(r)
  PROVE  calls' \subseteq CallType /\ SameCalls /\ holder'.pc = "none" /\ IsHolder(holder')
<1>1. Serving \in calls /\ Reply(Serving, r) /\ holder' = NoHolder
  BY ServingIs DEF Finish
<1>2. calls' \subseteq CallType /\ SameCalls
  BY <1>1, ReplyIs
<1> QED BY <1>1, <1>2 DEF NoHolder, IsHolder, HolderFields

\* Flags and batches after a failure or a removal.
LEMMA DiscardIs ==
  ASSUME NEW S, Discard(S)
  PROVE  /\ IsMap(batches') /\ DOMAIN batches' = Owners
         /\ \A o \in Owners : batches'[o] = batches[o] \/ batches'[o] = <<>>
         /\ \A o \in Owners : o \in S => batches'[o] = <<>>
BY DEF Discard, IsMap

\* A failure of the worker loses reports and batches, nothing else.
LEMMA WorkerFailedIs ==
  ASSUME NEW r, NEW rest \in Seq(ItemType), WorkerFailed(r, rest)
  PROVE  /\ reports' \in Seq(ItemType)
         /\ \A i \in DOMAIN reports' : \E j \in DOMAIN rest : reports'[i] = rest[j]
         /\ IsMap(batches') /\ DOMAIN batches' = Owners
         /\ \A o \in Owners : batches'[o] = batches[o] \/ batches'[o] = <<>>
<1>1. reports' = EndReports(rest)
  BY DEF WorkerFailed
<1>2. reports' \in Seq(ItemType) /\ \A i \in DOMAIN reports' : \E j \in DOMAIN rest : reports'[i] = rest[j]
  BY <1>1, EndReportsIs
<1>3. \E S : Discard(S)
  BY DEF WorkerFailed, FailAndEnd
<1> QED BY <1>2, <1>3, DiscardIs

\* What a report does to the evidence and to the credit: nothing, a failure, or
\* what EnqueueOk and CreditOk say.
LEMMA HandleReportIs ==
  ASSUME TypeInv, PendingInv, EvidenceInv, CreditInv, NEW c \in calls, HandleReport(c)
  PROVE  /\ calls' \subseteq CallType /\ SameCalls /\ \A d \in calls : d.kind # "observe" => d \in calls'
         /\ errs \subseteq errs' /\ IsMap(ev') /\ DOMAIN ev' = Owners
         /\ credited' \in [Msgs -> 0 .. InContext] /\ CreditInv'
         /\ \/ UNCHANGED <<ev, credited>>
            \/ ~Healthy' /\ UNCHANGED credited
            \/ /\ Healthy
               /\ \A p \in Owners : p # c.owner => ev'[p] = ev[p]
               /\ Holds(ev'[c.owner]) \subseteq Holds(ev[c.owner])
               /\ EvOk(ev'[c.owner], observed, credited')
               /\ \A m \in Msgs \ Holds(ev[c.owner]) : credited'[m] = credited[m]
               /\ \A m \in Msgs : credited[m] <= credited'[m]
<1> DEFINE o == c.owner
           x == Enqueue(ev[o], c.seq, c.rep)
<1>1. c \in CallType /\ calls \subseteq CallType /\ c.kind = "observe" /\ observed' = observed
  BY DEF TypeInv, HandleReport
<1>2. o \in Owners /\ c.seq \in Nat /\ RepOk(c.rep, observed)
  BY <1>1 DEF CallType, PendingInv
<1>3. PICK r \in {"ok", "error"} : Reply(c, r)
  <2>1. Reply(c, "ok") \/ Reply(c, "error")
    BY DEF HandleReport
  <2> QED BY <2>1
<1>4. calls' \subseteq CallType /\ SameCalls /\ \A d \in calls : d.kind # "observe" => d \in calls'
  BY <1>1, <1>3, ReplyIs
<1>5. \/ UNCHANGED <<ev, credited>> /\ errs \subseteq errs'
      \/ ev' = [ev EXCEPT ![o] = x] /\ ~Healthy' /\ errs \subseteq errs' /\ UNCHANGED credited
      \/ /\ ev' = [ev EXCEPT ![o] = x] /\ ~x.failed /\ Healthy /\ UNCHANGED errs
         /\ credited' = [m \in Msgs |-> CreditOf(ev[o], x, m)]
  BY DEF HandleReport, Healthy, Failing
<1> HIDE DEF x
<1>6. errs \subseteq errs' /\ IsMap(ev') /\ DOMAIN ev' = Owners
  BY <1>5 DEF TypeInv, IsMap
<1>7. CASE UNCHANGED <<ev, credited>>
  BY <1>1, <1>4, <1>6, <1>7 DEF TypeInv, CreditInv
<1>8. CASE ~Healthy' /\ UNCHANGED credited
  BY <1>1, <1>4, <1>6, <1>8 DEF TypeInv, CreditInv
<1>9. CASE /\ ev' = [ev EXCEPT ![o] = x] /\ ~x.failed /\ Healthy /\ UNCHANGED errs
           /\ credited' = [m \in Msgs |-> CreditOf(ev[o], x, m)]
  <2>1. observed \in [Msgs -> 0 .. InContext] /\ credited \in [Msgs -> 0 .. InContext]
    BY DEF TypeInv
  <2>2. EvOk(ev[o], observed, credited)
    BY <1>2, <1>9 DEF EvidenceInv
  <2>3. Folded(ev[o], x, observed, credited) /\ EvReports(x, observed)
    BY <1>2, <1>9, <2>1, <2>2, EnqueueOk DEF x
  <2> DEFINE e == ev[o]
  <2> HIDE DEF e
  <2>4. /\ credited' \in [Msgs -> 0 .. InContext]
        /\ \A m \in Msgs : credited[m] <= credited'[m] /\ credited'[m] <= observed[m]
        /\ \A m \in Msgs \ Holds(e) : credited'[m] = credited[m]
        /\ EvOk(x, observed, credited')
    <3>1. credited' = [m \in Msgs |-> CreditOf(e, x, m)]
      BY <1>9 DEF e
    <3>2. EvOk(e, observed, credited) /\ Folded(e, x, observed, credited) /\ EvReports(x, observed)
      BY <2>2, <2>3 DEF e
    <3> QED BY <2>1, <3>1, <3>2, CreditOk
  <2>5. CreditInv'
    BY <2>4, <1>1 DEF CreditInv
  <2>6. ev'[o] = x /\ \A p \in Owners : p # o => ev'[p] = ev[p]
    BY <1>2, <1>9 DEF TypeInv
  <2>7. Holds(x) \subseteq Holds(e)
    BY <2>3 DEF Folded, e
  <2> QED BY <1>4, <1>6, <1>9, <2>4, <2>5, <2>6, <2>7 DEF e
<1> QED BY <1>5, <1>7, <1>8, <1>9

-----------------------------------------------------------------------------
\* A binding starts, and ends, with no evidence.
LEMMA NoEvidenceOk ==
  ASSUME NEW obs, NEW cred
  PROVE  EvOk(NoEvidence, obs, cred) /\ Holds(NoEvidence) = {}
<1> DEFINE e == NoEvidence
<1>1. /\ e.staged = <<>> /\ e.batches = <<>> /\ e.nextReport = 0 /\ e.reports = <<>> /\ ~e.failed
      /\ IsRecord(e)
  BY DEF NoEvidence, IsRecord, EvidenceFields
<1> HIDE DEF e
<1>2. IsFiniteSet({}) /\ DOMAIN <<>> = {} /\ IsMap(<<>>) /\ <<>> \in Seq(Msgs)
  BY FS_EmptySet DEF IsMap
<1>3. EvTyped(e)
  BY <1>1, <1>2 DEF EvTyped
<1>4. EvUnique(e) /\ EvReports(e, obs) /\ EvCredit(e, obs, cred)
  BY <1>1, <1>2 DEF EvUnique, EvReports, EvCredit
<1>5. Holds(e) = {}
  BY <1>1, <1>2 DEF Holds, BatchMessages, ToSet
<1> QED BY <1>1, <1>3, <1>4, <1>5 DEF EvOk, e

\* The initial states.
LEMMA InitInv == Init => IInv
<1> SUFFICES ASSUME Init PROVE IInv
  OBVIOUS
<1> USE DEF Init
<1>0. 1 \in Owners /\ NoMsg \notin Msgs /\ MaxOwners \in Nat
  BY DeliveryAssumption DEF Owners
<1>1. DOMAIN <<>> = {} /\ IsMap(<<>>) /\ <<>> \in Seq(Msgs) /\ <<>> \in Seq(ItemType)
  BY DEF IsMap
<1>2. TypeInv
  <2>1. /\ inbox \in [Owners -> Seq(Msgs)]
        /\ loop \in [Owners -> Msgs \cup {NoMsg}] /\ stageReq \in [Owners -> Msgs \cup {NoMsg}]
        /\ stageRsp \in [Owners -> {"none", "queued", "queue_full", "error"}]
        /\ arrived \in [Owners -> Seq(Msgs)] /\ submitted \in [Owners -> Seq(Msgs)]
        /\ answer \in [Msgs -> AnswerKinds]
    BY <1>1 DEF AnswerKinds
  <2>2. /\ observed \in [Msgs -> 0 .. InContext] /\ credited \in [Msgs -> 0 .. InContext]
        /\ current \in Owners /\ reset \in BOOLEAN /\ rseq \in [Owners -> Nat]
    <3>1. 0 \in 0 .. InContext /\ 0 \in Nat
      BY DEF InContext
    <3> HIDE DEF InContext
    <3>2. observed = [m \in Msgs |-> 0] /\ credited = [m \in Msgs |-> 0] /\ rseq = [o \in Owners |-> 0]
      OBVIOUS
    <3>3. current = 1 /\ reset = FALSE
      OBVIOUS
    <3> QED BY <1>0, <3>1, <3>2, <3>3
  <2>3. IsMap(ev) /\ DOMAIN ev = Owners /\ IsMap(batches) /\ DOMAIN batches = Owners
    BY DEF IsMap
  <2> QED BY <1>1, <2>1, <2>2, <2>3 DEF TypeInv
<1>3. HolderInv
  BY DEF HolderInv, NoHolder, IsHolder, HolderFields
<1>4. Sent = {} /\ Submitted = {}
  BY <1>1 DEF Sent, Submitted, ToSet
<1>5. PlaceInv
  BY <1>1, <1>4 DEF PlaceInv, InboxInv, LoopInv, StageInv, AnswerInv, ReceiptHonest
<1>6. BatchInv
  BY <1>1, <1>4 DEF BatchInv, SubmitInv, BatchOk, ResetInv
<1>7. PendingInv
  BY <1>1 DEF PendingInv
<1>8. EvOk(NoEvidence, observed, credited) /\ Holds(NoEvidence) = {}
  BY NoEvidenceOk
<1>9. EvidenceInv
  BY <1>1, <1>8 DEF EvidenceInv
<1>10. CreditInv
  BY DEF CreditInv
<1> QED BY <1>2, <1>3, <1>5, <1>6, <1>7, <1>9, <1>10 DEF IInv

-----------------------------------------------------------------------------
\* Every step keeps the types.

pubVars == <<inbox, loop, stageReq, stageRsp, arrived, submitted, answer>>

\* The deliveries and the public connections.
LEMMA PublicType ==
  ASSUME TypeInv, NEW o \in Owners, Public(o)
  PROVE  TypeInv'
<1> USE DEF TypeInv
<1>0. inbox[o] \in Seq(Msgs) /\ arrived[o] \in Seq(Msgs)
  OBVIOUS
<1>1. ASSUME NEW m \in Msgs, Deliver(o, m) PROVE TypeInv'
  <2>1. Append(arrived[o], m) \in Seq(Msgs) /\ Append(inbox[o], m) \in Seq(Msgs)
    BY <1>0
  <2>2. arrived' \in [Owners -> Seq(Msgs)]
    BY <1>1, <2>1 DEF Deliver
  <2>3. inbox' \in [Owners -> Seq(Msgs)]
    BY <1>1, <2>1 DEF Deliver
  <2>4. answer' \in [Msgs -> AnswerKinds]
    BY <1>1 DEF Deliver
  <2> QED BY <1>1, <2>2, <2>3, <2>4 DEF Deliver, stageVars, extVars, flags
<1>2. CASE StageAdmit(o)
  <2>1. Tail(inbox[o]) \in Seq(Msgs) /\ Head(inbox[o]) \in Msgs
    BY <1>0, <1>2, HeadTailProperties DEF StageAdmit, StageTake
  <2>2. IsMap(ev') /\ DOMAIN ev' = Owners
    BY <1>2 DEF StageAdmit, StageTake, IsMap
  <2>3. inbox' \in [Owners -> Seq(Msgs)]
    BY <1>2, <2>1 DEF StageAdmit, StageTake
  <2>4. loop' \in [Owners -> Msgs \cup {NoMsg}] /\ stageReq' \in [Owners -> Msgs \cup {NoMsg}]
    <3>1. loop \in [Owners -> Msgs \cup {NoMsg}] /\ stageReq \in [Owners -> Msgs \cup {NoMsg}]
      BY DEF TypeInv
    <3>2. \/ loop' = loop /\ stageReq' = stageReq
          \/ /\ loop' = [loop EXCEPT ![o] = Head(inbox[o])]
             /\ stageReq' = [stageReq EXCEPT ![o] = Head(inbox[o])]
      BY <1>2 DEF StageAdmit, StageTake
    <3>3. \A f \in [Owners -> Msgs \cup {NoMsg}] :
            [f EXCEPT ![o] = Head(inbox[o])] \in [Owners -> Msgs \cup {NoMsg}]
      BY <2>1, PutTyped
    <3>4. CASE loop' = loop /\ stageReq' = stageReq
      BY <3>1, <3>4
    <3>5. CASE /\ loop' = [loop EXCEPT ![o] = Head(inbox[o])]
               /\ stageReq' = [stageReq EXCEPT ![o] = Head(inbox[o])]
      BY <3>1, <3>3, <3>5
    <3> QED BY <3>2, <3>4, <3>5
  <2>5. answer' \in [Msgs -> AnswerKinds]
    BY <1>2 DEF StageAdmit, StageTake, Tell, AnswerKinds
  <2> QED BY <1>2, <2>2, <2>3, <2>4, <2>5 DEF StageAdmit, StageTake, extVars, flags
<1>3. CASE StageReturn(o)
  <2>1. UNCHANGED answer \/ \E r \in {"queued", "rejected", "failed"} : Tell({loop[o]}, r)
    BY <1>3 DEF StageReturn, Told
  <2>2. answer' \in [Msgs -> AnswerKinds]
    BY <2>1 DEF Tell, AnswerKinds
  <2>3. IsMap(ev') /\ DOMAIN ev' = Owners
    BY <1>3 DEF StageReturn, IsMap
  <2>4. loop' \in [Owners -> Msgs \cup {NoMsg}]
        /\ stageRsp' \in [Owners -> {"none", "queued", "queue_full", "error"}]
    BY <1>3 DEF StageReturn
  <2> QED BY <1>3, <2>2, <2>3, <2>4 DEF StageReturn, extVars, flags
<1>4. CASE StageCanceled(o)
  BY <1>4 DEF StageCanceled, StageLost, extVars, flags, stageVars
<1>5. CASE ConnectionDone(o)
  BY <1>5 DEF ConnectionDone, extVars, flags, stageVars, goVars, histVars
<1>6. CASE AttemptJoined(o)
  <2>1. answer' \in [Msgs -> AnswerKinds]
    BY <1>6 DEF AttemptJoined, Tell, AnswerKinds
  <2>2. inbox' \in [Owners -> Seq(Msgs)]
    BY <1>6 DEF AttemptJoined
  <2> QED BY <1>6, <2>1, <2>2 DEF AttemptJoined, extVars, flags, stageVars, goVars
<1>7. CASE Connect(o)
  BY <1>7 DEF Connect, extVars, flags, stageVars, goVars, histVars
<1> QED BY <1>1, <1>2, <1>3, <1>4, <1>5, <1>6, <1>7 DEF Public

\* The registry's handlers.
LEMMA RegistryType ==
  ASSUME TypeInv, HolderInv, PendingInv, EvidenceInv, CreditInv, Registry
  PROVE  TypeInv'
<1>0. calls \subseteq CallType
  BY DEF TypeInv
<1> DEFINE Rest == UNCHANGED <<pubVars, observed, current, reset, rseq, batches, reports>>
<1>1. SUFFICES /\ Rest /\ calls' \subseteq CallType /\ IsMap(ev') /\ DOMAIN ev' = Owners
               /\ credited' \in [Msgs -> 0 .. InContext]
  BY DEF TypeInv, pubVars
<1> USE DEF pubVars, publicVars, stageVars, extVars, histVars, goVars, flags
<1>2. ASSUME NEW c \in calls, HandleReport(c)
      PROVE  /\ Rest /\ calls' \subseteq CallType /\ IsMap(ev') /\ DOMAIN ev' = Owners
             /\ credited' \in [Msgs -> 0 .. InContext]
  <2>1. Rest
    BY <1>2 DEF HandleReport
  <2> QED BY <1>2, <2>1, HandleReportIs
<1>3. ASSUME NEW c \in calls, CancelOrphan(c)
      PROVE  Rest /\ calls' \subseteq CallType /\ UNCHANGED <<ev, credited>>
  BY <1>0, <1>3 DEF CancelOrphan
<1>4. ASSUME NEW c \in calls, BeginLifecycle(c)
      PROVE  Rest /\ calls' \subseteq CallType /\ UNCHANGED <<ev, credited>>
  <2>1. Rest /\ UNCHANGED <<ev, credited>>
    BY <1>4 DEF BeginLifecycle, lifecycleUnchanged
  <2>2. calls' = calls \/ Reply(c, "error")
    BY <1>4 DEF BeginLifecycle
  <2> QED BY <1>0, <2>1, <2>2, ReplyIs
<1>5. CASE SwitchUnmap
  <2>1. Rest /\ UNCHANGED <<ev, credited>>
    BY <1>5 DEF SwitchUnmap, lifecycleUnchanged
  <2>2. calls' = calls \/ (Finish("error") /\ holder.pc # "none")
    BY <1>5 DEF SwitchUnmap
  <2>3. calls' \subseteq CallType
    BY <1>0, <2>2, FinishIs
  <2> QED BY <2>1, <2>3 DEF TypeInv
<1>6. CASE DescribeFailed
  <2>1. Rest /\ UNCHANGED <<ev, credited>>
    BY <1>6 DEF DescribeFailed, lifecycleUnchanged
  <2>2. Finish("error") /\ holder.pc # "none"
    BY <1>6 DEF DescribeFailed
  <2>3. calls' \subseteq CallType
    BY <1>0, <2>2, FinishIs
  <2> QED BY <2>1, <2>3 DEF TypeInv
<1>7. CASE PublicCancel
  BY <1>0, <1>7 DEF PublicCancel, lifecycleUnchanged, TypeInv
<1>8. CASE PublicJoin
  <2>1. Rest /\ UNCHANGED credited /\ ev' = [ev EXCEPT ![Removing] = NoEvidence]
    BY <1>8 DEF PublicJoin, lifecycleUnchanged
  <2>2. holder.pc # "none" /\ \E r \in {"ok", "error"} : Finish(r)
    BY <1>8 DEF PublicJoin
  <2>3. calls' \subseteq CallType
    BY <1>0, <2>2, FinishIs
  <2>4. IsMap(ev') /\ DOMAIN ev' = Owners
    BY <2>1 DEF TypeInv, IsMap
  <2> QED BY <2>1, <2>3, <2>4 DEF TypeInv
<1>9. /\ IsMap(ev) /\ DOMAIN ev = Owners /\ credited \in [Msgs -> 0 .. InContext]
  BY DEF TypeInv
<1> QED BY <1>2, <1>3, <1>4, <1>5, <1>6, <1>7, <1>8, <1>9 DEF Registry

-----------------------------------------------------------------------------
\* What a step of the extension amounts to.

ExtCommon == UNCHANGED <<ev, errs, inbox, loop, arrived, answer, credited>>

\* Batches are kept or discarded, whole bindings at a time.
Keeps ==
  /\ IsMap(batches') /\ DOMAIN batches' = Owners
  /\ \A o \in Owners : batches'[o] = batches[o] \/ batches'[o] = <<>>

\* The holder of the gate does not change, and its call is still unanswered.
HolderKept ==
  /\ IsHolder(holder') /\ holder'.kind = holder.kind /\ holder'.owner = holder.owner
  /\ holder'.pc # "none" => holder.pc # "none"
  /\ \A c \in calls : c.kind # "observe" /\ c.reply = "none" =>
       \E d \in calls' : d.kind = c.kind /\ d.owner = c.owner /\ d.reply = "none"

Refuses(o) ==
  /\ stageReq[o] # NoMsg
  /\ stageReq' = [stageReq EXCEPT ![o] = NoMsg]
  /\ \E r \in {"queue_full", "error"} : stageRsp' = [stageRsp EXCEPT ![o] = r]

\* Native accepts no message and reaches no phase.
Settled ==
  /\ ExtCommon /\ UNCHANGED <<submitted, observed, wiped, rseq>> /\ Keeps
  /\ reports' \in Seq(ItemType) /\ calls' \subseteq CallType /\ PendingKept /\ HolderKept
  /\ reset' \in BOOLEAN
  /\ \/ current' = current /\ (reset' # reset => Unconfirmed(current) = {})
     \/ current' = current + 1 /\ current' \in Owners
  /\ (UNCHANGED stageVars \/ \E o \in Owners : Refuses(o))

QueueGrows(obs) ==
  /\ reports' \in Seq(ItemType) /\ rseq' \in [Owners -> Nat]
  /\ \A i \in DOMAIN reports' :
       \/ i \in DOMAIN reports /\ reports'[i] = reports[i]
       \/ reports'[i].kind = "observe" /\ RepOk(reports'[i].rep, obs)

\* Native accepts a message.
Accepts(o) ==
  /\ ExtCommon /\ UNCHANGED <<wiped, current, calls, holder>>
  /\ o = current /\ o \notin ending /\ stageReq[o] # NoMsg /\ ~ResetUnderWay(o)
  /\ stageReq' = [stageReq EXCEPT ![o] = NoMsg]
  /\ stageRsp' = [stageRsp EXCEPT ![o] = "queued"]
  /\ submitted' = [submitted EXCEPT ![o] = Append(@, stageReq[o])]
  /\ observed' = [observed EXCEPT ![stageReq[o]] = Claimed]
  /\ batches' = [batches EXCEPT ![o] =
                   Extended(@, Len(submitted[o]) + 1, [id |-> stageReq[o], phase |-> Claimed])]
  /\ reset' \in BOOLEAN /\ (reset' # reset => Unconfirmed(current) = {})
  /\ QueueGrows(observed')

\* Native carries the messages of some batches of its session one phase on.
Carries(done) ==
  /\ ExtCommon /\ UNCHANGED <<wiped, current, calls, holder, stageVars, submitted, reset>>
  /\ done \subseteq DOMAIN batches[current] /\ ~(reset /\ done # {})
  /\ observed' = [m \in Msgs |-> IF m \in {batches[current][b].id : b \in done}
                                 THEN observed[m] + 1 ELSE observed[m]]
  /\ IsMap(batches') /\ DOMAIN batches' = Owners
  /\ \A p \in Owners : p # current => batches'[p] = batches[p]
  /\ IsMap(batches'[current]) /\ DOMAIN batches'[current] \subseteq DOMAIN batches[current]
  /\ \A b \in DOMAIN batches'[current] :
       /\ batches'[current][b] \in [id: Msgs, phase: Claimed .. Ended]
       /\ batches'[current][b].id = batches[current][b].id
       /\ batches'[current][b].phase = observed'[batches[current][b].id]
  /\ QueueGrows(observed')

\* What a step that touches neither the queue nor the calls keeps.
LEMMA QuietKept ==
  ASSUME TypeInv, HolderInv, UNCHANGED <<reports, calls, holder>>
  PROVE  PendingKept /\ HolderKept /\ reports' \in Seq(ItemType) /\ calls' \subseteq CallType
BY DEF TypeInv, HolderInv, PendingKept, HolderKept

\* The description handler of native.
LEMMA DescribeIs ==
  ASSUME TypeInv, HolderInv, NativeDescribe
  PROVE  Settled
<1>1. /\ ExtCommon /\ UNCHANGED <<submitted, observed, wiped, rseq, reports, calls, current, stageVars>>
      /\ holder.pc # "none"
  BY DEF NativeDescribe, ExtCommon, histVars, stageVars
<1>2. /\ \E pc : Hold(pc)
      /\ \/ UNCHANGED <<batches, reset>>
         \/ UNCHANGED reset /\ \E S : Discard(S)
         \/ UNCHANGED batches /\ RefreshReset(current)
  <2> DEFINE o == holder.owner
  <2>1. \/ Hold("refused") /\ UNCHANGED <<batches, reset>>
        \/ Hold("refused") /\ UNCHANGED reset /\ FailState({o})
        \/ Hold("described") /\ current = o /\ RefreshReset(o) /\ UNCHANGED batches
    BY DEF NativeDescribe
  <2>2. FailState({o}) => Discard({o} \cup {})
    BY DEF FailState, FailAndEnd
  <2> QED BY <2>1, <2>2
<1>3. /\ IsHolder(holder') /\ holder'.kind = holder.kind /\ holder'.owner = holder.owner
  BY <1>2 DEF Hold, HolderInv, IsHolder, HolderFields
<1>4. Keeps
  BY <1>2, DiscardIs DEF TypeInv, Keeps, IsMap
<1>5. reset' \in BOOLEAN /\ (reset' # reset => Unconfirmed(current) = {})
  BY <1>2 DEF RefreshReset, TypeInv
<1>6. PendingKept /\ HolderKept /\ reports' \in Seq(ItemType) /\ calls' \subseteq CallType
  BY <1>1, <1>3 DEF TypeInv, PendingKept, HolderKept
<1> QED BY <1>1, <1>4, <1>5, <1>6 DEF Settled

\* The queue grows by one honest report.
LEMMA ReportOneIs ==
  ASSUME TypeInv, NEW o \in Owners, NEW r, r \in RepType, RepOk(r, observed'), Report(o, <<r>>)
  PROVE  QueueGrows(observed')
<1> DEFINE q == <<r>>
<1>1. Report(o, q) /\ q \in Seq(RepType) /\ Len(q) = 1 /\ 1 \in Nat
  OBVIOUS
<1>2. \A j \in 1 .. 1 : q[j] = r
  OBVIOUS
<1> HIDE DEF q
<1>3. /\ reports' \in Seq(ItemType) /\ rseq' \in [Owners -> Nat]
      /\ \A i \in DOMAIN reports' :
           \/ i \in DOMAIN reports /\ reports'[i] = reports[i]
           \/ \E j \in 1 .. 1 : reports'[i].kind = "observe" /\ reports'[i].rep = q[j]
  BY <1>1, ReportIs
<1> QED BY <1>2, <1>3 DEF QueueGrows

\* The stage handler of native.
LEMMA StageIs ==
  ASSUME TypeInv, HolderInv, NEW o \in Owners, NativeStage(o)
  PROVE  (Settled /\ UNCHANGED reports) \/ Accepts(o)
<1>1. ExtCommon /\ UNCHANGED <<wiped, current, calls, holder>> /\ stageReq[o] # NoMsg
  BY DEF NativeStage, RefuseEnded, ExtCommon, goVars, publicVars
<1> DEFINE token == Len(submitted[o]) + 1
           r == [batch |-> token, phase |-> Claimed, ids |-> <<stageReq[o]>>]
<1>2. \/ /\ \E s \in {"queue_full", "error"} : stageRsp' = [stageRsp EXCEPT ![o] = s]
         /\ UNCHANGED <<rseq, reports, submitted, observed>>
         /\ UNCHANGED batches \/ \E S : Discard(S)
         /\ UNCHANGED reset \/ (o = current /\ RefreshReset(o))
      \/ /\ o = current /\ o \notin ending /\ ~ResetUnderWay(o) /\ RefreshReset(o)
         /\ stageRsp' = [stageRsp EXCEPT ![o] = "queued"]
         /\ batches' = [batches EXCEPT ![o] =
                          Extended(@, token, [id |-> stageReq[o], phase |-> Claimed])]
         /\ Report(o, <<r>>)
         /\ submitted' = [submitted EXCEPT ![o] = Append(@, stageReq[o])]
         /\ observed' = [observed EXCEPT ![stageReq[o]] = Claimed]
  BY DEF NativeStage, RefuseEnded, Deliverable, FailState, FailAndEnd
<1>3. stageReq' = [stageReq EXCEPT ![o] = NoMsg]
  BY DEF NativeStage, RefuseEnded
<1>4. CASE /\ \E s \in {"queue_full", "error"} : stageRsp' = [stageRsp EXCEPT ![o] = s]
           /\ UNCHANGED <<rseq, reports, submitted, observed>>
           /\ UNCHANGED batches \/ \E S : Discard(S)
           /\ UNCHANGED reset \/ (o = current /\ RefreshReset(o))
  <2>1. Keeps
    BY <1>4, DiscardIs DEF TypeInv, Keeps, IsMap
  <2>2. reset' \in BOOLEAN /\ (reset' # reset => Unconfirmed(current) = {})
    BY <1>4 DEF RefreshReset, TypeInv
  <2>3. PendingKept /\ HolderKept /\ reports' \in Seq(ItemType) /\ calls' \subseteq CallType
    BY <1>1, <1>4, QuietKept
  <2> QED BY <1>1, <1>3, <1>4, <2>1, <2>2, <2>3 DEF Settled, Refuses
<1>5. CASE /\ o = current /\ o \notin ending /\ ~ResetUnderWay(o) /\ RefreshReset(o)
           /\ stageRsp' = [stageRsp EXCEPT ![o] = "queued"]
           /\ batches' = [batches EXCEPT ![o] =
                            Extended(@, token, [id |-> stageReq[o], phase |-> Claimed])]
           /\ Report(o, <<r>>)
           /\ submitted' = [submitted EXCEPT ![o] = Append(@, stageReq[o])]
           /\ observed' = [observed EXCEPT ![stageReq[o]] = Claimed]
  <2>1. reset' \in BOOLEAN /\ (reset' # reset => Unconfirmed(current) = {})
    BY <1>5 DEF RefreshReset, TypeInv
  <2>2. stageReq[o] \in Msgs /\ token \in Nat /\ observed \in [Msgs -> 0 .. 4]
    BY <1>1 DEF TypeInv, InContext
  <2>3. RepOk(r, observed') /\ r \in RepType
    <3>1. r \in RepType /\ r.phase = 1 /\ r.ids = <<stageReq[o]>>
      BY <2>2 DEF RepType, Claimed, InContext
    <3>2. observed'[stageReq[o]] = 1
      BY <1>5, <2>2 DEF Claimed
    <3> HIDE DEF r
    <3> QED BY <3>1, <3>2 DEF RepOk
  <2> HIDE DEF r
  <2>4. QueueGrows(observed')
    BY <1>5, <2>3, ReportOneIs
  <2> QED BY <1>1, <1>3, <1>5, <2>1, <2>4 DEF Accepts
<1> HIDE DEF r, token
<1> QED BY <1>2, <1>4, <1>5

\* A step that only fails bindings, or removes them.
LEMMA FailureIs ==
  ASSUME TypeInv, HolderInv, ExtCommon, NEW S, NEW E, FailAndEnd(S, E),
         UNCHANGED <<submitted, observed, wiped, rseq, current, stageVars, reports, calls, holder, reset>>
  PROVE  Settled
<1>1. Keeps
  BY DiscardIs DEF FailAndEnd, Keeps
<1>2. PendingKept /\ HolderKept /\ reports' \in Seq(ItemType) /\ calls' \subseteq CallType
  BY QuietKept
<1> QED BY <1>1, <1>2 DEF Settled, TypeInv

\* message_start and message_end.
LEMMA MessageIs ==
  ASSUME TypeInv, HolderInv, BatchInv, NEW b, NEW phase, NativeMessage(b, phase)
  PROVE  (Settled /\ UNCHANGED reports) \/ Carries({b})
<1> USE DEF Claimed, Started, Ended, InContext
<1> DEFINE o == current
           x == batches[o][b]
           m == x.id
           r == [batch |-> b, phase |-> phase, ids |-> <<m>>]
<1>1. /\ ExtCommon /\ UNCHANGED <<wiped, current, calls, holder, stageVars, submitted, reset>>
      /\ phase \in {2, 3} /\ b \in DOMAIN batches[o] /\ x.phase = phase - 1
  BY DEF NativeMessage, ExtCommon, goVars, publicVars
<1>2. \/ FailState({o}) /\ UNCHANGED <<rseq, reports, observed>>
      \/ /\ ~ResetUnderWay(o)
         /\ batches' = [batches EXCEPT ![o][b].phase = phase]
         /\ Report(o, <<r>>) /\ observed' = [observed EXCEPT ![m] = phase]
  BY DEF NativeMessage
<1>3. CASE FailState({o}) /\ UNCHANGED <<rseq, reports, observed>>
  BY <1>1, <1>3, FailureIs DEF FailState
<1>4. CASE /\ ~ResetUnderWay(o)
           /\ batches' = [batches EXCEPT ![o][b].phase = phase]
           /\ Report(o, <<r>>) /\ observed' = [observed EXCEPT ![m] = phase]
  <2>1. /\ o \in Owners /\ BatchOk(o) /\ submitted[o] \in Seq(Msgs)
        /\ observed \in [Msgs -> 0 .. 4] /\ IsMap(batches) /\ DOMAIN batches = Owners
        /\ rseq \in [Owners -> Nat]
    BY DEF TypeInv, BatchInv
  <2>2. /\ IsMap(batches[o]) /\ DOMAIN batches[o] \subseteq 1 .. Len(submitted[o])
        /\ \A c \in DOMAIN batches[o] :
             /\ batches[o][c] \in [id: Msgs, phase: 1 .. 3]
             /\ batches[o][c].id = submitted[o][c]
             /\ batches[o][c].phase = observed[batches[o][c].id]
    BY <2>1 DEF BatchOk
  <2>3. m \in Msgs /\ b \in Nat /\ observed[m] + 1 = phase /\ x \in [id: Msgs, phase: 1 .. 3]
    BY <1>1, <2>1, <2>2
  <2>4. observed' = [n \in Msgs |-> IF n \in {batches[o][c].id : c \in {b}}
                                    THEN observed[n] + 1 ELSE observed[n]]
    <3>1. {batches[o][c].id : c \in {b}} = {m}
      OBVIOUS
    <3> HIDE DEF m
    <3>2. observed' = [n \in Msgs |-> IF n = m THEN phase ELSE observed[n]]
      BY <1>4, <2>1
    <3> QED BY <2>3, <3>1, <3>2
  <2>5. ~(reset /\ {b} # {})
    BY <1>1, <1>4 DEF ResetUnderWay, Unconfirmed
  <2> DEFINE y == [x EXCEPT !.phase = phase]
  <2>6. y \in [id: Msgs, phase: 1 .. 3] /\ y.id = m /\ y.phase = phase
    BY <1>1, <2>3
  <2>7. batches' = [batches EXCEPT ![o] = [batches[o] EXCEPT ![b] = y]]
    BY <1>4
  <2> HIDE DEF y
  <2>8. /\ IsMap(batches') /\ DOMAIN batches' = Owners
        /\ \A p \in Owners : p # o => batches'[p] = batches[p]
        /\ batches'[o] = [batches[o] EXCEPT ![b] = y]
    BY <2>1, <2>7 DEF IsMap
  <2>9. /\ IsMap(batches'[o]) /\ DOMAIN batches'[o] = DOMAIN batches[o]
        /\ batches'[o][b] = y /\ \A c \in DOMAIN batches[o] : c # b => batches'[o][c] = batches[o][c]
    BY <1>1, <2>2, <2>8 DEF IsMap
  <2>10. ASSUME NEW c \in DOMAIN batches[o]
         PROVE  /\ batches'[o][c] \in [id: Msgs, phase: 1 .. 3]
                /\ batches'[o][c].id = batches[o][c].id
                /\ batches'[o][c].phase = observed'[batches[o][c].id]
    <3>1. CASE c = b
      <4> HIDE DEF m, x
      <4>0. observed'[m] = phase
        BY <1>4, <2>1, <2>3
      <4> QED BY <3>1, <2>6, <2>9, <4>0 DEF x, m
    <3>2. CASE c # b
      <4>1. batches[o][c].id # m
        <5>1. \A i, j \in DOMAIN submitted[o] : submitted[o][i] = submitted[o][j] => i = j
          BY <2>1 DEF BatchInv, SubmitInv
        <5>2. b \in DOMAIN submitted[o] /\ c \in DOMAIN submitted[o]
          BY <1>1, <2>1, <2>2
        <5>3. m = submitted[o][b] /\ batches[o][c].id = submitted[o][c]
          BY <1>1, <2>2
        <5> QED BY <3>2, <5>1, <5>2, <5>3
      <4>2. batches[o][c].id \in Msgs
        BY <2>2
      <4>3. observed'[batches[o][c].id] = observed[batches[o][c].id]
        BY <1>4, <2>1, <4>1, <4>2
      <4> QED BY <3>2, <2>2, <2>9, <4>3
    <3> QED BY <3>1, <3>2
  <2>11. r \in RepType /\ RepOk(r, observed')
    <3>1. r \in RepType /\ r.phase = phase /\ r.ids = <<m>>
      BY <1>1, <2>3 DEF RepType
    <3>2. observed'[m] = phase
      BY <1>4, <2>1, <2>3
    <3> HIDE DEF r, m
    <3> QED BY <1>1, <3>1, <3>2 DEF RepOk
  <2>12. QueueGrows(observed')
    <3> HIDE DEF r, m, x
    <3> QED BY <1>4, <2>1, <2>11, ReportOneIs
  <2> HIDE DEF x, m, r
  <2> QED BY <1>1, <2>4, <2>5, <2>8, <2>9, <2>10, <2>12 DEF Carries
<1> QED BY <1>2, <1>3, <1>4

\* The context event.
LEMMA ContextIs ==
  ASSUME TypeInv, HolderInv, BatchInv, NativeContext
  PROVE  (Settled /\ UNCHANGED reports) \/ \E done : Carries(done)
<1> USE DEF Claimed, Started, Ended, InContext
<1> DEFINE o == current
           done == {b \in DOMAIN batches[o] : batches[o][b].phase = 3}
           n == Cardinality(done)
           f == Ascending(done)
           rs == [i \in 1 .. n |->
                   LET b == f[i] IN [batch |-> b, phase |-> 4, ids |-> <<batches[o][b].id>>]]
<1>1. /\ ExtCommon /\ UNCHANGED <<wiped, current, calls, holder, stageVars, submitted, reset>>
      /\ done # {}
  BY DEF NativeContext, ExtCommon, goVars, publicVars
<1>2. \/ FailState({o}) /\ UNCHANGED <<rseq, reports, observed>>
      \/ /\ ~ResetUnderWay(o)
         /\ batches' = [batches EXCEPT ![o] = Restrict(@, DOMAIN @ \ done)]
         /\ Report(o, rs)
         /\ observed' = [m \in Msgs |-> IF m \in {batches[o][b].id : b \in done} THEN 4 ELSE observed[m]]
  BY DEF NativeContext
<1>3. CASE FailState({o}) /\ UNCHANGED <<rseq, reports, observed>>
  BY <1>1, <1>3, FailureIs DEF FailState
<1>4. CASE /\ ~ResetUnderWay(o)
           /\ batches' = [batches EXCEPT ![o] = Restrict(@, DOMAIN @ \ done)]
           /\ Report(o, rs)
           /\ observed' = [m \in Msgs |-> IF m \in {batches[o][b].id : b \in done} THEN 4 ELSE observed[m]]
  <2>1. /\ o \in Owners /\ BatchOk(o) /\ submitted[o] \in Seq(Msgs) /\ Len(submitted[o]) \in Nat
        /\ observed \in [Msgs -> 0 .. 4] /\ IsMap(batches) /\ DOMAIN batches = Owners
        /\ rseq \in [Owners -> Nat]
    BY DEF TypeInv, BatchInv
  <2>2. /\ IsMap(batches[o]) /\ DOMAIN batches[o] \subseteq 1 .. Len(submitted[o])
        /\ \A c \in DOMAIN batches[o] :
             /\ batches[o][c] \in [id: Msgs, phase: 1 .. 3]
             /\ batches[o][c].id = submitted[o][c]
             /\ batches[o][c].phase = observed[batches[o][c].id]
    BY <2>1 DEF BatchOk
  <2>3. \A b \in done : b \in Nat /\ batches[o][b].id \in Msgs /\ observed[batches[o][b].id] = 3
    BY <2>1, <2>2
  <2>4. observed' = [m \in Msgs |-> IF m \in {batches[o][c].id : c \in done}
                                    THEN observed[m] + 1 ELSE observed[m]]
    <3>1. \A m \in {batches[o][c].id : c \in done} : observed[m] + 1 = 4
      BY <2>3
    <3> HIDE DEF done
    <3> QED BY <1>4, <3>1
  <2>5. ~(reset /\ done # {})
    BY <1>1, <1>4 DEF ResetUnderWay, Unconfirmed
  <2>8. /\ IsMap(batches') /\ DOMAIN batches' = Owners
        /\ \A p \in Owners : p # o => batches'[p] = batches[p]
        /\ batches'[o] = Restrict(batches[o], DOMAIN batches[o] \ done)
    BY <1>4, <2>1 DEF IsMap
  <2>9. /\ IsMap(batches'[o]) /\ DOMAIN batches'[o] = DOMAIN batches[o] \ done
        /\ \A c \in DOMAIN batches'[o] : batches'[o][c] = batches[o][c]
    BY <2>8 DEF IsMap, Restrict
  <2>10. ASSUME NEW c \in DOMAIN batches'[o]
         PROVE  /\ batches'[o][c] \in [id: Msgs, phase: 1 .. 3]
                /\ batches'[o][c].id = batches[o][c].id
                /\ batches'[o][c].phase = observed'[batches[o][c].id]
    <3>1. c \in DOMAIN batches[o] /\ c \notin done
      BY <2>9
    <3>2. ASSUME NEW b \in done PROVE batches[o][c].id # batches[o][b].id
      <4>1. \A i, j \in DOMAIN submitted[o] : submitted[o][i] = submitted[o][j] => i = j
        BY <2>1 DEF BatchInv, SubmitInv
      <4>2. b \in DOMAIN submitted[o] /\ c \in DOMAIN submitted[o]
        BY <3>1, <2>1, <2>2
      <4>3. batches[o][b].id = submitted[o][b] /\ batches[o][c].id = submitted[o][c]
        BY <3>1, <2>2
      <4> QED BY <3>1, <4>1, <4>2, <4>3
    <3>3. batches[o][c].id \in Msgs
      BY <2>2, <3>1
    <3> HIDE DEF done
    <3>4. observed'[batches[o][c].id] = observed[batches[o][c].id]
      BY <1>4, <3>2, <3>3
    <3> QED BY <3>1, <2>2, <2>9, <3>4
  <2>11. f \in [1 .. n -> done] /\ n \in Nat
    <3>1. done \in SUBSET (1 .. Len(submitted[o]))
      BY <2>2
    <3> HIDE DEF done
    <3> QED BY <2>1, <3>1, AscendingIs
  <2>12. ASSUME NEW i \in 1 .. n PROVE rs[i] \in RepType /\ RepOk(rs[i], observed')
    <3> DEFINE b == f[i]
               m == batches[o][b].id
    <3>1. b \in done
      BY <2>11
    <3>2. b \in Nat /\ m \in Msgs
      BY <2>3, <3>1
    <3>3. rs[i] = [batch |-> b, phase |-> 4, ids |-> <<m>>]
      OBVIOUS
    <3>5. observed'[m] = 4
      <4>1. m \in {batches[o][c].id : c \in done}
        BY <3>1
      <4> HIDE DEF b, m, done
      <4> QED BY <3>2, <4>1, <1>4
    <3> HIDE DEF b, m, rs
    <3>4. rs[i] \in RepType /\ rs[i].phase = 4 /\ rs[i].ids = <<m>>
      BY <3>2, <3>3 DEF RepType
    <3> QED BY <3>4, <3>5 DEF RepOk
  <2>13. QueueGrows(observed')
    <3>1. rs \in Seq(RepType) /\ Len(rs) = n
      <4>1. rs = [i \in 1 .. n |-> rs[i]]
        OBVIOUS
      <4>2. \A i \in 1 .. n : rs[i] \in RepType
        BY <2>12
      <4>3. DOMAIN rs = 1 .. n
        OBVIOUS
      <4> HIDE DEF rs, n, done, f
      <4>4. rs \in Seq(RepType)
        BY <4>1, <4>2, <2>11, IsASeq
      <4> QED BY <4>3, <4>4, <2>11
    <3> HIDE DEF rs, n, done, f
    <3>3. /\ reports' \in Seq(ItemType) /\ rseq' \in [Owners -> Nat]
          /\ \A i \in DOMAIN reports' :
               \/ i \in DOMAIN reports /\ reports'[i] = reports[i]
               \/ \E j \in 1 .. n : reports'[i].kind = "observe" /\ reports'[i].rep = rs[j]
      BY <1>4, <2>1, <2>11, <3>1, ReportIs
    <3> QED BY <2>12, <3>3 DEF QueueGrows
  <2> HIDE DEF rs, n, f
  <2>14. done \subseteq DOMAIN batches[o] /\ DOMAIN batches'[o] \subseteq DOMAIN batches[o]
    BY <2>9
  <2> HIDE DEF done
  <2>15. Carries(done)
    BY <1>1, <2>4, <2>5, <2>8, <2>9, <2>10, <2>13, <2>14 DEF Carries
  <2> QED BY <2>15
<1> HIDE DEF done, n, f, rs
<1> QED BY <1>2, <1>3, <1>4

\* A session replacement and the end of the factory.
LEMMA SwitchIs ==
  ASSUME TypeInv, HolderInv, NativeSwitch \/ NativeEnd
  PROVE  Settled
<1> USE DEF TypeInv
<1>1. /\ ExtCommon /\ UNCHANGED <<submitted, observed, wiped, rseq, calls, holder, stageVars>>
      /\ reset' \in BOOLEAN
      /\ \/ current' = current /\ reset' = reset
         \/ current' = current + 1 /\ current' \in Owners
  BY DEF NativeSwitch, NativeEnd, ExtCommon, goVars, publicVars, histVars
<1>2. \E S : Discard(S)
  BY DEF NativeSwitch, NativeEnd, FailState, FailAndEnd
<1>3. Keeps
  BY <1>2, DiscardIs DEF Keeps
<1>4. \/ UNCHANGED reports
      \/ \E o \in Owners, k \in {"switch", "end"} : reports' = Append(reports, Item(k, o, 0, NoReport))
  BY DEF NativeSwitch, NativeEnd
<1>5. CASE UNCHANGED reports
  <2>1. PendingKept /\ HolderKept /\ reports' \in Seq(ItemType) /\ calls' \subseteq CallType
    BY <1>1, <1>5, QuietKept
  <2> QED BY <1>1, <1>3, <2>1 DEF Settled
<1>6. CASE \E o \in Owners, k \in {"switch", "end"} : reports' = Append(reports, Item(k, o, 0, NoReport))
  <2>1. PICK o \in Owners, k \in {"switch", "end"} : reports' = Append(reports, Item(k, o, 0, NoReport))
    BY <1>6
  <2> DEFINE x == Item(k, o, 0, NoReport)
  <2>2. x \in ItemType /\ x.kind # "observe"
    <3>1. NoReport \in RepType
      BY DEF NoReport, RepType, InContext
    <3> QED BY <3>1 DEF Item, ItemType
  <2>3. reports' = Append(reports, x)
    BY <2>1
  <2> HIDE DEF x
  <2>4. /\ reports' \in Seq(ItemType)
        /\ \A i \in DOMAIN reports' : (i \in DOMAIN reports /\ reports'[i] = reports[i]) \/ reports'[i] = x
    <3>1. reports \in Seq(ItemType)
      OBVIOUS
    <3>2. /\ Append(reports, x) \in Seq(ItemType)
          /\ DOMAIN reports = 1 .. Len(reports) /\ Len(reports) \in Nat
          /\ DOMAIN Append(reports, x) = 1 .. Len(reports) + 1
          /\ \A i \in DOMAIN reports : Append(reports, x)[i] = reports[i]
          /\ Append(reports, x)[Len(reports) + 1] = x
      BY <2>2, <3>1, AppendIs
    <3>3. \A i \in 1 .. Len(reports) + 1 : i \in 1 .. Len(reports) \/ i = Len(reports) + 1
      <4>0. Len(reports) \in Nat
        BY <3>1
      <4>1. PICK n \in Nat : n = Len(reports)
        BY <4>0
      <4>2. \A i \in 1 .. n + 1 : i \in 1 .. n \/ i = n + 1
        OBVIOUS
      <4> QED BY <4>1, <4>2
    <3> QED BY <2>3, <3>2, <3>3
  <2>5. PendingKept
    BY <1>1, <2>2, <2>4 DEF PendingKept
  <2>6. HolderKept
    BY <1>1 DEF HolderKept, HolderInv
  <2> QED BY <1>1, <1>3, <2>4, <2>5, <2>6 DEF Settled
<1> QED BY <1>4, <1>5, <1>6

\* The report worker.
LEMMA WorkerIs ==
  ASSUME TypeInv, HolderInv, WorkerSend \/ \E c \in calls : WorkerAck(c) \/ WorkerError(c)
  PROVE  Settled
<1> USE DEF TypeInv
<1>1. /\ ExtCommon
      /\ UNCHANGED <<submitted, observed, wiped, rseq, current, reset, holder, stageVars>>
  BY DEF WorkerSend, WorkerAck, WorkerError, ExtCommon, goVars, publicVars, histVars
<1>2. IsHolder(holder')
  BY <1>1 DEF HolderInv
<1>3. UNCHANGED batches => Keeps
  BY DEF Keeps, IsMap
<1>4. SUFFICES /\ Keeps /\ reports' \in Seq(ItemType) /\ calls' \subseteq CallType /\ PendingKept
               /\ \A d \in calls : d.kind # "observe" /\ d.reply = "none" =>
                    \E e \in calls' : e.kind = d.kind /\ e.owner = d.owner /\ e.reply = "none"
  BY <1>1, <1>2 DEF Settled, HolderKept
<1>5. ASSUME NEW rest \in Seq(ItemType), NEW r, WorkerFailed(r, rest),
             \A i \in DOMAIN rest : \E j \in DOMAIN reports : rest[i] = reports[j]
      PROVE  /\ Keeps /\ reports' \in Seq(ItemType)
             /\ \A i \in DOMAIN reports' : \E j \in DOMAIN reports : reports'[i] = reports[j]
  BY <1>5, WorkerFailedIs DEF Keeps
<1>6. CASE WorkerSend
  <2> DEFINE r == Head(reports)
             rest == Tail(reports)
             q == Request(r)
  <2>1. reports \in Seq(ItemType) /\ reports # <<>>
    BY <1>6 DEF WorkerSend
  <2>2. /\ r \in ItemType /\ rest \in Seq(ItemType) /\ 1 \in DOMAIN reports /\ r = reports[1]
        /\ \A i \in DOMAIN rest : \E j \in DOMAIN reports : rest[i] = reports[j]
    BY <2>1, TailIs
  <2>3. \/ WorkerFailed(r, rest) /\ UNCHANGED calls
        \/ calls' = calls \cup {q} /\ reports' = rest /\ UNCHANGED batches
    BY <1>6 DEF WorkerSend
  <2>4. q \in CallType /\ q.kind = r.kind /\ q.rep = r.rep
    BY <2>2 DEF Request, CallType, ItemType
  <2> HIDE DEF r, rest, q
  <2>5. CASE WorkerFailed(r, rest) /\ UNCHANGED calls
    <3>1. /\ Keeps /\ reports' \in Seq(ItemType)
          /\ \A i \in DOMAIN reports' : \E j \in DOMAIN reports : reports'[i] = reports[j]
      BY <2>2, <2>5, <1>5
    <3>2. PendingKept
      BY <2>5, <3>1 DEF PendingKept
    <3> QED BY <2>5, <3>1, <3>2
  <2>6. CASE calls' = calls \cup {q} /\ reports' = rest /\ UNCHANGED batches
    BY <2>2, <2>4, <2>6, <1>3 DEF PendingKept
  <2> QED BY <2>3, <2>5, <2>6
<1>7. ASSUME NEW c \in calls, WorkerAck(c)
      PROVE  /\ Keeps /\ reports' \in Seq(ItemType) /\ calls' \subseteq CallType /\ PendingKept
             /\ \A d \in calls : d.kind # "observe" /\ d.reply = "none" =>
                  \E e \in calls' : e.kind = d.kind /\ e.owner = d.owner /\ e.reply = "none"
  <2>1. calls' = calls \ {c} /\ c.reply = "ok"
        /\ (UNCHANGED <<batches, reports>> \/ WorkerFailed(c, reports))
    <3>1. c.kind \in {"observe", "switch", "end"}
      BY DEF CallType
    <3> QED BY <1>7, <3>1 DEF WorkerAck
  <2>2. CASE UNCHANGED <<batches, reports>>
    BY <2>1, <2>2, <1>3 DEF PendingKept
  <2>3. CASE WorkerFailed(c, reports)
    <3>1. /\ Keeps /\ reports' \in Seq(ItemType)
          /\ \A i \in DOMAIN reports' : \E j \in DOMAIN reports : reports'[i] = reports[j]
      BY <2>3, <1>5
    <3> QED BY <2>1, <3>1 DEF PendingKept
  <2> QED BY <2>1, <2>2, <2>3
<1>8. ASSUME NEW c \in calls, WorkerError(c)
      PROVE  /\ Keeps /\ reports' \in Seq(ItemType) /\ calls' \subseteq CallType /\ PendingKept
             /\ \A d \in calls : d.kind # "observe" /\ d.reply = "none" =>
                  \E e \in calls' : e.kind = d.kind /\ e.owner = d.owner /\ e.reply = "none"
  <2> DEFINE d == [c EXCEPT !.awaited = FALSE]
  <2>1. calls' = (calls \ {c}) \cup (IF c.reply = "none" THEN {d} ELSE {}) /\ WorkerFailed(c, reports)
    BY <1>8 DEF WorkerError
  <2>2. d \in CallType /\ d.kind = c.kind /\ d.owner = c.owner /\ d.rep = c.rep /\ d.reply = c.reply
    <3>1. c \in CallType
      OBVIOUS
    <3> QED BY <3>1, CallIs
  <2> HIDE DEF d
  <2>3. /\ Keeps /\ reports' \in Seq(ItemType)
        /\ \A i \in DOMAIN reports' : \E j \in DOMAIN reports : reports'[i] = reports[j]
    BY <2>1, <1>5
  <2>4. PendingKept
    BY <2>1, <2>2, <2>3 DEF PendingKept
  <2> QED BY <2>1, <2>2, <2>3, <2>4
<1> QED BY <1>6, <1>7, <1>8

\* Every step of the extension is one of four.
LEMMA ExtensionIs ==
  ASSUME TypeInv, HolderInv, BatchInv, Extension
  PROVE  Settled \/ (\E o \in Owners : Accepts(o)) \/ (\E done : Carries(done)) \/ NativeReset
<1>1. CASE NativeDescribe
  BY <1>1, DescribeIs
<1>2. CASE \E o \in Owners : NativeStage(o)
  BY <1>2, StageIs
<1>3. CASE \E b \in 1 .. Cardinality(Msgs), p \in {Started, Ended} : NativeMessage(b, p)
  <2>1. \E b, p : NativeMessage(b, p)
    BY <1>3
  <2> QED BY <2>1, MessageIs
<1>4. CASE NativeContext
  BY <1>4, ContextIs
<1>5. CASE NativeSwitch \/ NativeEnd
  BY <1>5, SwitchIs
<1>6. CASE WorkerSend \/ \E c \in calls : WorkerAck(c) \/ WorkerError(c)
  BY <1>6, WorkerIs
<1> QED BY <1>1, <1>2, <1>3, <1>4, <1>5, <1>6 DEF Extension

-----------------------------------------------------------------------------
\* Each of these steps keeps the invariant.

\* A stage call that native refuses leaves its message with the loop.
LEMMA RefusedPlace ==
  ASSUME TypeInv, PlaceInv, NEW o \in Owners, Refuses(o),
         UNCHANGED <<errs, inbox, loop, answer, submitted, arrived>>
  PROVE  PlaceInv'
<1>1. Sent' = Sent /\ Submitted' = Submitted /\ Healthy' = Healthy
  BY DEF Sent, Submitted, Healthy
<1>2. /\ stageReq[o] # NoMsg /\ stageReq'[o] = NoMsg /\ stageRsp'[o] \in {"queue_full", "error"}
      /\ \A p \in Owners : p # o => stageReq'[p] = stageReq[p] /\ stageRsp'[p] = stageRsp[p]
  BY DEF Refuses, TypeInv
<1>3. InboxInv'
  <2>1. ASSUME NEW q \in Owners, NEW i \in DOMAIN inbox[q] PROVE inbox[q][i] # NoMsg
    <3>1. inbox[q] \in Seq(Msgs)
      BY DEF TypeInv
    <3>2. inbox[q][i] \in Msgs
      BY <3>1
    <3> QED BY <3>2, DeliveryAssumption
  <2> QED BY <1>1, <1>2, <2>1 DEF PlaceInv, InboxInv
<1>4. stageReq[o] \notin Submitted /\ (loop[o] = stageReq[o] \/ (loop[o] = NoMsg /\ ~Healthy))
  BY <1>2 DEF PlaceInv, StageInv
<1>5. LoopInv'
  BY <1>1, <1>2, <1>4 DEF PlaceInv, LoopInv
<1>6. StageInv'
  BY <1>1, <1>2, <1>4 DEF PlaceInv, StageInv
<1>7. AnswerInv'
  BY <1>1 DEF PlaceInv, AnswerInv, ReceiptHonest
<1> QED BY <1>3, <1>5, <1>6, <1>7 DEF PlaceInv

\* Native accepts nothing and reaches nothing.
LEMMA SettledOk ==
  ASSUME IInv, Settled
  PROVE  IInv'
<1>1. /\ TypeInv /\ HolderInv /\ PlaceInv /\ BatchInv /\ PendingInv /\ EvidenceInv /\ CreditInv
      /\ UNCHANGED <<ev, errs, inbox, loop, arrived, answer, credited, submitted, observed, wiped, rseq>>
  BY DEF IInv, Settled, ExtCommon
<1>2. current \in Owners /\ current' \in Owners /\ current <= current' /\ current \in Nat /\ current' \in Nat
  BY <1>1, DeliveryAssumption DEF Settled, TypeInv, Owners
<1>3. TypeInv'
  <2>1. stageReq' \in [Owners -> Msgs \cup {NoMsg}]
        /\ stageRsp' \in [Owners -> {"none", "queued", "queue_full", "error"}]
    <3>1. /\ stageReq \in [Owners -> Msgs \cup {NoMsg}]
          /\ stageRsp \in [Owners -> {"none", "queued", "queue_full", "error"}]
      BY <1>1 DEF TypeInv
    <3>2. CASE UNCHANGED stageVars
      BY <3>1, <3>2 DEF stageVars
    <3>3. CASE \E o \in Owners : Refuses(o)
      BY <3>1, <3>3 DEF Refuses
    <3> QED BY <3>2, <3>3 DEF Settled
  <2> QED BY <1>1, <1>2, <2>1 DEF TypeInv, Settled, Keeps
<1>4. HolderInv'
  BY <1>1 DEF HolderInv, Settled, HolderKept
<1>5. PlaceInv'
  <2>1. CASE UNCHANGED stageVars
    BY <1>1, <2>1, PlaceStable DEF stageVars
  <2>2. CASE \E o \in Owners : Refuses(o)
    BY <1>1, <2>2, RefusedPlace
  <2> QED BY <2>1, <2>2 DEF Settled
<1>6. BatchInv'
  <2>1. SubmitInv' /\ Submitted' = Submitted
    BY <1>1 DEF BatchInv, SubmitInv, Submitted
  <2>2. DOMAIN <<>> = {}
    OBVIOUS
  <2>3. ASSUME NEW o \in Owners PROVE BatchOk(o)' /\ Unconfirmed(o)' \subseteq Unconfirmed(o)
    <3>1. CASE batches'[o] = batches[o]
      <4>1. o > current' => o > current
        BY <1>2 DEF Owners
      <4> QED BY <1>1, <3>1, <4>1 DEF BatchInv, BatchOk, Unconfirmed
    <3>2. CASE batches'[o] = <<>>
      <4>1. DOMAIN batches'[o] = {} /\ IsMap(batches'[o])
        BY <3>2, <2>2 DEF IsMap
      <4> QED BY <4>1 DEF BatchOk, Unconfirmed
    <3> QED BY <3>1, <3>2 DEF Settled, Keeps
  <2>4. ResetInv'
    <3>1. CASE current' = current /\ (reset' # reset => Unconfirmed(current) = {})
      <4>1. Unconfirmed(current)' \subseteq Unconfirmed(current)
        BY <3>1, <1>2, <2>3
      <4>2. CASE reset' # reset
        BY <1>1, <3>1, <4>1, <4>2 DEF ResetInv
      <4>3. CASE reset' = reset
        BY <1>1, <3>1, <4>1, <4>3 DEF BatchInv, ResetInv
      <4> QED BY <4>2, <4>3
    <3>2. CASE current' = current + 1 /\ current' \in Owners
      <4>0. PICK n : n = current + 1
        OBVIOUS
      <4>1. n \in Owners /\ n > current /\ current' = n
        BY <3>2, <4>0, <1>2
      <4>2. DOMAIN batches[n] = {}
        BY <1>1, <4>1 DEF BatchInv, BatchOk
      <4>4. DOMAIN batches'[n] = {}
        BY <4>1, <4>2, <2>2 DEF Settled, Keeps
      <4>5. Unconfirmed(current)' = {}
        BY <4>1, <4>4 DEF Unconfirmed
      <4> QED BY <4>5 DEF ResetInv
    <3> QED BY <3>1, <3>2 DEF Settled
  <2> QED BY <2>1, <2>3, <2>4 DEF BatchInv
<1>7. Onward(observed, observed')
  BY <1>1, OnwardSame
<1>8. PendingInv'
  BY <1>1, <1>3, <1>7, PendingStable DEF Settled
<1>9. EvidenceInv'
  BY <1>1, <1>3, <1>7, EvidenceKept
<1>10. CreditInv'
  BY <1>1 DEF CreditInv
<1> QED BY <1>3, <1>4, <1>5, <1>6, <1>8, <1>9, <1>10 DEF IInv

\* A queue that grows by honest reports stays honest.
LEMMA GrowsPending ==
  ASSUME TypeInv, TypeInv', PendingInv, Onward(observed, observed'), QueueGrows(observed'), UNCHANGED calls
  PROVE  PendingInv'
<1>1. \A r : RepOk(r, observed) => RepOk(r, observed')
  BY OnwardOk DEF TypeInv
<1> QED BY <1>1 DEF PendingInv, QueueGrows

\* What native reaches, the credit stays below.
LEMMA CreditBelow ==
  ASSUME TypeInv, TypeInv', CreditInv, Onward(observed, observed'), UNCHANGED credited
  PROVE  CreditInv'
<1>1. ASSUME NEW m \in Msgs PROVE credited[m] <= observed'[m]
  <2>1. credited[m] \in 0 .. 4 /\ observed[m] \in 0 .. 4 /\ observed'[m] \in 0 .. 4
    BY DEF TypeInv, InContext
  <2>2. credited[m] <= observed[m] /\ observed[m] <= observed'[m]
    BY DEF CreditInv, Onward
  <2> QED BY <2>1, <2>2
<1> QED BY <1>1 DEF CreditInv

\* Native accepts a message it was never given.
LEMMA AcceptsOk ==
  ASSUME IInv, NEW o \in Owners, Accepts(o)
  PROVE  /\ IInv' /\ stageReq[o] \in Msgs \ Submitted /\ answer[stageReq[o]] # "rejected"
         /\ observed[stageReq[o]] = 0
<1> USE DEF Claimed, Ended, InContext
<1> DEFINE m == stageReq[o]
           t == Len(submitted[o]) + 1
           x == [id |-> m, phase |-> 1]
<1>1. /\ TypeInv /\ HolderInv /\ PlaceInv /\ BatchInv /\ PendingInv /\ EvidenceInv /\ CreditInv
      /\ UNCHANGED <<ev, errs, inbox, loop, arrived, answer, credited, wiped, current, calls, holder>>
  BY DEF IInv, Accepts, ExtCommon
<1>2. m \in Msgs /\ submitted[o] \in Seq(Msgs) /\ o = current
  BY <1>1 DEF Accepts, TypeInv
<1>3. /\ m \in Sent \ Submitted /\ stageRsp[o] = "none" /\ answer[m] \in {"none", "failed", "lost"}
      /\ loop[o] = m \/ (loop[o] = NoMsg /\ ~Healthy)
      /\ \A p \in Owners : stageReq[p] = m \/ loop[p] = m => p = o
  BY <1>1 DEF Accepts, PlaceInv, StageInv
<1>4. observed[m] = 0
  BY <1>1, <1>2, <1>3 DEF BatchInv, SubmitInv
<1>5. /\ Append(submitted[o], m) \in Seq(Msgs) /\ Len(submitted[o]) \in Nat /\ t \in Nat
      /\ DOMAIN submitted[o] = 1 .. Len(submitted[o]) /\ DOMAIN Append(submitted[o], m) = 1 .. t
      /\ \A i \in DOMAIN submitted[o] : Append(submitted[o], m)[i] = submitted[o][i]
      /\ Append(submitted[o], m)[t] = m
      /\ ToSet(Append(submitted[o], m)) = ToSet(submitted[o]) \cup {m}
  BY <1>2, AppendIs
<1>6. /\ submitted' \in [Owners -> Seq(Msgs)]
      /\ submitted'[o] = Append(submitted[o], m)
      /\ \A p \in Owners : p # o => submitted'[p] = submitted[p]
  BY <1>1, <1>5 DEF Accepts, TypeInv
<1>7. /\ observed' \in [Msgs -> 0 .. 4]
      /\ observed'[m] = 1 /\ \A n \in Msgs : n # m => observed'[n] = observed[n]
  BY <1>1, <1>2 DEF Accepts, TypeInv
<1>8. /\ IsMap(batches') /\ DOMAIN batches' = Owners
      /\ batches'[o] = Extended(batches[o], t, x)
      /\ \A p \in Owners : p # o => batches'[p] = batches[p]
  BY <1>1 DEF Accepts, TypeInv, IsMap
<1>9. x \in [id: Msgs, phase: 1 .. 3] /\ x.id = m /\ x.phase = 1
  BY <1>2
<1>10. /\ stageReq'[o] = NoMsg /\ stageRsp'[o] = "queued"
       /\ \A p \in Owners : p # o => stageReq'[p] = stageReq[p] /\ stageRsp'[p] = stageRsp[p]
       /\ stageReq' \in [Owners -> Msgs \cup {NoMsg}]
       /\ stageRsp' \in [Owners -> {"none", "queued", "queue_full", "error"}]
  BY <1>1 DEF Accepts, TypeInv
<1>11. TypeInv'
  BY <1>1, <1>6, <1>7, <1>8, <1>10 DEF TypeInv, Accepts, QueueGrows
<1>12. \A p \in Owners : \A i \in DOMAIN submitted[p] : submitted[p][i] \in Submitted
  <2>1. \A p \in Owners : submitted[p] \in Seq(Msgs)
    BY <1>1 DEF TypeInv
  <2> QED BY <2>1 DEF Submitted, ToSet
<1> HIDE DEF m, t, x
<1>13. Submitted' = Submitted \cup {m}
  <2>1. /\ ToSet(submitted'[o]) = ToSet(submitted[o]) \cup {m}
        /\ \A p \in Owners : p # o => ToSet(submitted'[p]) = ToSet(submitted[p])
    BY <1>5, <1>6
  <2>2. /\ Submitted = UNION {ToSet(submitted[p]) : p \in Owners}
        /\ Submitted' = UNION {ToSet(submitted'[p]) : p \in Owners}
    BY DEF Submitted
  <2>3. ASSUME NEW n PROVE n \in Submitted' <=> n \in Submitted \cup {m}
    BY <2>1, <2>2
  <2> QED BY <2>3
<1>14. Sent' = Sent /\ Healthy' = Healthy
  BY <1>1 DEF Sent, Healthy
<1>15. HolderInv'
  BY <1>1 DEF HolderInv
<1>16. PlaceInv'
  <2>1. ASSUME NEW q \in Owners, NEW i \in DOMAIN inbox[q] PROVE inbox[q][i] \notin {NoMsg, m}
    <3>1. inbox[q] \in Seq(Msgs)
      BY <1>1 DEF TypeInv
    <3>2. inbox[q][i] \in Msgs /\ stageReq[o] # inbox[q][i]
      BY <1>1, <3>1 DEF PlaceInv, InboxInv
    <3> QED BY <3>2, DeliveryAssumption DEF m
  <2>2. InboxInv'
    BY <1>1, <1>10, <1>13, <1>14, <2>1 DEF PlaceInv, InboxInv
  <2>3. LoopInv'
    BY <1>1, <1>3, <1>10, <1>13, <1>14 DEF PlaceInv, LoopInv
  <2>4. StageInv'
    BY <1>1, <1>3, <1>10, <1>13, <1>14, <1>2, DeliveryAssumption DEF PlaceInv, StageInv
  <2>5. AnswerInv'
    BY <1>1, <1>3, <1>13, <1>14 DEF PlaceInv, AnswerInv, ReceiptHonest
  <2> QED BY <2>2, <2>3, <2>4, <2>5 DEF PlaceInv
<1>17. BatchInv'
  <2>1. \A p, q \in Owners : \A i \in DOMAIN submitted'[p], j \in DOMAIN submitted'[q] :
          submitted'[p][i] = submitted'[q][j] => p = q /\ i = j
    <3>1. ASSUME NEW p \in Owners, NEW i \in DOMAIN submitted'[p]
          PROVE  \/ i \in DOMAIN submitted[p] /\ submitted'[p][i] = submitted[p][i] /\ submitted'[p][i] # m
                 \/ p = o /\ i = t /\ submitted'[p][i] = m
      <4>1. CASE p = o
        <5>1. i \in 1 .. t /\ submitted'[o] = Append(submitted[o], m) /\ t = Len(submitted[o]) + 1
          BY <4>1, <1>5, <1>6 DEF t
        <5>2. i = t \/ i \in DOMAIN submitted[o]
          BY <5>1, <1>5
        <5> QED BY <4>1, <5>1, <5>2, <1>3, <1>5, <1>12
      <4>2. CASE p # o
        BY <4>2, <1>3, <1>6, <1>12
      <4> QED BY <4>1, <4>2
    <3>2. \A p, q \in Owners : \A i \in DOMAIN submitted[p], j \in DOMAIN submitted[q] :
            submitted[p][i] = submitted[q][j] => p = q /\ i = j
      BY <1>1 DEF BatchInv, SubmitInv
    <3> QED BY <3>1, <3>2
  <2>2. \A n \in Msgs : observed'[n] # 0 <=> n \in Submitted'
    BY <1>1, <1>7, <1>13 DEF BatchInv, SubmitInv
  <2>3. SubmitInv'
    BY <1>1, <1>13, <2>1, <2>2 DEF BatchInv, SubmitInv
  <2>4. ASSUME NEW p \in Owners, p # o PROVE BatchOk(p)'
    <3>1. BatchOk(p) /\ batches'[p] = batches[p] /\ submitted'[p] = submitted[p] /\ current' = current
          /\ submitted[p] \in Seq(Msgs)
      BY <1>1, <1>6, <1>8, <2>4 DEF BatchInv, TypeInv
    <3>2. \A b \in DOMAIN batches[p] : observed'[submitted[p][b]] = observed[submitted[p][b]]
      <4>1. \A b \in DOMAIN batches[p] : b \in DOMAIN submitted[p] /\ submitted[p][b] \in Msgs
        BY <3>1 DEF BatchOk
      <4> QED BY <4>1, <1>3, <1>7, <1>12
    <3> QED BY <3>1, <3>2 DEF BatchOk
  <2>5. /\ IsMap(batches'[o]) /\ DOMAIN batches'[o] = DOMAIN batches[o] \cup {t}
        /\ batches'[o][t] = x /\ \A b \in DOMAIN batches[o] \ {t} : batches'[o][b] = batches[o][b]
    BY <1>8 DEF Extended, IsMap
  <2>6. BatchOk(o) /\ DOMAIN batches[o] \subseteq DOMAIN submitted[o]
    BY <1>1, <1>5 DEF BatchInv, BatchOk
  <2>7. DOMAIN batches'[o] \subseteq 1 .. Len(submitted'[o])
    <3>1. Len(submitted'[o]) = t /\ 1 .. Len(submitted[o]) \subseteq 1 .. t /\ t \in 1 .. t
      BY <1>5, <1>6 DEF t
    <3> QED BY <3>1, <2>5, <2>6, <1>5
  <2>8. ASSUME NEW b \in DOMAIN batches'[o]
        PROVE  /\ batches'[o][b] \in [id: Msgs, phase: 1 .. 3]
               /\ batches'[o][b].id = submitted'[o][b]
               /\ batches'[o][b].phase = observed'[submitted'[o][b]]
    <3>1. CASE b = t
      BY <3>1, <1>5, <1>6, <1>7, <1>9, <2>5
    <3>2. CASE b # t
      <4>1. b \in DOMAIN batches[o] /\ b \in DOMAIN submitted[o] /\ batches'[o][b] = batches[o][b]
        BY <3>2, <2>5, <2>6
      <4>2. submitted'[o][b] = submitted[o][b] /\ submitted[o][b] \in Msgs /\ submitted[o][b] # m
        BY <4>1, <1>2, <1>3, <1>5, <1>6, <1>12
      <4> QED BY <4>1, <4>2, <1>7, <2>6 DEF BatchOk
    <3> QED BY <3>1, <3>2
  <2>9. BatchOk(o)'
    <3>1. ~(o > current')
      <4>1. o \in Nat /\ current' = o
        BY <1>1, <1>2, DeliveryAssumption DEF Owners
      <4> QED BY <4>1
    <3> QED BY <3>1, <2>5, <2>7, <2>8 DEF BatchOk
  <2>10. Unconfirmed(o)' \subseteq Unconfirmed(o) \cup {m}
    <3>1. \A b \in DOMAIN batches'[o] : batches'[o][b].id = m \/ (b \in DOMAIN batches[o] /\ batches'[o][b] = batches[o][b])
      BY <1>9, <2>5
    <3> QED BY <3>1 DEF Unconfirmed
  <2>11. ResetInv'
    <3>1. m \notin wiped
      BY <1>1, <1>3 DEF BatchInv, SubmitInv
    <3>2. ~reset' => wiped \cap Unconfirmed(o) = {}
      <4>1. reset' # reset => Unconfirmed(o) = {}
        BY <1>2 DEF Accepts
      <4>2. ~reset => wiped \cap Unconfirmed(o) = {}
        BY <1>1, <1>2 DEF BatchInv, ResetInv
      <4> QED BY <4>1, <4>2
    <3>3. Unconfirmed(current)' = Unconfirmed(o)'
      BY <1>1, <1>2 DEF Unconfirmed
    <3> QED BY <1>1, <2>10, <3>1, <3>2, <3>3 DEF ResetInv
  <2> QED BY <2>3, <2>4, <2>9, <2>11 DEF BatchInv
<1>18. Onward(observed, observed')
  <2>1. ASSUME NEW n \in Msgs PROVE observed[n] <= observed'[n]
    <3>1. observed[n] \in 0 .. 4
      BY <1>1 DEF TypeInv
    <3>2. CASE n = m
      BY <3>2, <1>4, <1>7 DEF m
    <3>3. CASE n # m
      BY <3>1, <3>3, <1>7
    <3> QED BY <3>2, <3>3
  <2> QED BY <2>1 DEF Onward
<1>19. PendingInv'
  BY <1>1, <1>11, <1>18, GrowsPending DEF Accepts
<1>20. EvidenceInv'
  BY <1>1, <1>11, <1>18, EvidenceKept
<1>21. CreditInv'
  BY <1>1, <1>11, <1>18, CreditBelow
<1> QED BY <1>2, <1>3, <1>4, <1>11, <1>15, <1>16, <1>17, <1>19, <1>20, <1>21 DEF IInv, m

\* Native carries messages it was given, none of which it lost.
LEMMA CarriesOk ==
  ASSUME IInv, NEW done, Carries(done)
  PROVE  /\ IInv'
         /\ LET S == {batches[current][b].id : b \in done}
            IN  S \subseteq Msgs /\ (\A m \in S : observed[m] \in 1 .. 3) /\ S \cap wiped = {}
<1> USE DEF Claimed, Ended, InContext
<1> DEFINE o == current
           S == {batches[o][b].id : b \in done}
<1>1. /\ TypeInv /\ HolderInv /\ PlaceInv /\ BatchInv /\ PendingInv /\ EvidenceInv /\ CreditInv
      /\ UNCHANGED <<ev, errs, inbox, loop, arrived, answer, credited, wiped, current, calls, holder,
                     stageVars, submitted, reset>>
      /\ o \in Owners
  BY DEF IInv, Carries, ExtCommon, TypeInv
<1>2. observed' = [m \in Msgs |-> IF m \in S THEN observed[m] + 1 ELSE observed[m]]
      /\ done \subseteq DOMAIN batches[o]
  BY DEF Carries
<1>3. /\ \A b \in DOMAIN batches[o] :
           /\ batches[o][b] \in [id: Msgs, phase: 1 .. 3]
           /\ batches[o][b].id = submitted[o][b] /\ b \in DOMAIN submitted[o]
           /\ batches[o][b].phase = observed[batches[o][b].id]
      /\ DOMAIN batches[o] \subseteq 1 .. Len(submitted[o]) /\ submitted[o] \in Seq(Msgs)
  <2>1. BatchOk(o) /\ submitted[o] \in Seq(Msgs)
    BY <1>1 DEF BatchInv, TypeInv
  <2> QED BY <2>1 DEF BatchOk
<1>4. \A b \in DOMAIN batches[o] : batches[o][b].id \in Msgs /\ observed[batches[o][b].id] \in 1 .. 3
  BY <1>3
<1>5. S \subseteq Msgs /\ \A m \in S : observed[m] \in 1 .. 3
  BY <1>2, <1>4
<1>6. S \subseteq Unconfirmed(o) /\ (S # {} => ~reset)
  BY <1>2 DEF Unconfirmed, Carries
<1>7. S \cap wiped = {}
  BY <1>1, <1>6 DEF BatchInv, ResetInv
<1>8. \A m \in S : \E b \in DOMAIN batches[o] : m = batches[o][b].id
  BY <1>2
<1> HIDE DEF S
<1>9. observed \in [Msgs -> 0 .. 4]
  BY <1>1 DEF TypeInv
<1>10. observed' \in [Msgs -> 0 .. 4]
  BY <1>2, <1>5, <1>9
<1>11. TypeInv'
  BY <1>1, <1>10 DEF TypeInv, Carries, QueueGrows, stageVars
<1>12. HolderInv'
  BY <1>1 DEF HolderInv
<1>13. PlaceInv'
  BY <1>1, PlaceStable DEF stageVars
<1>14. Onward(observed, observed')
  <2>1. ASSUME NEW m \in Msgs PROVE observed[m] <= observed'[m]
    <3>1. PICK p \in 0 .. 4 : p = observed[m]
      BY <1>9
    <3> QED BY <1>2, <3>1
  <2> QED BY <2>1 DEF Onward
<1>15. BatchInv'
  <2>1. \A m \in Msgs : observed'[m] = 0 <=> observed[m] = 0
    <3>1. ASSUME NEW m \in S PROVE observed'[m] # 0 /\ observed[m] # 0
      BY <1>2, <1>5
    <3>2. ASSUME NEW m \in Msgs \ S PROVE observed'[m] = observed[m]
      BY <1>2
    <3> QED BY <3>1, <3>2
  <2>2. SubmitInv' /\ Submitted' = Submitted
    BY <1>1, <2>1 DEF BatchInv, SubmitInv, Submitted
  <2>3. ASSUME NEW p \in Owners, p # o PROVE BatchOk(p)'
    <3>1. BatchOk(p) /\ batches'[p] = batches[p] /\ submitted' = submitted /\ current' = current
          /\ submitted[p] \in Seq(Msgs)
      BY <1>1, <2>3 DEF BatchInv, TypeInv, Carries
    <3>2. ASSUME NEW b \in DOMAIN batches[p] PROVE observed'[submitted[p][b]] = observed[submitted[p][b]]
      <4>1. b \in DOMAIN submitted[p] /\ submitted[p][b] \in Msgs
        BY <3>1 DEF BatchOk
      <4>2. submitted[p][b] \notin S
        <5>1. \A i \in DOMAIN submitted[o] : submitted[p][b] # submitted[o][i]
          BY <1>1, <2>3, <4>1 DEF BatchInv, SubmitInv
        <5> QED BY <5>1, <1>3, <1>8
      <4> QED BY <4>1, <4>2, <1>2
    <3> QED BY <3>1, <3>2 DEF BatchOk
  <2>4. BatchOk(o)'
    <3>1. /\ IsMap(batches'[o]) /\ DOMAIN batches'[o] \subseteq DOMAIN batches[o]
          /\ \A b \in DOMAIN batches'[o] :
               /\ batches'[o][b] \in [id: Msgs, phase: 1 .. 3]
               /\ batches'[o][b].id = batches[o][b].id
               /\ batches'[o][b].phase = observed'[batches[o][b].id]
      BY DEF Carries
    <3>2. o' = o /\ submitted' = submitted /\ ~(o > o)
      <4>1. o \in Nat
        BY <1>1, DeliveryAssumption DEF Owners
      <4> QED BY <1>1, <4>1
    <3>3. \A b \in DOMAIN batches'[o] : batches[o][b].id = submitted[o][b]
      BY <1>3, <3>1
    <3> QED BY <1>3, <3>1, <3>2, <3>3 DEF BatchOk
  <2>5. ResetInv'
    <3>1. Unconfirmed(current)' \subseteq Unconfirmed(current)
      BY <1>1 DEF Unconfirmed, Carries
    <3> QED BY <1>1, <3>1 DEF BatchInv, ResetInv
  <2>6. \A p \in Owners : BatchOk(p)'
    <3>1. o' = o
      BY <1>1
    <3>2. ASSUME NEW p \in Owners, p = o PROVE BatchOk(p)'
      BY <2>4, <3>1, <3>2 DEF BatchOk
    <3> QED BY <2>3, <3>2
  <2> QED BY <2>2, <2>5, <2>6 DEF BatchInv
<1>16. PendingInv'
  BY <1>1, <1>11, <1>14, GrowsPending DEF Carries
<1>17. EvidenceInv'
  BY <1>1, <1>11, <1>14, EvidenceKept
<1>18. CreditInv'
  BY <1>1, <1>11, <1>14, CreditBelow
<1> QED BY <1>5, <1>7, <1>11, <1>12, <1>13, <1>15, <1>16, <1>17, <1>18 DEF IInv, S

\* Native loses what it held.
LEMMA ResetOk ==
  ASSUME IInv, NativeReset
  PROVE  IInv'
<1>1. /\ TypeInv /\ HolderInv /\ PlaceInv /\ BatchInv /\ PendingInv /\ EvidenceInv /\ CreditInv
      /\ UNCHANGED <<goVars, publicVars, stageVars, calls, current, batches,
                     rseq, reports, arrived, submitted, answer, observed, credited>>
      /\ reset' = TRUE /\ wiped' = wiped \cup Unconfirmed(current)
  BY DEF IInv, NativeReset
<1> USE DEF goVars, publicVars, stageVars
<1>2. TypeInv'
  BY <1>1 DEF TypeInv
<1>3. HolderInv'
  BY <1>1 DEF HolderInv
<1>4. PlaceInv'
  BY <1>1, PlaceStable
<1>5. BatchInv'
  <2>1. BatchOk(current) /\ current \in Owners /\ submitted[current] \in Seq(Msgs)
    BY <1>1 DEF BatchInv, TypeInv
  <2>2. Unconfirmed(current) \subseteq ToSet(submitted[current])
    BY <2>1 DEF BatchOk, Unconfirmed, ToSet
  <2>3. Submitted' = Submitted /\ Unconfirmed(current) \subseteq Submitted
    BY <1>1, <2>1, <2>2 DEF Submitted
  <2> QED BY <1>1, <2>3 DEF BatchInv, SubmitInv, BatchOk, ResetInv
<1>6. Onward(observed, observed')
  BY <1>1, OnwardSame
<1>7. PendingInv'
  BY <1>1 DEF PendingInv
<1>8. EvidenceInv'
  BY <1>1, <1>2, <1>6, EvidenceKept
<1>9. CreditInv'
  BY <1>1 DEF CreditInv
<1> QED BY <1>2, <1>3, <1>4, <1>5, <1>7, <1>8, <1>9 DEF IInv

-----------------------------------------------------------------------------
\* The public connection.

\* Messages that were not answered yet are, and truthfully.
Answers(S, r) ==
  /\ S \subseteq Msgs /\ r \in AnswerKinds \ {"none"}
  /\ \A m \in S : answer[m] = "none"
  /\ r = "queued" => S \subseteq Submitted
  /\ r = "rejected" => S \cap Submitted = {}
  /\ answer' = [m \in Msgs |-> IF m \in S THEN r ELSE answer[m]]

Answered == UNCHANGED answer \/ \E S, r : Answers(S, r)

\* A true answer to messages that were sent keeps the answers true.
LEMMA AnswersOk ==
  ASSUME AnswerInv, UNCHANGED submitted, Sent \subseteq Sent', NEW S, NEW r, Answers(S, r), S \subseteq Sent'
  PROVE  AnswerInv'
<1>1. Submitted' = Submitted
  BY DEF Submitted
<1> QED BY <1>1 DEF AnswerInv, Answers, AnswerKinds, ReceiptHonest

\* What a step of a public connection leaves to the others.
LEMMA PublicRest ==
  ASSUME IInv, TypeInv', UNCHANGED <<holder, calls, extVars, submitted, observed, credited, wiped>>
  PROVE  HolderInv' /\ BatchInv' /\ PendingInv' /\ CreditInv'
<1>1. TypeInv /\ HolderInv /\ BatchInv /\ PendingInv /\ CreditInv
  BY DEF IInv
<1>2. HolderInv'
  BY <1>1 DEF HolderInv
<1>3. BatchInv'
  BY <1>1, BatchStable DEF extVars
<1>4. PendingInv' /\ CreditInv'
  BY <1>1 DEF PendingInv, CreditInv, extVars
<1> QED BY <1>2, <1>3, <1>4

\* Where the messages of a connection are.
LEMMA PlacesAre ==
  ASSUME TypeInv, PlaceInv
  PROVE  /\ \A p \in Owners : inbox[p] \in Seq(Msgs) /\ submitted[p] \in Seq(Msgs) /\ arrived[p] \in Seq(Msgs)
         /\ \A p \in Owners : \A i \in DOMAIN inbox[p] : inbox[p][i] \in Msgs /\ inbox[p][i] # NoMsg
         /\ NoMsg \notin Msgs
         /\ \A m \in Msgs : m \notin Sent =>
              /\ answer[m] = "none" /\ m \notin Submitted
              /\ \A p \in Owners : loop[p] # m /\ stageReq[p] # m
              /\ \A p \in Owners : \A i \in DOMAIN inbox[p] : inbox[p][i] # m
<1>1. \A p \in Owners : inbox[p] \in Seq(Msgs) /\ submitted[p] \in Seq(Msgs) /\ arrived[p] \in Seq(Msgs)
  BY DEF TypeInv
<1>2. \A p \in Owners : \A i \in DOMAIN inbox[p] : inbox[p][i] \in Msgs /\ inbox[p][i] # NoMsg
  BY <1>1, DeliveryAssumption
<1>3. ASSUME NEW m \in Msgs, m \notin Sent
      PROVE  /\ answer[m] = "none" /\ m \notin Submitted
             /\ \A p \in Owners : loop[p] # m /\ stageReq[p] # m
             /\ \A p \in Owners : \A i \in DOMAIN inbox[p] : inbox[p][i] # m
  <2>1. m # NoMsg
    BY DeliveryAssumption
  <2> QED BY <1>3, <2>1 DEF PlaceInv, InboxInv, LoopInv, StageInv, AnswerInv
<1> QED BY <1>1, <1>2, <1>3, DeliveryAssumption

\* The daemon sends a message.
LEMMA DeliverOk ==
  ASSUME IInv, NEW o \in Owners, NEW m \in Msgs, Deliver(o, m), TypeInv'
  PROVE  IInv' /\ Answered
<1>1. /\ TypeInv /\ HolderInv /\ PlaceInv /\ BatchInv /\ PendingInv /\ EvidenceInv /\ CreditInv
      /\ UNCHANGED <<holder, ev, loop, stageReq, stageRsp, calls, extVars, submitted, observed, credited, wiped>>
      /\ m \notin Sent /\ arrived' = [arrived EXCEPT ![o] = Append(@, m)]
  BY DEF IInv, Deliver, stageVars
<1>2. HolderInv' /\ BatchInv' /\ PendingInv' /\ CreditInv'
  BY <1>1, PublicRest
<1>3. /\ NoMsg \notin Msgs /\ answer[m] = "none" /\ m \notin Submitted
      /\ \A p \in Owners : loop[p] # m /\ stageReq[p] # m
      /\ \A p \in Owners : \A i \in DOMAIN inbox[p] : inbox[p][i] # m
      /\ \A p \in Owners : \A i \in DOMAIN inbox[p] : inbox[p][i] # NoMsg
      /\ inbox[o] \in Seq(Msgs) /\ arrived[o] \in Seq(Msgs)
  BY <1>1, PlacesAre
<1>4. Sent' = Sent \cup {m} /\ Submitted' = Submitted
  <2>1. ToSet(Append(arrived[o], m)) = ToSet(arrived[o]) \cup {m}
    BY <1>3, AppendIs
  <2>2. arrived'[o] = Append(arrived[o], m) /\ \A p \in Owners : p # o => arrived'[p] = arrived[p]
    BY <1>1 DEF TypeInv
  <2> QED BY <1>1, <2>1, <2>2 DEF Sent, Submitted
<1>5. /\ UNCHANGED answer
      /\ \/ inbox' = [inbox EXCEPT ![o] = Append(@, m)] /\ UNCHANGED errs
         \/ UNCHANGED inbox /\ errs \subseteq errs'
  BY DEF Deliver, Failing
<1>6. CASE inbox' = [inbox EXCEPT ![o] = Append(@, m)] /\ UNCHANGED errs
  <2>1. ASSUME NEW p \in Owners, NEW i \in DOMAIN inbox'[p]
        PROVE  \/ i \in DOMAIN inbox[p] /\ inbox'[p][i] = inbox[p][i] /\ inbox'[p][i] # m
               \/ p = o /\ i = Len(inbox[o]) + 1 /\ inbox'[p][i] = m
    <3>1. CASE p = o
      <4>1. /\ inbox'[o] = Append(inbox[o], m) /\ Len(inbox[o]) \in Nat
            /\ DOMAIN inbox[o] = 1 .. Len(inbox[o]) /\ DOMAIN inbox'[o] = 1 .. Len(inbox[o]) + 1
            /\ \A j \in DOMAIN inbox[o] : inbox'[o][j] = inbox[o][j]
            /\ inbox'[o][Len(inbox[o]) + 1] = m
        <5>1. inbox'[o] = Append(inbox[o], m)
          BY <1>6, <1>1 DEF TypeInv
        <5> QED BY <5>1, <1>3, AppendIs
      <4>2. PICK n \in Nat : n = Len(inbox[o])
        BY <4>1
      <4>3. i \in 1 .. n \/ i = n + 1
        BY <3>1, <4>1, <4>2
      <4> QED BY <1>3, <3>1, <4>1, <4>2, <4>3
    <3>2. CASE p # o
      <4>1. inbox'[p] = inbox[p]
        BY <1>1, <1>6, <3>2 DEF TypeInv
      <4> QED BY <1>3, <3>2, <4>1
    <3> QED BY <3>1, <3>2
  <2>2. Healthy' = Healthy /\ answer' = answer
    BY <1>5, <1>6 DEF Healthy
  <2>3. InboxInv'
    <3>1. ASSUME NEW p \in Owners, NEW i \in DOMAIN inbox'[p]
          PROVE  LET n == inbox'[p][i] IN
                 /\ n \in Sent' /\ answer'[n] = "none" /\ n \notin Submitted'
                 /\ \A q \in Owners : loop'[q] # n /\ stageReq'[q] # n
      <4>1. CASE i \in DOMAIN inbox[p] /\ inbox'[p][i] = inbox[p][i]
        BY <1>1, <1>4, <2>2, <4>1 DEF PlaceInv, InboxInv
      <4>2. CASE inbox'[p][i] = m
        BY <1>1, <1>3, <1>4, <2>2, <4>2
      <4> QED BY <2>1, <4>1, <4>2
    <3>2. \A p, q \in Owners : \A i \in DOMAIN inbox'[p], j \in DOMAIN inbox'[q] :
            inbox'[p][i] = inbox'[q][j] => p = q /\ i = j
      <4>1. \A p, q \in Owners : \A i \in DOMAIN inbox[p], j \in DOMAIN inbox[q] :
              inbox[p][i] = inbox[q][j] => p = q /\ i = j
        BY <1>1 DEF PlaceInv, InboxInv
      <4> QED BY <2>1, <4>1
    <3> QED BY <3>1, <3>2 DEF InboxInv
  <2>4. LoopInv' /\ StageInv' /\ AnswerInv'
    BY <1>1, <1>4, <2>2 DEF PlaceInv, LoopInv, StageInv, AnswerInv, ReceiptHonest
  <2>5. EvidenceInv'
    <3> SUFFICES ASSUME Healthy PROVE EvidenceInv'
      BY <2>2 DEF EvidenceInv
    <3>1. \A p \in Owners : m \notin Holds(ev[p])
      BY <1>1 DEF EvidenceInv
    <3>2. \A p, q \in Owners : \A i \in DOMAIN inbox'[p] : inbox'[p][i] \notin Holds(ev[q])
      BY <1>1, <2>1, <3>1 DEF EvidenceInv
    <3> QED BY <1>1, <1>4, <3>2 DEF EvidenceInv
  <2> QED BY <1>2, <1>5, <2>3, <2>4, <2>5 DEF IInv, PlaceInv, Answered
<1>7. CASE UNCHANGED inbox /\ errs \subseteq errs'
  <2>1. ~Healthy => ~Healthy'
    BY <1>7 DEF Healthy
  <2>2. InboxInv'
    BY <1>1, <1>4, <1>5, <1>7 DEF PlaceInv, InboxInv
  <2>3. LoopInv'
    BY <1>1, <1>4, <1>5 DEF PlaceInv, LoopInv
  <2>4. StageInv'
    BY <1>1, <1>4, <1>5, <2>1 DEF PlaceInv, StageInv
  <2>5. AnswerInv'
    BY <1>1, <1>4, <1>5 DEF PlaceInv, AnswerInv, ReceiptHonest
  <2>6. EvidenceInv'
    BY <1>1, <1>4, <1>7, <2>1 DEF EvidenceInv
  <2> QED BY <1>2, <1>5, <2>2, <2>3, <2>4, <2>5, <2>6 DEF IInv, PlaceInv, Answered
<1> QED BY <1>5, <1>6, <1>7

\* The loop takes a message.
LEMMA StageAdmitOk ==
  ASSUME IInv, NEW o \in Owners, StageAdmit(o), TypeInv'
  PROVE  IInv' /\ Answered
<1> DEFINE m == Head(inbox[o])
<1>1. /\ TypeInv /\ HolderInv /\ PlaceInv /\ BatchInv /\ PendingInv /\ EvidenceInv /\ CreditInv
      /\ UNCHANGED <<holder, stageRsp, arrived, calls, extVars, submitted, observed, credited, wiped>>
      /\ loop[o] = NoMsg /\ Healthy /\ inbox[o] # <<>>
      /\ inbox' = [inbox EXCEPT ![o] = Tail(@)]
  BY DEF IInv, StageAdmit, StageTake
<1>2. HolderInv' /\ BatchInv' /\ PendingInv' /\ CreditInv'
  BY <1>1, PublicRest
<1>3. /\ \A p \in Owners : \A i \in DOMAIN inbox[p] : inbox[p][i] \in Msgs /\ inbox[p][i] # NoMsg
      /\ inbox[o] \in Seq(Msgs) /\ NoMsg \notin Msgs
  BY <1>1, PlacesAre
<1>4. /\ m \in Msgs /\ 1 \in DOMAIN inbox[o] /\ m = inbox[o][1]
      /\ DOMAIN Tail(inbox[o]) = 1 .. Len(inbox[o]) - 1
      /\ \A i \in DOMAIN Tail(inbox[o]) : i + 1 \in DOMAIN inbox[o] /\ Tail(inbox[o])[i] = inbox[o][i + 1]
  BY <1>1, <1>3, TailIs
<1>5. ASSUME NEW p \in Owners, NEW i \in DOMAIN inbox'[p]
      PROVE  \E j \in DOMAIN inbox[p] : /\ inbox'[p][i] = inbox[p][j] /\ (p = o => j # 1)
                                        /\ j = IF p = o THEN i + 1 ELSE i
  <2>1. CASE p = o
    <3>1. inbox'[o] = Tail(inbox[o])
      BY <1>1 DEF TypeInv
    <3>2. i \in 1 .. Len(inbox[o]) - 1 /\ Len(inbox[o]) \in Nat
      BY <2>1, <3>1, <1>3, <1>4
    <3> QED BY <2>1, <3>1, <3>2, <1>4
  <2>2. CASE p # o
    BY <2>2, <1>1 DEF TypeInv
  <2> QED BY <2>1, <2>2
<1>6. /\ m \in Sent /\ answer[m] = "none" /\ m \notin Submitted
      /\ \A p \in Owners : loop[p] # m /\ stageReq[p] # m
      /\ \A p \in Owners : m \notin Holds(ev[p])
  BY <1>1, <1>4 DEF PlaceInv, InboxInv, EvidenceInv
<1>7. ASSUME NEW p \in Owners, NEW i \in DOMAIN inbox'[p] PROVE inbox'[p][i] # m
  <2>1. PICK j \in DOMAIN inbox[p] : inbox'[p][i] = inbox[p][j] /\ (p = o => j # 1)
    BY <1>5
  <2>2. inbox[p][j] = inbox[o][1] => p = o /\ j = 1
    BY <1>1, <1>4 DEF PlaceInv, InboxInv
  <2> QED BY <2>1, <2>2, <1>4
<1>8. \A p, q \in Owners : \A i \in DOMAIN inbox'[p], j \in DOMAIN inbox'[q] :
        inbox'[p][i] = inbox'[q][j] => p = q /\ i = j
  <2>1. ASSUME NEW p \in Owners, NEW q \in Owners, NEW i \in DOMAIN inbox'[p], NEW j \in DOMAIN inbox'[q],
               inbox'[p][i] = inbox'[q][j]
        PROVE  p = q /\ i = j
    <3>1. PICK k \in DOMAIN inbox[p] : inbox'[p][i] = inbox[p][k] /\ k = IF p = o THEN i + 1 ELSE i
      BY <1>5
    <3>2. PICK l \in DOMAIN inbox[q] : inbox'[q][j] = inbox[q][l] /\ l = IF q = o THEN j + 1 ELSE j
      BY <1>5
    <3>3. p = q /\ k = l
      <4>1. inbox[p][k] = inbox[q][l]
        BY <2>1, <3>1, <3>2
      <4>2. InboxInv
        BY <1>1 DEF PlaceInv
      <4> QED BY <4>1, <4>2 DEF InboxInv
    <3>4. inbox'[p] \in Seq(Msgs) /\ inbox'[q] \in Seq(Msgs)
      BY DEF TypeInv
    <3>5. i \in Int /\ j \in Int
      BY <3>4
    <3> QED BY <3>1, <3>2, <3>3, <3>5
  <2> QED BY <2>1
<1> HIDE DEF m
<1>9. Sent' = Sent /\ Submitted' = Submitted
  BY <1>1 DEF Sent, Submitted
<1>10. \/ /\ CanReserve(ev[o], m) /\ ev' = [ev EXCEPT ![o] = Reserve(@, m)]
          /\ loop' = [loop EXCEPT ![o] = m] /\ stageReq' = [stageReq EXCEPT ![o] = m]
          /\ UNCHANGED <<errs, answer>>
       \/ ~Healthy' /\ Tell({m}, "failed") /\ UNCHANGED <<ev, loop, stageReq>>
  BY DEF StageAdmit, StageTake, Failing, Healthy, m
<1>11. CASE /\ CanReserve(ev[o], m) /\ ev' = [ev EXCEPT ![o] = Reserve(@, m)]
            /\ loop' = [loop EXCEPT ![o] = m] /\ stageReq' = [stageReq EXCEPT ![o] = m]
            /\ UNCHANGED <<errs, answer>>
  <2>1. /\ loop'[o] = m /\ stageReq'[o] = m
        /\ \A p \in Owners : p # o => loop'[p] = loop[p] /\ stageReq'[p] = stageReq[p]
    BY <1>1, <1>11 DEF TypeInv
  <2>2. Healthy' = Healthy /\ stageRsp[o] = "none" /\ m # NoMsg
    BY <1>1, <1>3, <1>4, <1>11 DEF Healthy, PlaceInv, StageInv
  <2>3. InboxInv'
    <3>1. ASSUME NEW p \in Owners, NEW i \in DOMAIN inbox'[p]
          PROVE  LET n == inbox'[p][i] IN
                 /\ n \in Sent' /\ answer'[n] = "none" /\ n \notin Submitted'
                 /\ \A q \in Owners : loop'[q] # n /\ stageReq'[q] # n
      <4>1. PICK j \in DOMAIN inbox[p] : inbox'[p][i] = inbox[p][j]
        BY <1>5
      <4> QED BY <4>1, <1>1, <1>7, <1>9, <1>11, <2>1 DEF PlaceInv, InboxInv
    <3> QED BY <3>1, <1>8 DEF InboxInv
  <2>4. LoopInv'
    BY <1>1, <1>6, <1>9, <1>11, <2>1, <2>2 DEF PlaceInv, LoopInv
  <2>5. StageInv'
    BY <1>1, <1>6, <1>9, <1>11, <2>1, <2>2 DEF PlaceInv, StageInv
  <2>6. AnswerInv'
    BY <1>1, <1>9, <1>11 DEF PlaceInv, AnswerInv, ReceiptHonest
  <2>7. EvidenceInv'
    <3>1. EvOk(ev[o], observed, credited) /\ m \notin Holds(ev[o])
      BY <1>1, <1>6 DEF EvidenceInv
    <3>2. credited[m] = 0
      <4>1. observed[m] = 0
        BY <1>1, <1>4, <1>6 DEF BatchInv, SubmitInv, m
      <4>2. credited[m] \in 0 .. 4 /\ credited[m] <= observed[m]
        BY <1>1, <1>4 DEF TypeInv, InContext, CreditInv, m
      <4> QED BY <4>1, <4>2
    <3>3. m \in Msgs
      BY <1>4 DEF m
    <3>4. EvOk(Reserve(ev[o], m), observed, credited) /\ Holds(Reserve(ev[o], m)) = Holds(ev[o]) \cup {m}
      BY <3>1, <3>2, <3>3, ReserveOk
    <3>5. ev'[o] = Reserve(ev[o], m) /\ \A p \in Owners : p # o => ev'[p] = ev[p]
      BY <1>1, <1>11 DEF TypeInv
    <3>6. observed' = observed /\ credited' = credited
      BY <1>1
    <3>7. /\ \A p \in Owners : EvOk(ev[p], observed, credited) /\ Holds(ev[p]) \subseteq Sent
          /\ \A p, q \in Owners : p # q => Holds(ev[p]) \cap Holds(ev[q]) = {}
          /\ \A p, q \in Owners : \A i \in DOMAIN inbox[p] : inbox[p][i] \notin Holds(ev[q])
      BY <1>1 DEF EvidenceInv
    <3>8. \A p \in Owners : EvOk(ev'[p], observed, credited) /\ Holds(ev'[p]) \subseteq Sent
      BY <1>6, <3>4, <3>5, <3>7
    <3>9. \A p, q \in Owners : p # q => Holds(ev'[p]) \cap Holds(ev'[q]) = {}
      BY <1>6, <3>4, <3>5, <3>7
    <3>10. \A p, q \in Owners : \A i \in DOMAIN inbox'[p] : inbox'[p][i] \notin Holds(ev'[q])
      <4>1. \A p, q \in Owners : \A i \in DOMAIN inbox'[p] : inbox'[p][i] \notin Holds(ev[q])
        BY <1>5, <3>7
      <4> QED BY <1>7, <3>4, <3>5, <4>1
    <3> QED BY <1>9, <3>6, <3>8, <3>9, <3>10 DEF EvidenceInv
  <2> QED BY <1>2, <1>11, <2>3, <2>4, <2>5, <2>6, <2>7 DEF IInv, PlaceInv, Answered
<1>12. CASE ~Healthy' /\ Tell({m}, "failed") /\ UNCHANGED <<ev, loop, stageReq>>
  <2>0. m \in Msgs
    BY <1>4 DEF m
  <2>1. Answers({m}, "failed")
    BY <1>6, <1>12, <2>0 DEF Tell, Answers, AnswerKinds
  <2>2. AnswerInv'
    BY <1>1, <1>6, <1>9, <2>1, AnswersOk DEF PlaceInv
  <2>3. \A x : x # m /\ x \in Msgs => answer'[x] = answer[x]
    BY <1>12 DEF Tell
  <2>4. \A p \in Owners : loop[p] \in Msgs \cup {NoMsg} /\ stageReq[p] \in Msgs \cup {NoMsg}
    BY <1>1 DEF TypeInv
  <2>5. InboxInv'
    <3>1. ASSUME NEW p \in Owners, NEW i \in DOMAIN inbox'[p]
          PROVE  LET n == inbox'[p][i] IN
                 /\ n \in Sent' /\ answer'[n] = "none" /\ n \notin Submitted'
                 /\ \A q \in Owners : loop'[q] # n /\ stageReq'[q] # n
      <4>1. PICK j \in DOMAIN inbox[p] : inbox'[p][i] = inbox[p][j]
        BY <1>5
      <4> QED BY <4>1, <1>1, <1>3, <1>7, <1>9, <1>12, <2>3 DEF PlaceInv, InboxInv
    <3> QED BY <3>1, <1>8 DEF InboxInv
  <2>6. LoopInv'
    BY <1>1, <1>6, <1>9, <1>12, <2>3, <2>4 DEF PlaceInv, LoopInv
  <2>7. StageInv'
    BY <1>1, <1>6, <1>9, <1>12, <2>3, <2>4 DEF PlaceInv, StageInv
  <2>8. EvidenceInv'
    BY <1>12 DEF EvidenceInv
  <2> QED BY <1>2, <2>1, <2>2, <2>5, <2>6, <2>7, <2>8 DEF IInv, PlaceInv, Answered
<1> QED BY <1>10, <1>11, <1>12

\* The loop gives up a message, which only it had.
LEMMA LoopFrees ==
  ASSUME IInv, NEW o \in Owners, loop[o] # NoMsg,
         UNCHANGED answer \/ \E r : Answers({loop[o]}, r),
         loop' = [loop EXCEPT ![o] = NoMsg], errs \subseteq errs',
         \/ UNCHANGED <<stageRsp, answer>> /\ ~Healthy'
         \/ stageRsp[o] # "none" /\ stageRsp' = [stageRsp EXCEPT ![o] = "none"],
         UNCHANGED <<inbox, stageReq, arrived, submitted>>
  PROVE  PlaceInv'
<1> DEFINE m == loop[o]
<1>1. TypeInv /\ PlaceInv
  BY DEF IInv
<1>2. m \in Msgs /\ m # NoMsg /\ NoMsg \notin Msgs
  BY <1>1, DeliveryAssumption DEF TypeInv
<1>3. /\ m \in Sent /\ answer[m] = "none"
      /\ \A p \in Owners : loop[p] = m => p = o
      /\ \A p \in Owners : stageReq[p] = m => p = o
      /\ \A p \in Owners : \A i \in DOMAIN inbox[p] : inbox[p][i] # m
  BY <1>1, <1>2 DEF PlaceInv, LoopInv, StageInv, InboxInv
<1>4. Sent' = Sent /\ Submitted' = Submitted /\ (~Healthy => ~Healthy')
  BY DEF Sent, Submitted, Healthy
<1>5. AnswerInv'
  <2>1. CASE UNCHANGED answer
    BY <1>1, <1>4, <2>1 DEF PlaceInv, AnswerInv, ReceiptHonest
  <2>2. ASSUME NEW r, Answers({m}, r) PROVE AnswerInv'
    BY <1>1, <1>3, <1>4, <2>2, AnswersOk DEF PlaceInv
  <2> QED BY <2>1, <2>2
<1>6. /\ \A x \in Msgs : x # m => answer'[x] = answer[x]
      /\ loop'[o] = NoMsg /\ \A p \in Owners : p # o => loop'[p] = loop[p]
      /\ \A p \in Owners : loop[p] \in Msgs \cup {NoMsg} /\ stageReq[p] \in Msgs \cup {NoMsg}
      /\ \A p \in Owners : \A i \in DOMAIN inbox[p] : inbox[p][i] \in Msgs /\ inbox[p][i] # NoMsg
  BY <1>1, <1>2, PlacesAre DEF Answers, TypeInv
<1>7. \A p \in Owners : stageRsp'[p] = stageRsp[p] \/ (p = o /\ stageRsp'[p] = "none")
  BY <1>1 DEF TypeInv
<1> HIDE DEF m
<1>8. InboxInv'
  <2>1. ASSUME NEW p \in Owners, NEW i \in DOMAIN inbox'[p]
        PROVE  LET n == inbox'[p][i] IN
               /\ n \in Sent' /\ answer'[n] = "none" /\ n \notin Submitted'
               /\ \A q \in Owners : loop'[q] # n /\ stageReq'[q] # n
    BY <1>1, <1>3, <1>4, <1>6 DEF PlaceInv, InboxInv
  <2>2. \A p, q \in Owners : \A i \in DOMAIN inbox'[p], j \in DOMAIN inbox'[q] :
          inbox'[p][i] = inbox'[q][j] => p = q /\ i = j
    BY <1>1 DEF PlaceInv, InboxInv
  <2> QED BY <2>1, <2>2 DEF InboxInv
<1>9. LoopInv'
  BY <1>1, <1>3, <1>4, <1>6, <1>7 DEF PlaceInv, LoopInv
<1>10. StageInv'
  <2>1. ASSUME NEW p \in Owners, stageReq[p] # NoMsg
        PROVE  /\ stageReq[p] \in Sent \ Submitted /\ stageRsp'[p] = "none"
               /\ answer'[stageReq[p]] \in {"none", "failed", "lost"}
               /\ loop'[p] = stageReq[p] \/ (loop'[p] = NoMsg /\ ~Healthy')
               /\ \A q \in Owners : stageReq[q] = stageReq[p] \/ loop'[q] = stageReq[p] => q = p
    <3>1. /\ stageReq[p] \in Sent \ Submitted /\ stageRsp[p] = "none"
          /\ answer[stageReq[p]] \in {"none", "failed", "lost"}
          /\ loop[p] = stageReq[p] \/ (loop[p] = NoMsg /\ ~Healthy)
          /\ \A q \in Owners : stageReq[q] = stageReq[p] \/ loop[q] = stageReq[p] => q = p
      BY <1>1, <2>1 DEF PlaceInv, StageInv
    <3>2. CASE p = o
      <4>1. ~Healthy' /\ answer' = answer
        BY <3>1, <3>2
      <4> QED BY <2>1, <3>1, <3>2, <4>1, <1>2, <1>6, <1>7
    <3>3. CASE p # o
      <4>1. stageReq[p] # m
        BY <1>3, <3>3
      <4> QED BY <2>1, <3>1, <3>3, <4>1, <1>4, <1>6, <1>7
    <3> QED BY <3>2, <3>3
  <2>2. \A p \in Owners : stageRsp'[p] # "none" => loop'[p] # NoMsg \/ ~Healthy'
    <3>1. \A p \in Owners : stageRsp[p] # "none" => loop[p] # NoMsg \/ ~Healthy
      BY <1>1 DEF PlaceInv, StageInv
    <3>2. stageRsp'[o] # "none" => ~Healthy'
      BY <1>1 DEF TypeInv
    <3> QED BY <3>1, <3>2, <1>4, <1>6, <1>7
  <2> QED BY <2>1, <2>2, <1>4 DEF StageInv
<1> QED BY <1>5, <1>8, <1>9, <1>10 DEF PlaceInv

\* The stage call returned.
LEMMA StageReturnOk ==
  ASSUME IInv, NEW o \in Owners, StageReturn(o), TypeInv'
  PROVE  IInv' /\ Answered
<1>1. /\ TypeInv /\ HolderInv /\ PlaceInv /\ BatchInv /\ PendingInv /\ EvidenceInv /\ CreditInv
      /\ UNCHANGED <<holder, inbox, stageReq, arrived, calls, extVars, submitted, observed, credited, wiped>>
      /\ loop[o] # NoMsg /\ stageRsp[o] # "none"
      /\ loop' = [loop EXCEPT ![o] = NoMsg] /\ stageRsp' = [stageRsp EXCEPT ![o] = "none"]
  BY DEF IInv, StageReturn
<1>2. HolderInv' /\ BatchInv' /\ PendingInv' /\ CreditInv'
  BY <1>1, PublicRest
<1> DEFINE m == loop[o]
           w == Withdraw(ev[o], m)
<1>3. /\ m \in Msgs /\ answer[m] = "none"
      /\ stageRsp[o] = "queued" => m \in Submitted
      /\ stageRsp[o] = "queue_full" => m \notin Submitted
      /\ stageRsp[o] \in {"queued", "queue_full", "error"}
  BY <1>1 DEF TypeInv, PlaceInv, LoopInv
<1>4. /\ errs \subseteq errs'
      /\ \E r \in {"queued", "rejected", "failed"} :
           /\ Tell({m}, r) \/ UNCHANGED answer
           /\ r = "queued" => stageRsp[o] = "queued"
           /\ r = "rejected" => stageRsp[o] = "queue_full"
      /\ \/ UNCHANGED ev
         \/ ev' = [ev EXCEPT ![o] = w] /\ (w.failed => ~Healthy')
  <2>1. \A r : Told(o, m, r) <=> (IF conn[o] = "up" THEN Tell({m}, r) ELSE UNCHANGED answer)
    BY DEF Told
  <2>3. \/ Failing("uncertain") /\ Told(o, m, "failed") /\ UNCHANGED ev
        \/ /\ (Failing("generation") \/ UNCHANGED errs) /\ Told(o, m, "failed") /\ UNCHANGED ev
        \/ /\ stageRsp[o] = "queue_full" /\ ev' = [ev EXCEPT ![o] = w]
           /\ \/ w.failed /\ Failing("claimed") /\ Told(o, m, "failed")
              \/ ~w.failed /\ UNCHANGED errs /\ Told(o, m, "rejected")
        \/ /\ stageRsp[o] = "queued" /\ UNCHANGED <<ev, errs>> /\ Told(o, m, "queued")
    BY <1>3 DEF StageReturn
  <2>2. \A why : Failing(why) => ~Healthy' /\ errs \subseteq errs'
    BY DEF Failing, Healthy
  <2> HIDE DEF m, w
  <2> QED BY <2>1, <2>2, <2>3
<1>5. UNCHANGED answer \/ \E r : Answers({m}, r)
  BY <1>3, <1>4 DEF Answers, AnswerKinds, Tell
<1>6. PlaceInv'
  BY <1>1, <1>4, <1>5, LoopFrees
<1>7. EvidenceInv'
  <2> SUFFICES ASSUME Healthy' PROVE EvidenceInv'
    BY DEF EvidenceInv
  <2>1. ASSUME NEW p \in Owners, EvOk(ev[p], observed, credited)
        PROVE  EvOk(ev'[p], observed, credited) /\ Holds(ev'[p]) \subseteq Holds(ev[p])
    <3>1. CASE ev'[p] = ev[p]
      BY <2>1, <3>1
    <3>2. CASE p = o /\ ev'[p] = w /\ ~w.failed
      <4>1. EvOk(w, observed, credited) /\ Holds(w) \subseteq Holds(ev[o])
        BY <2>1, <3>2, WithdrawOk
      <4> QED BY <3>2, <4>1
    <3>3. ev'[p] = ev[p] \/ (p = o /\ ev'[p] = w /\ ~w.failed)
      <4> HIDE DEF w
      <4> QED BY <1>1, <1>4 DEF TypeInv
    <3> QED BY <3>1, <3>2, <3>3
  <2>2. Onward(observed, observed')
    BY <1>1, OnwardSame
  <2>3. UNCHANGED <<credited, arrived>> /\ errs \subseteq errs'
    BY <1>1, <1>4
  <2>4. \A p \in Owners : \A i \in DOMAIN inbox'[p] : \E j \in DOMAIN inbox[p] : inbox'[p][i] = inbox[p][j]
    BY <1>1
  <2> QED BY <1>1, <2>1, <2>2, <2>3, <2>4, EvidenceKept
<1> QED BY <1>2, <1>5, <1>6, <1>7 DEF IInv, Answered

\* The stage call was canceled.
LEMMA StageCanceledOk ==
  ASSUME IInv, NEW o \in Owners, StageCanceled(o), TypeInv'
  PROVE  IInv' /\ Answered
<1>1. /\ TypeInv /\ HolderInv /\ PlaceInv /\ BatchInv /\ PendingInv /\ EvidenceInv /\ CreditInv
      /\ UNCHANGED <<holder, ev, inbox, stageReq, stageRsp, arrived, calls, extVars, submitted, observed, credited, wiped>>
      /\ loop[o] # NoMsg /\ Failing("uncertain") /\ UNCHANGED answer
      /\ loop' = [loop EXCEPT ![o] = NoMsg]
  BY DEF IInv, StageCanceled, StageLost, stageVars
<1>2. HolderInv' /\ BatchInv' /\ PendingInv' /\ CreditInv'
  BY <1>1, PublicRest
<1>3. ~Healthy' /\ errs \subseteq errs'
  BY <1>1 DEF Failing, Healthy
<1>4. PlaceInv'
  BY <1>1, <1>3, LoopFrees
<1>5. EvidenceInv'
  BY <1>3 DEF EvidenceInv
<1> QED BY <1>1, <1>2, <1>4, <1>5 DEF IInv, Answered

\* The connection is closed and the loop joined, which drops what it had not taken.
LEMMA AttemptJoinedOk ==
  ASSUME IInv, LineInv, NEW o \in Owners, AttemptJoined(o), TypeInv'
  PROVE  IInv' /\ Answered
<1> DEFINE S == {m \in ToSet(arrived[o]) : answer[m] = "none"}
<1>1. /\ TypeInv /\ HolderInv /\ PlaceInv /\ BatchInv /\ PendingInv /\ EvidenceInv /\ CreditInv
      /\ UNCHANGED <<holder, ev, errs, loop, stageReq, stageRsp, arrived, calls, extVars, submitted, observed, credited, wiped>>
      /\ loop[o] = NoMsg
      /\ Tell(S, "lost") /\ inbox' = [inbox EXCEPT ![o] = <<>>]
  BY DEF IInv, AttemptJoined, stageVars, goVars
<1>2. HolderInv' /\ BatchInv' /\ PendingInv' /\ CreditInv'
  BY <1>1, PublicRest
<1>3. /\ \A p \in Owners : \A i \in DOMAIN inbox[p] : inbox[p][i] \in Msgs /\ inbox[p][i] # NoMsg
      /\ \A p \in Owners : inbox[p] \in Seq(Msgs) /\ arrived[p] \in Seq(Msgs)
      /\ NoMsg \notin Msgs
  BY <1>1, PlacesAre
<1>4. S \subseteq Msgs /\ S \subseteq Sent /\ \A x \in S : answer[x] = "none"
  <2>1. ToSet(arrived[o]) \subseteq Msgs
    BY <1>3, ToSetIs
  <2>2. ToSet(arrived[o]) \subseteq Sent
    BY DEF Sent
  <2> QED BY <2>1, <2>2
<1>5. \A p \in Owners : p # o => ToSet(arrived[p]) \cap S = {}
  <2>1. \A p \in Owners : \A x : x \in ToSet(arrived[p]) <=> \E i \in DOMAIN arrived[p] : arrived[p][i] = x
    BY <1>3, ToSetIs
  <2>2. \A p \in Owners : \A i \in DOMAIN arrived[p], j \in DOMAIN arrived[o] :
          arrived[p][i] = arrived[o][j] => p = o
    BY DEF LineInv, ArrivedOnce, InLine
  <2> QED BY <2>1, <2>2
<1>6. /\ \A p \in Owners : loop[p] # NoMsg => loop[p] \notin S
      /\ \A p \in Owners : p # o => \A i \in DOMAIN inbox[p] : inbox[p][i] \notin S
  <2>1. \A p \in Owners : loop[p] # NoMsg => loop[p] \in ToSet(arrived[p])
    BY DEF LineInv, ArrivedOnce, InLine
  <2>2. \A p \in Owners : \A i \in DOMAIN inbox[p] : inbox[p][i] \in ToSet(inbox[p])
    BY <1>3, ToSetIs
  <2>3. \A p \in Owners : ToSet(inbox[p]) \subseteq ToSet(arrived[p])
    BY DEF LineInv, ArrivedOnce, InLine
  <2> HIDE DEF S
  <2> QED BY <1>1, <1>5, <2>1, <2>2, <2>3
<1> HIDE DEF S
<1>7. Answers(S, "lost")
  BY <1>1, <1>4 DEF Answers, AnswerKinds, Tell
<1>8. Sent' = Sent /\ Submitted' = Submitted /\ Healthy' = Healthy
  BY <1>1 DEF Sent, Submitted, Healthy
<1>9. AnswerInv'
  BY <1>1, <1>4, <1>7, <1>8, AnswersOk DEF PlaceInv
<1>10. /\ \A x \in Msgs : x \notin S => answer'[x] = answer[x]
       /\ \A x \in S : answer'[x] = "lost"
       /\ \A p \in Owners : p # o => inbox'[p] = inbox[p]
       /\ DOMAIN inbox'[o] = {}
       /\ \A p \in Owners : loop[p] \in Msgs \cup {NoMsg} /\ stageReq[p] \in Msgs \cup {NoMsg}
  <2>1. /\ \A x \in Msgs : x \notin S => answer'[x] = answer[x]
        /\ \A x \in S : answer'[x] = "lost"
    BY <1>1, <1>4 DEF Tell
  <2>2. inbox'[o] = <<>> /\ \A p \in Owners : p # o => inbox'[p] = inbox[p]
    BY <1>1 DEF TypeInv
  <2>3. \A p \in Owners : loop[p] \in Msgs \cup {NoMsg} /\ stageReq[p] \in Msgs \cup {NoMsg}
    BY <1>1 DEF TypeInv
  <2>4. DOMAIN <<>> = {}
    OBVIOUS
  <2> QED BY <2>1, <2>2, <2>3, <2>4
<1>11. InboxInv'
  <2>1. ASSUME NEW p \in Owners, NEW i \in DOMAIN inbox'[p]
        PROVE  LET n == inbox'[p][i] IN
               /\ n \in Sent' /\ answer'[n] = "none" /\ n \notin Submitted'
               /\ \A q \in Owners : loop'[q] # n /\ stageReq'[q] # n
    <3>1. p # o /\ i \in DOMAIN inbox[p] /\ inbox'[p][i] = inbox[p][i]
      BY <1>10
    <3> QED BY <3>1, <1>1, <1>3, <1>6, <1>8, <1>10 DEF PlaceInv, InboxInv
  <2>2. \A p, q \in Owners : \A i \in DOMAIN inbox'[p], j \in DOMAIN inbox'[q] :
          inbox'[p][i] = inbox'[q][j] => p = q /\ i = j
    BY <1>1, <1>10 DEF PlaceInv, InboxInv
  <2> QED BY <2>1, <2>2 DEF InboxInv
<1>12. LoopInv'
  BY <1>1, <1>6, <1>8, <1>10 DEF PlaceInv, LoopInv
<1>13. StageInv'
  <2>1. \A p \in Owners : stageReq[p] # NoMsg =>
          answer'[stageReq[p]] \in {answer[stageReq[p]], "lost"}
    BY <1>10
  <2> QED BY <1>1, <1>8, <2>1 DEF PlaceInv, StageInv
<1>14. EvidenceInv'
  <2>1. Onward(observed, observed')
    BY <1>1, OnwardSame
  <2>2. \A p \in Owners : \A i \in DOMAIN inbox'[p] : \E j \in DOMAIN inbox[p] : inbox'[p][i] = inbox[p][j]
    BY <1>10
  <2> QED BY <1>1, <2>1, <2>2, EvidenceKept
<1> QED BY <1>2, <1>7, <1>9, <1>11, <1>12, <1>13, <1>14 DEF IInv, PlaceInv, Answered

\* Every step of a public connection.
LEMMA PublicOk ==
  ASSUME IInv, LineInv, NEW o \in Owners, Public(o)
  PROVE  IInv' /\ Answered
<1>1. TypeInv'
  BY PublicType DEF IInv
<1>2. ASSUME NEW m \in Msgs, Deliver(o, m) PROVE IInv' /\ Answered
  BY <1>1, <1>2, DeliverOk
<1>3. CASE StageAdmit(o)
  BY <1>1, <1>3, StageAdmitOk
<1>4. CASE StageReturn(o)
  BY <1>1, <1>4, StageReturnOk
<1>5. CASE StageCanceled(o)
  BY <1>1, <1>5, StageCanceledOk
<1>6. CASE AttemptJoined(o)
  BY <1>1, <1>6, AttemptJoinedOk
<1>7. CASE ConnectionDone(o) \/ Connect(o)
  <2>1. UNCHANGED <<goVars, inbox, loop, stageVars, calls, extVars, histVars>>
    BY <1>7 DEF ConnectionDone, Connect
  <2>2. UNCHANGED <<bound, holder, ev, errs, inbox, loop, stageReq, stageRsp, calls, extVars,
                    arrived, submitted, answer, observed, credited, wiped>>
    BY <2>1 DEF goVars, stageVars, histVars
  <2>3. TypeInv /\ PlaceInv /\ EvidenceInv /\ errs \subseteq errs'
    BY <2>2 DEF IInv
  <2>4. HolderInv' /\ BatchInv' /\ PendingInv' /\ CreditInv'
    BY <1>1, <2>2, PublicRest
  <2>5. PlaceInv'
    BY <2>2, <2>3, PlaceStable
  <2>6. EvidenceInv'
    <3>1. Onward(observed, observed')
      BY <2>2, <2>3, OnwardSame
    <3> QED BY <1>1, <2>2, <2>3, <3>1, EvidenceKept
  <2> QED BY <1>1, <2>2, <2>4, <2>5, <2>6 DEF IInv, Answered
<1> QED BY <1>2, <1>3, <1>4, <1>5, <1>6, <1>7 DEF Public

-----------------------------------------------------------------------------
\* The registry.

\* What a step of the registry leaves to the others.
LEMMA RegistryRest ==
  ASSUME IInv, TypeInv', SameCalls, errs \subseteq errs',
         UNCHANGED <<inbox, loop, stageReq, stageRsp, arrived, submitted, answer, batches, reports,
                     current, reset, observed, wiped>>
  PROVE  PlaceInv' /\ BatchInv' /\ PendingInv'
<1>1. TypeInv /\ PlaceInv /\ BatchInv /\ PendingInv
  BY DEF IInv
<1>2. PlaceInv'
  BY <1>1, PlaceStable
<1>3. BatchInv'
  BY <1>1, BatchStable
<1>4. Onward(observed, observed')
  BY <1>1, OnwardSame
<1>5. PendingKept
  BY DEF PendingKept, SameCalls
<1>6. PendingInv'
  BY <1>1, <1>4, <1>5, PendingStable
<1> QED BY <1>2, <1>3, <1>6

\* The frame of the registry's handlers.
LEMMA RegistryFrame ==
  ASSUME Registry
  PROVE  UNCHANGED <<inbox, loop, stageReq, stageRsp, arrived, submitted, answer, batches, reports,
                     current, reset, observed, wiped, rseq>>
<1> USE DEF publicVars, stageVars, extVars, histVars, goVars, flags, lifecycleUnchanged
<1>1. ASSUME NEW c \in calls, HandleReport(c)
      PROVE  UNCHANGED <<inbox, loop, stageReq, stageRsp, arrived, submitted, answer, batches, reports,
                         current, reset, observed, wiped, rseq>>
  BY <1>1 DEF HandleReport
<1>2. ASSUME NEW c \in calls, CancelOrphan(c) \/ BeginLifecycle(c)
      PROVE  UNCHANGED <<inbox, loop, stageReq, stageRsp, arrived, submitted, answer, batches, reports,
                         current, reset, observed, wiped, rseq>>
  BY <1>2 DEF CancelOrphan, BeginLifecycle
<1>3. CASE SwitchUnmap \/ DescribeFailed \/ PublicCancel \/ PublicJoin
  BY <1>3 DEF SwitchUnmap, DescribeFailed, PublicCancel, PublicJoin
<1> QED BY <1>1, <1>2, <1>3 DEF Registry

\* A lifecycle handler leaves the evidence, or ends the one of its binding.
LEMMA LifecycleOk ==
  ASSUME IInv, TypeInv', SameCalls, HolderInv', errs \subseteq errs', UNCHANGED credited,
         UNCHANGED <<inbox, loop, stageReq, stageRsp, arrived, submitted, answer, batches, reports,
                     current, reset, observed, wiped>>,
         UNCHANGED ev \/ \E r : ev' = [ev EXCEPT ![r] = NoEvidence]
  PROVE  IInv'
<1>1. TypeInv /\ EvidenceInv /\ CreditInv
  BY DEF IInv
<1>2. PlaceInv' /\ BatchInv' /\ PendingInv'
  BY RegistryRest
<1>3. EvidenceInv'
  <2>1. Onward(observed, observed')
    BY <1>1, OnwardSame
  <2>2. ASSUME NEW p \in Owners, EvOk(ev[p], observed, credited)
        PROVE  EvOk(ev'[p], observed, credited) /\ Holds(ev'[p]) \subseteq Holds(ev[p])
    <3>1. ev'[p] = ev[p] \/ ev'[p] = NoEvidence
      BY <1>1 DEF TypeInv
    <3>2. EvOk(NoEvidence, observed, credited) /\ Holds(NoEvidence) = {}
      BY NoEvidenceOk
    <3> QED BY <2>2, <3>1, <3>2
  <2>3. \A p \in Owners : \A i \in DOMAIN inbox'[p] : \E j \in DOMAIN inbox[p] : inbox'[p][i] = inbox[p][j]
    OBVIOUS
  <2> QED BY <1>1, <2>1, <2>2, <2>3, EvidenceKept
<1>4. CreditInv'
  BY <1>1 DEF CreditInv
<1> QED BY <1>2, <1>3, <1>4 DEF IInv

\* A report that was handled gives its binding credit, and no other.
LEMMA ReportHandled ==
  ASSUME IInv, TypeInv', HolderInv', PlaceInv', BatchInv', PendingInv', CreditInv', NEW o \in Owners,
         errs \subseteq errs', UNCHANGED <<inbox, arrived, observed>>,
         \/ UNCHANGED <<ev, credited>>
         \/ ~Healthy' /\ UNCHANGED credited
         \/ /\ Healthy
            /\ \A p \in Owners : p # o => ev'[p] = ev[p]
            /\ Holds(ev'[o]) \subseteq Holds(ev[o])
            /\ EvOk(ev'[o], observed, credited')
            /\ \A m \in Msgs \ Holds(ev[o]) : credited'[m] = credited[m]
            /\ \A m \in Msgs : credited[m] <= credited'[m]
  PROVE  IInv' /\ \A m \in Msgs : credited[m] <= credited'[m]
<1>1. TypeInv /\ EvidenceInv
  BY DEF IInv
<1>2. UNCHANGED credited => \A m \in Msgs : credited[m] <= credited'[m]
  <2>1. ASSUME NEW m \in Msgs PROVE credited[m] <= credited[m]
    <3>1. PICK p \in 0 .. 4 : p = credited[m]
      BY <1>1 DEF TypeInv, InContext
    <3> QED BY <3>1
  <2> QED BY <2>1
<1>3. Sent' = Sent /\ (~Healthy => ~Healthy')
  BY DEF Sent, Healthy
<1>4. CASE UNCHANGED <<ev, credited>>
  <2>1. EvidenceInv'
    BY <1>1, <1>3, <1>4 DEF EvidenceInv
  <2> QED BY <1>2, <1>4, <2>1 DEF IInv
<1>5. CASE ~Healthy' /\ UNCHANGED credited
  <2>1. EvidenceInv'
    BY <1>5 DEF EvidenceInv
  <2> QED BY <1>2, <1>5, <2>1 DEF IInv
<1>6. CASE /\ Healthy
           /\ \A p \in Owners : p # o => ev'[p] = ev[p]
           /\ Holds(ev'[o]) \subseteq Holds(ev[o])
           /\ EvOk(ev'[o], observed, credited')
           /\ \A m \in Msgs \ Holds(ev[o]) : credited'[m] = credited[m]
           /\ \A m \in Msgs : credited[m] <= credited'[m]
  <2>1. /\ \A p \in Owners : EvOk(ev[p], observed, credited) /\ Holds(ev[p]) \subseteq Sent
        /\ \A p, q \in Owners : p # q => Holds(ev[p]) \cap Holds(ev[q]) = {}
        /\ \A p, q \in Owners : \A i \in DOMAIN inbox[p] : inbox[p][i] \notin Holds(ev[q])
    BY <1>1, <1>6 DEF EvidenceInv
  <2>2. ASSUME NEW p \in Owners, p # o PROVE EvOk(ev'[p], observed, credited')
    <3>1. EvOk(ev[p], observed, credited) /\ ev'[p] = ev[p] /\ Holds(ev[p]) \cap Holds(ev[o]) = {}
      BY <1>6, <2>1, <2>2
    <3>2. \A m \in Msgs : m \in Holds(ev[p]) => credited'[m] = credited[m]
      BY <1>6, <3>1
    <3>3. EvTyped(ev[p]) /\ EvCredit(ev[p], observed, credited)
      BY <3>1 DEF EvOk
    <3>4. ASSUME NEW i \in DOMAIN ev[p].staged PROVE credited'[ev[p].staged[i]] = 0
      <4>1. ev[p].staged[i] \in Msgs /\ ev[p].staged[i] \in Holds(ev[p])
        BY <3>3, HoldsIs DEF EvTyped
      <4> QED BY <4>1, <3>2, <3>3 DEF EvCredit
    <3>5. ASSUME NEW b \in DOMAIN ev[p].batches, NEW i \in DOMAIN ev[p].batches[b].ids
          PROVE  LET m == ev[p].batches[b].ids[i] IN
                 credited'[m] = ev[p].batches[b].phase /\ ev[p].batches[b].phase <= observed[m]
      <4>1. ev[p].batches[b].ids \in Seq(Msgs)
        BY <3>3 DEF EvTyped
      <4>2. ev[p].batches[b].ids[i] \in Msgs /\ ev[p].batches[b].ids[i] \in Holds(ev[p])
        BY <3>3, <4>1, HoldsIs
      <4> QED BY <4>2, <3>2, <3>3 DEF EvCredit
    <3>6. EvCredit(ev[p], observed, credited')
      BY <3>4, <3>5 DEF EvCredit
    <3> QED BY <3>1, <3>6 DEF EvOk
  <2>3. \A p \in Owners : EvOk(ev'[p], observed, credited')
    BY <1>6, <2>2
  <2>4. \A p \in Owners : Holds(ev'[p]) \subseteq Holds(ev[p])
    BY <1>6
  <2>5. observed' = observed /\ inbox' = inbox
    OBVIOUS
  <2>6. EvidenceInv'
    BY <1>3, <2>1, <2>3, <2>4, <2>5 DEF EvidenceInv
  <2> QED BY <1>6, <2>6 DEF IInv
<1> QED BY <1>4, <1>5, <1>6

\* Every step of the registry.
LEMMA RegistryOk ==
  ASSUME IInv, Registry
  PROVE  /\ IInv' /\ \A m \in Msgs : credited[m] <= credited'[m]
<1> DEFINE Frame == UNCHANGED <<inbox, loop, stageReq, stageRsp, arrived, submitted, answer, batches,
                                reports, current, reset, observed, wiped>>
<1>1. /\ TypeInv /\ HolderInv /\ PendingInv /\ EvidenceInv /\ CreditInv /\ calls \subseteq CallType
      /\ IsHolder(holder)
  BY DEF IInv, TypeInv, HolderInv
<1>2. TypeInv' /\ Frame
  BY <1>1, RegistryType, RegistryFrame
<1>3. UNCHANGED calls => SameCalls
  BY DEF SameCalls
<1>4. UNCHANGED credited => \A m \in Msgs : credited[m] <= credited'[m]
  <2>1. ASSUME NEW m \in Msgs PROVE credited[m] <= credited[m]
    <3>1. PICK p \in 0 .. 4 : p = credited[m]
      BY <1>1 DEF TypeInv, InContext
    <3> QED BY <3>1
  <2> QED BY <2>1
<1> HIDE DEF Frame
<1>5. ASSUME SameCalls, HolderInv', errs \subseteq errs', UNCHANGED credited,
             UNCHANGED ev \/ \E r : ev' = [ev EXCEPT ![r] = NoEvidence]
      PROVE  IInv' /\ \A m \in Msgs : credited[m] <= credited'[m]
  BY <1>2, <1>4, <1>5, LifecycleOk DEF Frame
<1>6. ASSUME NEW c \in calls, HandleReport(c)
      PROVE  IInv' /\ \A m \in Msgs : credited[m] <= credited'[m]
  <2>1. /\ SameCalls /\ \A d \in calls : d.kind # "observe" => d \in calls'
        /\ errs \subseteq errs' /\ CreditInv'
        /\ \/ UNCHANGED <<ev, credited>>
           \/ ~Healthy' /\ UNCHANGED credited
           \/ /\ Healthy
              /\ \A p \in Owners : p # c.owner => ev'[p] = ev[p]
              /\ Holds(ev'[c.owner]) \subseteq Holds(ev[c.owner])
              /\ EvOk(ev'[c.owner], observed, credited')
              /\ \A m \in Msgs \ Holds(ev[c.owner]) : credited'[m] = credited[m]
              /\ \A m \in Msgs : credited[m] <= credited'[m]
    BY <1>1, <1>6, HandleReportIs
  <2>2. HolderInv'
    BY <1>1, <1>6, <2>1 DEF HandleReport, HolderInv
  <2>3. PlaceInv' /\ BatchInv' /\ PendingInv'
    BY <1>2, <2>1, RegistryRest DEF Frame
  <2>4. c.owner \in Owners
    BY <1>1 DEF CallType
  <2> QED BY <1>2, <2>1, <2>2, <2>3, <2>4, ReportHandled DEF Frame
<1>7. ASSUME NEW c \in calls, CancelOrphan(c)
      PROVE  IInv' /\ \A m \in Msgs : credited[m] <= credited'[m]
  <2>1. calls' = calls \ {c} /\ ~(holder.kind = c.kind /\ holder.owner = c.owner)
        /\ UNCHANGED <<holder, ev, errs, credited>>
    BY <1>7 DEF CancelOrphan, goVars, histVars
  <2>2. SameCalls /\ HolderInv'
    BY <1>1, <2>1 DEF SameCalls, HolderInv
  <2> QED BY <1>5, <2>1, <2>2
<1>8. ASSUME NEW c \in calls, BeginLifecycle(c)
      PROVE  IInv' /\ \A m \in Msgs : credited[m] <= credited'[m]
  <2>1. UNCHANGED <<ev, errs, credited>> /\ c.kind \in {"switch", "end"} /\ c.reply = "none" /\ holder = NoHolder
    BY <1>8 DEF BeginLifecycle, lifecycleUnchanged, histVars
  <2>2. \/ Reply(c, "error") /\ UNCHANGED holder
        \/ /\ holder' = [kind |-> c.kind, owner |-> c.owner,
                         pc |-> IF c.kind = "switch" THEN "describe" ELSE "unmapped"]
           /\ UNCHANGED calls
    BY <1>8 DEF BeginLifecycle
  <2>3. CASE Reply(c, "error") /\ UNCHANGED holder
    <3>1. SameCalls
      BY <1>1, <2>3, ReplyIs
    <3>2. holder.pc = "none"
      BY <2>1 DEF NoHolder
    <3>3. HolderInv'
      BY <1>1, <2>3, <3>2 DEF HolderInv
    <3> QED BY <1>5, <2>1, <3>1, <3>3
  <2>4. CASE /\ holder' = [kind |-> c.kind, owner |-> c.owner,
                           pc |-> IF c.kind = "switch" THEN "describe" ELSE "unmapped"]
             /\ UNCHANGED calls
    <3>1. /\ holder'.kind = c.kind /\ holder'.owner = c.owner /\ IsHolder(holder')
      BY <2>4 DEF IsHolder, HolderFields
    <3>2. HolderInv'
      BY <2>1, <2>4, <3>1 DEF HolderInv
    <3> QED BY <1>3, <1>5, <2>1, <2>4, <3>2
  <2> QED BY <2>2, <2>3, <2>4
<1>9. ASSUME NEW r \in {"ok", "error"}, holder.pc # "none", Finish(r), errs \subseteq errs', UNCHANGED credited,
             UNCHANGED ev \/ \E p : ev' = [ev EXCEPT ![p] = NoEvidence]
      PROVE  IInv' /\ \A m \in Msgs : credited[m] <= credited'[m]
  <2>1. SameCalls /\ holder'.pc = "none" /\ IsHolder(holder')
    BY <1>1, <1>9, FinishIs
  <2>2. HolderInv'
    BY <2>1 DEF HolderInv
  <2> QED BY <1>5, <1>9, <2>1, <2>2
<1>10. ASSUME NEW pc, Hold(pc), holder.pc # "none", UNCHANGED <<calls, ev, errs, credited>>
       PROVE  IInv' /\ \A m \in Msgs : credited[m] <= credited'[m]
  <2>1. IsHolder(holder') /\ holder'.kind = holder.kind /\ holder'.owner = holder.owner
    BY <1>1, <1>10 DEF Hold, IsHolder, HolderFields
  <2>2. HolderInv'
    BY <1>1, <1>10, <2>1 DEF HolderInv
  <2> QED BY <1>3, <1>5, <1>10, <2>2
<1>11. CASE SwitchUnmap
  <2>1. holder.pc # "none" /\ UNCHANGED <<ev, errs, credited>>
        /\ ((Hold("unmapped") /\ UNCHANGED calls) \/ Finish("error"))
    BY <1>11 DEF SwitchUnmap, lifecycleUnchanged, histVars
  <2> QED BY <2>1, <1>9, <1>10
<1>12. CASE DescribeFailed
  <2>1. holder.pc # "none" /\ UNCHANGED <<ev, credited>> /\ Finish("error") /\ Failing("describe")
    BY <1>12 DEF DescribeFailed, lifecycleUnchanged, histVars
  <2>2. errs \subseteq errs'
    BY <2>1 DEF Failing
  <2> QED BY <2>1, <2>2, <1>9
<1>13. CASE PublicCancel
  <2>1. holder.pc # "none" /\ UNCHANGED <<calls, ev, errs, credited>> /\ Hold("canceled")
    BY <1>13 DEF PublicCancel, lifecycleUnchanged, histVars
  <2> QED BY <2>1, <1>10
<1>14. CASE PublicJoin
  <2>1. /\ holder.pc # "none" /\ UNCHANGED credited /\ ev' = [ev EXCEPT ![Removing] = NoEvidence]
        /\ UNCHANGED errs \/ Failing("admission")
        /\ Finish("ok") \/ Finish("error")
    BY <1>14 DEF PublicJoin, lifecycleUnchanged, histVars
  <2>2. errs \subseteq errs'
    BY <2>1 DEF Failing
  <2>3. \E p : ev' = [ev EXCEPT ![p] = NoEvidence]
    BY <2>1
  <2> QED BY <2>1, <2>2, <2>3, <1>9
<1> QED BY <1>6, <1>7, <1>8, <1>11, <1>12, <1>13, <1>14 DEF Registry

-----------------------------------------------------------------------------
\* The bridge closes, and the whole.

\* The bridge closes under every call.
LEMMA BridgeEndedOk ==
  ASSUME IInv, BridgeEnded
  PROVE  IInv'
<1>1. /\ TypeInv /\ HolderInv /\ PlaceInv /\ BatchInv /\ PendingInv /\ EvidenceInv /\ CreditInv
      /\ UNCHANGED <<bound, holder, ev, inbox, loop, current, rseq, reset,
                     arrived, submitted, answer, observed, credited, wiped>>
      /\ reports' = <<>> /\ \E S : Discard(S)
  BY DEF IInv, BridgeEnded, publicVars, histVars
<1>2. ~Healthy' /\ errs \subseteq errs'
  BY DEF BridgeEnded, Failing, Healthy
<1>3. /\ stageReq' = [o \in Owners |-> NoMsg]
      /\ stageRsp' = [o \in Owners |->
                        IF loop[o] # NoMsg /\ stageRsp[o] = "none" THEN "error" ELSE stageRsp[o]]
      /\ calls' = {[c EXCEPT !.awaited = FALSE] : c \in {d \in calls : d.reply = "none"}}
  BY DEF BridgeEnded
<1>4. /\ IsMap(batches') /\ DOMAIN batches' = Owners
      /\ \A o \in Owners : batches'[o] = batches[o] \/ batches'[o] = <<>>
  BY <1>1, DiscardIs
<1> DEFINE alone(c) == [c EXCEPT !.awaited = FALSE]
<1>5. ASSUME NEW c \in calls
      PROVE  /\ alone(c) \in CallType /\ alone(c).kind = c.kind /\ alone(c).owner = c.owner
             /\ alone(c).rep = c.rep /\ alone(c).reply = c.reply
  <2>1. c \in CallType
    BY <1>1 DEF TypeInv
  <2> QED BY <2>1, CallIs
<1>5a. calls' = {alone(c) : c \in {d \in calls : d.reply = "none"}}
  BY <1>3
<1> HIDE DEF alone
<1>6. /\ calls' \subseteq CallType
      /\ \A e \in calls' : \E c \in calls : e.kind = c.kind /\ e.rep = c.rep
      /\ \A c \in calls : c.reply = "none" =>
           \E e \in calls' : e.kind = c.kind /\ e.owner = c.owner /\ e.reply = "none"
  BY <1>5, <1>5a
<1>7. stageRsp' \in [Owners -> {"none", "queued", "queue_full", "error"}]
      /\ stageReq' \in [Owners -> Msgs \cup {NoMsg}]
  BY <1>1, <1>3 DEF TypeInv
<1>8. <<>> \in Seq(ItemType) /\ DOMAIN <<>> = {}
  OBVIOUS
<1>9. TypeInv'
  BY <1>1, <1>4, <1>6, <1>7, <1>8 DEF TypeInv
<1>10. HolderInv'
  BY <1>1, <1>6 DEF HolderInv
<1>11. PlaceInv'
  <2>1. Sent' = Sent /\ Submitted' = Submitted
    BY <1>1 DEF Sent, Submitted
  <2>2. \A p \in Owners : \A i \in DOMAIN inbox[p] : inbox[p][i] # NoMsg
    BY <1>1, PlacesAre
  <2>3. InboxInv'
    BY <1>1, <1>3, <2>1, <2>2 DEF PlaceInv, InboxInv
  <2>4. LoopInv'
    BY <1>1, <1>3, <2>1 DEF PlaceInv, LoopInv
  <2>5. StageInv'
    BY <1>2, <1>3 DEF StageInv
  <2>6. AnswerInv'
    BY <1>1, <2>1 DEF PlaceInv, AnswerInv, ReceiptHonest
  <2> QED BY <2>3, <2>4, <2>5, <2>6 DEF PlaceInv
<1>12. BatchInv'
  BY <1>1, <1>4, BatchStable
<1>13. Onward(observed, observed')
  BY <1>1, OnwardSame
<1>14. PendingInv'
  <2>1. PendingKept
    BY <1>1, <1>6, <1>8 DEF PendingKept
  <2> QED BY <1>1, <1>9, <1>13, <2>1, PendingStable
<1>15. EvidenceInv'
  BY <1>2 DEF EvidenceInv
<1>16. CreditInv'
  BY <1>1 DEF CreditInv
<1> QED BY <1>9, <1>10, <1>11, <1>12, <1>14, <1>15, <1>16 DEF IInv

\* A step that changes nothing the invariant is about.
LEMMA StutterOk ==
  ASSUME IInv, UNCHANGED vars
  PROVE  IInv'
<1> USE DEF vars, goVars, publicVars, stageVars, extVars, histVars, flags
<1>1. TypeInv' /\ HolderInv' /\ PendingInv' /\ CreditInv'
  BY DEF IInv, TypeInv, HolderInv, PendingInv, CreditInv
<1>2. PlaceInv'
  BY PlaceStable DEF IInv
<1>3. BatchInv'
  BY BatchStable DEF IInv
<1>4. EvidenceInv'
  BY DEF IInv, EvidenceInv, Healthy, Sent
<1> QED BY <1>1, <1>2, <1>3, <1>4 DEF IInv

-----------------------------------------------------------------------------
\* The order in which a binding's messages go through its places.

\* What is only taken out of the places keeps its order.
LEMMA LineFades ==
  ASSUME LineInv, UNCHANGED <<arrived, submitted>>,
         \A p \in Owners : /\ inbox'[p] = inbox[p] \/ inbox'[p] = <<>>
                           /\ loop'[p] \in {loop[p], NoMsg} /\ stageReq'[p] \in {stageReq[p], NoMsg}
  PROVE  LineInv'
<1>1. DOMAIN <<>> = {} /\ ToSet(<<>>) = {}
  BY DEF ToSet
<1>2. ArrivedOnce'
  BY DEF LineInv, ArrivedOnce
<1>3. ASSUME NEW o \in Owners PROVE InLine(o)'
  <2>1. CASE inbox'[o] = inbox[o]
    BY <2>1 DEF LineInv, InLine
  <2>2. CASE inbox'[o] = <<>>
    BY <1>1, <2>2 DEF LineInv, InLine
  <2> QED BY <2>1, <2>2
<1> QED BY <1>2, <1>3 DEF LineInv

\* A message that is delivered is the last of its binding.
LEMMA DeliverLine ==
  ASSUME TypeInv, LineInv, NEW o \in Owners, NEW m \in Msgs, Deliver(o, m)
  PROVE  LineInv'
<1>1. /\ m \notin Sent /\ arrived' = [arrived EXCEPT ![o] = Append(@, m)]
      /\ inbox' = [inbox EXCEPT ![o] = Append(@, m)] \/ UNCHANGED inbox
      /\ UNCHANGED <<submitted, loop, stageReq>>
  BY DEF Deliver, stageVars
<1>2. /\ arrived \in [Owners -> Seq(Msgs)] /\ inbox \in [Owners -> Seq(Msgs)]
      /\ submitted \in [Owners -> Seq(Msgs)]
  BY DEF TypeInv
<1> DEFINE s == arrived[o]
           t == arrived'[o]
           n == Len(s) + 1
<1>3. t = Append(s, m) /\ \A p \in Owners : p # o => arrived'[p] = arrived[p]
  BY <1>1, <1>2
<1>4. /\ DOMAIN s = 1 .. Len(s) /\ DOMAIN t = 1 .. n /\ Len(s) \in Nat
      /\ (\A i \in DOMAIN s : t[i] = s[i]) /\ t[n] = m /\ ToSet(t) = ToSet(s) \cup {m}
  BY <1>2, <1>3, AppendIs
<1>5. \A p \in Owners : \A i \in DOMAIN arrived[p] : arrived[p][i] # m
  <2>1. \A p \in Owners : m \notin ToSet(arrived[p])
    BY <1>1 DEF Sent
  <2> QED BY <1>2, <2>1, ToSetIs
<1>6. s \in Seq(Msgs)
  BY <1>2
<1> HIDE DEF s, t
<1>7. /\ \A i \in DOMAIN t : i \in DOMAIN s \/ i = n
      /\ \A i \in DOMAIN s : i \in DOMAIN t /\ i < n
      /\ n \in DOMAIN t /\ n \notin DOMAIN s
  BY <1>4
<1> HIDE DEF n
<1>8. \A i \in DOMAIN s : s[i] # m
  BY <1>5 DEF s
<1>9. ArrivedOnce'
  <2>1. \A i, j \in DOMAIN t : t[i] = t[j] => i = j
    <3>1. \A i, j \in DOMAIN s : s[i] = s[j] => i = j
      BY DEF LineInv, ArrivedOnce, s
    <3> QED BY <1>4, <1>7, <1>8, <3>1
  <2>2. ASSUME NEW q \in Owners, q # o, NEW i \in DOMAIN t, NEW j \in DOMAIN arrived[q]
        PROVE  t[i] # arrived[q][j]
    <3>1. CASE i \in DOMAIN s
      BY <1>4, <2>2, <3>1 DEF LineInv, ArrivedOnce, s
    <3>2. CASE i = n
      BY <1>4, <1>5, <3>2
    <3> QED BY <1>7, <3>1, <3>2
  <2>3. ASSUME NEW p \in Owners, NEW q \in Owners, NEW i \in DOMAIN arrived'[p], NEW j \in DOMAIN arrived'[q],
               arrived'[p][i] = arrived'[q][j]
        PROVE  p = q /\ i = j
    <3>1. CASE p = o /\ q = o
      BY <2>1, <2>3, <3>1 DEF t
    <3>2. CASE p = o /\ q # o
      BY <1>3, <2>2, <2>3, <3>2 DEF t
    <3>3. CASE p # o /\ q = o
      BY <1>3, <2>2, <2>3, <3>3 DEF t
    <3>4. CASE p # o /\ q # o
      BY <1>3, <2>3, <3>4 DEF LineInv, ArrivedOnce
    <3> QED BY <3>1, <3>2, <3>3, <3>4
  <2> QED BY <2>3 DEF ArrivedOnce
<1>10. ASSUME NEW x, NEW y, Before(s, x, y) PROVE Before(t, x, y)
  BY <1>4, <1>7, <1>10 DEF Before
<1>11. ASSUME NEW x \in ToSet(s) PROVE Before(t, x, m)
  <2>1. PICK i \in DOMAIN s : s[i] = x
    BY <1>6, <1>11, ToSetIs
  <2> QED BY <1>4, <1>7, <2>1 DEF Before
<1>12. ASSUME NEW p \in Owners, p # o PROVE InLine(p)'
  <2>1. inbox'[p] = inbox[p]
    BY <1>1, <1>2, <1>12
  <2> QED BY <1>1, <1>3, <1>12, <2>1 DEF LineInv, InLine
<1> DEFINE u == inbox[o]
           v == inbox'[o]
           k == Len(u) + 1
<1>13. /\ ToSet(u) \cup ToSet(submitted[o]) \cup ({loop[o], stageReq[o]} \ {NoMsg}) \subseteq ToSet(s)
       /\ \A i, j \in DOMAIN u : i < j => Before(s, u[i], u[j])
       /\ stageReq[o] # NoMsg =>
            /\ \A i \in DOMAIN u : Before(s, stageReq[o], u[i])
            /\ \A x \in ToSet(submitted[o]) : Before(s, x, stageReq[o])
       /\ \A i \in DOMAIN u : \A x \in ToSet(submitted[o]) : Before(s, x, u[i])
  BY DEF LineInv, InLine, s
<1>14. v = Append(u, m) \/ v = u
  BY <1>1, <1>2
<1>15. u \in Seq(Msgs)
  BY <1>2
<1> HIDE DEF u, v
<1>16. \A i \in DOMAIN u : u[i] \in ToSet(s)
  BY <1>13, <1>15, ToSetIs
<1>17. /\ ToSet(v) \cup ToSet(submitted[o]) \cup ({loop[o], stageReq[o]} \ {NoMsg}) \subseteq ToSet(t)
       /\ \A i, j \in DOMAIN v : i < j => Before(t, v[i], v[j])
       /\ stageReq[o] # NoMsg =>
            /\ \A i \in DOMAIN v : Before(t, stageReq[o], v[i])
            /\ \A x \in ToSet(submitted[o]) : Before(t, x, stageReq[o])
       /\ \A i \in DOMAIN v : \A x \in ToSet(submitted[o]) : Before(t, x, v[i])
  <2>1. CASE v = u
    BY <1>4, <1>10, <1>13, <2>1
  <2>2. CASE v = Append(u, m)
    <3>1. /\ DOMAIN u = 1 .. Len(u) /\ DOMAIN v = 1 .. k /\ Len(u) \in Nat
          /\ (\A i \in DOMAIN u : v[i] = u[i]) /\ v[k] = m /\ ToSet(v) = ToSet(u) \cup {m}
      BY <1>15, <2>2, AppendIs
    <3>2. /\ \A i \in DOMAIN v : i \in DOMAIN u \/ i = k
          /\ \A i, j \in DOMAIN v : i < j => i \in DOMAIN u
      BY <3>1
    <3> HIDE DEF k
    <3>3. ToSet(v) \cup ToSet(submitted[o]) \cup ({loop[o], stageReq[o]} \ {NoMsg}) \subseteq ToSet(t)
      BY <1>4, <1>13, <3>1
    <3>4. ASSUME NEW i \in DOMAIN v, NEW j \in DOMAIN v, i < j PROVE Before(t, v[i], v[j])
      <4>1. i \in DOMAIN u
        BY <3>2, <3>4
      <4>2. CASE j \in DOMAIN u
        BY <1>10, <1>13, <3>1, <3>4, <4>1, <4>2
      <4>3. CASE j = k
        BY <1>11, <1>16, <3>1, <4>1, <4>3
      <4> QED BY <3>2, <4>2, <4>3
    <3>5. ASSUME NEW x \in ToSet(s), NEW i \in DOMAIN v, \A j \in DOMAIN u : Before(s, x, u[j])
          PROVE  Before(t, x, v[i])
      BY <1>10, <1>11, <3>1, <3>2, <3>5
    <3>6. ASSUME stageReq[o] # NoMsg
          PROVE  /\ \A i \in DOMAIN v : Before(t, stageReq[o], v[i])
                 /\ \A x \in ToSet(submitted[o]) : Before(t, x, stageReq[o])
      BY <1>10, <1>13, <3>5, <3>6
    <3>7. \A i \in DOMAIN v : \A x \in ToSet(submitted[o]) : Before(t, x, v[i])
      BY <1>13, <3>5
    <3> QED BY <3>3, <3>4, <3>6, <3>7
  <2> QED BY <1>14, <2>1, <2>2
<1>18. InLine(o)'
  BY <1>1, <1>17 DEF InLine, t, v
<1> QED BY <1>9, <1>12, <1>18 DEF LineInv

\* The delivery loop takes the oldest delivery.
LEMMA StageAdmitLine ==
  ASSUME TypeInv, LineInv, NEW o \in Owners, StageAdmit(o)
  PROVE  LineInv'
<1>1. /\ UNCHANGED <<arrived, submitted>> /\ inbox[o] # <<>>
      /\ inbox' = [inbox EXCEPT ![o] = Tail(inbox[o])]
      /\ \/ UNCHANGED <<loop, stageReq>>
         \/ /\ loop' = [loop EXCEPT ![o] = Head(inbox[o])]
            /\ stageReq' = [stageReq EXCEPT ![o] = Head(inbox[o])]
  BY DEF StageAdmit, StageTake
<1>2. /\ inbox \in [Owners -> Seq(Msgs)] /\ loop \in [Owners -> Msgs \cup {NoMsg}]
      /\ stageReq \in [Owners -> Msgs \cup {NoMsg}]
  BY DEF TypeInv
<1> DEFINE s == arrived[o]
           u == inbox[o]
           v == inbox'[o]
<1>3. /\ v = Tail(u)
      /\ \A p \in Owners : p # o => /\ inbox'[p] = inbox[p] /\ loop'[p] = loop[p]
                                    /\ stageReq'[p] = stageReq[p]
      /\ \/ loop'[o] = loop[o] /\ stageReq'[o] = stageReq[o]
         \/ loop'[o] = Head(u) /\ stageReq'[o] = Head(u)
  BY <1>1, <1>2
<1>4. /\ 1 \in DOMAIN u /\ Head(u) = u[1] /\ u \in Seq(Msgs) /\ v \in Seq(Msgs)
      /\ DOMAIN v = 1 .. Len(u) - 1
      /\ \A i \in DOMAIN v : i + 1 \in DOMAIN u /\ v[i] = u[i + 1]
  BY <1>1, <1>2, <1>3, TailIs
<1>5. /\ ToSet(u) \cup ToSet(submitted[o]) \cup ({loop[o], stageReq[o]} \ {NoMsg}) \subseteq ToSet(s)
      /\ \A i, j \in DOMAIN u : i < j => Before(s, u[i], u[j])
      /\ stageReq[o] # NoMsg =>
           /\ \A i \in DOMAIN u : Before(s, stageReq[o], u[i])
           /\ \A x \in ToSet(submitted[o]) : Before(s, x, stageReq[o])
      /\ \A i \in DOMAIN u : \A x \in ToSet(submitted[o]) : Before(s, x, u[i])
  BY DEF LineInv, InLine
<1> HIDE DEF s, u, v
<1>6. \A i, j \in DOMAIN v : /\ i < j => i + 1 < j + 1
                             /\ 1 < i + 1
  BY <1>4
<1>7. ToSet(v) \subseteq ToSet(u) /\ u[1] \in ToSet(u)
  BY <1>4, ToSetIs
<1>8. \A i, j \in DOMAIN v : i < j => Before(s, v[i], v[j])
  BY <1>4, <1>5, <1>6
<1>9. \A i \in DOMAIN v : /\ Before(s, u[1], v[i]) /\ \A x \in ToSet(submitted[o]) : Before(s, x, v[i])
                          /\ stageReq[o] # NoMsg => Before(s, stageReq[o], v[i])
  BY <1>4, <1>5, <1>6
<1>10. \A x \in ToSet(submitted[o]) : Before(s, x, u[1])
  BY <1>4, <1>5
<1>11. ASSUME NEW p \in Owners PROVE InLine(p)'
  <2>1. CASE p # o
    BY <1>1, <1>3, <2>1 DEF LineInv, InLine
  <2>2. CASE p = o /\ loop'[o] = loop[o] /\ stageReq'[o] = stageReq[o]
    BY <1>1, <1>5, <1>7, <1>8, <1>9, <2>2 DEF InLine, s, v
  <2>3. CASE p = o /\ loop'[o] = u[1] /\ stageReq'[o] = u[1]
    BY <1>1, <1>5, <1>7, <1>8, <1>9, <1>10, <2>3 DEF InLine, s, v
  <2> QED BY <1>3, <1>4, <2>1, <2>2, <2>3
<1>12. ArrivedOnce'
  BY <1>1 DEF LineInv, ArrivedOnce
<1> QED BY <1>11, <1>12 DEF LineInv

\* Native accepts the message that came after all it has.
LEMMA AcceptsLine ==
  ASSUME TypeInv, LineInv, NEW o \in Owners, Accepts(o)
  PROVE  LineInv'
<1> DEFINE m == stageReq[o]
<1>1. /\ UNCHANGED <<arrived, inbox, loop>> /\ m # NoMsg
      /\ stageReq' = [stageReq EXCEPT ![o] = NoMsg]
      /\ submitted' = [submitted EXCEPT ![o] = Append(@, m)]
  BY DEF Accepts, ExtCommon
<1>2. /\ m \in Msgs /\ submitted \in [Owners -> Seq(Msgs)] /\ stageReq \in [Owners -> Msgs \cup {NoMsg}]
  BY <1>1 DEF TypeInv
<1>3. /\ ToSet(submitted'[o]) = ToSet(submitted[o]) \cup {m} /\ stageReq'[o] = NoMsg
      /\ \A p \in Owners : p # o => submitted'[p] = submitted[p] /\ stageReq'[p] = stageReq[p]
  BY <1>1, <1>2, AppendIs
<1>4. m \in ToSet(arrived[o]) /\ \A i \in DOMAIN inbox[o] : Before(arrived[o], m, inbox[o][i])
  BY <1>1 DEF LineInv, InLine
<1> HIDE DEF m
<1>5. ASSUME NEW p \in Owners PROVE InLine(p)'
  <2>1. CASE p # o
    BY <1>1, <1>3, <2>1 DEF LineInv, InLine
  <2>2. CASE p = o
    <3>1. /\ ToSet(inbox[o]) \cup ToSet(submitted[o]) \cup ({loop[o]} \ {NoMsg}) \subseteq ToSet(arrived[o])
          /\ \A i, j \in DOMAIN inbox[o] : i < j => Before(arrived[o], inbox[o][i], inbox[o][j])
          /\ \A i \in DOMAIN inbox[o] : \A x \in ToSet(submitted[o]) : Before(arrived[o], x, inbox[o][i])
      BY DEF LineInv, InLine
    <3>2. arrived'[o] = arrived[o] /\ inbox'[o] = inbox[o] /\ loop'[o] = loop[o]
      BY <1>1
    <3>3. \A i \in DOMAIN inbox[o] : \A x \in ToSet(submitted'[o]) : Before(arrived[o], x, inbox[o][i])
      BY <1>3, <1>4, <3>1
    <3>4. ToSet(inbox[o]) \cup ToSet(submitted'[o]) \cup ({loop[o], NoMsg} \ {NoMsg}) \subseteq ToSet(arrived[o])
      BY <1>3, <1>4, <3>1
    <3> QED BY <1>3, <2>2, <3>1, <3>2, <3>3, <3>4 DEF InLine
  <2> QED BY <2>1, <2>2
<1>6. ArrivedOnce'
  BY <1>1 DEF LineInv, ArrivedOnce
<1> QED BY <1>5, <1>6 DEF LineInv

\* The initial states.
LEMMA InitLine == Init => LineInv
<1> SUFFICES ASSUME Init PROVE LineInv
  OBVIOUS
<1>1. DOMAIN <<>> = {} /\ ToSet(<<>>) = {}
  BY DEF ToSet
<1> QED BY <1>1 DEF Init, LineInv, ArrivedOnce, InLine

\* Every step keeps the order.
LEMMA LineKept ==
  ASSUME TypeInv, HolderInv, BatchInv, LineInv, [Next]_vars
  PROVE  LineInv'
<1>0. /\ inbox \in [Owners -> Seq(Msgs)] /\ loop \in [Owners -> Msgs \cup {NoMsg}]
      /\ stageReq \in [Owners -> Msgs \cup {NoMsg}]
  BY DEF TypeInv
<1>1. CASE \E o \in Owners : Public(o)
  <2>1. PICK o \in Owners : Public(o)
    BY <1>1
  <2>2. CASE StageReturn(o) \/ StageCanceled(o) \/ AttemptJoined(o) \/ ConnectionDone(o) \/ Connect(o)
    <3>1. /\ UNCHANGED <<arrived, submitted, stageReq>>
          /\ UNCHANGED inbox \/ inbox' = [inbox EXCEPT ![o] = <<>>]
          /\ UNCHANGED loop \/ loop' = [loop EXCEPT ![o] = NoMsg]
      BY <2>2 DEF StageReturn, StageCanceled, StageLost, AttemptJoined, ConnectionDone, Connect,
                  stageVars, histVars
    <3> QED BY <1>0, <3>1, LineFades
  <2> QED BY <2>1, <2>2, DeliverLine, StageAdmitLine DEF Public
<1>2. CASE Registry
  BY <1>2, RegistryFrame, LineFades
<1>3. CASE Extension
  <2>1. Settled \/ (\E o \in Owners : Accepts(o)) \/ (\E done : Carries(done)) \/ NativeReset
    BY <1>3, ExtensionIs
  <2>2. CASE Settled
    <3>1. /\ UNCHANGED <<arrived, submitted, inbox, loop>>
          /\ UNCHANGED stageReq \/ \E o \in Owners : stageReq' = [stageReq EXCEPT ![o] = NoMsg]
      BY <2>2 DEF Settled, ExtCommon, stageVars, Refuses
    <3> QED BY <1>0, <3>1, LineFades
  <2>3. CASE (\E done : Carries(done)) \/ NativeReset
    <3>1. UNCHANGED <<arrived, submitted, inbox, loop, stageReq>>
      BY <2>3 DEF Carries, ExtCommon, NativeReset, stageVars, publicVars
    <3> QED BY <3>1, LineFades
  <2> QED BY <2>1, <2>2, <2>3, AcceptsLine
<1>4. CASE BridgeEnded
  <2>1. UNCHANGED <<arrived, submitted, inbox, loop>> /\ stageReq' = [o \in Owners |-> NoMsg]
    BY <1>4 DEF BridgeEnded, publicVars, histVars
  <2> QED BY <2>1, LineFades
<1>5. CASE Stopped \/ UNCHANGED vars
  <2>1. UNCHANGED <<arrived, submitted, inbox, loop, stageReq>>
    BY <1>5 DEF Stopped, vars, publicVars, stageVars, histVars
  <2> QED BY <2>1, LineFades
<1> QED BY <1>1, <1>2, <1>3, <1>4, <1>5 DEF Next

\* A step of a public connection concerns no message native has.
LEMMA PublicFrame ==
  ASSUME NEW o \in Owners, Public(o)
  PROVE  UNCHANGED <<submitted, observed, credited, wiped, bound, holder, calls, reports, ending>>
BY DEF Public, Deliver, StageAdmit, StageTake, StageReturn, StageCanceled, StageLost, ConnectionDone,
       AttemptJoined, Connect, goVars, extVars, flags, histVars

\* Every step keeps the invariant.
LEMMA NextOk == IInv /\ LineInv /\ [Next]_vars => IInv' /\ LineInv'
<1> SUFFICES ASSUME IInv, LineInv, [Next]_vars PROVE IInv' /\ LineInv'
  OBVIOUS
<1>0. SUFFICES IInv'
  BY LineKept DEF IInv
<1>1. CASE \E o \in Owners : Public(o)
  BY <1>1, PublicOk
<1>2. CASE Registry
  BY <1>2, RegistryOk
<1>3. CASE Extension
  <2>1. Settled \/ (\E o \in Owners : Accepts(o)) \/ (\E done : Carries(done)) \/ NativeReset
    BY <1>3, ExtensionIs DEF IInv
  <2> QED BY <2>1, SettledOk, AcceptsOk, CarriesOk, ResetOk
<1>4. CASE BridgeEnded
  BY <1>4, BridgeEndedOk
<1>5. CASE Stopped \/ UNCHANGED vars
  BY <1>5, StutterOk DEF Stopped
<1> QED BY <1>1, <1>2, <1>3, <1>4, <1>5 DEF Next

\* The inductive invariant of the delivery path: where a message can be and in which order,
\* what each side may believe of it, and what no report may claim.
THEOREM Invariant == Spec => [](IInv /\ LineInv)
<1>1. Init => IInv /\ LineInv
  BY InitInv, InitLine
<1>2. (IInv /\ LineInv) /\ [Next]_vars => (IInv /\ LineInv)'
  BY NextOk
<1> QED BY <1>1, <1>2, PTL DEF Spec

\* The sender is told "queued" only of a message native was given, and "rejected" only of one
\* it never was, whatever is lost, canceled or replaced meanwhile.
THEOREM ReceiptHonestAlways == Spec => []ReceiptHonest
<1>1. IInv => ReceiptHonest
  BY DEF IInv, PlaceInv, AnswerInv
<1> QED BY <1>1, Invariant, PTL

\* The messages the extension submitted.
LEMMA SubmittedIs ==
  ASSUME TypeInv
  PROVE  Submitted \subseteq Msgs /\ Submitted = Fifo!Everyone
<1>1. \A o \in Owners : submitted[o] \in Seq(Msgs)
  BY DEF TypeInv
<1>2. \A o \in Owners : ToSet(submitted[o]) = {submitted[o][i] : i \in 1 .. Len(submitted[o])}
  BY <1>1 DEF ToSet
<1>3. \A o \in Owners : ToSet(submitted[o]) \subseteq Msgs
  BY <1>1, ToSetIs
<1>4. Submitted \subseteq Msgs
  BY <1>3 DEF Submitted
<1>5. ASSUME NEW m
      PROVE  m \in Submitted <=> m \in Fifo!Everyone
  <2>1. m \in Submitted <=> \E o \in Owners : m \in ToSet(submitted[o])
    BY DEF Submitted
  <2>2. m \in Fifo!Everyone <=>
          \E o \in Owners : m \in {submitted[o][i] : i \in 1 .. Len(submitted[o])}
    BY <1>1 DEF Fifo!Everyone, Fifo!Range
  <2> QED BY <1>2, <2>1, <2>2
<1> QED BY <1>4, <1>5

\* What native lost is not reached again.
LEMMA WipedKept == IInv /\ [Next]_vars => \A m \in wiped : observed'[m] = observed[m]
<1> SUFFICES ASSUME IInv, [Next]_vars PROVE \A m \in wiped : observed'[m] = observed[m]
  OBVIOUS
<1>0. wiped \subseteq Submitted /\ wiped \subseteq Msgs
  BY SubmittedIs DEF IInv, BatchInv, SubmitInv
<1>1. CASE \E o \in Owners : Public(o)
  BY <1>1, PublicFrame
<1>2. CASE Registry
  BY <1>2, RegistryFrame
<1>3. CASE Extension
  <2>1. Settled \/ (\E o \in Owners : Accepts(o)) \/ (\E done : Carries(done)) \/ NativeReset
    BY <1>3, ExtensionIs DEF IInv
  <2>2. ASSUME NEW o \in Owners, Accepts(o) PROVE \A m \in wiped : observed'[m] = observed[m]
    <3>1. stageReq[o] \notin Submitted
      BY <2>2, AcceptsOk
    <3>2. observed' = [observed EXCEPT ![stageReq[o]] = Claimed]
      BY <2>2 DEF Accepts
    <3>3. observed \in [Msgs -> 0 .. InContext]
      BY DEF IInv, TypeInv
    <3> QED BY <1>0, <3>1, <3>2, <3>3
  <2>3. ASSUME NEW done, Carries(done) PROVE \A m \in wiped : observed'[m] = observed[m]
    <3> DEFINE S == {batches[current][b].id : b \in done}
    <3>1. S \cap wiped = {}
      BY <2>3, CarriesOk
    <3>2. observed' = [m \in Msgs |-> IF m \in S THEN observed[m] + 1 ELSE observed[m]]
      BY <2>3 DEF Carries
    <3> HIDE DEF S
    <3> QED BY <1>0, <3>1, <3>2
  <2> QED BY <2>1, <2>2, <2>3 DEF Settled, NativeReset
<1>4. CASE BridgeEnded \/ Stopped \/ UNCHANGED vars
  BY <1>4 DEF BridgeEnded, Stopped, vars, histVars
<1> QED BY <1>1, <1>2, <1>3, <1>4 DEF Next

\* A message native lost by resetting its context is never carried further: no report claims
\* it got anywhere, however the reset interleaves with the events of its batch.
THEOREM ResetIsFinalAlways == Spec => ResetIsFinal
<1>1. IInv /\ [Next]_vars => [\A m \in wiped : observed'[m] = observed[m]]_vars
  BY WipedKept
<1> QED BY <1>1, Invariant, PTL DEF Spec, ResetIsFinal

-----------------------------------------------------------------------------
\* The removal of bindings: the gate's holder, and why no message of a removed binding
\* is accepted.

\* A binding follows one that was retired, and the holder of the gate keeps the binding
\* it removes where it found it.
GateInv ==
  /\ bound \in [Owners -> {"absent", "bound", "removed", "retired"}]
  /\ \A i \in DOMAIN reports : reports[i].kind = "switch" => reports[i].owner > 1
  /\ \A c \in calls : c.kind = "switch" => c.owner > 1
  /\ \A o \in Owners : o > 1 /\ bound[o] # "absent" => bound[o - 1] = "retired"
  /\ holder.pc # "none" =>
       /\ holder.owner \in Owners /\ Removing \in Owners
       /\ holder.pc \in {"describe", "refused", "described"} =>
            holder.kind = "switch" /\ bound[Removing] = "bound"
       /\ holder.pc \in {"unmapped", "canceled"} => bound[Removing] = "removed"

\* The bindings the registry has removed, and what the request c asks it to remove.
Gone == {o \in Owners : bound[o] \in {"removed", "retired"}}
Asks(c, E) == /\ c.kind = "switch" => c.owner - 1 \in E
              /\ c.kind = "end" => c.owner \in E

\* The extension no longer delivers to a binding it asked the registry to remove.
EndInv ==
  /\ Gone \subseteq ending
  /\ \A c \in calls : Asks(c, ending)
  /\ \A i \in DOMAIN reports : Asks(reports[i], ending)

\* The request d was there before, or asks for what the extension just ended.
FromBefore(d) ==
  \/ d.kind = "observe"
  \/ \E c \in calls : d.kind = c.kind /\ d.owner = c.owner
  \/ \E j \in DOMAIN reports : d.kind = reports[j].kind /\ d.owner = reports[j].owner
  \/ Asks(d, ending') /\ (d.kind = "switch" => d.owner > 1)

RequestsKept ==
  /\ ending \subseteq ending'
  /\ \A d \in calls' : FromBefore(d)
  /\ \A i \in DOMAIN reports' : FromBefore(reports'[i])

\* The initial states.
LEMMA InitRemoval == Init => GateInv /\ EndInv
<1> SUFFICES ASSUME Init PROVE GateInv /\ EndInv
  OBVIOUS
<1>1. 1 \in Owners /\ (\A o \in Owners : o > 1 => o # 1) /\ DOMAIN <<>> = {}
  BY DeliveryAssumption DEF Owners
<1>2. holder.pc = "none"
  BY DEF Init, NoHolder
<1>3. \A o \in Owners : bound[o] \in {"bound", "absent"}
  BY DEF Init
<1> QED BY <1>1, <1>2, <1>3 DEF Init, GateInv, EndInv, Gone

\* What a step says of the requests is what the invariants say of them.
LEMMA RequestsOk ==
  ASSUME GateInv, EndInv, RequestsKept
  PROVE  /\ \A d \in calls' : Asks(d, ending') /\ (d.kind = "switch" => d.owner > 1)
         /\ \A i \in DOMAIN reports' :
              Asks(reports'[i], ending') /\ (reports'[i].kind = "switch" => reports'[i].owner > 1)
<1>1. ASSUME NEW d, FromBefore(d)
      PROVE  Asks(d, ending') /\ (d.kind = "switch" => d.owner > 1)
  BY <1>1 DEF FromBefore, GateInv, EndInv, RequestsKept, Asks
<1>2. \A d \in calls' : FromBefore(d)
  BY DEF RequestsKept
<1>3. ASSUME NEW i \in DOMAIN reports'
      PROVE  Asks(reports'[i], ending') /\ (reports'[i].kind = "switch" => reports'[i].owner > 1)
  <2>1. PICK d : d = reports'[i]
    OBVIOUS
  <2>2. FromBefore(d)
    BY <2>1 DEF RequestsKept
  <2> QED BY <1>1, <2>1, <2>2
<1> QED BY <1>1, <1>2, <1>3

\* No binding is removed, and the holder at most gets its description.
LEMMA RemovalKept ==
  ASSUME GateInv, EndInv, RequestsKept, UNCHANGED bound,
         \/ UNCHANGED holder
         \/ /\ holder'.kind = holder.kind /\ holder'.owner = holder.owner
            /\ holder.pc = "describe" /\ holder'.pc \in {"refused", "described"}
         \/ holder'.pc = "none"
  PROVE  GateInv' /\ EndInv' /\ Gone' = Gone
<1>1. /\ \A d \in calls' : Asks(d, ending') /\ (d.kind = "switch" => d.owner > 1)
      /\ \A i \in DOMAIN reports' :
           Asks(reports'[i], ending') /\ (reports'[i].kind = "switch" => reports'[i].owner > 1)
  BY RequestsOk
<1>2. Gone' = Gone
  BY DEF Gone
<1>3. ending \subseteq ending'
  BY DEF RequestsKept
<1>4. EndInv'
  BY <1>1, <1>2, <1>3 DEF EndInv
<1>5. GateInv'
  BY <1>1 DEF GateInv, Removing
<1> QED BY <1>2, <1>4, <1>5

\* The requests of a step that adds none.
LEMMA RequestsSame ==
  ASSUME UNCHANGED reports, SameCalls, ending \subseteq ending'
  PROVE  RequestsKept
BY DEF RequestsKept, SameCalls, FromBefore

\* The extension removes no binding of the registry's.
LEMMA ExtensionRemoval ==
  ASSUME TypeInv, HolderInv, BatchInv, GateInv, EndInv, Extension
  PROVE  GateInv' /\ EndInv' /\ Gone' = Gone /\ UNCHANGED arrived
<1> USE DEF goVars, publicVars, stageVars, histVars, flags, FailState, FailAndEnd
<1>0. current \in Nat /\ reports \in Seq(ItemType) /\ calls \subseteq CallType
  BY DEF TypeInv, Owners
<1>1. SUFFICES /\ RequestsKept /\ UNCHANGED <<bound, arrived>>
               /\ \/ UNCHANGED holder
                  \/ /\ holder'.kind = holder.kind /\ holder'.owner = holder.owner
                     /\ holder.pc = "describe" /\ holder'.pc \in {"refused", "described"}
  BY RemovalKept
<1>2. CASE NativeDescribe
  <2>1. /\ UNCHANGED <<reports, calls, bound, arrived>> /\ ending \subseteq ending'
        /\ holder.pc = "describe" /\ (Hold("refused") \/ Hold("described"))
    BY <1>2 DEF NativeDescribe
  <2>2. RequestsKept
    BY <2>1, RequestsSame DEF SameCalls
  <2> QED BY <2>1, <2>2 DEF Hold, HolderInv, IsHolder, HolderFields
<1>3. ASSUME UNCHANGED <<calls, holder, bound, arrived>>, ending \subseteq ending',
             UNCHANGED reports \/ QueueGrows(observed')
      PROVE  RequestsKept
  BY <1>3 DEF RequestsKept, FromBefore, QueueGrows
<1>4. ASSUME NEW o \in Owners, NativeStage(o)
      PROVE  RequestsKept /\ UNCHANGED <<bound, arrived, holder>>
  <2>1. UNCHANGED <<calls, holder, bound, arrived>> /\ ending \subseteq ending'
    BY <1>4 DEF NativeStage
  <2>2. UNCHANGED reports \/ QueueGrows(observed')
    BY <1>4, StageIs DEF Accepts
  <2> QED BY <1>3, <2>1, <2>2
<1>5. ASSUME NEW b, NEW p, NativeMessage(b, p)
      PROVE  RequestsKept /\ UNCHANGED <<bound, arrived, holder>>
  <2>1. UNCHANGED <<calls, holder, bound, arrived>> /\ ending \subseteq ending'
    BY <1>5 DEF NativeMessage
  <2>2. UNCHANGED reports \/ QueueGrows(observed')
    BY <1>5, MessageIs DEF Carries
  <2> QED BY <1>3, <2>1, <2>2
<1>6. CASE NativeContext
  <2>1. UNCHANGED <<calls, holder, bound, arrived>> /\ ending \subseteq ending'
    BY <1>6 DEF NativeContext
  <2>2. UNCHANGED reports \/ QueueGrows(observed')
    BY <1>6, ContextIs DEF Carries
  <2> QED BY <1>3, <2>1, <2>2
<1>7. CASE NativeReset
  <2>1. UNCHANGED <<calls, holder, bound, arrived, reports, ending>>
    BY <1>7 DEF NativeReset
  <2> QED BY <1>3, <2>1
<1>8. ASSUME NEW k \in {"switch", "end"}, NEW o \in Owners, UNCHANGED calls, ending \subseteq ending',
             reports' = Append(reports, Item(k, o, 0, NoReport)),
             k = "switch" => o > 1 /\ o - 1 \in ending', k = "end" => o \in ending'
      PROVE  RequestsKept
  <2> DEFINE x == Item(k, o, 0, NoReport)
  <2>1. x.kind = k /\ x.owner = o /\ x \in ItemType
    <3>1. NoReport \in RepType
      BY DEF NoReport, RepType, InContext
    <3> QED BY <3>1 DEF Item, ItemType
  <2>2. reports' = Append(reports, x)
    BY <1>8
  <2> HIDE DEF x
  <2>3. FromBefore(x)
    BY <1>8, <2>1 DEF FromBefore, Asks
  <2>4. \A i \in DOMAIN reports' : (i \in DOMAIN reports /\ reports'[i] = reports[i]) \/ reports'[i] = x
    <3>1. /\ DOMAIN reports = 1 .. Len(reports) /\ Len(reports) \in Nat
          /\ DOMAIN Append(reports, x) = 1 .. Len(reports) + 1
          /\ \A i \in DOMAIN reports : Append(reports, x)[i] = reports[i]
          /\ Append(reports, x)[Len(reports) + 1] = x
      BY <1>0, <2>1, AppendIs
    <3> QED BY <2>2, <3>1
  <2>5. ASSUME NEW i \in DOMAIN reports' PROVE FromBefore(reports'[i])
    <3>1. CASE reports'[i] = x
      BY <2>3, <3>1
    <3>2. CASE i \in DOMAIN reports /\ reports'[i] = reports[i]
      BY <3>2 DEF FromBefore
    <3> QED BY <2>4, <3>1, <3>2
  <2>6. \A d \in calls' : FromBefore(d)
    BY <1>8 DEF FromBefore
  <2> QED BY <1>8, <2>5, <2>6 DEF RequestsKept
<1>9. CASE NativeSwitch
  <2> DEFINE next == current + 1
  <2>1. /\ UNCHANGED <<bound, arrived, holder, calls>> /\ ending \subseteq ending' /\ next \in Owners
        /\ \/ UNCHANGED reports
           \/ reports' = Append(reports, Item("switch", next, 0, NoReport)) /\ current \in ending'
    BY <1>9 DEF NativeSwitch
  <2>2. next > 1 /\ next - 1 = current
    <3>1. current >= 1
      BY DEF TypeInv, Owners
    <3> QED BY <1>0, <3>1
  <2>3. CASE UNCHANGED reports
    BY <1>3, <2>1, <2>3
  <2> HIDE DEF next
  <2>4. CASE reports' = Append(reports, Item("switch", next, 0, NoReport)) /\ current \in ending'
    BY <1>8, <2>1, <2>2, <2>4
  <2> QED BY <2>1, <2>3, <2>4
<1>10. CASE NativeEnd
  <2>1. /\ UNCHANGED <<bound, arrived, holder, calls>> /\ ending \subseteq ending' /\ current \in Owners
        /\ \/ UNCHANGED reports
           \/ reports' = Append(reports, Item("end", current, 0, NoReport)) /\ current \in ending'
    BY <1>10 DEF NativeEnd, TypeInv
  <2>2. CASE UNCHANGED reports
    BY <1>3, <2>1, <2>2
  <2>3. CASE reports' = Append(reports, Item("end", current, 0, NoReport)) /\ current \in ending'
    BY <1>8, <2>1, <2>3
  <2> QED BY <2>1, <2>2, <2>3
<1>11. ASSUME NEW rest \in Seq(ItemType), NEW r, WorkerFailed(r, rest),
              \A i \in DOMAIN rest : \E j \in DOMAIN reports : rest[i] = reports[j]
       PROVE  /\ ending \subseteq ending' /\ \A i \in DOMAIN reports' : FromBefore(reports'[i])
  <2>1. \A i \in DOMAIN reports' : \E j \in DOMAIN reports : reports'[i] = reports[j]
    BY <1>11, WorkerFailedIs
  <2> QED BY <1>11, <2>1 DEF WorkerFailed, FromBefore
<1>12. CASE WorkerSend
  <2> DEFINE r == Head(reports)
             rest == Tail(reports)
  <2>1. /\ UNCHANGED <<bound, arrived, holder>> /\ reports # <<>>
        /\ \/ WorkerFailed(r, rest) /\ UNCHANGED calls
           \/ calls' = calls \cup {Request(r)} /\ reports' = rest /\ UNCHANGED ending
    BY <1>12 DEF WorkerSend
  <2>2. /\ 1 \in DOMAIN reports /\ r = reports[1] /\ rest \in Seq(ItemType)
        /\ \A i \in DOMAIN rest : \E j \in DOMAIN reports : rest[i] = reports[j]
    BY <1>0, <2>1, TailIs
  <2>3. Request(r).kind = r.kind /\ Request(r).owner = r.owner
    BY DEF Request
  <2> HIDE DEF r, rest
  <2>4. CASE WorkerFailed(r, rest) /\ UNCHANGED calls
    <3>1. \A d \in calls' : FromBefore(d)
      BY <2>4 DEF FromBefore
    <3> QED BY <1>11, <2>1, <2>2, <2>4, <3>1 DEF RequestsKept
  <2>5. CASE calls' = calls \cup {Request(r)} /\ reports' = rest /\ UNCHANGED ending
    BY <2>1, <2>2, <2>3, <2>5 DEF RequestsKept, FromBefore
  <2> QED BY <2>1, <2>4, <2>5
<1>13. ASSUME NEW c \in calls, WorkerAck(c)
       PROVE  RequestsKept /\ UNCHANGED <<bound, arrived, holder>>
  <2>1. c.kind \in {"observe", "switch", "end"}
    BY <1>0 DEF CallType
  <2>2. /\ UNCHANGED <<bound, arrived, holder>> /\ calls' = calls \ {c}
        /\ UNCHANGED <<reports, ending>> \/ WorkerFailed(c, reports)
    BY <1>13, <2>1 DEF WorkerAck
  <2>3. \A d \in calls' : FromBefore(d)
    BY <2>2 DEF FromBefore
  <2>4. CASE UNCHANGED <<reports, ending>>
    BY <2>2, <2>3, <2>4 DEF RequestsKept, FromBefore
  <2>5. CASE WorkerFailed(c, reports)
    BY <1>0, <1>11, <2>2, <2>3, <2>5 DEF RequestsKept
  <2> QED BY <2>2, <2>4, <2>5
<1>14. ASSUME NEW c \in calls, WorkerError(c)
       PROVE  RequestsKept /\ UNCHANGED <<bound, arrived, holder>>
  <2> DEFINE x == [c EXCEPT !.awaited = FALSE]
  <2>1. x.kind = c.kind /\ x.owner = c.owner
    BY <1>0, CallIs
  <2>2. /\ UNCHANGED <<bound, arrived, holder>> /\ WorkerFailed(c, reports)
        /\ \A d \in calls' : d \in calls \/ d = x
    BY <1>14 DEF WorkerError
  <2> HIDE DEF x
  <2>3. \A d \in calls' : FromBefore(d)
    BY <2>1, <2>2 DEF FromBefore
  <2> QED BY <1>0, <1>11, <2>2, <2>3 DEF RequestsKept
<1>15. (\E b, p : NativeMessage(b, p)) => RequestsKept /\ UNCHANGED <<bound, arrived, holder>>
  BY <1>5
<1> QED BY <1>2, <1>4, <1>6, <1>7, <1>9, <1>10, <1>12, <1>13, <1>14, <1>15 DEF Extension

\* A binding follows one that was retired.
Chain(bd) == \A o \in Owners : o > 1 /\ bd[o] # "absent" => bd[o - 1] = "retired"

\* The numbers of the bindings.
LEMMA OwnersAre ==
  /\ \A o \in Owners : o \in Nat /\ o >= 1 /\ (o > 1 => o - 1 \in Owners /\ o - 1 # o)
  /\ \A o, p \in Owners : o - 1 = p - 1 => o = p
BY DeliveryAssumption DEF Owners

\* Only the last binding of the chain is bound, or removed.
LEMMA ChainKept ==
  ASSUME GateInv, NEW o \in Owners, bound[o] \in {"bound", "removed"}, NEW st \in {"removed", "retired"},
         bound' = [bound EXCEPT ![o] = st]
  PROVE  /\ Chain(bound)' /\ bound'[o] = st /\ \A p \in Owners : p # o => bound'[p] = bound[p]
         /\ bound' \in [Owners -> {"absent", "bound", "removed", "retired"}]
<1>1. /\ bound \in [Owners -> {"absent", "bound", "removed", "retired"}]
      /\ \A p \in Owners : p > 1 /\ bound[p] # "absent" => bound[p - 1] = "retired"
  BY DEF GateInv
<1>2. /\ bound'[o] = st /\ \A p \in Owners : p # o => bound'[p] = bound[p]
      /\ bound' \in [Owners -> {"absent", "bound", "removed", "retired"}]
  BY <1>1
<1>3. ASSUME NEW p \in Owners, p > 1, bound'[p] # "absent" PROVE bound'[p - 1] = "retired"
  <2>1. bound[p] # "absent"
    BY <1>2, <1>3
  <2>2. bound[p - 1] = "retired" /\ p - 1 \in Owners
    BY <1>1, <1>3, <2>1, OwnersAre
  <2> QED BY <1>2, <2>2
<1> QED BY <1>2, <1>3 DEF Chain

\* The gate's invariant, in parts.
LEMMA GateFrom ==
  ASSUME GateInv, UNCHANGED reports, Chain(bound)',
         bound' \in [Owners -> {"absent", "bound", "removed", "retired"}],
         \A c \in calls' : c.kind = "switch" => c.owner > 1,
         holder'.pc # "none" =>
           /\ holder'.owner \in Owners /\ Removing' \in Owners
           /\ holder'.pc \in {"describe", "refused", "described"} =>
                holder'.kind = "switch" /\ bound'[Removing'] = "bound"
           /\ holder'.pc \in {"unmapped", "canceled"} => bound'[Removing'] = "removed"
  PROVE  GateInv'
BY DEF GateInv, Chain

\* A step of the registry removes one binding, or none.
Removes(S) == GateInv' /\ EndInv' /\ Gone' = Gone \cup S
RemovesOne == Removes({}) \/ \E o \in Owners : Removes({o})

\* The holder removes the binding its request asked for, which the extension ended.
LEMMA UnmapRemoval ==
  ASSUME TypeInv, GateInv, EndInv, UNCHANGED <<reports, ending>>, SameCalls, NEW o \in Owners,
         bound[o] = "bound", o \in ending, Unmap(o),
         Removing' = o, holder'.owner \in Owners, holder'.pc = "unmapped"
  PROVE  RemovesOne
<1>1. /\ Chain(bound)' /\ bound'[o] = "removed" /\ \A p \in Owners : p # o => bound'[p] = bound[p]
      /\ bound' \in [Owners -> {"absent", "bound", "removed", "retired"}]
  BY ChainKept DEF Unmap
<1>2. Gone' = Gone \cup {o}
  BY <1>1 DEF Gone
<1>3. \A d \in calls' : Asks(d, ending') /\ (d.kind = "switch" => d.owner > 1)
  BY DEF SameCalls, GateInv, EndInv, Asks
<1>4. GateInv'
  BY <1>1, <1>3, GateFrom
<1>5. EndInv'
  BY <1>2, <1>3 DEF EndInv
<1> QED BY <1>2, <1>4, <1>5 DEF Removes, RemovesOne

\* ownerSwitch and ownerEnd.
LEMMA BeginRemoval ==
  ASSUME TypeInv, GateInv, EndInv, NEW c \in calls, BeginLifecycle(c)
  PROVE  RemovesOne /\ UNCHANGED credited
<1> DEFINE o == IF c.kind = "switch" THEN c.owner - 1 ELSE c.owner
<1>0. calls \subseteq CallType /\ Chain(bound)
  BY DEF TypeInv, GateInv, Chain
<1>1. /\ UNCHANGED <<reports, ending, credited>> /\ c.kind \in {"switch", "end"}
      /\ \/ Reply(c, "error") /\ UNCHANGED <<holder, bound>>
         \/ /\ bound[o] = "bound" /\ UNCHANGED calls
            /\ holder' = [kind |-> c.kind, owner |-> c.owner,
                          pc |-> IF c.kind = "switch" THEN "describe" ELSE "unmapped"]
            /\ IF c.kind = "end" THEN Unmap(o) ELSE UNCHANGED bound
  BY DEF BeginLifecycle, lifecycleUnchanged, flags, histVars
<1>2. c.owner \in Owners /\ o \in Owners /\ o \in ending
  <2>1. c.owner \in Owners /\ (c.kind = "switch" => c.owner > 1) /\ Asks(c, ending)
    BY <1>0 DEF CallType, GateInv, EndInv
  <2> QED BY <1>1, <2>1, OwnersAre DEF Asks
<1>3. CASE Reply(c, "error") /\ UNCHANGED <<holder, bound>>
  <2>1. SameCalls
    BY <1>0, <1>3, ReplyIs
  <2>2. GateInv' /\ EndInv' /\ Gone' = Gone
    BY <1>1, <1>3, <2>1, RequestsSame, RemovalKept
  <2> QED BY <1>1, <2>2 DEF Removes, RemovesOne
<1>4. CASE /\ bound[o] = "bound" /\ UNCHANGED calls
           /\ holder' = [kind |-> c.kind, owner |-> c.owner,
                         pc |-> IF c.kind = "switch" THEN "describe" ELSE "unmapped"]
           /\ IF c.kind = "end" THEN Unmap(o) ELSE UNCHANGED bound
  <2>1. Removing' = o /\ holder'.owner \in Owners
    BY <1>1, <1>2, <1>4 DEF Removing
  <2>2. SameCalls
    BY <1>4 DEF SameCalls
  <2>3. \A d \in calls' : Asks(d, ending') /\ (d.kind = "switch" => d.owner > 1)
    BY <1>1, <1>4 DEF GateInv, EndInv
  <2> HIDE DEF o
  <2>4. CASE c.kind = "switch"
    <3>1. UNCHANGED bound /\ holder'.kind = "switch" /\ holder'.pc = "describe"
      BY <1>4, <2>4
    <3>2. GateInv'
      BY <1>0, <1>1, <1>2, <1>4, <2>1, <2>3, <3>1, GateFrom DEF GateInv, Chain
    <3>3. Gone' = Gone
      BY <3>1 DEF Gone
    <3>4. EndInv'
      BY <1>1, <2>3, <3>3 DEF EndInv
    <3> QED BY <1>1, <3>2, <3>3, <3>4 DEF Removes, RemovesOne
  <2>5. CASE c.kind = "end"
    <3>1. Unmap(o) /\ holder'.pc = "unmapped"
      BY <1>4, <2>5
    <3>2. RemovesOne
      BY <1>1, <1>2, <1>4, <2>1, <2>2, <3>1, UnmapRemoval
    <3> QED BY <1>1, <3>2
  <2> QED BY <1>1, <2>4, <2>5
<1> QED BY <1>1, <1>3, <1>4

\* removeForSwitch, the failed description and the public connection of a removed binding.
LEMMA HoldRemoval ==
  ASSUME TypeInv, HolderInv, GateInv, EndInv, SwitchUnmap \/ DescribeFailed \/ PublicCancel
  PROVE  RemovesOne /\ UNCHANGED credited
<1> DEFINE o == Removing
<1>0. calls \subseteq CallType /\ IsHolder(holder) /\ Chain(bound)
      /\ bound \in [Owners -> {"absent", "bound", "removed", "retired"}]
  BY DEF TypeInv, HolderInv, GateInv, Chain
<1>1. /\ UNCHANGED <<reports, ending, credited>> /\ holder.pc # "none"
      /\ \/ holder.pc = "described" /\ Hold("unmapped") /\ Unmap(o) /\ UNCHANGED calls
         \/ Finish("error") /\ UNCHANGED bound
         \/ holder.pc = "unmapped" /\ Hold("canceled") /\ UNCHANGED <<bound, calls>>
  BY DEF SwitchUnmap, DescribeFailed, PublicCancel, lifecycleUnchanged, flags, histVars
<1>2. /\ holder.owner \in Owners /\ o \in Owners
      /\ holder.pc = "described" => bound[o] = "bound"
      /\ holder.pc = "unmapped" => bound[o] = "removed"
  BY <1>1 DEF GateInv
<1>3. o \in ending
  <2>1. /\ Serving \in calls /\ Serving.kind = holder.kind /\ Serving.owner = holder.owner
        /\ holder.kind \in {"switch", "end"}
    BY <1>1, ServingIs
  <2>2. Asks(Serving, ending)
    BY <2>1 DEF EndInv
  <2> QED BY <2>1, <2>2 DEF Asks, Removing
<1>4. ASSUME NEW pc, Hold(pc)
      PROVE  holder'.pc = pc /\ holder'.owner = holder.owner /\ Removing' = o
  BY <1>0, <1>4 DEF Hold, IsHolder, HolderFields, Removing
<1>5. CASE holder.pc = "described" /\ Hold("unmapped") /\ Unmap(o) /\ UNCHANGED calls
  <2>1. SameCalls
    BY <1>5 DEF SameCalls
  <2>2. holder'.pc = "unmapped" /\ holder'.owner \in Owners /\ Removing' = o
    BY <1>2, <1>4, <1>5
  <2> HIDE DEF o
  <2>3. RemovesOne
    BY <1>1, <1>2, <1>3, <1>5, <2>1, <2>2, UnmapRemoval
  <2> QED BY <1>1, <2>3
<1>6. CASE Finish("error") /\ UNCHANGED bound
  <2>1. SameCalls /\ holder'.pc = "none"
    BY <1>0, <1>1, <1>6, FinishIs
  <2>2. GateInv' /\ EndInv' /\ Gone' = Gone
    BY <1>1, <1>6, <2>1, RequestsSame, RemovalKept
  <2> QED BY <1>1, <2>2 DEF Removes, RemovesOne
<1>7. CASE holder.pc = "unmapped" /\ Hold("canceled") /\ UNCHANGED <<bound, calls>>
  <2>1. holder'.pc = "canceled" /\ holder'.owner \in Owners /\ Removing' = o
    BY <1>2, <1>4, <1>7
  <2>2. \A d \in calls' : Asks(d, ending') /\ (d.kind = "switch" => d.owner > 1)
    BY <1>1, <1>7 DEF GateInv, EndInv
  <2>3. GateInv'
    BY <1>0, <1>1, <1>2, <1>7, <2>1, <2>2, GateFrom DEF Chain
  <2>4. Gone' = Gone
    BY <1>7 DEF Gone
  <2>5. EndInv'
    BY <1>1, <2>2, <2>4 DEF EndInv
  <2> QED BY <1>1, <2>3, <2>4, <2>5 DEF Removes, RemovesOne
<1> QED BY <1>1, <1>5, <1>6, <1>7

\* removeBinding's second critical section, and admit: the binding was removed before.
LEMMA JoinRemoval ==
  ASSUME TypeInv, HolderInv, GateInv, EndInv, PublicJoin
  PROVE  RemovesOne /\ UNCHANGED credited
<1> DEFINE o == Removing
           n == holder.owner
<1>0. calls \subseteq CallType /\ Chain(bound)
      /\ bound \in [Owners -> {"absent", "bound", "removed", "retired"}]
  BY DEF TypeInv, GateInv, Chain
<1>1. /\ UNCHANGED <<reports, ending, credited>> /\ holder.pc = "canceled"
      /\ \E r \in {"ok", "error"} : Finish(r)
      /\ \/ bound' = [bound EXCEPT ![o] = "retired"]
         \/ holder.kind = "switch" /\ bound' = [bound EXCEPT ![o] = "retired", ![n] = "bound"]
  BY DEF PublicJoin, lifecycleUnchanged, flags, histVars
<1>2. n \in Owners /\ o \in Owners /\ bound[o] = "removed"
  BY <1>1 DEF GateInv
<1>3. SameCalls /\ holder'.pc = "none"
  BY <1>0, <1>1, FinishIs
<1>4. \A d \in calls' : Asks(d, ending') /\ (d.kind = "switch" => d.owner > 1)
  BY <1>1, <1>3 DEF SameCalls, GateInv, EndInv, Asks
<1>5. SUFFICES Gone' = Gone /\ Chain(bound)' /\ bound' \in [Owners -> {"absent", "bound", "removed", "retired"}]
  <2>1. ASSUME Gone' = Gone PROVE EndInv'
    BY <1>1, <1>4, <2>1 DEF EndInv
  <2>2. ASSUME Chain(bound)', bound' \in [Owners -> {"absent", "bound", "removed", "retired"}]
        PROVE  GateInv'
    BY <1>1, <1>3, <1>4, <2>2, GateFrom
  <2> QED BY <1>1, <2>1, <2>2 DEF Removes, RemovesOne
<1>6. CASE bound' = [bound EXCEPT ![o] = "retired"]
  <2> HIDE DEF o
  <2>1. /\ Chain(bound)' /\ bound'[o] = "retired" /\ \A p \in Owners : p # o => bound'[p] = bound[p]
        /\ bound' \in [Owners -> {"absent", "bound", "removed", "retired"}]
    BY <1>2, <1>6, ChainKept
  <2> QED BY <1>2, <2>1 DEF Gone
<1>7. CASE holder.kind = "switch" /\ bound' = [bound EXCEPT ![o] = "retired", ![n] = "bound"]
  <2>1. n > 1 /\ o = n - 1
    <3>1. Serving \in calls /\ Serving.kind = "switch" /\ Serving.owner = n
      BY <1>1, <1>7, ServingIs
    <3> QED BY <1>7, <3>1 DEF GateInv, Removing
  <2> HIDE DEF o, n
  <2>2. n # o /\ bound[n] = "absent"
    BY <1>0, <1>2, <2>1, OwnersAre DEF Chain
  <2>3. /\ bound'[o] = "retired" /\ bound'[n] = "bound"
        /\ \A p \in Owners : p # o /\ p # n => bound'[p] = bound[p]
        /\ bound' \in [Owners -> {"absent", "bound", "removed", "retired"}]
    BY <1>0, <1>2, <1>7, <2>2
  <2>4. ASSUME NEW p \in Owners, p > 1, bound'[p] # "absent" PROVE bound'[p - 1] = "retired"
    <3>1. CASE p = n
      BY <2>1, <2>3, <3>1
    <3>2. CASE p # n
      <4>1. bound[p] # "absent" /\ p - 1 \in Owners
        BY <1>2, <2>3, <2>4, <3>2, OwnersAre
      <4>2. bound[p - 1] = "retired"
        BY <1>0, <2>4, <4>1 DEF Chain
      <4> QED BY <2>2, <2>3, <4>1, <4>2
    <3> QED BY <3>1, <3>2
  <2>5. Gone' = Gone
    BY <1>2, <2>2, <2>3 DEF Gone
  <2> QED BY <2>3, <2>4, <2>5 DEF Chain
<1> QED BY <1>1, <1>6, <1>7

\* Every step of the registry: a report changes credit only, the others the bindings only.
LEMMA RegistryRemoval ==
  ASSUME IInv, GateInv, EndInv, Registry
  PROVE  RemovesOne /\ (UNCHANGED credited \/ Removes({}))
<1>1. TypeInv /\ HolderInv /\ PendingInv /\ EvidenceInv /\ CreditInv /\ calls \subseteq CallType
  BY DEF IInv, TypeInv
<1>2. ASSUME NEW c \in calls, HandleReport(c) \/ CancelOrphan(c) PROVE Removes({})
  <2>1. UNCHANGED <<reports, ending, bound, holder>>
    BY <1>2 DEF HandleReport, CancelOrphan, goVars, extVars, flags
  <2>2. SameCalls
    <3>1. CancelOrphan(c) => calls' \subseteq calls
      BY DEF CancelOrphan
    <3>2. CASE CancelOrphan(c)
      BY <3>1, <3>2 DEF SameCalls
    <3>3. CASE HandleReport(c)
      BY <1>1, <3>3, HandleReportIs
    <3> QED BY <1>2, <3>2, <3>3
  <2>3. GateInv' /\ EndInv' /\ Gone' = Gone
    BY <2>1, <2>2, RequestsSame, RemovalKept
  <2> QED BY <2>3 DEF Removes
<1>3. ASSUME NEW c \in calls, BeginLifecycle(c) PROVE RemovesOne /\ UNCHANGED credited
  BY <1>1, <1>3, BeginRemoval
<1>4. CASE SwitchUnmap \/ DescribeFailed \/ PublicCancel \/ PublicJoin
  BY <1>1, <1>4, HoldRemoval, JoinRemoval
<1> QED BY <1>2, <1>3, <1>4 DEF Registry, RemovesOne

\* Every step keeps what the removal of bindings rests on.
LEMMA NextRemoval ==
  ASSUME IInv, GateInv, EndInv, [Next]_vars
  PROVE  GateInv' /\ EndInv'
<1>1. TypeInv /\ HolderInv /\ BatchInv /\ calls \subseteq CallType
  BY DEF IInv, TypeInv
<1>2. ASSUME NEW o \in Owners, Public(o) PROVE GateInv' /\ EndInv'
  <2>1. UNCHANGED <<bound, holder, calls, reports, ending>>
    BY <1>2, PublicFrame
  <2>2. SameCalls
    BY <2>1 DEF SameCalls
  <2> QED BY <2>1, <2>2, RequestsSame, RemovalKept
<1>3. CASE Registry
  BY <1>3, RegistryRemoval DEF Removes, RemovesOne
<1>4. CASE Extension
  BY <1>1, <1>4, ExtensionRemoval
<1>5. CASE BridgeEnded
  <2>1. /\ UNCHANGED <<bound, holder>> /\ reports' = <<>> /\ ending \subseteq ending'
        /\ calls' = {[c EXCEPT !.awaited = FALSE] : c \in {d \in calls : d.reply = "none"}}
    BY <1>5 DEF BridgeEnded
  <2>2. ASSUME NEW d \in calls' PROVE FromBefore(d)
    <3>1. PICK c \in calls : d = [c EXCEPT !.awaited = FALSE]
      BY <2>1
    <3>2. d.kind = c.kind /\ d.owner = c.owner
      BY <1>1, <3>1, CallIs
    <3> QED BY <3>2 DEF FromBefore
  <2>3. DOMAIN reports' = {}
    BY <2>1
  <2>4. RequestsKept
    BY <2>1, <2>2, <2>3 DEF RequestsKept
  <2> QED BY <2>1, <2>4, RemovalKept
<1>6. CASE Stopped \/ UNCHANGED vars
  <2>1. UNCHANGED <<bound, holder, calls, reports, ending>>
    BY <1>6 DEF Stopped, vars, goVars, extVars, flags
  <2>2. SameCalls
    BY <2>1 DEF SameCalls
  <2> QED BY <2>1, <2>2, RequestsSame, RemovalKept
<1> QED BY <1>2, <1>3, <1>4, <1>5, <1>6 DEF Next

-----------------------------------------------------------------------------
\* The delivery path implements DeliveryFifo.

\* A message arrives at the abstract owner.
LEMMA ArriveFifo ==
  ASSUME NEW o \in Owners, NEW m \in Msgs, Deliver(o, m)
  PROVE  Fifo!Arrive(o, m)
<1>1. ASSUME NEW p \in Owners PROVE m \notin Fifo!Range(arrived[p])
  <2>1. m \notin ToSet(arrived[p])
    BY DEF Deliver, Sent
  <2> QED BY <2>1 DEF ToSet, Fifo!Range
<1>2. arrived' = [arrived EXCEPT ![o] = Append(@, m)] /\ UNCHANGED <<bound, submitted, answer, observed, credited>>
  BY DEF Deliver
<1> QED BY <1>1, <1>2 DEF Fifo!Arrive

\* An answer of the registry is an answer of the abstract owner.
LEMMA AnswersFifo ==
  ASSUME TypeInv, Answered, UNCHANGED <<arrived, bound, submitted, observed, credited>>
  PROVE  [Fifo!Next]_(Fifo!fifoVars)
<1>1. CASE UNCHANGED answer
  BY <1>1 DEF Fifo!fifoVars
<1>2. ASSUME NEW S, NEW r, Answers(S, r) PROVE Fifo!Next
  <2>1. r \in Fifo!Answers \ {"none"} /\ S \in SUBSET Msgs
    BY <1>2 DEF Answers, AnswerKinds, Fifo!Answers
  <2>2. Fifo!Answer(S, r)
    BY <1>2, SubmittedIs DEF Answers, Fifo!Answer
  <2> QED BY <2>1, <2>2 DEF Fifo!Next
<1> QED BY <1>1, <1>2 DEF Answered

\* A message that native accepts is the next of a binding that was not removed.
LEMMA AcceptFifo ==
  ASSUME IInv, LineInv, EndInv, NEW o \in Owners, Accepts(o), Gone' = Gone
  PROVE  Fifo!Accept(o, stageReq[o]) /\ stageReq[o] \in Msgs
<1> DEFINE m == stageReq[o]
           s == arrived[o]
<1>1. m \in Msgs /\ answer[m] # "rejected"
  BY AcceptsOk
<1>2. /\ o \notin ending /\ m # NoMsg /\ UNCHANGED <<arrived, answer, credited>>
      /\ submitted' = [submitted EXCEPT ![o] = Append(@, m)]
      /\ observed' = [observed EXCEPT ![m] = 1]
  BY DEF Accepts, ExtCommon, Claimed
<1>3. o \notin Gone
  BY <1>2 DEF EndInv
<1>4. Fifo!IsNext(o, m)
  <2>1. /\ m \in ToSet(s) /\ \A n \in ToSet(submitted[o]) : Before(s, n, m)
        /\ \A i, j \in DOMAIN s : s[i] = s[j] => i = j
    BY <1>2 DEF LineInv, InLine, ArrivedOnce
  <2>2. s \in Seq(Msgs) /\ submitted[o] \in Seq(Msgs)
    BY DEF IInv, TypeInv
  <2> HIDE DEF m, s
  <2>3. PICK i \in DOMAIN s : s[i] = m
    BY <2>1 DEF ToSet
  <2>4. ASSUME NEW n \in Fifo!Range(submitted[o]) PROVE \E j \in 1 .. i - 1 : s[j] = n
    <3>1. n \in ToSet(submitted[o])
      BY <2>4 DEF ToSet, Fifo!Range
    <3>2. PICK a, b \in DOMAIN s : a < b /\ s[a] = n /\ s[b] = m
      BY <2>1, <3>1 DEF Before
    <3>3. b = i
      BY <2>1, <2>3, <3>2
    <3>4. a \in 1 .. i - 1
      BY <2>2, <3>2, <3>3
    <3> QED BY <3>2, <3>4
  <2> QED BY <2>3, <2>4 DEF Fifo!IsNext, s
<1> QED BY <1>1, <1>2, <1>3, <1>4 DEF Fifo!Accept, Gone

\* Every step is one of the abstract owner, or none.
LEMMA NextFifo ==
  ASSUME IInv, LineInv, GateInv, EndInv, [Next]_vars
  PROVE  [Fifo!Next]_(Fifo!fifoVars)
<1>0. TypeInv /\ TypeInv' /\ CreditInv' /\ HolderInv /\ BatchInv
  BY NextOk DEF IInv
<1>1. ASSUME NEW o \in Owners, Public(o) PROVE [Fifo!Next]_(Fifo!fifoVars)
  <2>1. CASE \E m \in Msgs : Deliver(o, m)
    BY <2>1, ArriveFifo DEF Fifo!Next
  <2>2. CASE ~\E m \in Msgs : Deliver(o, m)
    <3>1. UNCHANGED arrived
      BY <1>1, <2>2 DEF Public, StageAdmit, StageTake, StageReturn, StageCanceled, StageLost,
                        ConnectionDone, AttemptJoined, Connect, histVars
    <3>2. Answered /\ UNCHANGED <<submitted, bound, observed, credited>>
      BY <1>1, PublicOk, PublicFrame
    <3> QED BY <1>0, <3>1, <3>2, AnswersFifo
  <2> QED BY <2>1, <2>2
<1>2. CASE Registry
  <2>1. \A m \in Msgs : credited[m] <= credited'[m]
    BY <1>2, RegistryOk
  <2>2. UNCHANGED <<arrived, submitted, observed, answer>>
    BY <1>2, RegistryFrame
  <2>3. credited' \in [Msgs -> 0 .. 4] /\ \A m \in Msgs : credited'[m] <= observed[m]
    BY <1>0, <2>2 DEF TypeInv, InContext, CreditInv
  <2>4. RemovesOne /\ (UNCHANGED credited \/ Removes({}))
    BY <1>2, RegistryRemoval
  <2>5. CASE Removes({})
    <3>1. Gone' = Gone
      BY <2>5 DEF Removes
    <3>2. Fifo!Credit
      BY <2>1, <2>2, <2>3, <3>1 DEF Fifo!Credit, Gone
    <3> QED BY <3>2 DEF Fifo!Next
  <2>6. ASSUME NEW o \in Owners, Removes({o}), UNCHANGED credited PROVE Fifo!Next
    <3>1. Fifo!Remove(o)
      BY <2>2, <2>6 DEF Fifo!Remove, Removes, Gone
    <3> QED BY <3>1 DEF Fifo!Next
  <2> QED BY <2>4, <2>5, <2>6 DEF RemovesOne
<1>3. CASE Extension
  <2>1. Settled \/ (\E o \in Owners : Accepts(o)) \/ (\E done : Carries(done)) \/ NativeReset
    BY <1>3, ExtensionIs DEF IInv
  <2>2. Gone' = Gone /\ UNCHANGED arrived
    BY <1>0, <1>3, ExtensionRemoval
  <2>3. ASSUME NEW o \in Owners, Accepts(o) PROVE Fifo!Next
    <3>1. Fifo!Accept(o, stageReq[o]) /\ stageReq[o] \in Msgs
      BY <2>2, <2>3, AcceptFifo
    <3> QED BY <3>1 DEF Fifo!Next
  <2>4. ASSUME NEW done, Carries(done) PROVE Fifo!Next
    <3> DEFINE S == {batches[current][b].id : b \in done}
    <3>1. S \subseteq Msgs /\ \A m \in S : observed[m] \in 1 .. 3
      BY <2>4, CarriesOk
    <3>2. observed' = [m \in Msgs |-> IF m \in S THEN observed[m] + 1 ELSE observed[m]]
          /\ UNCHANGED <<submitted, answer, credited>>
      BY <2>4 DEF Carries, ExtCommon
    <3> HIDE DEF S
    <3>3. Fifo!Observe(S)
      BY <2>2, <3>1, <3>2 DEF Fifo!Observe, Gone
    <3> QED BY <3>1, <3>3 DEF Fifo!Next
  <2>5. CASE Settled \/ NativeReset
    BY <2>2, <2>5 DEF Settled, ExtCommon, NativeReset, Gone, Fifo!fifoVars
  <2> QED BY <2>1, <2>3, <2>4, <2>5
<1>4. CASE BridgeEnded \/ Stopped \/ UNCHANGED vars
  BY <1>4 DEF BridgeEnded, Stopped, vars, goVars, histVars, Fifo!fifoVars
<1> QED BY <1>1, <1>2, <1>3, <1>4 DEF Next

\* The whole delivery path, with its two sides, the bridge between them and everything that
\* may fail, keeps what DeliveryFifo promises: a binding hands native the messages in the
\* order in which the daemon sent them, each at most once, and none once the registry has
\* removed it; their senders are answered truthfully, and no message is credited with a
\* phase native did not reach.
THEOREM ImplementsFifoAlways == Spec => ImplementsFifo
<1> DEFINE K == IInv /\ LineInv /\ GateInv /\ EndInv
<1>1. Init => Fifo!Init
  <2> SUFFICES ASSUME Init PROVE Fifo!Init
    OBVIOUS
  <2>1. Gone = {}
    BY DEF Init, Gone
  <2> QED BY <2>1 DEF Init, Gone, Fifo!Init
<1>2. Init => K
  BY InitInv, InitLine, InitRemoval
<1>3. K /\ [Next]_vars => K'
  BY NextOk, NextRemoval
<1>4. K /\ [Next]_vars => [Fifo!Next]_(Fifo!fifoVars)
  BY NextFifo
<1> HIDE DEF K
<1> QED BY <1>1, <1>2, <1>3, <1>4, PTL DEF Spec, ImplementsFifo, Fifo!Spec

-----------------------------------------------------------------------------
\* The limits of the tables, and the bytes that are charged for what they hold.

\* The tables of the evidence e keep their limits, and while it has not failed its
\* bytes are those of what it retains.
SizeOk(e) ==
  /\ IsRecord(e)
  /\ e.staged \in Seq(Msgs) /\ Len(e.staged) <= Tracked
  /\ IsFiniteSet(DOMAIN e.batches) /\ Cardinality(DOMAIN e.batches) <= Tracked
  /\ \A b \in DOMAIN e.batches :
       /\ e.batches[b].ids \in Seq(Msgs) /\ e.batches[b].phase \in Claimed .. Ended
       /\ \A i, j \in DOMAIN e.batches[b].ids : e.batches[b].ids[i] = e.batches[b].ids[j] => i = j
  /\ IsFiniteSet(BatchMessages(e))
  /\ e.completed \in Seq(Nat) /\ Len(e.completed) <= Tracked
  /\ IsFiniteSet(DOMAIN e.reports) /\ Cardinality(DOMAIN e.reports) <= Tracked
  /\ ~e.failed => e.bytes = Retained(e)

\* A sequence without a repetition has as many elements as places.
LEMMA ElementsCount ==
  ASSUME NEW T, NEW s \in Seq(T), \A i, j \in DOMAIN s : s[i] = s[j] => i = j
  PROVE  IsFiniteSet(ToSet(s)) /\ Cardinality(ToSet(s)) = Len(s)
<1>1. Len(s) \in Nat /\ DOMAIN s = 1 .. Len(s) /\ s = [i \in 1 .. Len(s) |-> s[i]]
  OBVIOUS
<1>2. s \in Bijection(1 .. Len(s), ToSet(s))
  <2>1. s \in [1 .. Len(s) -> ToSet(s)]
    BY <1>1 DEF ToSet
  <2>2. \A x \in ToSet(s) : \E i \in 1 .. Len(s) : s[i] = x
    BY <1>1 DEF ToSet
  <2> QED BY <1>1, <2>1, <2>2 DEF Bijection, Injection, Surjection, IsInjective
<1>3. ExistsBijection(1 .. Len(s), ToSet(s))
  BY <1>2 DEF ExistsBijection
<1>4. IsFiniteSet(ToSet(s))
  BY <1>1, <1>3, FS_NatBijection
<1> QED BY <1>1, <1>3, <1>4, FS_CountingElements

\* The tables of an evidence are counted by natural numbers.
LEMMA CountsAre ==
  ASSUME NEW e, SizeOk(e)
  PROVE  /\ Len(e.staged) \in Nat /\ Len(e.completed) \in Nat
         /\ Cardinality(DOMAIN e.batches) \in Nat /\ Cardinality(BatchMessages(e)) \in Nat
         /\ Cardinality(DOMAIN e.reports) \in Nat /\ Tracked \in Nat \ {0}
         /\ ~e.failed => e.bytes \in Nat
<1>1. /\ Len(e.staged) \in Nat /\ Len(e.completed) \in Nat
      /\ Cardinality(DOMAIN e.batches) \in Nat /\ Cardinality(BatchMessages(e)) \in Nat
      /\ Cardinality(DOMAIN e.reports) \in Nat
  BY FS_CardinalityType DEF SizeOk
<1>2. Retained(e) \in Nat
  BY <1>1 DEF Retained
<1> QED BY <1>1, <1>2, TrackedAssumption DEF SizeOk

\* What is retained, when only the staged messages differ.
LEMMA StagedCounts ==
  ASSUME NEW e, SizeOk(e), NEW k, k.batches = e.batches, k.completed = e.completed,
         k.reports = e.reports, BatchMessages(k) = BatchMessages(e), Len(k.staged) \in Nat
  PROVE  Retained(k) - Retained(e) = Len(k.staged) - Len(e.staged)
         /\ Retained(k) \in Nat /\ Retained(e) \in Nat
<1>1. PICK a \in Nat, b \in Nat, c \in Nat, d \in Nat :
        /\ a = Cardinality(DOMAIN e.batches) /\ b = Cardinality(BatchMessages(e))
        /\ c = Len(e.completed) /\ d = Cardinality(DOMAIN e.reports)
  BY CountsAre
<1>2. Retained(e) = Len(e.staged) + a + b + c + d
  BY <1>1 DEF Retained
<1>3. Retained(k) = Len(k.staged) + a + b + c + d
  BY <1>1 DEF Retained
<1>4. Len(e.staged) \in Nat
  BY CountsAre
<1> QED BY <1>2, <1>3, <1>4

\* An evidence that fails keeps its tables.
LEMMA FailSize ==
  ASSUME NEW e, SizeOk(e)
  PROVE  SizeOk(Fail(e))
<1> DEFINE k == Fail(e)
<1>1. /\ k.staged = e.staged /\ k.batches = e.batches /\ k.completed = e.completed
      /\ k.reports = e.reports /\ k.failed /\ IsRecord(k)
  BY DEF SizeOk, Fail, IsRecord, EvidenceFields
<1> HIDE DEF k
<1>2. BatchMessages(k) = BatchMessages(e)
  BY <1>1 DEF BatchMessages
<1>3. SizeOk(k)
  BY <1>1, <1>2 DEF SizeOk
<1> QED BY <1>3 DEF k

\* A binding that is admitted, or removed, holds nothing.
LEMMA NoEvidenceSize == SizeOk(NoEvidence)
<1> DEFINE k == NoEvidence
<1>1. /\ k.staged = <<>> /\ k.batches = <<>> /\ k.completed = <<>> /\ k.reports = <<>>
      /\ k.bytes = 0 /\ IsRecord(k)
  BY DEF NoEvidence, IsRecord, EvidenceFields
<1> HIDE DEF k
<1>2. DOMAIN k.batches = {} /\ DOMAIN k.reports = {} /\ BatchMessages(k) = {}
  BY <1>1 DEF BatchMessages
<1>3. IsFiniteSet({}) /\ Cardinality({}) = 0
  BY FS_EmptySet
<1>4. Len(k.staged) = 0 /\ Len(k.completed) = 0 /\ k.staged \in Seq(Msgs) /\ k.completed \in Seq(Nat)
  BY <1>1
<1>5. Retained(k) = 0
  BY <1>2, <1>3, <1>4 DEF Retained
<1>6. SizeOk(k)
  BY <1>1, <1>2, <1>3, <1>4, <1>5, TrackedAssumption DEF SizeOk
<1> QED BY <1>6 DEF k

\* A reservation is charged one byte.
LEMMA ReserveSize ==
  ASSUME NEW e, SizeOk(e), NEW m \in Msgs, CanReserve(e, m), ~e.failed
  PROVE  SizeOk(Reserve(e, m))
<1> DEFINE s == Append(e.staged, m)
           k == Reserve(e, m)
<1> HIDE DEF s
<1>1. /\ k.staged = s /\ k.batches = e.batches /\ k.completed = e.completed
      /\ k.reports = e.reports /\ k.failed = e.failed /\ k.bytes = e.bytes + 1 /\ IsRecord(k)
  BY DEF SizeOk, IsRecord, EvidenceFields, Reserve, s
<1> HIDE DEF k
<1>2. s \in Seq(Msgs) /\ Len(s) = Len(e.staged) + 1 /\ Len(s) <= Tracked
  <2>1. e.staged \in Seq(Msgs) /\ Len(e.staged) < Tracked
    BY DEF SizeOk, CanReserve
  <2>2. s \in Seq(Msgs) /\ Len(s) = Len(e.staged) + 1
    BY <2>1, AppendIs DEF s
  <2> QED BY <2>1, <2>2, CountsAre
<1>3. BatchMessages(k) = BatchMessages(e)
  BY <1>1 DEF BatchMessages
<1>4. Retained(k) = Retained(e) + 1
  <2>1. Len(e.staged) \in Nat /\ Len(k.staged) = Len(e.staged) + 1
    BY <1>1, <1>2, CountsAre
  <2>2. /\ Retained(k) - Retained(e) = Len(k.staged) - Len(e.staged)
        /\ Retained(k) \in Nat /\ Retained(e) \in Nat
    <3>1. Len(k.staged) \in Nat
      BY <2>1
    <3> QED BY <1>1, <1>3, <3>1, StagedCounts
  <2> QED BY <2>1, <2>2
<1>5. k.bytes = Retained(k)
  BY <1>1, <1>4 DEF SizeOk
<1>6. SizeOk(k)
  BY <1>1, <1>2, <1>3, <1>5 DEF SizeOk
<1> QED BY <1>6 DEF k

\* A withdrawal gives one byte back.
LEMMA WithdrawSize ==
  ASSUME NEW e, SizeOk(e), NEW m
  PROVE  SizeOk(Withdraw(e, m))
<1>1. CASE ~Contains(e.staged, m)
  BY <1>1, FailSize DEF Withdraw
<1>2. CASE Contains(e.staged, m)
  <2> DEFINE s == RemoveFirst(e.staged, m)
             k == Withdraw(e, m)
  <2>1. s \in Seq(Msgs) /\ OneOut(e.staged, s)
    <3>1. e.staged \in Seq(Msgs)
      BY DEF SizeOk
    <3> QED BY <3>1, <1>2, RemoveFirstShort
  <2> HIDE DEF s
  <2>2. /\ k.staged = s /\ k.batches = e.batches /\ k.completed = e.completed
        /\ k.reports = e.reports /\ k.failed = e.failed /\ k.bytes = e.bytes - 1 /\ IsRecord(k)
    BY <1>2 DEF SizeOk, IsRecord, EvidenceFields, Withdraw, s
  <2> HIDE DEF k
  <2>3. Len(s) = Len(e.staged) - 1
    <3>1. PICK x \in DOMAIN e.staged : DOMAIN s = 1 .. Len(e.staged) - 1
      BY <2>1 DEF OneOut
    <3>2. e.staged \in Seq(Msgs)
      BY DEF SizeOk
    <3>3. Len(e.staged) \in Nat /\ Len(e.staged) # 0 /\ Len(s) \in Nat /\ DOMAIN s = 1 .. Len(s)
      BY <3>1, <3>2, <2>1
    <3>4. Len(e.staged) - 1 \in Nat
      BY <3>3
    <3> QED BY <3>1, <3>3, <3>4
  <2>4. BatchMessages(k) = BatchMessages(e)
    BY <2>2 DEF BatchMessages
  <2>5. Retained(k) = Retained(e) - 1 /\ Len(s) <= Tracked
    <3>1. Len(e.staged) <= Tracked
      BY DEF SizeOk
    <3>2. Len(e.staged) \in Nat /\ Len(k.staged) = Len(e.staged) - 1 /\ Tracked \in Nat
      BY <2>2, <2>3, CountsAre
    <3>3. Len(k.staged) \in Nat
      BY <2>1, <2>2
    <3>4. /\ Retained(k) - Retained(e) = Len(k.staged) - Len(e.staged)
          /\ Retained(k) \in Nat /\ Retained(e) \in Nat
      BY <2>2, <2>4, <3>3, StagedCounts
    <3>5. Retained(k) = Retained(e) - 1
      BY <3>2, <3>4
    <3> QED BY <2>3, <3>1, <3>2, <3>5
  <2>6. ~k.failed => k.bytes = Retained(k)
    BY <2>2, <2>5 DEF SizeOk
  <2>7. SizeOk(k)
    BY <2>1, <2>2, <2>4, <2>5, <2>6 DEF SizeOk
  <2> QED BY <2>7 DEF k
<1> QED BY <1>1, <1>2

\* The evidence after a report is applied: what the lemmas below need of it.
Sound(e) == EvTyped(e) /\ EvUnique(e) /\ ~e.failed

\* A claim moves the bytes of what it claims, and is charged for its batch.
LEMMA ClaimSize ==
  ASSUME NEW e, SizeOk(e), Sound(e), NEW r \in RepType, r.batch \notin DOMAIN e.batches
  PROVE  SizeOk(Claim(e, r))
<1> USE DEF Claimed, Ended, InContext
<1> DEFINE ok == /\ r.phase = Claimed
                 /\ ~Contains(e.completed, r.batch)
                 /\ Cardinality(DOMAIN e.batches) < Tracked
                 /\ Claimable(e, r.ids)
<1>0. CASE ~ok
  BY <1>0, FailSize DEF Claim
<1> SUFFICES ASSUME ok PROVE SizeOk(Claim(e, r))
  BY <1>0
<1> DEFINE k == Claim(e, r)
           q == [ids |-> r.ids, phase |-> Claimed]
           t == SubSeq(e.staged, Len(r.ids) + 1, Len(e.staged))
           n == Len(r.ids)
<1>1. /\ k.staged = t /\ k.batches = Extended(e.batches, r.batch, q)
      /\ k.completed = e.completed /\ k.reports = e.reports /\ k.failed = e.failed
      /\ k.bytes = e.bytes + 1 /\ IsRecord(k)
  <2>1. k = [e EXCEPT !.staged  = t, !.batches = Extended(e.batches, r.batch, q), !.bytes = e.bytes + 1]
    BY DEF Claim
  <2> HIDE DEF k, t, q
  <2> QED BY <2>1 DEF SizeOk, IsRecord, EvidenceFields
<1> HIDE DEF k
<1>2. /\ r.ids \in Seq(Msgs) /\ e.staged \in Seq(Msgs) /\ n \in Nat /\ Len(e.staged) \in Nat
      /\ n <= Len(e.staged) /\ SubSeq(r.ids, 1, n) = SubSeq(e.staged, 1, n)
  BY DEF RepType, SizeOk, IsPrefix, Claimable
<1>3. \A i \in 1 .. n : i \in DOMAIN e.staged /\ r.ids[i] = e.staged[i]
  <2>1. /\ \A i \in 1 .. n : r.ids[i] \in Msgs
        /\ \A i \in 1 .. n : e.staged[i] \in Msgs
    BY <1>2
  <2>2. \A i \in 1 .. n - 1 + 1 : SubSeq(r.ids, 1, n)[i] = r.ids[1 + i - 1]
    BY <2>1, <1>2, SubSeqProperties
  <2>3. \A i \in 1 .. n - 1 + 1 : SubSeq(e.staged, 1, n)[i] = e.staged[1 + i - 1]
    BY <2>1, <1>2, SubSeqProperties
  <2> QED BY <2>2, <2>3, <1>2
<1>4. t \in Seq(Msgs) /\ Len(t) = Len(e.staged) - n
  <2>1. \A i \in n + 1 .. Len(e.staged) : e.staged[i] \in Msgs
    BY <1>2
  <2>2. n + 1 \in Int /\ Len(e.staged) \in Int
    BY <1>2
  <2> HIDE DEF n
  <2>0. t = SubSeq(e.staged, n + 1, Len(e.staged))
    BY DEF n
  <2> HIDE DEF t
  <2>3. /\ t \in Seq(Msgs)
        /\ Len(t) = IF n + 1 <= Len(e.staged) THEN Len(e.staged) - (n + 1) + 1 ELSE 0
    BY <2>0, <2>1, <2>2, SubSeqProperties
  <2> QED BY <2>3, <1>2
<1>5. DOMAIN r.ids = 1 .. n
  BY <1>2
<1> HIDE DEF t, n
<1>6. /\ DOMAIN k.batches = DOMAIN e.batches \cup {r.batch}
      /\ k.batches[r.batch] = q
      /\ \A b \in DOMAIN e.batches : k.batches[b] = e.batches[b]
  BY <1>1 DEF Extended
<1>7. q.ids = r.ids /\ q.phase = 1
  OBVIOUS
<1> HIDE DEF q
<1>8. \A i, j \in DOMAIN r.ids : r.ids[i] = r.ids[j] => i = j
  BY <1>3, <1>5 DEF Sound, EvUnique
<1>9. IsFiniteSet(ToSet(r.ids)) /\ Cardinality(ToSet(r.ids)) = n
  BY <1>2, <1>8, ElementsCount DEF n
<1>10. BatchMessages(k) = BatchMessages(e) \cup ToSet(r.ids)
  BY <1>6, <1>7 DEF BatchMessages
<1>11. BatchMessages(e) \cap ToSet(r.ids) = {}
  <2>1. ToSet(r.ids) \subseteq ToSet(e.staged)
    BY <1>3, <1>5 DEF ToSet
  <2>2. \A b \in DOMAIN e.batches : ToSet(e.batches[b].ids) \cap ToSet(e.staged) = {}
    BY DEF Sound, EvUnique, ToSet
  <2> QED BY <2>1, <2>2 DEF BatchMessages
<1>12. /\ IsFiniteSet(BatchMessages(k))
       /\ Cardinality(BatchMessages(k)) = Cardinality(BatchMessages(e)) + n
  <2>1. IsFiniteSet(BatchMessages(e))
    BY DEF SizeOk
  <2>2. Cardinality(BatchMessages(e) \cap ToSet(r.ids)) = 0
    BY <1>11, FS_EmptySet
  <2>3. /\ IsFiniteSet(BatchMessages(k))
        /\ Cardinality(BatchMessages(k)) = Cardinality(BatchMessages(e)) + n - 0
    BY <1>9, <1>10, <2>1, <2>2, FS_Union
  <2>4. Cardinality(BatchMessages(e)) \in Nat
    BY CountsAre
  <2> QED BY <2>3, <2>4, <1>2
<1>13. /\ IsFiniteSet(DOMAIN k.batches)
       /\ Cardinality(DOMAIN k.batches) = Cardinality(DOMAIN e.batches) + 1
       /\ Cardinality(DOMAIN k.batches) <= Tracked
  <2>1. /\ IsFiniteSet(DOMAIN k.batches)
        /\ Cardinality(DOMAIN k.batches) = Cardinality(DOMAIN e.batches) + 1
    BY <1>6, FS_AddElement DEF SizeOk
  <2> QED BY <2>1, CountsAre
<1>14. k.bytes = Retained(k)
  <2>1. PICK s \in Nat, a \in Nat, b \in Nat, c \in Nat, d \in Nat :
          /\ a = Cardinality(DOMAIN e.batches) /\ b = Cardinality(BatchMessages(e))
          /\ c = Len(e.completed) /\ d = Cardinality(DOMAIN e.reports) /\ s = Len(e.staged)
    BY CountsAre
  <2>2. e.bytes = s + a + b + c + d
    BY <2>1 DEF SizeOk, Retained, Sound
  <2>3. Retained(k) = (s - n) + (a + 1) + (b + n) + c + d
    BY <2>1, <1>1, <1>4, <1>12, <1>13 DEF Retained
  <2> QED BY <2>2, <2>3, <1>1, <1>2
<1>15. Len(k.staged) <= Tracked /\ k.staged \in Seq(Msgs)
  <2>1. Len(e.staged) <= Tracked
    BY DEF SizeOk
  <2> QED BY <2>1, <1>1, <1>2, <1>4, CountsAre
<1>16. \A b \in DOMAIN k.batches :
         /\ k.batches[b].ids \in Seq(Msgs) /\ k.batches[b].phase \in Claimed .. Ended
         /\ \A i, j \in DOMAIN k.batches[b].ids : k.batches[b].ids[i] = k.batches[b].ids[j] => i = j
  <2>1. ASSUME NEW b \in DOMAIN e.batches
        PROVE  /\ k.batches[b].ids \in Seq(Msgs) /\ k.batches[b].phase \in Claimed .. Ended
               /\ \A i, j \in DOMAIN k.batches[b].ids :
                    k.batches[b].ids[i] = k.batches[b].ids[j] => i = j
    BY <2>1, <1>6 DEF SizeOk
  <2>2. /\ k.batches[r.batch].ids \in Seq(Msgs) /\ k.batches[r.batch].phase \in Claimed .. Ended
        /\ \A i, j \in DOMAIN k.batches[r.batch].ids :
             k.batches[r.batch].ids[i] = k.batches[r.batch].ids[j] => i = j
    BY <1>2, <1>6, <1>7, <1>8
  <2> QED BY <2>1, <2>2, <1>6
<1>17. SizeOk(k)
  BY <1>1, <1>12, <1>13, <1>14, <1>15, <1>16 DEF SizeOk
<1> QED BY <1>17 DEF k

\* A report that advances a batch, or completes it, gives back the bytes of what it
\* completes; the token it remembers is charged instead of the batch.
LEMMA AdvanceSize ==
  ASSUME NEW e, SizeOk(e), Sound(e), NEW r \in RepType, r.batch \in DOMAIN e.batches
  PROVE  SizeOk(Advance(e, r))
<1> USE DEF Claimed, Ended, InContext
<1> DEFINE d == r.batch
           bad == r.ids # e.batches[d].ids \/ r.phase # e.batches[d].phase + 1
<1>0. /\ e.batches[d].ids \in Seq(Msgs) /\ e.batches[d].phase \in 1 .. 3 /\ IsMap(e.batches)
      /\ e.batches[d] \in [ids: Seq(Msgs), phase: 1 .. 3] /\ d \in Nat
  BY DEF Sound, EvTyped, RepType
<1>1. CASE bad
  BY <1>1, FailSize DEF Advance
<1>2. CASE ~bad /\ r.phase # InContext
  <2> DEFINE f == [e.batches EXCEPT ![d].phase = r.phase]
             k == [e EXCEPT !.batches = f]
  <2>1. Advance(e, r) = k
    BY <1>2 DEF Advance
  <2>2. /\ DOMAIN f = DOMAIN e.batches
        /\ f[d].ids = e.batches[d].ids /\ f[d].phase = r.phase
        /\ \A b \in DOMAIN e.batches : b # d => f[b] = e.batches[b]
    BY <1>0
  <2>3. r.phase \in 1 .. 3
    BY <1>0, <1>2
  <2> HIDE DEF f
  <2>4. /\ k.staged = e.staged /\ k.batches = f /\ k.completed = e.completed
        /\ k.reports = e.reports /\ k.failed = e.failed /\ k.bytes = e.bytes /\ IsRecord(k)
    BY DEF SizeOk, IsRecord, EvidenceFields
  <2> HIDE DEF k
  <2>5. \A b \in DOMAIN f : f[b].ids = e.batches[b].ids
    BY <2>2
  <2>6. BatchMessages(k) = BatchMessages(e) /\ DOMAIN k.batches = DOMAIN e.batches
    BY <2>2, <2>4, <2>5 DEF BatchMessages
  <2>7. Retained(k) = Retained(e)
    BY <2>4, <2>6 DEF Retained
  <2>8. \A b \in DOMAIN k.batches :
          /\ k.batches[b].ids \in Seq(Msgs) /\ k.batches[b].phase \in Claimed .. Ended
          /\ \A i, j \in DOMAIN k.batches[b].ids : k.batches[b].ids[i] = k.batches[b].ids[j] => i = j
    BY <2>2, <2>3, <2>4, <2>5 DEF SizeOk
  <2>9. SizeOk(k)
    BY <2>4, <2>6, <2>7, <2>8 DEF SizeOk
  <2> QED BY <2>1, <2>9
<1>3. CASE ~bad /\ r.phase = InContext
  <2> DEFINE f == Without(e.batches, d)
             all == Append(e.completed, d)
             c == IF Len(all) > Tracked THEN Tail(all) ELSE all
             u == e.bytes - Len(r.ids) - (IF Len(all) > Tracked THEN 1 ELSE 0)
             k == Complete(e, r)
             s == e.batches[d].ids
  <2>1. Advance(e, r) = k
    BY <1>3 DEF Advance
  <2>2. /\ DOMAIN f = DOMAIN e.batches \ {d}
        /\ \A b \in DOMAIN f : f[b] = e.batches[b]
    BY DEF Without, Restrict
  <2>3. /\ k.staged = e.staged /\ k.batches = f /\ k.completed = c
        /\ k.reports = e.reports /\ k.failed = e.failed /\ k.bytes = u /\ IsRecord(k)
    <3>1. k = [e EXCEPT !.batches = f, !.completed = c, !.bytes = u]
      BY Zenon DEF Complete
    <3> HIDE DEF f, c, u, k
    <3> QED BY <3>1 DEF SizeOk, IsRecord, EvidenceFields
  <2> HIDE DEF f, k
  <2>4. all \in Seq(Nat) /\ Len(all) = Len(e.completed) + 1 /\ Len(e.completed) \in Nat
        /\ Len(e.completed) <= Tracked /\ Tracked \in Nat \ {0}
    <3>1. e.completed \in Seq(Nat) /\ Len(e.completed) <= Tracked
      BY DEF SizeOk
    <3> QED BY <3>1, <1>0, AppendIs, CountsAre
  <2> HIDE DEF all
  <2>5. \/ Len(all) > Tracked /\ c = Tail(all) /\ u = e.bytes - Len(r.ids) - 1
           /\ c \in Seq(Nat) /\ Len(c) = Len(e.completed)
        \/ ~(Len(all) > Tracked) /\ c = all /\ u = e.bytes - Len(r.ids) - 0
    <3>1. CASE Len(all) > Tracked
      <4>1. all # <<>>
        BY <2>4
      <4>2. Tail(all) \in Seq(Nat) /\ Len(Tail(all)) = Len(all) - 1
        BY <2>4, <4>1, HeadTailProperties
      <4> QED BY <3>1, <4>2, <2>4
    <3>2. CASE ~(Len(all) > Tracked)
      BY <3>2
    <3> QED BY <3>1, <3>2
  <2> HIDE DEF c, u
  <2>6. c \in Seq(Nat) /\ Len(c) <= Tracked
    BY <2>4, <2>5
  <2>7. BatchMessages(k) = BatchMessages(e) \ ToSet(s) /\ ToSet(s) \subseteq BatchMessages(e)
    <3>1. \A b \in DOMAIN e.batches : b # d => ToSet(e.batches[b].ids) \cap ToSet(s) = {}
      BY DEF Sound, EvUnique, ToSet
    <3> QED BY <2>2, <2>3, <3>1 DEF BatchMessages
  <2>8. IsFiniteSet(ToSet(s)) /\ Cardinality(ToSet(s)) = Len(s) /\ Len(s) \in Nat
    <3>1. \A i, j \in DOMAIN s : s[i] = s[j] => i = j
      BY DEF SizeOk
    <3> HIDE DEF s
    <3>2. s \in Seq(Msgs)
      BY <1>0 DEF s
    <3> QED BY <3>1, <3>2, ElementsCount
  <2>9. /\ IsFiniteSet(BatchMessages(k))
        /\ Cardinality(BatchMessages(k)) = Cardinality(BatchMessages(e)) - Len(s)
    <3>1. IsFiniteSet(BatchMessages(e)) /\ BatchMessages(e) \cap ToSet(s) = ToSet(s)
      BY <2>7 DEF SizeOk
    <3> HIDE DEF s
    <3>2. /\ IsFiniteSet(BatchMessages(e) \ ToSet(s))
          /\ Cardinality(BatchMessages(e) \ ToSet(s))
               = Cardinality(BatchMessages(e)) - Cardinality(BatchMessages(e) \cap ToSet(s))
      BY <3>1, FS_Difference
    <3> QED BY <3>1, <3>2, <2>7, <2>8
  <2>10. /\ IsFiniteSet(DOMAIN k.batches)
         /\ Cardinality(DOMAIN k.batches) = Cardinality(DOMAIN e.batches) - 1
         /\ Cardinality(DOMAIN k.batches) <= Tracked
    <3>1. /\ IsFiniteSet(DOMAIN k.batches)
          /\ Cardinality(DOMAIN k.batches) = Cardinality(DOMAIN e.batches) - 1
      <4>1. DOMAIN k.batches = DOMAIN e.batches \ {d} /\ d \in DOMAIN e.batches
        BY <2>2, <2>3
      <4>2. IsFiniteSet(DOMAIN e.batches)
        BY DEF SizeOk
      <4> HIDE DEF d
      <4> QED BY <4>1, <4>2, FS_RemoveElement
    <3>2. Cardinality(DOMAIN e.batches) <= Tracked
      BY DEF SizeOk
    <3> QED BY <3>1, <3>2, CountsAre
  <2>11. Len(r.ids) = Len(s)
    BY <1>3
  <2> HIDE DEF s
  <2>12. k.bytes = Retained(k)
    <3>1. PICK g \in Nat, a \in Nat, b \in Nat, h \in Nat, l \in Nat, n \in Nat :
            /\ a = Cardinality(DOMAIN e.batches) /\ b = Cardinality(BatchMessages(e))
            /\ h = Len(e.completed) /\ l = Cardinality(DOMAIN e.reports) /\ g = Len(e.staged)
            /\ n = Len(s)
      BY <2>8, CountsAre
    <3>2. e.bytes = g + a + b + h + l
      BY <3>1 DEF SizeOk, Retained, Sound
    <3>3. Retained(k) = g + (a - 1) + (b - n) + Len(c) + l
      BY <3>1, <2>3, <2>9, <2>10 DEF Retained
    <3>4. CASE Len(all) > Tracked
      <4>1. Len(c) = h /\ u = e.bytes - n - 1
        BY <3>1, <3>4, <2>5, <2>11
      <4> QED BY <3>2, <3>3, <4>1, <2>3
    <3>5. CASE ~(Len(all) > Tracked)
      <4>1. Len(c) = h + 1 /\ u = e.bytes - n - 0
        BY <3>1, <3>5, <2>4, <2>5, <2>11
      <4> QED BY <3>2, <3>3, <4>1, <2>3
    <3> QED BY <3>4, <3>5
  <2>13. \A b \in DOMAIN k.batches :
           /\ k.batches[b].ids \in Seq(Msgs) /\ k.batches[b].phase \in Claimed .. Ended
           /\ \A i, j \in DOMAIN k.batches[b].ids : k.batches[b].ids[i] = k.batches[b].ids[j] => i = j
    BY <2>2, <2>3 DEF SizeOk
  <2>14. SizeOk(k)
    BY <2>3, <2>6, <2>9, <2>10, <2>12, <2>13 DEF SizeOk
  <2> QED BY <2>1, <2>14
<1> QED BY <1>1, <1>2, <1>3

\* A report that is applied, or refused, keeps the limits and the bytes.
LEMMA ApplySize ==
  ASSUME NEW e, SizeOk(e), Sound(e), NEW r \in RepType
  PROVE  SizeOk(Apply(e, r))
BY AdvanceSize, ClaimSize DEF Apply

\* An evidence whose tables of messages are those of e, with other reports or bytes.
LEMMA ReportsSize ==
  ASSUME NEW e, SizeOk(e), ~e.failed, NEW k, IsRecord(k), NEW u \in {-1, 0, 1},
         k.staged = e.staged, k.batches = e.batches, k.completed = e.completed, k.failed = e.failed,
         k.bytes = e.bytes + u, IsFiniteSet(DOMAIN k.reports),
         Cardinality(DOMAIN k.reports) = Cardinality(DOMAIN e.reports) + u,
         Cardinality(DOMAIN k.reports) <= Tracked
  PROVE  SizeOk(k)
<1>1. BatchMessages(k) = BatchMessages(e)
  BY DEF BatchMessages
<1>2. PICK s \in Nat, a \in Nat, b \in Nat, c \in Nat, d \in Nat :
        /\ a = Cardinality(DOMAIN e.batches) /\ b = Cardinality(BatchMessages(e))
        /\ c = Len(e.completed) /\ d = Cardinality(DOMAIN e.reports) /\ s = Len(e.staged)
  BY CountsAre
<1>3. e.bytes = s + a + b + c + d
  BY <1>2 DEF SizeOk, Retained
<1>4. Retained(k) = s + a + b + c + (d + u)
  BY <1>1, <1>2 DEF Retained
<1>5. k.bytes = Retained(k)
  BY <1>3, <1>4
<1> QED BY <1>1, <1>5 DEF SizeOk

\* A report that is held back is charged one byte, and given it back in its turn.
LEMMA BufferSize ==
  ASSUME NEW e, SizeOk(e), ~e.failed, NEW n, NEW r, Admits(e, n)
  PROVE  SizeOk(Buffered(e, n, r))
<1> DEFINE k == Buffered(e, n, r)
           f == Extended(e.reports, n, r)
<1>1. /\ IsRecord(k) /\ k.staged = e.staged /\ k.batches = e.batches /\ k.completed = e.completed
      /\ k.failed = e.failed /\ k.reports = f /\ k.bytes = e.bytes + 1
  <2> HIDE DEF f
  <2>1. k = [e EXCEPT !.reports = f, !.bytes = e.bytes + 1]
    BY DEF f, Buffered
  <2> HIDE DEF k
  <2> QED BY <2>1 DEF SizeOk, IsRecord, EvidenceFields
<1> HIDE DEF k
<1>2. DOMAIN f = DOMAIN e.reports \cup {n} /\ n \notin DOMAIN e.reports
  BY DEF Extended, Admits
<1>3. /\ IsFiniteSet(DOMAIN k.reports)
      /\ Cardinality(DOMAIN k.reports) = Cardinality(DOMAIN e.reports) + 1
  BY <1>1, <1>2, FS_AddElement DEF SizeOk
<1>4. Cardinality(DOMAIN k.reports) <= Tracked
  <2>1. ~(Cardinality(DOMAIN e.reports) >= Tracked)
    BY DEF Admits
  <2>2. Cardinality(DOMAIN e.reports) \in Nat /\ Tracked \in Nat
    BY CountsAre
  <2> QED BY <2>1, <2>2, <1>3
<1>5. SizeOk(k)
  <2>1. 1 \in {-1, 0, 1}
    OBVIOUS
  <2> QED BY <2>1, <1>1, <1>3, <1>4, ReportsSize
<1> QED BY <1>5 DEF k

\* The next report is taken out, and applied.
LEMMA NextSize ==
  ASSUME NEW e0, NEW e, SizeOk(e), NEW obs \in [Msgs -> 0 .. InContext],
         NEW cred \in [Msgs -> 0 .. InContext], Folded(e0, e, obs, cred),
         NEW n \in DOMAIN e.reports, e.reports[n] \in RepType, n \in Nat
  PROVE  SizeOk(ApplyNext(e, n))
<1> DEFINE z == [e EXCEPT !.reports = Without(@, n), !.bytes = @ - 1]
           f == Without(e.reports, n)
           r == e.reports[n]
           a == Apply(z, r)
           w == [a EXCEPT !.nextReport = n]
<1>0. ~e.failed /\ EvTyped(e) /\ EvUnique(e)
  BY DEF Folded
<1>1. ApplyNext(e, n) = IF a.failed THEN a ELSE w
  BY <1>0, Zenon DEF ApplyNext
<1>2. /\ IsRecord(z) /\ z.staged = e.staged /\ z.batches = e.batches /\ z.completed = e.completed
      /\ z.failed = e.failed /\ z.reports = f /\ z.bytes = e.bytes - 1
      /\ z.nextReport = e.nextReport
  <2> HIDE DEF f
  <2>1. z = [e EXCEPT !.reports = f, !.bytes = e.bytes - 1]
    BY DEF f
  <2> HIDE DEF z
  <2> QED BY <2>1 DEF SizeOk, IsRecord, EvidenceFields
<1> HIDE DEF z
<1>3. DOMAIN f = DOMAIN e.reports \ {n} /\ IsMap(f)
  BY DEF Without, Restrict, IsMap
<1> HIDE DEF f, r
<1>4. /\ IsFiniteSet(DOMAIN z.reports)
      /\ Cardinality(DOMAIN z.reports) = Cardinality(DOMAIN e.reports) - 1
  <2> DEFINE D == DOMAIN e.reports
  <2>1. DOMAIN z.reports = D \ {n} /\ IsFiniteSet(D) /\ n \in D
    BY <1>2, <1>3 DEF SizeOk
  <2> HIDE DEF D
  <2>2. IsFiniteSet(D \ {n}) /\ Cardinality(D \ {n}) = Cardinality(D) - 1
    BY <2>1, FS_RemoveElement
  <2>3. IsFiniteSet(DOMAIN z.reports) /\ Cardinality(DOMAIN z.reports) = Cardinality(D) - 1
    BY <2>1, <2>2
  <2> QED BY <2>3 DEF D
<1>5. Cardinality(DOMAIN e.reports) \in Nat /\ Tracked \in Nat /\ e.bytes \in Nat
      /\ Cardinality(DOMAIN e.reports) <= Tracked
  BY <1>0, CountsAre DEF SizeOk
<1>6. SizeOk(z)
  <2>1. -1 \in {-1, 0, 1} /\ z.bytes = e.bytes + (-1)
        /\ Cardinality(DOMAIN z.reports) = Cardinality(DOMAIN e.reports) + (-1)
        /\ Cardinality(DOMAIN z.reports) <= Tracked
    BY <1>2, <1>4, <1>5
  <2> QED BY <2>1, <1>0, <1>2, <1>4, ReportsSize
<1>7. Sound(z)
  <2>1. EvTyped(z)
    BY <1>0, <1>2, <1>3, <1>4 DEF EvTyped
  <2>2. EvUnique(z)
    BY <1>0, <1>2 DEF EvUnique
  <2> QED BY <2>1, <2>2, <1>0, <1>2 DEF Sound
<1>8. SizeOk(a)
  <2>1. r \in RepType
    BY DEF r
  <2> QED BY <2>1, <1>6, <1>7, ApplySize
<1> HIDE DEF a
<1>9. /\ w.staged = a.staged /\ w.batches = a.batches /\ w.completed = a.completed
      /\ w.reports = a.reports /\ w.failed = a.failed /\ w.bytes = a.bytes /\ IsRecord(w)
  BY <1>8 DEF SizeOk, IsRecord, EvidenceFields
<1> HIDE DEF w
<1>10. SizeOk(w)
  <2>1. BatchMessages(w) = BatchMessages(a)
    BY <1>9 DEF BatchMessages
  <2>2. Retained(w) = Retained(a)
    BY <1>9, <2>1 DEF Retained
  <2> QED BY <1>8, <1>9, <2>1, <2>2 DEF SizeOk
<1> QED BY <1>1, <1>8, <1>10

\* A report keeps the limits and the bytes, whatever it lets through and whether or not
\* the registry refuses it.
LEMMA EnqueueSize ==
  ASSUME NEW e, NEW obs \in [Msgs -> 0 .. InContext], NEW cred \in [Msgs -> 0 .. InContext],
         NEW n \in Nat, NEW r, EvOk(e, obs, cred), RepOk(r, obs), SizeOk(e)
  PROVE  SizeOk(Enqueue(e, n, r))
<1>1. CASE ~Admits(e, n)
  BY <1>1, EnqueueIs, FailSize
<1>2. CASE Admits(e, n)
  <2>0. PICK c \in Nat : \E g : Runs(e, n, r, obs, cred, c, g)
    BY <1>2, EnqueueRuns
  <2>1. PICK g : Runs(e, n, r, obs, cred, c, g)
    BY <2>0
  <2>2. ~e.failed /\ e.nextReport \in Nat
    BY DEF EvOk, EvTyped
  <2> DEFINE N == {i \in Nat : i <= c => SizeOk(g[i])}
  <2>3. 0 \in N
    <3>1. g[0] = Buffered(e, n, r)
      BY <2>1 DEF Runs
    <3> QED BY <3>1, <1>2, <2>2, BufferSize
  <2>4. ASSUME NEW i \in Nat, i \in N PROVE i + 1 \in N
    <3> SUFFICES ASSUME i + 1 <= c PROVE SizeOk(g[i + 1])
      OBVIOUS
    <3>1. i <= c /\ i < c
      OBVIOUS
    <3> DEFINE t == e.nextReport + i + 1
    <3>2. SizeOk(g[i]) /\ g[i + 1] = ApplyNext(g[i], t) /\ t \in Nat
      BY <2>1, <2>2, <2>4, <3>1 DEF Runs
    <3>3. CASE g[i].failed
      <4>1. g[i + 1] = g[i]
        BY <3>2, <3>3 DEF ApplyNext
      <4> QED BY <3>2, <4>1
    <3>4. CASE ~g[i].failed
      <4>1. /\ Folded(e, g[i], obs, cred) /\ t \in DOMAIN g[i].reports
            /\ RepOk(g[i].reports[t], obs)
        BY <2>1, <3>1, <3>4 DEF Runs
      <4>2. g[i].reports[t] \in RepType
        BY <4>1 DEF RepOk
      <4> HIDE DEF t
      <4>3. SizeOk(ApplyNext(g[i], t))
        BY <3>2, <4>1, <4>2, NextSize
      <4> QED BY <3>2, <4>3
    <3> QED BY <3>3, <3>4
  <2> HIDE DEF N
  <2>5. \A i \in Nat : i \in N
    BY <2>3, <2>4, SetInduction
  <2>6. SizeOk(g[c])
    <3>1. c <= c
      OBVIOUS
    <3> QED BY <3>1, <2>5 DEF N
  <2>7. Enqueue(e, n, r) = g[c]
    BY <2>1 DEF Runs
  <2> QED BY <2>6, <2>7
<1> QED BY <1>1, <1>2

-----------------------------------------------------------------------------
\* The ranges and limits of the state, as an invariant.

RangeInv ==
  /\ bound \in [Owners -> {"absent", "bound", "removed", "retired"}]
  /\ conn \in [Owners -> {"down", "up", "canceled"}]
  /\ holder.kind \in {"none", "switch", "end"} /\ holder.owner \in 0 .. MaxOwners
  /\ holder.pc \in {"none", "describe", "refused", "described", "unmapped", "canceled"}

TableInv ==
  \A o \in Owners : /\ SizeOk(ev[o]) /\ Len(inbox[o]) <= Work
                    /\ Cardinality(DOMAIN batches[o]) <= QueueLimit

\* reportItems counts what is queued and what is awaited; a switch replaces a binding.
QueueInv ==
  /\ IsFiniteSet(calls) /\ Queued <= ReportLimit
  /\ \A c \in calls : c.kind = "switch" => c.owner > 1
  /\ \A i \in DOMAIN reports : reports[i].kind = "switch" => reports[i].owner > 1

MarksInv == UNION {described, admitted, ending, failed, ended} \subseteq Owners

SizeInv == RangeInv /\ TableInv /\ QueueInv /\ MarksInv

\* The limits are numbers.
LEMMA LimitsAre ==
  /\ MaxOwners \in Nat \ {0} /\ Work \in Nat \ {0} /\ QueueLimit \in Nat \ {0}
  /\ ReportLimit \in Nat \ {0}
BY DeliveryAssumption

\* A part of the calls, and how many are awaited, are finite.
LEMMA AwaitedIs ==
  ASSUME TypeInv, IsFiniteSet(calls)
  PROVE  IsFiniteSet(Awaited) /\ Cardinality(Awaited) \in Nat /\ Len(reports) \in Nat
<1>1. IsFiniteSet(Awaited)
  BY FS_Subset DEF Awaited
<1> QED BY <1>1, FS_CardinalityType DEF TypeInv

\* The queue and the calls after a step that adds to neither.
LEMMA QueueKept ==
  ASSUME TypeInv, QueueInv, TypeInv', IsFiniteSet(calls'),
         Cardinality(Awaited') <= Cardinality(Awaited), Len(reports') <= Len(reports),
         \A i \in DOMAIN reports' : \E j \in DOMAIN reports : reports'[i] = reports[j],
         \A d \in calls' : \E c \in calls : d.kind = c.kind /\ d.owner = c.owner
  PROVE  QueueInv'
<1>1. Cardinality(Awaited) \in Nat /\ Len(reports) \in Nat
  BY AwaitedIs DEF QueueInv
<1>2. Cardinality(Awaited') \in Nat /\ Len(reports') \in Nat
  <2>1. IsFiniteSet(Awaited')
    BY FS_Subset DEF Awaited
  <2> QED BY <2>1, FS_CardinalityType DEF TypeInv
<1>3. Queued' <= ReportLimit
  <2>1. Len(reports) + Cardinality(Awaited) <= ReportLimit
    BY DEF QueueInv, Queued
  <2>2. Len(reports') + Cardinality(Awaited') <= Len(reports) + Cardinality(Awaited)
    BY <1>1, <1>2
  <2>3. Len(reports') + Cardinality(Awaited') <= ReportLimit
    BY <1>1, <1>2, <2>1, <2>2, LimitsAre
  <2> QED BY <2>3 DEF Queued
<1> QED BY <1>3 DEF QueueInv

\* The queue after a step that leaves it.
LEMMA SameQueue ==
  ASSUME QueueInv, UNCHANGED <<calls, reports>>
  PROVE  QueueInv'
BY DEF QueueInv, Queued, Awaited

\* A reply leaves no more calls, and no more of them awaited.
LEMMA ReplySize ==
  ASSUME TypeInv, QueueInv, TypeInv', NEW c \in calls, NEW r \in {"ok", "error"}, Reply(c, r),
         reports' = reports
  PROVE  QueueInv'
<1> DEFINE d == [c EXCEPT !.reply = r]
<1>1. d.kind = c.kind /\ d.owner = c.owner /\ d.awaited = c.awaited
  BY DEF TypeInv, CallType
<1> HIDE DEF d
<1>2. \/ c.awaited /\ calls' = (calls \ {c}) \cup {d}
      \/ ~c.awaited /\ calls' = calls \ {c}
  <2>1. calls' = (calls \ {c}) \cup (IF c.awaited THEN {d} ELSE {})
    BY DEF Reply, d
  <2> QED BY <2>1
<1>3. /\ IsFiniteSet(calls \ {c}) /\ IsFiniteSet((calls \ {c}) \cup {d})
  BY FS_RemoveElement, FS_AddElement DEF QueueInv
<1>4. IsFiniteSet(calls')
  BY <1>2, <1>3
<1>5. Cardinality(Awaited') <= Cardinality(Awaited)
  <2>1. IsFiniteSet(Awaited) /\ Cardinality(Awaited) \in Nat
    BY AwaitedIs DEF QueueInv
  <2>2. CASE c.awaited
    <3>1. Awaited' = (Awaited \ {c}) \cup {d} /\ c \in Awaited
      BY <1>1, <1>2, <2>2 DEF Awaited
    <3>2. IsFiniteSet(Awaited \ {c}) /\ Cardinality(Awaited \ {c}) = Cardinality(Awaited) - 1
      BY <2>1, <3>1, FS_RemoveElement
    <3>3. Cardinality(Awaited') = IF d \in Awaited \ {c} THEN Cardinality(Awaited \ {c})
                                  ELSE Cardinality(Awaited \ {c}) + 1
      BY <3>1, <3>2, FS_AddElement
    <3> QED BY <2>1, <3>2, <3>3
  <2>3. CASE ~c.awaited
    <3>1. Awaited' = Awaited
      BY <1>2, <2>3 DEF Awaited
    <3> QED BY <2>1, <3>1
  <2> QED BY <2>2, <2>3
<1>6. \A e \in calls' : \E f \in calls : e.kind = f.kind /\ e.owner = f.owner
  BY <1>1, <1>2
<1>7. /\ Len(reports') <= Len(reports)
      /\ \A i \in DOMAIN reports' : \E j \in DOMAIN reports : reports'[i] = reports[j]
  BY DEF TypeInv
<1> QED BY <1>4, <1>5, <1>6, <1>7, QueueKept

\* The end reports are no more than the reports.
LEMMA EndReportsShort ==
  ASSUME NEW rs \in Seq(ItemType)
  PROVE  Len(EndReports(rs)) <= Len(rs)
<1> DEFINE S == {i \in DOMAIN rs : rs[i].kind = "end"}
           f == Ascending(S)
           n == Cardinality(S)
<1>1. Len(rs) \in Nat /\ S \in SUBSET (1 .. Len(rs))
  OBVIOUS
<1>2. EndReports(rs) = [i \in DOMAIN f |-> rs[f[i]]]
  BY DEF EndReports
<1> HIDE DEF S
<1>3. f \in [1 .. n -> S] /\ n \in Nat
  BY <1>1, AscendingIs
<1>4. n <= Len(rs)
  <2>1. IsFiniteSet(1 .. Len(rs)) /\ Cardinality(1 .. Len(rs)) = Len(rs)
    <3>1. 1 \in Int /\ Len(rs) \in Int
      BY <1>1
    <3>2. /\ IsFiniteSet(1 .. Len(rs))
          /\ Cardinality(1 .. Len(rs)) = IF 1 > Len(rs) THEN 0 ELSE Len(rs) - 1 + 1
      BY <3>1, FS_Interval
    <3> QED BY <1>1, <3>2
  <2>2. Cardinality(S) <= Cardinality(1 .. Len(rs))
    BY <1>1, <2>1, FS_Subset
  <2> QED BY <2>1, <2>2
<1> HIDE DEF f, n
<1>5. EndReports(rs) \in Seq(ItemType) /\ DOMAIN EndReports(rs) = 1 .. n
  BY <1>2, <1>3, EndReportsIs
<1>6. Len(EndReports(rs)) = n
  BY <1>3, <1>5
<1> QED BY <1>4, <1>6

\* A failure, or a removal, marks bindings that exist.
LEMMA FailMarks ==
  ASSUME MarksInv, NEW S, NEW E, S \subseteq Owners, E \subseteq Owners, FailAndEnd(S, E)
  PROVE  MarksInv'
BY DEF MarksInv, FailAndEnd, Abandoned

\* The first state is within the limits.
LEMMA InitSize == Init => SizeInv
<1> SUFFICES ASSUME Init PROVE SizeInv
  OBVIOUS
<1>0. 1 \in Owners /\ MaxOwners \in Nat /\ Owners = 1 .. MaxOwners
  BY LimitsAre DEF Owners
<1>1. RangeInv
  <2>1. holder.kind = "none" /\ holder.owner = 0 /\ holder.pc = "none" /\ 0 \in 0 .. MaxOwners
    BY <1>0 DEF Init, NoHolder
  <2> QED BY <2>1 DEF RangeInv, Init
<1>2. IsFiniteSet({}) /\ Cardinality({}) = 0 /\ DOMAIN <<>> = {} /\ Len(<<>>) = 0
  BY FS_EmptySet
<1>3. TableInv
  <2> SUFFICES ASSUME NEW o \in Owners
               PROVE  /\ SizeOk(ev[o]) /\ Len(inbox[o]) <= Work
                      /\ Cardinality(DOMAIN batches[o]) <= QueueLimit
    BY DEF TableInv
  <2>1. ev[o] = NoEvidence /\ inbox[o] = <<>> /\ batches[o] = <<>>
    BY DEF Init
  <2> QED BY <2>1, <1>2, NoEvidenceSize, LimitsAre
<1>4. QueueInv
  <2>1. calls = {} /\ reports = <<>>
    BY DEF Init
  <2>2. Awaited = {}
    BY <2>1 DEF Awaited
  <2>3. Queued <= ReportLimit
    BY <2>1, <2>2, <1>2, LimitsAre DEF Queued
  <2> QED BY <2>1, <2>3, <1>2 DEF QueueInv
<1>5. MarksInv
  BY <1>0 DEF MarksInv, Init
<1> QED BY <1>1, <1>3, <1>4, <1>5 DEF SizeInv

\* What a step of a public connection leaves alone.
LEMMA PublicLimits ==
  ASSUME TypeInv, SizeInv, NEW o \in Owners, UNCHANGED <<bound, holder, calls, extVars>>,
         UNCHANGED conn \/ \E s \in {"down", "up", "canceled"} : conn' = [conn EXCEPT ![o] = s],
         \A p \in Owners : p # o => ev'[p] = ev[p] /\ inbox'[p] = inbox[p],
         SizeOk(ev'[o]), Len(inbox'[o]) <= Work
  PROVE  SizeInv'
<1> USE DEF extVars, flags
<1>1. RangeInv'
  BY DEF SizeInv, RangeInv
<1>2. TableInv'
  BY DEF SizeInv, TableInv
<1>3. QueueInv'
  BY SameQueue DEF SizeInv
<1>4. MarksInv'
  BY DEF SizeInv, MarksInv
<1> QED BY <1>1, <1>2, <1>3, <1>4 DEF SizeInv

\* A public connection keeps the limits: a delivery needs a place in the inbox, and a
\* reservation one in the staged table.
LEMMA PublicSize ==
  ASSUME IInv, SizeInv, NEW o \in Owners, Public(o)
  PROVE  SizeInv'
<1>1. /\ TypeInv /\ inbox \in [Owners -> Seq(Msgs)] /\ inbox[o] \in Seq(Msgs) /\ IsMap(ev)
      /\ DOMAIN ev = Owners /\ SizeOk(ev[o]) /\ Len(inbox[o]) <= Work /\ Work \in Nat
      /\ 0 <= Work /\ Len(<<>>) = 0
  BY LimitsAre DEF IInv, TypeInv, SizeInv, TableInv
<1> USE DEF stageVars, histVars, goVars
<1>2. ASSUME NEW m \in Msgs, Deliver(o, m) PROVE SizeInv'
  <2>1. UNCHANGED <<bound, holder, ev, calls, extVars>>
    BY <1>2 DEF Deliver
  <2>2. \/ /\ Len(inbox[o]) < Work /\ inbox' = [inbox EXCEPT ![o] = Append(@, m)] /\ UNCHANGED conn
        \/ UNCHANGED inbox /\ conn' = [conn EXCEPT ![o] = "canceled"]
    BY <1>2 DEF Deliver
  <2>3. Len(Append(inbox[o], m)) = Len(inbox[o]) + 1 /\ Len(inbox[o]) \in Nat
    BY <1>1, AppendIs
  <2>4. /\ Len(inbox'[o]) <= Work
        /\ \A p \in Owners : p # o => inbox'[p] = inbox[p]
    BY <1>1, <2>2, <2>3
  <2> QED BY <1>1, <2>1, <2>2, <2>4, PublicLimits
<1>3. CASE StageAdmit(o)
  <2> DEFINE m == Head(inbox[o])
  <2>1. UNCHANGED <<bound, holder, calls, extVars, conn>> /\ Healthy /\ inbox[o] # <<>>
        /\ inbox' = [inbox EXCEPT ![o] = Tail(@)]
    BY <1>3 DEF StageAdmit, StageTake
  <2>2. UNCHANGED ev \/ (CanReserve(ev[o], m) /\ ev' = [ev EXCEPT ![o] = Reserve(@, m)])
    BY <1>3 DEF StageAdmit, StageTake
  <2>3. m \in Msgs /\ Len(Tail(inbox[o])) = Len(inbox[o]) - 1 /\ Len(inbox[o]) \in Nat
    BY <1>1, <2>1, TailIs
  <2>4. ~ev[o].failed
    BY <2>1 DEF IInv, EvidenceInv, EvOk
  <2> HIDE DEF m
  <2>5. /\ SizeOk(ev'[o]) /\ \A p \in Owners : p # o => ev'[p] = ev[p]
    <3>1. CASE UNCHANGED ev
      BY <1>1, <3>1
    <3>2. CASE CanReserve(ev[o], m) /\ ev' = [ev EXCEPT ![o] = Reserve(@, m)]
      <4>1. SizeOk(Reserve(ev[o], m))
        BY <1>1, <2>3, <2>4, <3>2, ReserveSize
      <4>2. ev'[o] = Reserve(ev[o], m) /\ \A p \in Owners : p # o => ev'[p] = ev[p]
        BY <1>1, <3>2
      <4> QED BY <4>1, <4>2
    <3> QED BY <2>2, <3>1, <3>2
  <2>6. Len(inbox'[o]) <= Work /\ \A p \in Owners : p # o => inbox'[p] = inbox[p]
    BY <1>1, <2>1, <2>3
  <2> QED BY <1>1, <2>1, <2>5, <2>6, PublicLimits
<1>4. CASE StageReturn(o)
  <2>1. UNCHANGED <<bound, holder, calls, extVars, conn, inbox>>
    BY <1>4 DEF StageReturn
  <2>2. UNCHANGED ev \/ ev' = [ev EXCEPT ![o] = Withdraw(ev[o], loop[o])]
    <3>1. \/ stageRsp[o] = "error"
          \/ stageRsp[o] # "error" /\ bound[o] # "bound"
          \/ stageRsp[o] = "queue_full" /\ bound[o] = "bound"
          \/ stageRsp[o] = "queued" /\ bound[o] = "bound"
      BY <1>4 DEF StageReturn, IInv, TypeInv
    <3> QED BY <1>4, <3>1 DEF StageReturn
  <2>3. SizeOk(Withdraw(ev[o], loop[o]))
    BY <1>1, WithdrawSize
  <2>4. SizeOk(ev'[o]) /\ \A p \in Owners : p # o => ev'[p] = ev[p]
    BY <1>1, <2>2, <2>3
  <2> QED BY <1>1, <2>1, <2>4, PublicLimits
<1>5. CASE StageCanceled(o) \/ ConnectionDone(o) \/ Connect(o)
  <2>1. UNCHANGED <<bound, holder, ev, calls, extVars, inbox>>
    BY <1>5 DEF StageCanceled, StageLost, ConnectionDone, Connect
  <2>2. UNCHANGED conn \/ \E s \in {"down", "up", "canceled"} : conn' = [conn EXCEPT ![o] = s]
    BY <1>5 DEF StageCanceled, StageLost, ConnectionDone, Connect
  <2> QED BY <1>1, <2>1, <2>2, PublicLimits
<1>6. CASE AttemptJoined(o)
  <2>1. UNCHANGED <<bound, holder, ev, calls, extVars>> /\ conn' = [conn EXCEPT ![o] = "down"]
        /\ inbox' = [inbox EXCEPT ![o] = <<>>]
    BY <1>6 DEF AttemptJoined
  <2>2. Len(inbox'[o]) <= Work /\ \A p \in Owners : p # o => inbox'[p] = inbox[p]
    BY <1>1, <2>1
  <2> QED BY <1>1, <2>1, <2>2, PublicLimits
<1> QED BY <1>2, <1>3, <1>4, <1>5, <1>6 DEF Public

\* What a step of the registry leaves alone.
LEMMA RegistryLimits ==
  ASSUME TypeInv, SizeInv, UNCHANGED <<inbox, batches, flags>>,
         bound' \in [Owners -> {"absent", "bound", "removed", "retired"}],
         conn' \in [Owners -> {"down", "up", "canceled"}],
         holder'.kind \in {"none", "switch", "end"}, holder'.owner \in 0 .. MaxOwners,
         holder'.pc \in {"none", "describe", "refused", "described", "unmapped", "canceled"},
         \A p \in Owners : ev'[p] = ev[p] \/ SizeOk(ev'[p]), QueueInv'
  PROVE  SizeInv'
<1> USE DEF flags
<1>1. RangeInv'
  BY DEF SizeInv, RangeInv
<1>2. TableInv'
  BY DEF SizeInv, TableInv
<1>3. MarksInv'
  BY DEF SizeInv, MarksInv
<1> QED BY <1>1, <1>2, <1>3 DEF SizeInv

\* A holder moves on, or is done.
LEMMA HolderRange ==
  ASSUME RangeInv, HolderInv,
         \/ UNCHANGED holder
         \/ \E pc \in {"refused", "described", "unmapped", "canceled"} : Hold(pc)
         \/ holder' = NoHolder
  PROVE  /\ holder'.kind \in {"none", "switch", "end"} /\ holder'.owner \in 0 .. MaxOwners
         /\ holder'.pc \in {"none", "describe", "refused", "described", "unmapped", "canceled"}
<1>0. 0 \in 0 .. MaxOwners
  BY LimitsAre
<1>1. CASE UNCHANGED holder
  BY <1>1 DEF RangeInv
<1>2. CASE \E pc \in {"refused", "described", "unmapped", "canceled"} : Hold(pc)
  BY <1>2 DEF RangeInv, HolderInv, IsHolder, HolderFields, Hold
<1>3. CASE holder' = NoHolder
  <2>1. holder'.kind = "none" /\ holder'.owner = 0 /\ holder'.pc = "none"
    BY <1>3 DEF NoHolder
  <2> QED BY <2>1, <1>0
<1> QED BY <1>1, <1>2, <1>3

\* The binding that a lifecycle request removes exists.
LEMMA RemovingIs ==
  ASSUME TypeInv, HolderInv, QueueInv, holder.pc # "none"
  PROVE  /\ Serving \in calls /\ Removing \in Owners /\ holder.owner \in Owners
<1>1. /\ Serving \in calls /\ Serving.kind = holder.kind /\ Serving.owner = holder.owner
  BY ServingIs
<1>2. Serving \in CallType /\ holder.owner \in Owners
  BY <1>1 DEF TypeInv, CallType
<1>3. holder.kind = "switch" => holder.owner > 1
  BY <1>1 DEF QueueInv
<1>4. Removing \in Owners
  <2>1. PICK w \in Nat \ {0} : w = MaxOwners
    BY LimitsAre
  <2>2. holder.owner \in 1 .. w
    BY <1>2, <2>1 DEF Owners
  <2>3. holder.kind = "switch" => holder.owner - 1 \in 1 .. w
    BY <1>3, <2>2
  <2> QED BY <2>1, <2>2, <2>3 DEF Removing, Owners
<1> QED BY <1>1, <1>2, <1>4

\* The handlers of the registry keep the limits: what is unanswered stays counted, and a
\* report that is admitted is charged for.
LEMMA RegistrySize ==
  ASSUME IInv, IInv', SizeInv, Registry
  PROVE  SizeInv'
<1>1. /\ TypeInv /\ HolderInv /\ PendingInv /\ EvidenceInv /\ RangeInv /\ TableInv /\ QueueInv
      /\ MarksInv /\ TypeInv' /\ IsMap(ev) /\ DOMAIN ev = Owners /\ calls \subseteq CallType
      /\ bound \in [Owners -> {"absent", "bound", "removed", "retired"}]
      /\ conn \in [Owners -> {"down", "up", "canceled"}]
      /\ \A p \in Owners : SizeOk(ev[p])
  BY DEF IInv, SizeInv, TypeInv, RangeInv, TableInv
<1>2. UNCHANGED <<inbox, batches, reports, observed>>
  BY RegistryFrame
<1>3. UNCHANGED flags
  BY DEF Registry, HandleReport, CancelOrphan, BeginLifecycle, SwitchUnmap, DescribeFailed,
         PublicCancel, PublicJoin, extVars, flags
<1> DEFINE Ranges == /\ bound' \in [Owners -> {"absent", "bound", "removed", "retired"}]
                     /\ conn' \in [Owners -> {"down", "up", "canceled"}]
                     /\ holder'.kind \in {"none", "switch", "end"} /\ holder'.owner \in 0 .. MaxOwners
                     /\ holder'.pc \in {"none", "describe", "refused", "described", "unmapped", "canceled"}
           Sized == \A p \in Owners : ev'[p] = ev[p] \/ SizeOk(ev'[p])
<1>4. Ranges /\ Sized /\ QueueInv' => SizeInv'
  BY <1>1, <1>2, <1>3, RegistryLimits
<1>5. UNCHANGED calls => QueueInv'
  BY <1>1, <1>2, SameQueue
<1>6. ASSUME NEW c \in calls, NEW r \in {"ok", "error"}, Reply(c, r) PROVE QueueInv'
  BY <1>1, <1>2, <1>6, ReplySize
<1>7. UNCHANGED <<bound, conn, holder>> => Ranges
  BY <1>1 DEF RangeInv
<1>8. UNCHANGED ev => Sized
  OBVIOUS
<1>9. ASSUME NEW c \in calls, HandleReport(c) PROVE SizeInv'
  <2> DEFINE o == c.owner
             after == Enqueue(ev[o], c.seq, c.rep)
  <2>1. UNCHANGED <<bound, conn, holder>> /\ c.kind = "observe"
    BY <1>9 DEF HandleReport, publicVars
  <2>2. \/ Reply(c, "error") /\ UNCHANGED ev
        \/ /\ Healthy /\ ev' = [ev EXCEPT ![o] = after]
           /\ Reply(c, "error") \/ Reply(c, "ok")
    BY <1>9 DEF HandleReport
  <2>3. Healthy => SizeOk(after)
    <3> SUFFICES ASSUME Healthy PROVE SizeOk(after)
      OBVIOUS
    <3>1. c \in CallType /\ o \in Owners /\ c.seq \in Nat
      BY <1>1 DEF CallType
    <3>2. EvOk(ev[o], observed, credited) /\ SizeOk(ev[o])
      BY <1>1, <3>1 DEF EvidenceInv
    <3>3. RepOk(c.rep, observed)
      BY <1>1, <2>1 DEF PendingInv
    <3>4. observed \in [Msgs -> 0 .. InContext] /\ credited \in [Msgs -> 0 .. InContext]
      BY <1>1 DEF TypeInv
    <3> HIDE DEF o
    <3> QED BY <3>1, <3>2, <3>3, <3>4, EnqueueSize
  <2> HIDE DEF after
  <2>4. Sized
    BY <1>1, <2>2, <2>3
  <2>5. QueueInv'
    BY <2>2, <1>6
  <2> HIDE DEF Sized, Ranges
  <2> QED BY <1>4, <1>7, <2>1, <2>4, <2>5
<1> HIDE DEF Ranges, Sized
<1>10. ASSUME NEW c \in calls, CancelOrphan(c) PROVE SizeInv'
  <2>1. UNCHANGED <<bound, conn, holder, ev>> /\ calls' = calls \ {c} /\ ~c.awaited
    BY <1>10 DEF CancelOrphan, goVars, publicVars
  <2>2. Awaited' = Awaited /\ IsFiniteSet(calls')
    BY <1>1, <2>1, FS_RemoveElement DEF Awaited, QueueInv
  <2>3. QueueInv'
    BY <1>1, <1>2, <2>1, <2>2 DEF QueueInv, Queued
  <2> QED BY <1>4, <1>7, <1>8, <2>1, <2>3
<1>11. ASSUME NEW c \in calls, BeginLifecycle(c) PROVE SizeInv'
  <2> DEFINE o == IF c.kind = "switch" THEN c.owner - 1 ELSE c.owner
             pc == IF c.kind = "switch" THEN "describe" ELSE "unmapped"
  <2>1. UNCHANGED <<conn, ev>> /\ c.kind \in {"switch", "end"}
    BY <1>11 DEF BeginLifecycle
  <2>2. \/ Reply(c, "error") /\ UNCHANGED <<holder, bound>>
        \/ /\ holder' = [kind |-> c.kind, owner |-> c.owner, pc |-> pc]
           /\ UNCHANGED bound \/ Unmap(o)
           /\ UNCHANGED calls
    BY <1>11 DEF BeginLifecycle
  <2>3. CASE Reply(c, "error") /\ UNCHANGED <<holder, bound>>
    BY <1>4, <1>6, <1>7, <1>8, <2>1, <2>3
  <2>4. CASE /\ holder' = [kind |-> c.kind, owner |-> c.owner, pc |-> pc]
             /\ UNCHANGED bound \/ Unmap(o)
             /\ UNCHANGED calls
    <3>1. holder'.kind = c.kind /\ holder'.owner = c.owner /\ holder'.pc \in {"describe", "unmapped"}
      BY <2>4
    <3>2. c.owner \in 1 .. MaxOwners
      BY <1>1 DEF CallType, Owners
    <3>3. c.owner \in 0 .. MaxOwners
      BY <3>2, LimitsAre
    <3> HIDE DEF o, pc
    <3>4. Ranges
      BY <1>1, <2>1, <2>4, <3>1, <3>3 DEF Ranges, Unmap
    <3> QED BY <1>4, <1>5, <1>8, <2>1, <2>4, <3>4
  <2> QED BY <2>2, <2>3, <2>4
<1>12. ASSUME holder.pc # "none", NEW r \in {"ok", "error"}, Finish(r) PROVE QueueInv'
  <2>1. Serving \in calls /\ Reply(Serving, r)
    BY <1>1, <1>12, RemovingIs DEF Finish
  <2> QED BY <2>1, <1>6
<1>13. CASE SwitchUnmap
  <2>1. UNCHANGED <<conn, ev>> /\ holder.pc # "none"
        /\ \/ Hold("unmapped") /\ Unmap(Removing) /\ UNCHANGED calls
           \/ Finish("error") /\ UNCHANGED bound
    BY <1>13 DEF SwitchUnmap
  <2>2. Ranges
    BY <1>1, <2>1, HolderRange DEF Ranges, Unmap, Finish
  <2>3. QueueInv'
    BY <2>1, <1>5, <1>12
  <2> QED BY <1>4, <1>8, <2>1, <2>2, <2>3
<1>14. CASE DescribeFailed
  <2>1. UNCHANGED <<bound, conn, ev>> /\ holder.pc # "none" /\ Finish("error")
    BY <1>14 DEF DescribeFailed
  <2>2. Ranges
    BY <1>1, <2>1, HolderRange DEF Ranges, Finish
  <2>3. QueueInv'
    BY <2>1, <1>12
  <2> QED BY <1>4, <1>8, <2>1, <2>2, <2>3
<1>15. CASE PublicCancel
  <2>1. UNCHANGED <<bound, calls, ev>> /\ Hold("canceled") /\ holder.pc # "none"
        /\ conn' = [conn EXCEPT ![Removing] = IF @ = "up" THEN "canceled" ELSE @]
    BY <1>15 DEF PublicCancel
  <2>2. Removing \in Owners
    BY <1>1, <2>1, RemovingIs
  <2>3. Ranges
    BY <1>1, <2>1, <2>2, HolderRange DEF Ranges
  <2> QED BY <1>4, <1>5, <1>8, <2>1, <2>3
<1>16. CASE PublicJoin
  <2>1. /\ UNCHANGED conn /\ holder.pc # "none" /\ ev' = [ev EXCEPT ![Removing] = NoEvidence]
        /\ Finish("ok") \/ Finish("error")
        /\ \/ bound' = [bound EXCEPT ![Removing] = "retired"]
           \/ bound' = [bound EXCEPT ![Removing] = "retired", ![holder.owner] = "bound"]
    BY <1>16 DEF PublicJoin
  <2>2. Removing \in Owners /\ holder.owner \in Owners
    BY <1>1, <2>1, RemovingIs
  <2>3. Ranges
    BY <1>1, <2>1, <2>2, HolderRange DEF Ranges, Finish
  <2>4. Sized
    BY <1>1, <2>1, <2>2, NoEvidenceSize DEF Sized
  <2>5. QueueInv'
    BY <2>1, <1>12
  <2> QED BY <1>4, <2>3, <2>4, <2>5
<1> QED BY <1>9, <1>10, <1>11, <1>13, <1>14, <1>15, <1>16 DEF Registry

\* What a step of the extension leaves alone; batches only lose messages.
LEMMA ExtensionLimits ==
  ASSUME IInv, SizeInv, UNCHANGED <<ev, inbox, bound, conn>>,
         \/ UNCHANGED holder
         \/ \E pc \in {"refused", "described", "unmapped", "canceled"} : Hold(pc),
         \A p \in Owners : DOMAIN batches'[p] \subseteq DOMAIN batches[p], QueueInv', MarksInv'
  PROVE  SizeInv'
<1>1. RangeInv'
  <2>1. RangeInv /\ HolderInv
    BY DEF SizeInv, IInv
  <2>2. /\ holder'.kind \in {"none", "switch", "end"} /\ holder'.owner \in 0 .. MaxOwners
        /\ holder'.pc \in {"none", "describe", "refused", "described", "unmapped", "canceled"}
    BY <2>1, HolderRange
  <2> QED BY <2>1, <2>2 DEF RangeInv
<1>2. TableInv'
  <2> SUFFICES ASSUME NEW p \in Owners PROVE Cardinality(DOMAIN batches'[p]) <= QueueLimit
    BY DEF SizeInv, TableInv
  <2>1. /\ DOMAIN batches[p] \subseteq 1 .. Len(submitted[p]) /\ Len(submitted[p]) \in Nat
        /\ Cardinality(DOMAIN batches[p]) <= QueueLimit
    BY DEF IInv, BatchInv, BatchOk, TypeInv, SizeInv, TableInv
  <2>2. IsFiniteSet(DOMAIN batches[p]) /\ Cardinality(DOMAIN batches[p]) \in Nat
    BY <2>1, BoundedFinite
  <2>3. Cardinality(DOMAIN batches'[p]) <= Cardinality(DOMAIN batches[p])
        /\ IsFiniteSet(DOMAIN batches'[p])
    BY <2>2, FS_Subset
  <2>4. Cardinality(DOMAIN batches'[p]) \in Nat
    BY <2>3, FS_CardinalityType
  <2> QED BY <2>1, <2>2, <2>3, <2>4, LimitsAre
<1> QED BY <1>1, <1>2 DEF SizeInv

\* What native only discards, or carries on, it does not hold twice.
LEMMA NoMoreBatches ==
  ASSUME TypeInv, Settled \/ (\E done : Carries(done))
  PROVE  \A p \in Owners : DOMAIN batches'[p] \subseteq DOMAIN batches[p]
<1>1. CASE Settled
  BY <1>1 DEF Settled, Keeps
<1>2. CASE \E done : Carries(done)
  BY <1>2 DEF Carries
<1> QED BY <1>1, <1>2

\* Reports that fit are queued.
LEMMA ReportSize ==
  ASSUME TypeInv, QueueInv, NEW o \in Owners, NEW n \in Nat, NEW T, NEW rs \in Seq(T), Len(rs) = n,
         Report(o, rs), Fits(n), UNCHANGED calls
  PROVE  QueueInv'
<1> DEFINE s == [i \in 1 .. Len(rs) |-> Item("observe", o, rseq[o] + i, rs[i])]
           U == ItemType \cup {s[i] : i \in 1 .. n}
<1>1. /\ \A i \in 1 .. n : s[i].kind = "observe" /\ s[i] \in U
      /\ s = [i \in 1 .. n |-> s[i]] /\ DOMAIN s = 1 .. n
  BY DEF Item
<1>2. reports' = reports \o s
  BY DEF Report
<1>3. ItemType \subseteq U
  OBVIOUS
<1> HIDE DEF s, U
<1>4. s \in Seq(U)
  BY <1>1, IsASeq
<1>5. Len(s) = n
  BY <1>1, <1>4
<1>6. reports \in Seq(ItemType) /\ reports \in Seq(U) /\ Len(reports) \in Nat
  <2>1. reports \in Seq(ItemType)
    BY DEF TypeInv
  <2>2. \A i \in 1 .. Len(reports) : reports[i] \in U
    BY <2>1, <1>3
  <2>3. reports = [i \in 1 .. Len(reports) |-> reports[i]] /\ Len(reports) \in Nat
    BY <2>1
  <2>4. reports \in Seq(U)
    BY <2>2, <2>3, IsASeq
  <2> QED BY <2>1, <2>3, <2>4
<1>7. /\ reports' \in Seq(U) /\ Len(reports') = Len(reports) + n
      /\ \A i \in 1 .. Len(reports) + n :
           reports'[i] = IF i <= Len(reports) THEN reports[i] ELSE s[i - Len(reports)]
  BY <1>2, <1>4, <1>5, <1>6, ConcatProperties
<1>8. ASSUME NEW i \in DOMAIN reports', reports'[i].kind = "switch" PROVE reports'[i].owner > 1
  <2>0. i \in 1 .. Len(reports) + n
    BY <1>7, <1>6
  <2>1. CASE i <= Len(reports)
    <3>1. i \in DOMAIN reports /\ reports'[i] = reports[i]
      BY <2>0, <2>1, <1>6, <1>7
    <3> QED BY <3>1, <1>8 DEF QueueInv
  <2>2. CASE ~(i <= Len(reports))
    <3>1. i - Len(reports) \in 1 .. n
      BY <2>0, <2>2, <1>6
    <3>2. reports'[i] = s[i - Len(reports)]
      BY <2>0, <2>2, <1>7
    <3>3. reports'[i].kind = "observe"
      BY <3>1, <3>2, <1>1
    <3> QED BY <3>3, <1>8
  <2> QED BY <2>1, <2>2
<1>9. Queued' <= ReportLimit
  <2>1. Awaited' = Awaited /\ Cardinality(Awaited) \in Nat
    BY AwaitedIs DEF Awaited, QueueInv
  <2>2. Len(reports) + Cardinality(Awaited) + n <= ReportLimit
    BY DEF Fits, Queued
  <2>3. Len(reports') + Cardinality(Awaited) <= ReportLimit
    BY <2>1, <2>2, <1>6, <1>7, LimitsAre
  <2> QED BY <2>1, <2>3 DEF Queued
<1> QED BY <1>8, <1>9 DEF QueueInv

\* A lifecycle report that fits is queued.
LEMMA LifecycleSize ==
  ASSUME TypeInv, QueueInv, NEW x, reports' = Append(reports, x), Fits(1), UNCHANGED calls,
         x.kind = "switch" => x.owner > 1
  PROVE  QueueInv'
<1> DEFINE U == ItemType \cup {x}
<1>1. reports \in Seq(ItemType) /\ reports \in Seq(U) /\ Len(reports) \in Nat /\ x \in U
  <2>1. reports \in Seq(ItemType)
    BY DEF TypeInv
  <2>2. \A i \in 1 .. Len(reports) : reports[i] \in U
    BY <2>1
  <2>3. reports = [i \in 1 .. Len(reports) |-> reports[i]] /\ Len(reports) \in Nat
    BY <2>1
  <2> HIDE DEF U
  <2>4. reports \in Seq(U)
    BY <2>2, <2>3, IsASeq
  <2> QED BY <2>1, <2>3, <2>4 DEF U
<1> HIDE DEF U
<1>2. /\ Len(reports') = Len(reports) + 1 /\ DOMAIN reports' = 1 .. Len(reports) + 1
      /\ DOMAIN reports = 1 .. Len(reports)
      /\ \A i \in DOMAIN reports : reports'[i] = reports[i]
      /\ reports'[Len(reports) + 1] = x
  BY <1>1, AppendIs
<1>3. \A i \in 1 .. Len(reports) + 1 : i \in 1 .. Len(reports) \/ i = Len(reports) + 1
  <2>1. PICK n \in Nat : n = Len(reports)
    BY <1>1
  <2>2. \A i \in 1 .. n + 1 : i \in 1 .. n \/ i = n + 1
    OBVIOUS
  <2> QED BY <2>1, <2>2
<1>4. \A i \in DOMAIN reports' : reports'[i].kind = "switch" => reports'[i].owner > 1
  BY <1>2, <1>3 DEF QueueInv
<1>5. Queued' <= ReportLimit
  <2>1. Awaited' = Awaited /\ Cardinality(Awaited) \in Nat
    BY AwaitedIs DEF Awaited, QueueInv
  <2>2. Len(reports) + Cardinality(Awaited) + 1 <= ReportLimit
    BY DEF Fits, Queued
  <2>3. Len(reports') + Cardinality(Awaited) <= ReportLimit
    BY <2>1, <2>2, <1>1, <1>2, LimitsAre
  <2> QED BY <2>1, <2>3 DEF Queued
<1> QED BY <1>4, <1>5 DEF QueueInv

\* A failure of the worker shortens the queue.
LEMMA WorkerFailedSize ==
  ASSUME TypeInv, QueueInv, MarksInv, TypeInv', NEW rest \in Seq(ItemType), NEW r, r.owner \in Owners,
         WorkerFailed(r, rest), Len(rest) <= Len(reports),
         \A i \in DOMAIN rest : \E j \in DOMAIN reports : rest[i] = reports[j],
         IsFiniteSet(calls'), Cardinality(Awaited') <= Cardinality(Awaited),
         \A d \in calls' : \E c \in calls : d.kind = c.kind /\ d.owner = c.owner
  PROVE  QueueInv' /\ MarksInv'
<1>1. QueueInv'
  <2>1. \A i \in DOMAIN reports' : \E j \in DOMAIN reports : reports'[i] = reports[j]
    BY WorkerFailedIs
  <2>2. reports' = EndReports(rest)
    BY DEF WorkerFailed
  <2>3. Len(reports') <= Len(rest)
    BY <2>2, EndReportsShort
  <2>4. Len(reports') \in Nat /\ Len(rest) \in Nat /\ Len(reports) \in Nat
    <3>1. reports \in Seq(ItemType) /\ reports' \in Seq(ItemType)
      BY DEF TypeInv
    <3> QED BY <3>1
  <2>5. Len(reports') <= Len(reports)
    BY <2>3, <2>4
  <2> QED BY <2>1, <2>5, QueueKept
<1>2. MarksInv'
  <2> DEFINE S == {r.owner, current}
             E == IF r.kind = "end" THEN {r.owner} ELSE {}
  <2>1. FailAndEnd(S, E)
    BY DEF WorkerFailed
  <2>2. S \subseteq Owners /\ E \subseteq Owners
    BY DEF TypeInv
  <2> HIDE DEF S, E
  <2> QED BY <2>1, <2>2, FailMarks
<1> QED BY <1>1, <1>2

\* A failure of native's session leaves the queue and marks a binding that exists.
LEMMA FailSizes ==
  ASSUME TypeInv, QueueInv, MarksInv, NEW o \in Owners, FailState({o}), UNCHANGED <<reports, calls>>
  PROVE  QueueInv' /\ MarksInv'
<1>1. QueueInv'
  BY SameQueue
<1>2. MarksInv'
  <2>1. {o} \subseteq Owners /\ {} \subseteq Owners
    OBVIOUS
  <2>2. FailAndEnd({o}, {})
    BY DEF FailState
  <2> QED BY <2>1, <2>2, FailMarks
<1> QED BY <1>1, <1>2

\* The description handler of native.
LEMMA DescribeSize ==
  ASSUME IInv, SizeInv, NativeDescribe
  PROVE  SizeInv'
<1>1. TypeInv /\ HolderInv /\ QueueInv /\ MarksInv
  BY DEF IInv, SizeInv
<1>2. /\ UNCHANGED <<bound, ev, conn, inbox, calls, reports>> /\ holder.pc # "none"
      /\ \E pc \in {"refused", "described", "unmapped", "canceled"} : Hold(pc)
      /\ \/ UNCHANGED flags
         \/ FailState({holder.owner})
         \/ described' = described \cup {holder.owner} /\ UNCHANGED <<admitted, ending, failed, ended>>
  BY DEF NativeDescribe
<1>3. holder.owner \in Owners
  BY <1>1, <1>2, RemovingIs
<1>4. QueueInv'
  BY <1>1, <1>2, SameQueue
<1>5. MarksInv'
  BY <1>1, <1>2, <1>3, FailSizes DEF MarksInv, flags
<1>6. \A p \in Owners : DOMAIN batches'[p] \subseteq DOMAIN batches[p]
  BY <1>1, DescribeIs, NoMoreBatches
<1> QED BY <1>2, <1>4, <1>5, <1>6, ExtensionLimits

\* The stage handler: a message is claimed only below the limit of queued deliveries, and
\* only if its report fits.
LEMMA StageSize ==
  ASSUME IInv, SizeInv, NEW o \in Owners, NativeStage(o)
  PROVE  SizeInv'
<1>1. TypeInv /\ HolderInv /\ QueueInv /\ MarksInv /\ RangeInv /\ TableInv
  BY DEF IInv, SizeInv
<1>2. UNCHANGED <<bound, holder, ev, conn, inbox, calls>>
  BY DEF NativeStage, RefuseEnded, goVars, publicVars
<1> DEFINE token == Len(submitted[o]) + 1
           x == [id |-> stageReq[o], phase |-> Claimed]
           q == <<[batch |-> token, phase |-> Claimed, ids |-> <<stageReq[o]>>]>>
<1>3. \/ UNCHANGED <<flags, batches, reports>>
      \/ FailState({o}) /\ UNCHANGED reports
      \/ /\ Cardinality(DOMAIN batches[o]) < QueueLimit /\ Fits(1)
         /\ batches' = [batches EXCEPT ![o] = Extended(@, token, x)]
         /\ Report(o, q) /\ UNCHANGED flags
  BY DEF NativeStage, RefuseEnded
<1>4. CASE UNCHANGED <<flags, batches, reports>>
  <2>1. QueueInv' /\ MarksInv'
    BY <1>1, <1>2, <1>4, SameQueue DEF MarksInv, flags
  <2> QED BY <1>2, <1>4, <2>1, ExtensionLimits
<1>5. CASE FailState({o}) /\ UNCHANGED reports
  <2>1. QueueInv' /\ MarksInv'
    BY <1>1, <1>2, <1>5, FailSizes
  <2>2. \A p \in Owners : DOMAIN batches'[p] \subseteq DOMAIN batches[p]
    BY <1>5, DiscardIs DEF FailState, FailAndEnd
  <2> QED BY <1>2, <2>1, <2>2, ExtensionLimits
<1>6. CASE /\ Cardinality(DOMAIN batches[o]) < QueueLimit /\ Fits(1)
           /\ batches' = [batches EXCEPT ![o] = Extended(@, token, x)]
           /\ Report(o, q) /\ UNCHANGED flags
  <2> HIDE DEF token, x
  <2>1. QueueInv'
    <3>1. PICK v : q = <<v>>
      BY DEF q
    <3> HIDE DEF q
    <3>2. q \in Seq({v}) /\ Len(q) = 1 /\ 1 \in Nat
      BY <3>1
    <3> QED BY <1>1, <1>2, <1>6, <3>2, ReportSize
  <2> HIDE DEF q
  <2>2. MarksInv'
    BY <1>1, <1>6 DEF MarksInv, flags
  <2>3. RangeInv'
    BY <1>1, <1>2 DEF RangeInv
  <2>4. /\ DOMAIN batches[o] \subseteq 1 .. Len(submitted[o]) /\ Len(submitted[o]) \in Nat
    BY DEF IInv, BatchInv, BatchOk, TypeInv
  <2>5. IsFiniteSet(DOMAIN batches[o]) /\ Cardinality(DOMAIN batches[o]) \in Nat
    BY <2>4, BoundedFinite
  <2>6. DOMAIN Extended(batches[o], token, x) = DOMAIN batches[o] \cup {token}
    BY DEF Extended
  <2>7. Cardinality(DOMAIN batches[o] \cup {token}) <= Cardinality(DOMAIN batches[o]) + 1
        /\ Cardinality(DOMAIN batches[o] \cup {token}) \in Nat
    <3> DEFINE D == DOMAIN batches[o]
    <3>1. IsFiniteSet(D) /\ Cardinality(D) \in Nat
      BY <2>5
    <3> HIDE DEF D
    <3>2. Cardinality(D \cup {token}) = IF token \in D THEN Cardinality(D) ELSE Cardinality(D) + 1
      BY <3>1, FS_AddElement
    <3>3. Cardinality(D \cup {token}) <= Cardinality(D) + 1 /\ Cardinality(D \cup {token}) \in Nat
      BY <3>1, <3>2
    <3> QED BY <3>3 DEF D
  <2>8. Cardinality(DOMAIN Extended(batches[o], token, x)) <= QueueLimit
    BY <1>6, <2>5, <2>6, <2>7, LimitsAre
  <2>9. /\ batches'[o] = Extended(batches[o], token, x)
        /\ \A p \in Owners : p # o => batches'[p] = batches[p]
    BY <1>1, <1>6 DEF TypeInv
  <2>10. TableInv'
    BY <1>1, <1>2, <2>8, <2>9 DEF TableInv
  <2> QED BY <2>1, <2>2, <2>3, <2>10 DEF SizeInv
<1> HIDE DEF token, x, q
<1> QED BY <1>3, <1>4, <1>5, <1>6

\* message_start and message_end: the report fits, or the session fails.
LEMMA MessageSize ==
  ASSUME IInv, SizeInv, NEW b, NEW phase, NativeMessage(b, phase)
  PROVE  SizeInv'
<1>1. TypeInv /\ HolderInv /\ BatchInv /\ QueueInv /\ MarksInv /\ current \in Owners
  BY DEF IInv, SizeInv, TypeInv
<1>2. UNCHANGED <<bound, holder, ev, conn, inbox, calls>>
  BY DEF NativeMessage, goVars, publicVars
<1> DEFINE q == <<[batch |-> b, phase |-> phase, ids |-> <<batches[current][b].id>>]>>
<1>3. \/ FailState({current}) /\ UNCHANGED reports
      \/ Fits(1) /\ Report(current, q) /\ UNCHANGED flags
  BY DEF NativeMessage
<1>4. \A p \in Owners : DOMAIN batches'[p] \subseteq DOMAIN batches[p]
  BY <1>1, MessageIs, NoMoreBatches
<1>5. CASE FailState({current}) /\ UNCHANGED reports
  <2>1. QueueInv' /\ MarksInv'
    BY <1>1, <1>2, <1>5, FailSizes
  <2> QED BY <1>2, <1>4, <2>1, ExtensionLimits
<1>6. CASE Fits(1) /\ Report(current, q) /\ UNCHANGED flags
  <2>1. PICK v : q = <<v>>
    BY DEF q
  <2> HIDE DEF q
  <2>2. q \in Seq({v}) /\ Len(q) = 1 /\ 1 \in Nat
    BY <2>1
  <2>3. QueueInv'
    BY <1>1, <1>2, <1>6, <2>2, ReportSize
  <2>4. MarksInv'
    BY <1>1, <1>6 DEF MarksInv, flags
  <2> QED BY <1>2, <1>4, <2>3, <2>4, ExtensionLimits
<1> HIDE DEF q
<1> QED BY <1>3, <1>5, <1>6

\* The context event: its reports fit together, or the session fails.
LEMMA ContextSize ==
  ASSUME IInv, SizeInv, NativeContext
  PROVE  SizeInv'
<1>1. TypeInv /\ HolderInv /\ BatchInv /\ QueueInv /\ MarksInv /\ current \in Owners
  BY DEF IInv, SizeInv, TypeInv
<1>2. UNCHANGED <<bound, holder, ev, conn, inbox, calls>>
  BY DEF NativeContext, goVars, publicVars
<1> DEFINE done == {b \in DOMAIN batches[current] : batches[current][b].phase = Ended}
           n == Cardinality(done)
           v(i) == LET b == Ascending(done)[i]
                   IN  [batch |-> b, phase |-> InContext, ids |-> <<batches[current][b].id>>]
           rs == [i \in 1 .. n |-> v(i)]
<1>3. \/ FailState({current}) /\ UNCHANGED reports
      \/ Fits(n) /\ Report(current, rs) /\ UNCHANGED flags
  BY DEF NativeContext
<1>4. \A p \in Owners : DOMAIN batches'[p] \subseteq DOMAIN batches[p]
  BY <1>1, ContextIs, NoMoreBatches
<1>5. CASE FailState({current}) /\ UNCHANGED reports
  <2>1. QueueInv' /\ MarksInv'
    BY <1>1, <1>2, <1>5, FailSizes
  <2> QED BY <1>2, <1>4, <2>1, ExtensionLimits
<1>6. CASE Fits(n) /\ Report(current, rs) /\ UNCHANGED flags
  <2>1. n \in Nat
    <3>1. DOMAIN batches[current] \subseteq 1 .. Len(submitted[current]) /\ Len(submitted[current]) \in Nat
      BY <1>1 DEF BatchInv, BatchOk, TypeInv
    <3>2. done \in SUBSET (1 .. Len(submitted[current]))
      BY <3>1
    <3> HIDE DEF done
    <3> QED BY <3>1, <3>2, BoundedFinite
  <2> HIDE DEF n, v
  <2> DEFINE T == {v(i) : i \in 1 .. n}
  <2>2. \A i \in 1 .. n : v(i) \in T
    OBVIOUS
  <2> HIDE DEF T
  <2>3. rs \in Seq(T)
    BY <2>1, <2>2, IsASeq
  <2>4. DOMAIN rs = 1 .. n
    OBVIOUS
  <2> HIDE DEF rs
  <2>5. Len(rs) = n
    BY <2>1, <2>3, <2>4
  <2>6. QueueInv'
    BY <1>1, <1>2, <1>6, <2>1, <2>3, <2>5, ReportSize
  <2>7. MarksInv'
    BY <1>1, <1>6 DEF MarksInv, flags
  <2> QED BY <1>2, <1>4, <2>6, <2>7, ExtensionLimits
<1> HIDE DEF n, rs
<1> QED BY <1>3, <1>5, <1>6

\* A replaced or an ended session is reported if that fits, and fails if not.
LEMMA SwitchSize ==
  ASSUME IInv, SizeInv, NativeSwitch \/ NativeEnd
  PROVE  SizeInv'
<1>1. TypeInv /\ HolderInv /\ QueueInv /\ MarksInv /\ current \in Owners
  BY DEF IInv, SizeInv, TypeInv
<1>2. UNCHANGED <<bound, holder, ev, conn, inbox, calls>>
  BY DEF NativeSwitch, NativeEnd, goVars, publicVars
<1>3. \A p \in Owners : DOMAIN batches'[p] \subseteq DOMAIN batches[p]
  BY <1>1, SwitchIs, NoMoreBatches
<1>4. \E k \in {"switch", "end"}, p \in Owners, E \in SUBSET Owners :
        /\ k = "switch" => p = current + 1
        /\ \/ /\ Fits(1) /\ reports' = Append(reports, Item(k, p, 0, NoReport))
              /\ ending' = ending \cup {current} /\ UNCHANGED <<described, admitted, failed, ended>>
           \/ FailAndEnd({p}, E) /\ UNCHANGED reports
  <2>1. {current} \in SUBSET Owners /\ {} \in SUBSET Owners
    BY <1>1
  <2>2. CASE NativeSwitch
    <3>1. CASE FailAndEnd({current}, {}) /\ UNCHANGED reports
      BY <1>1, <2>1, <3>1
    <3>2. CASE \/ /\ Fits(1) /\ reports' = Append(reports, Item("switch", current + 1, 0, NoReport))
                  /\ ending' = ending \cup {current} /\ UNCHANGED <<described, admitted, failed, ended>>
               \/ FailAndEnd({current + 1}, {current}) /\ UNCHANGED reports
      <4>1. current + 1 \in Owners
        BY <2>2 DEF NativeSwitch
      <4> QED BY <2>1, <3>2, <4>1
    <3> QED BY <2>2, <3>1, <3>2 DEF NativeSwitch, FailState
  <2>3. CASE NativeEnd
    <3>1. \/ /\ Fits(1) /\ reports' = Append(reports, Item("end", current, 0, NoReport))
             /\ ending' = ending \cup {current} /\ UNCHANGED <<described, admitted, failed, ended>>
          \/ FailAndEnd({current}, {current}) /\ UNCHANGED reports
      BY <2>3 DEF NativeEnd
    <3> QED BY <1>1, <2>1, <3>1
  <2> QED BY <2>2, <2>3
<1>5. PICK k \in {"switch", "end"}, p \in Owners, E \in SUBSET Owners :
        /\ k = "switch" => p = current + 1
        /\ \/ /\ Fits(1) /\ reports' = Append(reports, Item(k, p, 0, NoReport))
              /\ ending' = ending \cup {current} /\ UNCHANGED <<described, admitted, failed, ended>>
           \/ FailAndEnd({p}, E) /\ UNCHANGED reports
  BY <1>4
<1> DEFINE x == Item(k, p, 0, NoReport)
<1>6. x.kind = "switch" => x.owner > 1
  <2>1. x.kind = k /\ x.owner = p
    BY DEF Item
  <2>2. current \in 1 .. MaxOwners /\ MaxOwners \in Nat
    BY <1>1, LimitsAre DEF Owners
  <2> HIDE DEF x
  <2> QED BY <1>5, <2>1, <2>2
<1>7. CASE /\ Fits(1) /\ reports' = Append(reports, x)
           /\ ending' = ending \cup {current} /\ UNCHANGED <<described, admitted, failed, ended>>
  <2> HIDE DEF x
  <2>1. QueueInv'
    BY <1>1, <1>2, <1>6, <1>7, LifecycleSize
  <2>2. MarksInv'
    BY <1>1, <1>7 DEF MarksInv
  <2> QED BY <1>2, <1>3, <2>1, <2>2, ExtensionLimits
<1>8. CASE FailAndEnd({p}, E) /\ UNCHANGED reports
  <2>1. QueueInv'
    BY <1>1, <1>2, <1>8, SameQueue
  <2>2. {p} \subseteq Owners /\ E \subseteq Owners
    OBVIOUS
  <2>3. MarksInv'
    BY <1>1, <1>8, <2>2, FailMarks
  <2> QED BY <1>2, <1>3, <2>1, <2>3, ExtensionLimits
<1> HIDE DEF x
<1> QED BY <1>5, <1>7, <1>8 DEF x

\* The report worker: a request moves from the queue to the calls, and a call that fails
\* shortens the queue.
LEMMA WorkerSize ==
  ASSUME IInv, IInv', SizeInv, WorkerSend \/ \E c \in calls : WorkerAck(c) \/ WorkerError(c)
  PROVE  SizeInv'
<1>1. /\ TypeInv /\ TypeInv' /\ HolderInv /\ QueueInv /\ MarksInv /\ IsFiniteSet(calls)
      /\ calls \subseteq CallType /\ reports \in Seq(ItemType)
  BY DEF IInv, SizeInv, TypeInv, QueueInv
<1>2. UNCHANGED <<bound, holder, ev, conn, inbox>>
  BY DEF WorkerSend, WorkerAck, WorkerError, goVars, publicVars
<1>3. \A p \in Owners : DOMAIN batches'[p] \subseteq DOMAIN batches[p]
  BY <1>1, WorkerIs, NoMoreBatches
<1>4. /\ IsFiniteSet(Awaited) /\ Cardinality(Awaited) \in Nat /\ Len(reports) \in Nat
      /\ Cardinality(Awaited) <= Cardinality(Awaited)
  BY <1>1, AwaitedIs
<1>5. \A c \in calls : c.owner \in Owners
  BY <1>1 DEF CallType
<1>6. CASE WorkerSend
  <2> DEFINE r == Head(reports)
             rest == Tail(reports)
             q == Request(r)
  <2>1. /\ reports # <<>>
        /\ \/ WorkerFailed(r, rest) /\ UNCHANGED calls
           \/ calls' = calls \cup {q} /\ reports' = rest /\ UNCHANGED flags
    BY <1>6 DEF WorkerSend
  <2>2. /\ r \in ItemType /\ rest \in Seq(ItemType) /\ 1 \in DOMAIN reports /\ r = reports[1]
        /\ DOMAIN rest = 1 .. Len(reports) - 1
        /\ \A i \in DOMAIN rest : i + 1 \in DOMAIN reports /\ rest[i] = reports[i + 1]
    BY <1>1, <2>1, TailIs
  <2>3. Len(rest) = Len(reports) - 1
    <3>1. Len(rest) \in Nat /\ Len(reports) - 1 \in Nat /\ DOMAIN rest = 1 .. Len(rest)
      BY <1>1, <1>4, <2>1, <2>2
    <3> QED BY <3>1, <2>2
  <2>4. /\ q.kind = r.kind /\ q.owner = r.owner /\ q.awaited
    BY DEF Request
  <2>5. r.owner \in Owners
    BY <2>2 DEF ItemType
  <2> HIDE DEF r, rest, q
  <2>6. CASE WorkerFailed(r, rest) /\ UNCHANGED calls
    <3>1. Len(rest) <= Len(reports) /\ \A i \in DOMAIN rest : \E j \in DOMAIN reports : rest[i] = reports[j]
      BY <1>4, <2>2, <2>3
    <3>2. IsFiniteSet(calls') /\ Awaited' = Awaited
          /\ \A d \in calls' : \E c \in calls : d.kind = c.kind /\ d.owner = c.owner
      BY <1>1, <2>6 DEF Awaited
    <3>3. QueueInv' /\ MarksInv'
      BY <1>1, <1>4, <2>2, <2>5, <2>6, <3>1, <3>2, WorkerFailedSize
    <3> QED BY <1>2, <1>3, <3>3, ExtensionLimits
  <2>7. CASE calls' = calls \cup {q} /\ reports' = rest /\ UNCHANGED flags
    <3>1. IsFiniteSet(calls') /\ Awaited' = Awaited \cup {q}
      BY <1>1, <2>4, <2>7, FS_AddElement DEF Awaited
    <3>2. Cardinality(Awaited') = IF q \in Awaited THEN Cardinality(Awaited) ELSE Cardinality(Awaited) + 1
      BY <1>4, <3>1, FS_AddElement
    <3>3. Queued' <= ReportLimit
      <4>1. Len(reports) + Cardinality(Awaited) <= ReportLimit
        BY <1>1 DEF QueueInv, Queued
      <4>2. Len(reports') + Cardinality(Awaited') <= ReportLimit
        BY <1>4, <2>3, <2>7, <3>2, <4>1, LimitsAre
      <4> QED BY <4>2 DEF Queued
    <3>4. /\ \A c \in calls' : c.kind = "switch" => c.owner > 1
          /\ \A i \in DOMAIN reports' : reports'[i].kind = "switch" => reports'[i].owner > 1
      BY <1>1, <2>2, <2>4, <2>7 DEF QueueInv
    <3>5. QueueInv'
      BY <3>1, <3>3, <3>4 DEF QueueInv
    <3>6. MarksInv'
      BY <1>1, <2>7 DEF MarksInv, flags
    <3> QED BY <1>2, <1>3, <3>5, <3>6, ExtensionLimits
  <2> QED BY <2>1, <2>6, <2>7
<1>7. \A i \in DOMAIN reports : \E j \in DOMAIN reports : reports[i] = reports[j]
  OBVIOUS
<1>8. ASSUME NEW c \in calls, WorkerAck(c) PROVE SizeInv'
  <2>1. /\ calls' = calls \ {c} /\ c.awaited
        /\ \/ UNCHANGED <<flags, reports>>
           \/ /\ ended' = ended \cup {c.owner}
              /\ UNCHANGED <<described, admitted, ending, failed, reports>>
           \/ WorkerFailed(c, reports)
           \/ /\ c.kind = "switch" /\ admitted' = admitted \cup {c.owner}
              /\ ended' = ended \cup {c.owner - 1}
              /\ UNCHANGED <<described, ending, failed, reports>>
    <3>1. c.kind \in {"observe", "switch", "end"}
      BY <1>1 DEF CallType
    <3> QED BY <1>8, <3>1 DEF WorkerAck
  <2>2. IsFiniteSet(calls') /\ Awaited' = Awaited \ {c}
        /\ \A d \in calls' : \E e \in calls : d.kind = e.kind /\ d.owner = e.owner
    BY <1>1, <2>1, FS_RemoveElement DEF Awaited
  <2>3. Cardinality(Awaited') <= Cardinality(Awaited)
    <3>1. c \in Awaited
      BY <2>1 DEF Awaited
    <3>2. Cardinality(Awaited') = Cardinality(Awaited) - 1
      BY <1>4, <2>2, <3>1, FS_RemoveElement
    <3> QED BY <1>4, <3>2
  <2>4. CASE WorkerFailed(c, reports)
    <3>1. Len(reports) <= Len(reports)
      BY <1>4
    <3>2. QueueInv' /\ MarksInv'
      BY <1>1, <1>5, <1>7, <2>2, <2>3, <2>4, <3>1, WorkerFailedSize
    <3> QED BY <1>2, <1>3, <3>2, ExtensionLimits
  <2>5. CASE UNCHANGED reports
    <3>1. Len(reports') <= Len(reports)
          /\ \A i \in DOMAIN reports' : \E j \in DOMAIN reports : reports'[i] = reports[j]
      BY <1>4, <1>7, <2>5
    <3>2. QueueInv'
      BY <1>1, <2>2, <2>3, <3>1, QueueKept
    <3>3. MarksInv' \/ WorkerFailed(c, reports)
      <4>1. c.kind = "switch" => c.owner - 1 \in Owners
        <5>1. c.owner \in 1 .. MaxOwners /\ MaxOwners \in Nat
          BY <1>5, LimitsAre DEF Owners
        <5>2. c.kind = "switch" => c.owner > 1
          BY <1>1 DEF QueueInv
        <5> QED BY <5>1, <5>2 DEF Owners
      <4> QED BY <1>1, <1>5, <2>1, <4>1 DEF MarksInv, flags
    <3> QED BY <1>2, <1>3, <2>4, <3>2, <3>3, ExtensionLimits
  <2> QED BY <2>1, <2>4, <2>5
<1>9. ASSUME NEW c \in calls, WorkerError(c) PROVE SizeInv'
  <2> DEFINE d == [c EXCEPT !.awaited = FALSE]
  <2>1. /\ calls' = (calls \ {c}) \cup (IF c.reply = "none" THEN {d} ELSE {})
        /\ WorkerFailed(c, reports) /\ c.awaited
    BY <1>9 DEF WorkerError
  <2>2. d.kind = c.kind /\ d.owner = c.owner /\ ~d.awaited
    BY <1>1 DEF CallType
  <2> HIDE DEF d
  <2>3. IsFiniteSet(calls')
    <3>1. IsFiniteSet(calls \ {c})
      BY <1>1, FS_RemoveElement
    <3>2. IsFiniteSet((calls \ {c}) \cup {d})
      BY <3>1, FS_AddElement
    <3> QED BY <2>1, <3>1, <3>2
  <2>4. Awaited' = Awaited \ {c} /\ c \in Awaited
        /\ \A e \in calls' : \E f \in calls : e.kind = f.kind /\ e.owner = f.owner
    BY <2>1, <2>2 DEF Awaited
  <2>5. Cardinality(Awaited') <= Cardinality(Awaited)
    <3>1. Cardinality(Awaited') = Cardinality(Awaited) - 1
      BY <1>4, <2>4, FS_RemoveElement
    <3> QED BY <1>4, <3>1
  <2>6. Len(reports) <= Len(reports)
    BY <1>4
  <2>7. QueueInv' /\ MarksInv'
    BY <1>1, <1>5, <1>7, <2>1, <2>3, <2>4, <2>5, <2>6, WorkerFailedSize
  <2> QED BY <1>2, <1>3, <2>7, ExtensionLimits
<1> QED BY <1>6, <1>8, <1>9

\* Every step of the extension keeps the limits.
LEMMA ExtensionSize ==
  ASSUME IInv, IInv', SizeInv, Extension
  PROVE  SizeInv'
<1>1. CASE NativeReset
  <2>1. /\ UNCHANGED <<bound, holder, ev, conn, inbox, calls, reports, batches, flags>>
    BY <1>1 DEF NativeReset, goVars, publicVars
  <2>2. QueueInv' /\ MarksInv'
    BY <2>1, SameQueue DEF SizeInv, MarksInv, flags
  <2> QED BY <2>1, <2>2, ExtensionLimits
<1>2. CASE \E b \in 1 .. Cardinality(Msgs), p \in {Started, Ended} : NativeMessage(b, p)
  BY <1>2, MessageSize
<1>3. CASE WorkerSend \/ \E c \in calls : WorkerAck(c) \/ WorkerError(c)
  BY <1>3, WorkerSize
<1> QED BY <1>1, <1>2, <1>3, DescribeSize, StageSize, ContextSize, SwitchSize DEF Extension

\* The bridge closes: nothing is queued, nothing is awaited, nothing is held.
LEMMA BridgeEndedSize ==
  ASSUME IInv, SizeInv, BridgeEnded
  PROVE  SizeInv'
<1>1. TypeInv /\ QueueInv /\ MarksInv /\ calls \subseteq CallType /\ IsFiniteSet(calls) /\ current \in Owners
  BY DEF IInv, SizeInv, TypeInv, QueueInv
<1>2. /\ UNCHANGED <<bound, holder, ev, conn, inbox, described, admitted, failed>>
      /\ reports' = <<>> /\ Discard(1 .. current)
      /\ ending' = ending \cup 1 .. current /\ ended' = ended \cup 1 .. current
      /\ calls' = {[c EXCEPT !.awaited = FALSE] : c \in {d \in calls : d.reply = "none"}}
  BY DEF BridgeEnded, publicVars
<1>3. \A c \in calls : LET d == [c EXCEPT !.awaited = FALSE] IN
        d.kind = c.kind /\ d.owner = c.owner /\ ~d.awaited
  BY <1>1 DEF CallType
<1>4. Awaited' = {} /\ \A d \in calls' : \E c \in calls : d.kind = c.kind /\ d.owner = c.owner
  BY <1>2, <1>3 DEF Awaited
<1>5. IsFiniteSet(calls')
  <2> DEFINE S == {d \in calls : d.reply = "none"}
             f == [c \in S |-> [c EXCEPT !.awaited = FALSE]]
  <2>1. IsFiniteSet(S)
    BY <1>1, FS_Subset
  <2>2. f \in Surjection(S, calls')
    <3>1. calls' = {[c EXCEPT !.awaited = FALSE] : c \in S}
      BY <1>2
    <3> HIDE DEF S
    <3>2. \A c \in S : f[c] = [c EXCEPT !.awaited = FALSE]
      OBVIOUS
    <3>3. f \in [S -> calls'] /\ \A y \in calls' : \E c \in S : f[c] = y
      BY <3>1, <3>2
    <3> HIDE DEF f
    <3> QED BY <3>3 DEF Surjection
  <2> HIDE DEF f, S
  <2> QED BY <2>1, <2>2, FS_Surjection
<1>6. QueueInv'
  <2>1. IsFiniteSet({}) /\ Cardinality({}) = 0 /\ Len(<<>>) = 0 /\ DOMAIN <<>> = {}
    BY FS_EmptySet
  <2>2. Queued' <= ReportLimit
    BY <1>2, <1>4, <2>1, LimitsAre DEF Queued
  <2> QED BY <1>1, <1>2, <1>4, <1>5, <2>1, <2>2 DEF QueueInv
<1>7. MarksInv'
  <2>1. 1 .. current \subseteq Owners
    BY <1>1, LimitsAre DEF Owners
  <2> QED BY <1>1, <1>2, <2>1 DEF MarksInv
<1>8. \A p \in Owners : DOMAIN batches'[p] \subseteq DOMAIN batches[p]
  BY <1>2, DiscardIs
<1> QED BY <1>2, <1>6, <1>7, <1>8, ExtensionLimits

\* Every step keeps the limits.
LEMMA SizeKept == IInv /\ IInv' /\ SizeInv /\ [Next]_vars => SizeInv'
<1> SUFFICES ASSUME IInv, IInv', SizeInv, [Next]_vars PROVE SizeInv'
  OBVIOUS
<1>1. CASE \E o \in Owners : Public(o)
  BY <1>1, PublicSize
<1>2. CASE Registry
  BY <1>2, RegistrySize
<1>3. CASE Extension
  BY <1>3, ExtensionSize
<1>4. CASE BridgeEnded
  BY <1>4, BridgeEndedSize
<1>5. CASE Stopped \/ UNCHANGED vars
  <2>1. UNCHANGED <<bound, holder, ev, conn, inbox, calls, reports, batches, flags>>
    BY <1>5 DEF Stopped, vars, goVars, publicVars, extVars
  <2>2. QueueInv' /\ MarksInv'
    BY <2>1, SameQueue DEF SizeInv, MarksInv, flags
  <2> QED BY <2>1, <2>2, ExtensionLimits
<1> QED BY <1>1, <1>2, <1>3, <1>4, <1>5 DEF Next

\* Every table keeps its limit, whatever arrives, is lost or is replaced, and the bytes
\* charged to a binding that has not failed are those of what it retains.
THEOREM SizeAlways == Spec => []SizeInv
<1>1. (IInv /\ LineInv) /\ SizeInv /\ [Next]_vars => SizeInv'
  BY NextOk, SizeKept
<1> QED BY <1>1, InitSize, Invariant, PTL DEF Spec

\* The variables are in their ranges, the tables within maxOwnerTrackedItems, the inboxes
\* within maxOwnerWork and the extension's queues within its limits; releaseStateLocked never
\* gives back more than was charged to a binding that has not failed.
THEOREM TypeCorrect == Spec => []TypeOK
<1>1. IInv /\ SizeInv => TypeOK
  <2> SUFFICES ASSUME IInv, SizeInv PROVE TypeOK
    OBVIOUS
  <2>1. TypeInv /\ RangeInv /\ TableInv /\ QueueInv /\ MarksInv
    BY DEF IInv, SizeInv
  <2>2. ASSUME NEW o \in Owners
        PROVE  /\ ev[o].staged \in Seq(Msgs) /\ Len(ev[o].staged) <= Tracked
               /\ Cardinality(DOMAIN ev[o].batches) <= Tracked
               /\ \A b \in DOMAIN ev[o].batches : ev[o].batches[b].phase \in {Claimed, Started, Ended}
               /\ Len(ev[o].completed) <= Tracked
               /\ Cardinality(DOMAIN ev[o].reports) <= Tracked
               /\ ~ev[o].failed => ev[o].bytes = Retained(ev[o])
               /\ Len(inbox[o]) <= Work
               /\ Cardinality(DOMAIN batches[o]) <= QueueLimit
    <3>1. SizeOk(ev[o]) /\ Len(inbox[o]) <= Work /\ Cardinality(DOMAIN batches[o]) <= QueueLimit
      BY <2>1 DEF TableInv
    <3>2. \A b \in DOMAIN ev[o].batches : ev[o].batches[b].phase \in {Claimed, Started, Ended}
      BY <3>1 DEF SizeOk, Claimed, Started, Ended
    <3> QED BY <3>1, <3>2 DEF SizeOk
  <2>3. Queued <= ReportLimit /\ UNION {described, admitted, ending, failed, ended} \subseteq Owners
    BY <2>1 DEF QueueInv, MarksInv
  <2> QED BY <2>1, <2>2, <2>3 DEF TypeOK, TypeInv, RangeInv, AnswerKinds
<1> QED BY <1>1, SizeAlways, Invariant, PTL
=============================================================================
