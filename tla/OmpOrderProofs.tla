-------------------------- MODULE OmpOrderProofs --------------------------
(***************************************************************************)
(* Why no legal schedule of the end-to-end delivery path makes the registry *)
(* refuse a report, and why the registry and the native side agree when     *)
(* nothing is on its way (NoProtocolFailure and QuiescentAgreement of       *)
(* OmpDelivery).                                                            *)
(*                                                                         *)
(* The argument is a log of each binding: the sequence of the reports native *)
(* made of it, in the order in which it made them.  The log is well formed  *)
(* (claims in the order the messages were submitted, the phases of a batch  *)
(* in theirs, never more open batches than native retains); the calls and   *)
(* the queue of the worker hold the part of it that the registry has not    *)
(* applied, in its order; and the registry's evidence is what the part that *)
(* it has applied makes of the messages.  A report the registry then finds  *)
(* in turn is one the evidence accepts.                                     *)
(*                                                                         *)
(* Room is what this needs of the constants: the worker awaits the answer   *)
(* to a report before it sends the next (drainReports, extension.mjs), and  *)
(* native retains at most as many deliveries as the registry tracks         *)
(* (maxQueuedDeliveries and maxOwnerTrackedItems are both 256).             *)
(***************************************************************************)
EXTENDS OmpDeliveryProofs

\* The code's own pipeline and limits: the worker awaits every report, and the
\* extension retains no more deliveries than the registry tracks.
Room == Pipeline = 1 /\ QueueLimit <= Tracked

\* Among the first n reports of the log L, one says that batch b reached phase k.
Said(L, n, b, k) == \E i \in 1 .. n : L[i].batch = b /\ L[i].phase = k
\* The batches that are claimed, and not in context, after the first n reports.
OpenAt(L, n) == {b \in Nat : Said(L, n, b, 1) /\ ~Said(L, n, b, 4)}

\* A log of the reports on the messages s: claims in the order of s, the phases of a
\* batch in theirs, and never more open batches than the extension retains.
InTurn(L, s, n) ==
  LET b == L[n].batch
      p == L[n].phase
  IN  /\ b \in 1 .. Len(s) /\ L[n].ids = <<s[b]>> /\ p \in 1 .. 4
      /\ ~Said(L, n - 1, b, p)
      /\ p > 1 => Said(L, n - 1, b, p - 1)
      /\ p = 1 => /\ \A a \in 1 .. b - 1 : Said(L, n - 1, a, 1)
                  /\ Cardinality(OpenAt(L, n - 1)) < QueueLimit
WellFormed(L, s) == \A n \in 1 .. Len(L) : InTurn(L, s, n)

\* The evidence e is what the first n reports of the log make of the messages s,
\* and of one more, w, that is reserved and not submitted.
Matches(e, L, n, s, w) ==
  /\ e.completed \in Seq(Nat)
  /\ \A i \in DOMAIN e.completed : Said(L, n, e.completed[i], 4)
  /\ DOMAIN e.batches = OpenAt(L, n)
  /\ \A b \in DOMAIN e.batches :
       /\ e.batches[b].ids = <<s[b]>>
       /\ \A k \in 1 .. 3 : Said(L, n, b, k) <=> k <= e.batches[b].phase
  /\ \E k \in 0 .. Len(s) :
       /\ \A b \in 1 .. Len(s) : Said(L, n, b, 1) <=> b <= k
       /\ Len(e.staged) = (Len(s) - k) + (IF w = NoMsg THEN 0 ELSE 1)
       /\ \A i \in 1 .. Len(s) - k : e.staged[i] = s[k + i]
       /\ w # NoMsg => e.staged[Len(e.staged)] = w

Follows(e, L, s, w) ==
  /\ e.nextReport \in 0 .. Len(L) /\ DOMAIN e.reports = {}
  /\ Matches(e, L, e.nextReport, s, w)

-----------------------------------------------------------------------------
\* A longer log says no less, and what it adds is its last report.
LEMMA SaidNext ==
  ASSUME NEW L, NEW n \in Nat, NEW b, NEW k
  PROVE  /\ Said(L, n + 1, b, k) <=> Said(L, n, b, k) \/ (L[n + 1].batch = b /\ L[n + 1].phase = k)
         /\ ~Said(L, 0, b, k)
<1>1. 1 .. n + 1 = (1 .. n) \cup {n + 1} /\ 1 .. 0 = {}
  OBVIOUS
<1> QED BY <1>1 DEF Said

\* Logs that begin alike say the same there.
LEMMA SaidSame ==
  ASSUME NEW L, NEW M, NEW n \in Nat, \A i \in 1 .. n : L[i] = M[i]
  PROVE  \A b, k : Said(L, n, b, k) <=> Said(M, n, b, k)
BY DEF Said

\* A part of a log says no more than the log.
LEMMA SaidMore ==
  ASSUME NEW L, NEW n \in Nat, NEW m \in Nat, n <= m, NEW b, NEW k, Said(L, n, b, k)
  PROVE  Said(L, m, b, k)
<1>1. 1 .. n \subseteq 1 .. m
  OBVIOUS
<1> QED BY <1>1 DEF Said

\* A phase is said of batches of s alone, after the phase before it.
LEMMA SaidBefore ==
  ASSUME NEW L \in Seq(RepType), NEW s, WellFormed(L, s), NEW n \in 0 .. Len(L), NEW b, NEW k,
         Said(L, n, b, k)
  PROVE  /\ b \in 1 .. Len(s) /\ k \in 1 .. 4
         /\ k > 1 => Said(L, n, b, k - 1)
<1>1. PICK i \in 1 .. n : L[i].batch = b /\ L[i].phase = k
  BY DEF Said
<1>2. i \in 1 .. Len(L) /\ i - 1 \in Nat /\ i - 1 <= n /\ n \in Nat
  BY <1>1
<1>3. b \in 1 .. Len(s) /\ k \in 1 .. 4 /\ (k > 1 => Said(L, i - 1, b, k - 1))
  BY <1>1, <1>2 DEF WellFormed, InTurn
<1>4. k > 1 => Said(L, n, b, k - 1)
  BY <1>2, <1>3, SaidMore
<1> QED BY <1>3, <1>4

\* All the phases before it.
LEMMA SaidAll ==
  ASSUME NEW L \in Seq(RepType), NEW s, WellFormed(L, s), NEW n \in 0 .. Len(L), NEW b, NEW k,
         Said(L, n, b, k), NEW j \in 1 .. 4, j <= k
  PROVE  Said(L, n, b, j)
<1>1. k \in 1 .. 4 /\ (k > 1 => Said(L, n, b, k - 1))
  BY SaidBefore
<1>2. k - 1 > 1 => Said(L, n, b, k - 2)
  <2>1. CASE k - 1 > 1
    <3>1. Said(L, n, b, k - 1)
      BY <1>1, <2>1
    <3>2. Said(L, n, b, (k - 1) - 1)
      BY <2>1, <3>1, SaidBefore
    <3>3. (k - 1) - 1 = k - 2
      BY <1>1
    <3> QED BY <3>2, <3>3
  <2> QED BY <2>1
<1>3. k - 2 > 1 => Said(L, n, b, k - 3)
  <2>1. CASE k - 2 > 1
    <3>0. k - 1 > 1
      BY <2>1, <1>1
    <3>1. Said(L, n, b, k - 2)
      BY <1>2, <3>0
    <3>2. Said(L, n, b, (k - 2) - 1)
      BY <2>1, <3>1, SaidBefore
    <3>3. (k - 2) - 1 = k - 3
      BY <1>1
    <3> QED BY <3>2, <3>3
  <2> QED BY <2>1
<1>4. j = k \/ j = k - 1 \/ j = k - 2 \/ j = k - 3
  BY <1>1
<1> QED BY <1>1, <1>2, <1>3, <1>4

\* The sequence of the first element.
LEMMA FirstPrefix ==
  ASSUME NEW T, NEW s \in Seq(T), Len(s) >= 1, NEW m, m = s[1]
  PROVE  IsPrefix(<<m>>, s)
<1> DEFINE p == <<m>>
           t == SubSeq(s, 1, Len(p))
           u == SubSeq(p, 1, Len(p))
<1>0. m \in T /\ p \in Seq(T) /\ Len(p) = 1 /\ p[1] = m
  OBVIOUS
<1>1. t \in Seq(T) /\ Len(t) = 1 /\ t[1] = m
  <2>1. \A i \in 1 .. 1 : s[i] \in T
    OBVIOUS
  <2>2. t = SubSeq(s, 1, 1)
    BY <1>0
  <2> HIDE DEF t
  <2> QED BY <2>1, <2>2, SubSeqProperties
<1>2. u \in Seq(T) /\ Len(u) = 1 /\ u[1] = m
  <2>1. \A i \in 1 .. 1 : p[i] \in T
    OBVIOUS
  <2>2. u = SubSeq(p, 1, 1)
    BY <1>0
  <2> HIDE DEF u, p
  <2> QED BY <1>0, <2>1, <2>2, SubSeqProperties
<1> HIDE DEF t, u, p
<1>3. t = u
  <2>1. DOMAIN t = 1 .. 1 /\ DOMAIN u = 1 .. 1
    BY <1>1, <1>2
  <2>2. t = [i \in 1 .. 1 |-> t[i]] /\ u = [i \in 1 .. 1 |-> u[i]]
    BY <1>1, <1>2, <2>1
  <2>3. \A i \in 1 .. 1 : t[i] = u[i]
    BY <1>1, <1>2
  <2> QED BY <2>2, <2>3
<1>4. Len(p) <= Len(s)
  BY <1>0
<1> QED BY <1>3, <1>4 DEF IsPrefix, t, u, p

\* A claim in its turn succeeds.
LEMMA ClaimMatches ==
  ASSUME NEW s \in Seq(Msgs), NEW w, NEW L \in Seq(RepType), WellFormed(L, s),
         NEW n \in Nat, n + 1 <= Len(L), L[n + 1].phase = 1, QueueLimit <= Tracked,
         NEW e, EvTyped(e), ~e.failed, Matches(e, L, n, s, w)
  PROVE  LET x == Apply(e, L[n + 1])
         IN  /\ ~x.failed /\ IsRecord(x) /\ x.reports = e.reports
             /\ Matches(x, L, n + 1, s, w)
<1> DEFINE r == L[n + 1]
           b == r.batch
           q == [ids |-> r.ids, phase |-> Claimed]
           t == SubSeq(e.staged, Len(r.ids) + 1, Len(e.staged))
           x == Apply(e, r)
<1>0. /\ n + 1 \in 1 .. Len(L) /\ (n + 1) - 1 = n /\ Len(s) \in Nat /\ Len(L) \in Nat
      /\ n \in 0 .. Len(L) /\ n + 1 \in 0 .. Len(L)
  OBVIOUS
<1>1. /\ b \in 1 .. Len(s) /\ r.ids = <<s[b]>> /\ ~Said(L, n, b, 1) /\ r.phase = 1
      /\ \A a \in 1 .. b - 1 : Said(L, n, a, 1)
      /\ Cardinality(OpenAt(L, n)) < QueueLimit
  BY <1>0 DEF WellFormed, InTurn
<1>2. /\ DOMAIN e.batches = OpenAt(L, n) /\ e.completed \in Seq(Nat)
      /\ \A i \in DOMAIN e.completed : Said(L, n, e.completed[i], 4)
      /\ \A d \in DOMAIN e.batches :
           /\ e.batches[d].ids = <<s[d]>>
           /\ \A k \in 1 .. 3 : Said(L, n, d, k) <=> k <= e.batches[d].phase
  BY DEF Matches
<1>3. PICK k \in 0 .. Len(s) :
         /\ \A d \in 1 .. Len(s) : Said(L, n, d, 1) <=> d <= k
         /\ Len(e.staged) = (Len(s) - k) + (IF w = NoMsg THEN 0 ELSE 1)
         /\ \A i \in 1 .. Len(s) - k : e.staged[i] = s[k + i]
         /\ w # NoMsg => e.staged[Len(e.staged)] = w
  BY DEF Matches
<1>4. \A j \in 1 .. 4 : ~Said(L, n, b, j)
  <2>1. 1 \in 1 .. 4
    OBVIOUS
  <2> HIDE DEF b, r
  <2>2. ASSUME NEW j \in 1 .. 4, Said(L, n, b, j) PROVE FALSE
    <3>1. 1 <= j
      OBVIOUS
    <3> QED BY <1>0, <1>1, <2>1, <2>2, <3>1, SaidAll
  <2> QED BY <2>2
<1> HIDE DEF b, r, q, t, x
<1>5. k = b - 1
  <2>1. ~(b <= k)
    BY <1>1, <1>3
  <2>2. b - 1 >= 1 => b - 1 <= k
    <3>1. CASE b - 1 >= 1
      <4>1. b - 1 \in 1 .. b - 1 /\ b - 1 \in 1 .. Len(s)
        BY <1>0, <1>1, <3>1
      <4> QED BY <4>1, <1>1, <1>3
    <3> QED BY <3>1
  <2> QED BY <2>1, <2>2, <1>0, <1>1, <1>3
<1>6. /\ e.staged \in Seq(Msgs) /\ Len(e.staged) \in Nat /\ Len(e.staged) >= 1
      /\ e.staged[1] = s[b] /\ s[b] \in Msgs
  <2>1. e.staged \in Seq(Msgs)
    BY DEF EvTyped
  <2>2. 1 \in 1 .. Len(s) - k /\ Len(e.staged) >= 1
    BY <1>0, <1>1, <1>3, <1>5
  <2>3. e.staged[1] = s[k + 1] /\ k + 1 = b
    BY <2>2, <1>3, <1>5, <1>1
  <2> QED BY <2>1, <2>2, <2>3, <1>1, <1>0
<1>7. IsPrefix(r.ids, e.staged)
  BY <1>1, <1>6, FirstPrefix
<1>8. ~Contains(e.completed, b) /\ b \notin DOMAIN e.batches
  <2>1. 4 \in 1 .. 4 /\ 1 \in 1 .. 4
    OBVIOUS
  <2>2. ~Contains(e.completed, b)
    BY <2>1, <1>2, <1>4 DEF Contains
  <2>3. b \notin OpenAt(L, n)
    BY <2>1, <1>4 DEF OpenAt
  <2> QED BY <2>2, <2>3, <1>2
<1>9. Cardinality(DOMAIN e.batches) < Tracked
  <2>1. OpenAt(L, n) \subseteq 1 .. Len(s)
    <3>1. \A d : Said(L, n, d, 1) => d \in 1 .. Len(s)
      BY <1>0, SaidBefore
    <3> QED BY <3>1 DEF OpenAt
  <2>2. Cardinality(OpenAt(L, n)) \in Nat
    BY <2>1, <1>0, BoundedFinite
  <2>3. QueueLimit \in Nat /\ Tracked \in Nat
    BY DeliveryAssumption, TrackedAssumption
  <2> QED BY <1>1, <1>2, <2>2, <2>3
<1>10. x = [e EXCEPT !.staged = t, !.batches = Extended(e.batches, b, q), !.bytes = @ + 1]
  BY <1>1, <1>7, <1>8, <1>9 DEF Apply, Claim, Claimable, Claimed, x, t, b, q
<1>11. /\ x.staged = t /\ x.batches = Extended(e.batches, b, q) /\ x.completed = e.completed
       /\ x.failed = e.failed /\ x.reports = e.reports /\ IsRecord(x)
  BY <1>10 DEF EvTyped, IsRecord, EvidenceFields
<1>12. /\ DOMAIN x.batches = DOMAIN e.batches \cup {b} /\ x.batches[b] = q
       /\ \A d \in DOMAIN e.batches : x.batches[d] = e.batches[d]
  BY <1>8, <1>11 DEF Extended
<1>13. q.ids = <<s[b]>> /\ q.phase = 1
  BY <1>1 DEF q, Claimed
<1>14. \A d, j : Said(L, n + 1, d, j) <=> Said(L, n, d, j) \/ (b = d /\ j = 1)
  BY <1>1, SaidNext DEF b, r
<1>15. DOMAIN x.batches = OpenAt(L, n + 1)
  <2>1. 4 \in 1 .. 4 /\ b \in Nat
    BY <1>1, <1>0
  <2>2. OpenAt(L, n + 1) = OpenAt(L, n) \cup {b}
    BY <1>14, <1>4, <2>1 DEF OpenAt
  <2> QED BY <2>2, <1>2, <1>12
<1>16. ASSUME NEW d \in DOMAIN x.batches
       PROVE  /\ x.batches[d].ids = <<s[d]>>
              /\ \A j \in 1 .. 3 : Said(L, n + 1, d, j) <=> j <= x.batches[d].phase
  <2>1. CASE d = b
    <3>1. \A j \in 1 .. 3 : Said(L, n + 1, d, j) <=> j = 1
      BY <2>1, <1>4, <1>14
    <3>2. \A j \in 1 .. 3 : j = 1 <=> j <= 1
      OBVIOUS
    <3> QED BY <2>1, <3>1, <3>2, <1>12, <1>13
  <2>2. CASE d # b
    <3>1. d \in DOMAIN e.batches
      BY <2>2, <1>12
    <3> QED BY <2>2, <3>1, <1>2, <1>12, <1>14
  <2> QED BY <2>1, <2>2
<1>17. \A i \in DOMAIN x.completed : Said(L, n + 1, x.completed[i], 4)
  BY <1>2, <1>11, <1>14
<1>18. /\ Len(t) = Len(e.staged) - 1 /\ \A i \in 1 .. Len(e.staged) - 1 : t[i] = e.staged[i + 1]
  <2>1. \A i \in 2 .. Len(e.staged) : e.staged[i] \in Msgs
    BY <1>6
  <2>2. 2 \in Int /\ Len(e.staged) \in Int
    BY <1>6
  <2>3. t = SubSeq(e.staged, 2, Len(e.staged))
    BY <1>1 DEF t
  <2>4. /\ Len(t) = IF 2 <= Len(e.staged) THEN Len(e.staged) - 2 + 1 ELSE 0
        /\ \A i \in 1 .. Len(e.staged) - 2 + 1 : t[i] = e.staged[2 + i - 1]
    BY <2>1, <2>2, <2>3, SubSeqProperties
  <2> QED BY <2>4, <1>6
<1>19. /\ \A d \in 1 .. Len(s) : Said(L, n + 1, d, 1) <=> d <= b
       /\ Len(t) = (Len(s) - b) + (IF w = NoMsg THEN 0 ELSE 1)
       /\ \A i \in 1 .. Len(s) - b : t[i] = s[b + i]
       /\ w # NoMsg => t[Len(t)] = w
  <2>1. ASSUME NEW d \in 1 .. Len(s) PROVE Said(L, n + 1, d, 1) <=> d <= b
    <3>1. Said(L, n + 1, d, 1) <=> d <= b - 1 \/ b = d
      BY <1>3, <1>5, <1>14
    <3>2. d <= b <=> d <= b - 1 \/ b = d
      BY <1>1, <1>0
    <3> QED BY <3>1, <3>2
  <2>2. Len(t) = (Len(s) - b) + (IF w = NoMsg THEN 0 ELSE 1)
    <3>1. PICK z \in {0, 1} : z = IF w = NoMsg THEN 0 ELSE 1
      OBVIOUS
    <3>2. Len(e.staged) = (Len(s) - k) + z
      BY <3>1, <1>3
    <3>3. Len(t) = (Len(s) - b) + z
      <4>1. z \in Int /\ b \in Int /\ Len(s) \in Int
        BY <1>0, <1>1
      <4>2. Len(t) = ((Len(s) - (b - 1)) + z) - 1
        BY <3>2, <1>5, <1>18
      <4> QED BY <4>1, <4>2
    <3> QED BY <3>1, <3>3
  <2>3. ASSUME NEW i \in 1 .. Len(s) - b PROVE t[i] = s[b + i]
    <3>1. i + 1 \in 1 .. Len(s) - k /\ i \in 1 .. Len(e.staged) - 1 /\ k + (i + 1) = b + i
      BY <1>3, <1>5, <1>1, <1>0
    <3> QED BY <3>1, <1>3, <1>18
  <2>4. ASSUME w # NoMsg PROVE t[Len(t)] = w
    <3>1. Len(e.staged) - 1 \in 1 .. Len(e.staged) - 1 /\ (Len(e.staged) - 1) + 1 = Len(e.staged)
      BY <2>4, <1>3, <1>5, <1>1, <1>0, <1>6
    <3> QED BY <3>1, <2>4, <1>3, <1>18
  <2> QED BY <2>1, <2>2, <2>3, <2>4
<1>20. Matches(x, L, n + 1, s, w)
  <2>1. b \in 0 .. Len(s)
    BY <1>1, <1>0
  <2> QED BY <2>1, <1>2, <1>11, <1>15, <1>16, <1>17, <1>19 DEF Matches
<1> QED BY <1>11, <1>20 DEF x, r

\* A later phase in its turn succeeds.
LEMMA AdvanceMatches ==
  ASSUME NEW s \in Seq(Msgs), NEW w, NEW L \in Seq(RepType), WellFormed(L, s),
         NEW n \in Nat, n + 1 <= Len(L), L[n + 1].phase # 1,
         NEW e, EvTyped(e), ~e.failed, Matches(e, L, n, s, w)
  PROVE  LET x == Apply(e, L[n + 1])
         IN  /\ ~x.failed /\ IsRecord(x) /\ x.reports = e.reports
             /\ Matches(x, L, n + 1, s, w)
<1> DEFINE r == L[n + 1]
           b == r.batch
           p == r.phase
           x == Apply(e, r)
<1>0. /\ n + 1 \in 1 .. Len(L) /\ (n + 1) - 1 = n /\ Len(s) \in Nat /\ Len(L) \in Nat
      /\ n \in 0 .. Len(L) /\ n + 1 \in 0 .. Len(L)
  OBVIOUS
<1>1. /\ b \in 1 .. Len(s) /\ r.ids = <<s[b]>> /\ p \in 2 .. 4
      /\ ~Said(L, n, b, p) /\ Said(L, n, b, p - 1)
  BY <1>0 DEF WellFormed, InTurn
<1>2. /\ DOMAIN e.batches = OpenAt(L, n) /\ e.completed \in Seq(Nat)
      /\ \A i \in DOMAIN e.completed : Said(L, n, e.completed[i], 4)
      /\ \A d \in DOMAIN e.batches :
           /\ e.batches[d].ids = <<s[d]>>
           /\ \A k \in 1 .. 3 : Said(L, n, d, k) <=> k <= e.batches[d].phase
  BY DEF Matches
<1> HIDE DEF b, r, p, x
<1>3. \A j \in 1 .. 4 : Said(L, n, b, j) <=> j <= p - 1
  <2>1. ASSUME NEW j \in 1 .. 4, j <= p - 1 PROVE Said(L, n, b, j)
    BY <1>0, <1>1, <2>1, SaidAll
  <2>2. ASSUME NEW j \in 1 .. 4, ~(j <= p - 1), Said(L, n, b, j) PROVE FALSE
    <3>1. p \in 1 .. 4 /\ p <= j
      BY <2>2, <1>1
    <3> QED BY <3>1, <1>0, <1>1, <2>2, SaidAll
  <2> QED BY <2>1, <2>2
<1>4. b \in DOMAIN e.batches
  <2>1. Said(L, n, b, 1) /\ ~Said(L, n, b, 4) /\ b \in Nat
    BY <1>1, <1>3, <1>0
  <2> QED BY <2>1, <1>2 DEF OpenAt
<1> DEFINE c == e.batches[b]
<1>5. c.ids = r.ids /\ c \in [ids: Seq(Msgs), phase: 1 .. 3] /\ c.phase = p - 1
  <2>1. c \in [ids: Seq(Msgs), phase: 1 .. 3] /\ c.phase \in 1 .. 3
    BY <1>4 DEF EvTyped, Claimed, Ended
  <2>2. c.ids = r.ids
    BY <1>1, <1>2, <1>4
  <2>3. \A j \in 1 .. 3 : j <= c.phase <=> j <= p - 1
    BY <1>2, <1>3, <1>4
  <2> HIDE DEF c
  <2>4. PICK u \in 1 .. 3 : u = c.phase
    BY <2>1
  <2>5. p - 1 \in 1 .. 3
    BY <1>1
  <2>6. u <= p - 1 /\ p - 1 <= u
    BY <2>3, <2>4, <2>5
  <2> QED BY <2>1, <2>2, <2>4, <2>5, <2>6
<1>6. x = IF p = 4 THEN Complete(e, r) ELSE [e EXCEPT !.batches[b].phase = p]
  <2>1. r.ids = c.ids /\ p = c.phase + 1
    BY <1>5, <1>1
  <2> QED BY <2>1, <1>4 DEF Apply, Advance, InContext, x, b, p
<1>7. \A d, j : Said(L, n + 1, d, j) <=> Said(L, n, d, j) \/ (b = d /\ j = p)
  BY SaidNext DEF b, r, p
<1>8. \A d : Said(L, n + 1, d, 1) <=> Said(L, n, d, 1)
  BY <1>7, <1>1
<1>9. ASSUME NEW k \in 0 .. Len(s), x.staged = e.staged,
             /\ \A d \in 1 .. Len(s) : Said(L, n, d, 1) <=> d <= k
             /\ Len(e.staged) = (Len(s) - k) + (IF w = NoMsg THEN 0 ELSE 1)
             /\ \A i \in 1 .. Len(s) - k : e.staged[i] = s[k + i]
             /\ w # NoMsg => e.staged[Len(e.staged)] = w
      PROVE  /\ \A d \in 1 .. Len(s) : Said(L, n + 1, d, 1) <=> d <= k
             /\ Len(x.staged) = (Len(s) - k) + (IF w = NoMsg THEN 0 ELSE 1)
             /\ \A i \in 1 .. Len(s) - k : x.staged[i] = s[k + i]
             /\ w # NoMsg => x.staged[Len(x.staged)] = w
  BY <1>8, <1>9
<1>10. CASE p # 4
  <2> DEFINE f == [e.batches EXCEPT ![b].phase = p]
  <2>1. x = [e EXCEPT !.batches = f]
    BY <1>6, <1>10
  <2>2. /\ DOMAIN f = DOMAIN e.batches
        /\ f[b].ids = c.ids /\ f[b].phase = p
        /\ \A d \in DOMAIN e.batches : d # b => f[d] = e.batches[d]
    <3>1. f[b] = [c EXCEPT !.phase = p]
      BY <1>4
    <3> HIDE DEF c
    <3>2. f[b].ids = c.ids /\ f[b].phase = p
      BY <1>5, <3>1
    <3> QED BY <3>2
  <2> HIDE DEF f
  <2>3. /\ x.staged = e.staged /\ x.batches = f /\ x.completed = e.completed
        /\ x.failed = e.failed /\ x.reports = e.reports /\ IsRecord(x)
    BY <2>1 DEF EvTyped, IsRecord, EvidenceFields
  <2>4. OpenAt(L, n + 1) = OpenAt(L, n)
    BY <1>1, <1>7, <1>10 DEF OpenAt
  <2>5. ASSUME NEW d \in DOMAIN x.batches
        PROVE  /\ x.batches[d].ids = <<s[d]>>
               /\ \A j \in 1 .. 3 : Said(L, n + 1, d, j) <=> j <= x.batches[d].phase
    <3>1. CASE d = b
      <4>1. \A j \in 1 .. 3 : Said(L, n + 1, d, j) <=> j <= p - 1 \/ j = p
        BY <3>1, <1>3, <1>7
      <4>2. \A j \in 1 .. 3 : j <= p - 1 \/ j = p <=> j <= p
        BY <1>1
      <4> QED BY <3>1, <4>1, <4>2, <2>2, <2>3, <1>5, <1>1
    <3>2. CASE d # b
      <4>1. d \in DOMAIN e.batches /\ x.batches[d] = e.batches[d]
        BY <2>2, <2>3, <3>2
      <4> QED BY <4>1, <3>2, <1>2, <1>7
    <3> QED BY <3>1, <3>2
  <2>6. \A i \in DOMAIN x.completed : Said(L, n + 1, x.completed[i], 4)
    BY <1>2, <1>7, <2>3
  <2>7. Matches(x, L, n + 1, s, w)
    BY <1>2, <1>9, <2>2, <2>3, <2>4, <2>5, <2>6 DEF Matches
  <2> QED BY <2>3, <2>7 DEF x, r
<1>11. CASE p = 4
  <2> DEFINE f == Without(e.batches, b)
             a == Append(e.completed, b)
             g == IF Len(a) > Tracked THEN Tail(a) ELSE a
             u == e.bytes - Len(r.ids) - (IF Len(a) > Tracked THEN 1 ELSE 0)
  <2>1. x = [e EXCEPT !.batches = f, !.completed = g, !.bytes = u]
    BY <1>6, <1>11 DEF Complete, b
  <2>2. DOMAIN f = DOMAIN e.batches \ {b} /\ \A d \in DOMAIN f : f[d] = e.batches[d]
    BY DEF Without, Restrict
  <2>3. g \in Seq(Nat) /\ \A i \in DOMAIN g : g[i] = b \/ \E j \in DOMAIN e.completed : g[i] = e.completed[j]
    <3>1. b \in Nat
      BY <1>1, <1>0
    <3>2. /\ a \in Seq(Nat) /\ Len(a) = Len(e.completed) + 1 /\ Len(e.completed) \in Nat
          /\ DOMAIN e.completed = 1 .. Len(e.completed)
          /\ \A i \in DOMAIN e.completed : a[i] = e.completed[i]
          /\ a[Len(e.completed) + 1] = b
      BY <3>1, <1>2, AppendIs
    <3>3. \A i \in DOMAIN a : a[i] = b \/ \E j \in DOMAIN e.completed : a[i] = e.completed[j]
      <4>1. DOMAIN a = 1 .. Len(e.completed) + 1
        BY <3>2
      <4>2. \A i \in 1 .. Len(e.completed) + 1 : i \in 1 .. Len(e.completed) \/ i = Len(e.completed) + 1
        BY <3>2
      <4> QED BY <4>1, <4>2, <3>2
    <3> HIDE DEF a
    <3>4. CASE Len(a) > Tracked
      <4>1. a # <<>>
        BY <3>2
      <4>2. Tail(a) \in Seq(Nat) /\ \A i \in DOMAIN Tail(a) : i + 1 \in DOMAIN a /\ Tail(a)[i] = a[i + 1]
        BY <4>1, <3>2, TailIs
      <4> QED BY <3>3, <3>4, <4>2
    <3>5. CASE ~(Len(a) > Tracked)
      BY <3>2, <3>3, <3>5
    <3> QED BY <3>4, <3>5
  <2> HIDE DEF f, g, u
  <2>4. /\ x.staged = e.staged /\ x.batches = f /\ x.completed = g
        /\ x.failed = e.failed /\ x.reports = e.reports /\ IsRecord(x)
    BY <2>1 DEF EvTyped, IsRecord, EvidenceFields
  <2>5. OpenAt(L, n + 1) = OpenAt(L, n) \ {b}
    BY <1>1, <1>7, <1>8, <1>11 DEF OpenAt
  <2>6. \A i \in DOMAIN x.completed : Said(L, n + 1, x.completed[i], 4)
    BY <1>2, <1>7, <1>11, <2>3, <2>4
  <2>7. ASSUME NEW d \in DOMAIN x.batches
        PROVE  /\ x.batches[d].ids = <<s[d]>>
               /\ \A j \in 1 .. 3 : Said(L, n + 1, d, j) <=> j <= x.batches[d].phase
    <3>1. d \in DOMAIN e.batches /\ x.batches[d] = e.batches[d] /\ d # b
      BY <2>2, <2>4
    <3> QED BY <3>1, <1>2, <1>7
  <2>8. Matches(x, L, n + 1, s, w)
    BY <1>2, <1>9, <2>2, <2>3, <2>4, <2>5, <2>6, <2>7 DEF Matches
  <2> QED BY <2>4, <2>8 DEF x, r
<1> QED BY <1>10, <1>11

\* The registry accepts the report whose turn it is.
LEMMA EnqueueFollows ==
  ASSUME NEW s \in Seq(Msgs), NEW w, NEW L \in Seq(RepType), WellFormed(L, s), QueueLimit <= Tracked,
         NEW e, EvTyped(e), ~e.failed, Follows(e, L, s, w), NEW n, n = e.nextReport + 1, n <= Len(L)
  PROVE  LET x == Enqueue(e, n, L[n])
         IN  ~x.failed /\ x.nextReport = n /\ Follows(x, L, s, w)
<1> DEFINE r == L[n]
           f == Extended(e.reports, n, r)
           x == [e EXCEPT !.reports = f, !.bytes = @ + 1]
           y == [x EXCEPT !.reports = Without(@, n), !.bytes = @ - 1]
           a == Apply(y, x.reports[n])
<1>0. e.nextReport \in Nat /\ n \in Nat /\ n - 1 = e.nextReport /\ DOMAIN e.reports = {}
      /\ Len(L) \in Nat /\ n \in 0 .. Len(L) /\ Matches(e, L, n - 1, s, w)
  BY DEF Follows
<1>1. Enqueue(e, n, r) = Applied(x, Contiguous(x))
  <2>1. ~(n <= e.nextReport) /\ ~(n - e.nextReport > Tracked) /\ n \notin DOMAIN e.reports
    BY <1>0, TrackedAssumption
  <2>2. ~(Cardinality(DOMAIN e.reports) >= Tracked)
    BY <1>0, FS_EmptySet, TrackedAssumption
  <2> QED BY <2>1, <2>2, Zenon DEF Enqueue, Applied
<1>2. DOMAIN f = {n} /\ f[n] = r
  BY <1>0 DEF Extended
<1> HIDE DEF f
<1>3. /\ x.staged = e.staged /\ x.batches = e.batches /\ x.completed = e.completed
      /\ x.nextReport = e.nextReport /\ x.failed = e.failed /\ x.reports = f /\ IsRecord(x)
  BY DEF EvTyped, IsRecord, EvidenceFields
<1> HIDE DEF x
<1>4. Contiguous(x) = [i \in 1 .. 1 |-> n]
  <2> DEFINE due == {j \in DOMAIN x.reports : \A k \in (x.nextReport + 1) .. j : k \in DOMAIN x.reports}
  <2>1. due = {n}
    BY <1>0, <1>2, <1>3
  <2>2. Cardinality(due) = 1
    BY <2>1, FS_Singleton
  <2>3. Contiguous(x) = [i \in 1 .. Cardinality(due) |-> x.nextReport + i]
    BY DEF Contiguous
  <2> HIDE DEF due
  <2>4. \A i \in 1 .. 1 : x.nextReport + i = n
    BY <1>0, <1>3
  <2> QED BY <2>2, <2>3, <2>4
<1>5. Applied(x, Contiguous(x)) = ApplyNext(x, n)
  <2> DEFINE q == Contiguous(x)
  <2>1. DOMAIN q = 1 .. 1 /\ q[1] = n
    BY <1>4
  <2> HIDE DEF q
  <2>2. InSteps(x, q, 1)
    BY <2>1, FoldRun
  <2>3. PICK g : /\ g[0] = x /\ \A i \in 1 .. 1 : g[i] = ApplyNext(g[i - 1], q[i])
                 /\ Applied(x, q) = g[1]
    BY <2>2 DEF InSteps
  <2>4. g[1] = ApplyNext(g[0], q[1])
    <3>1. 1 \in 1 .. 1 /\ 1 - 1 = 0
      OBVIOUS
    <3> QED BY <2>3, <3>1
  <2> QED BY <2>1, <2>3, <2>4 DEF q
<1>6. ApplyNext(x, n) = IF a.failed THEN a ELSE [a EXCEPT !.nextReport = n]
  BY <1>3, Zenon DEF ApplyNext
<1>7. /\ y.staged = e.staged /\ y.batches = e.batches /\ y.completed = e.completed
      /\ y.nextReport = e.nextReport /\ y.failed = e.failed /\ y.reports = Without(f, n) /\ IsRecord(y)
  BY <1>3 DEF IsRecord, EvidenceFields
<1> HIDE DEF y
<1>8. DOMAIN y.reports = {} /\ IsMap(y.reports)
  BY <1>2, <1>7 DEF Without, Restrict, IsMap
<1>9. EvTyped(y) /\ Matches(y, L, n - 1, s, w)
  <2>1. IsFiniteSet({})
    BY FS_EmptySet
  <2>2. EvTyped(y)
    BY <1>7, <1>8, <2>1 DEF EvTyped
  <2>3. Matches(y, L, n - 1, s, w)
    BY <1>0, <1>7 DEF Matches
  <2> QED BY <2>2, <2>3
<1>10. ~a.failed /\ IsRecord(a) /\ a.reports = y.reports /\ Matches(a, L, n, s, w)
  <2>1. x.reports[n] = L[n] /\ n - 1 \in Nat /\ (n - 1) + 1 = n
    BY <1>2, <1>3, <1>0
  <2>2. CASE L[n].phase = 1
    BY <2>1, <2>2, <1>7, <1>9, ClaimMatches
  <2>3. CASE L[n].phase # 1
    BY <2>1, <2>3, <1>7, <1>9, AdvanceMatches
  <2> QED BY <2>2, <2>3
<1> HIDE DEF a
<1> DEFINE z == [a EXCEPT !.nextReport = n]
<1>11. /\ z.staged = a.staged /\ z.batches = a.batches /\ z.completed = a.completed
       /\ z.nextReport = n /\ z.failed = a.failed /\ z.reports = a.reports
  BY <1>10 DEF IsRecord, EvidenceFields
<1>12. Enqueue(e, n, r) = z
  BY <1>1, <1>5, <1>6, <1>10
<1> HIDE DEF z
<1>13. Matches(z, L, n, s, w)
  BY <1>10, <1>11 DEF Matches
<1>14. Follows(z, L, s, w)
  BY <1>0, <1>8, <1>10, <1>11, <1>13 DEF Follows
<1> QED BY <1>10, <1>11, <1>12, <1>14

-----------------------------------------------------------------------------
\* Native reaches a phase: the log grows.

\* M is the log L with the reports rs after it.
Grown(L, rs, M) ==
  /\ M \in Seq(RepType) /\ Len(M) = Len(L) + Len(rs)
  /\ \A i \in 1 .. Len(L) : M[i] = L[i]
  /\ \A i \in 1 .. Len(rs) : M[Len(L) + i] = rs[i]

\* t is s, or s with messages after it.
Longer(s, t) == Len(s) <= Len(t) /\ \A i \in 1 .. Len(s) : t[i] = s[i]

\* The log can grow.
LEMMA GrownIs ==
  ASSUME NEW L \in Seq(RepType), NEW rs \in Seq(RepType)
  PROVE  \E M : Grown(L, rs, M)
<1> DEFINE M == L \o rs
<1>1. /\ M \in Seq(RepType) /\ Len(M) = Len(L) + Len(rs)
      /\ \A i \in 1 .. Len(L) + Len(rs) : M[i] = IF i <= Len(L) THEN L[i] ELSE rs[i - Len(L)]
  BY ConcatProperties
<1> HIDE DEF M
<1>2. \A i \in 1 .. Len(L) : i \in 1 .. Len(L) + Len(rs) /\ i <= Len(L)
  OBVIOUS
<1>3. \A i \in 1 .. Len(rs) : /\ Len(L) + i \in 1 .. Len(L) + Len(rs) /\ ~(Len(L) + i <= Len(L))
                              /\ (Len(L) + i) - Len(L) = i
  OBVIOUS
<1>4. Grown(L, rs, M)
  BY <1>1, <1>2, <1>3 DEF Grown
<1> QED BY <1>4

\* What was said is still said, and of the same batches.
LEMMA GrownSaid ==
  ASSUME NEW L \in Seq(RepType), NEW rs, NEW M, Grown(L, rs, M), NEW n \in 0 .. Len(L)
  PROVE  /\ \A b, k : Said(M, n, b, k) <=> Said(L, n, b, k)
         /\ OpenAt(M, n) = OpenAt(L, n)
<1>1. n \in Nat /\ \A i \in 1 .. n : L[i] = M[i]
  BY DEF Grown
<1>2. \A b, k : Said(L, n, b, k) <=> Said(M, n, b, k)
  BY <1>1, SaidSame
<1> QED BY <1>2 DEF OpenAt

\* What the longer log says.
LEMMA GrownAll ==
  ASSUME NEW L \in Seq(RepType), NEW rs \in Seq(RepType), NEW M, Grown(L, rs, M),
         NEW n \in 0 .. Len(rs), NEW b, NEW k
  PROVE  Said(M, Len(L) + n, b, k) <=> Said(L, Len(L), b, k) \/ Said(rs, n, b, k)
<1>1. Len(L) \in Nat /\ Len(rs) \in Nat /\ n \in Nat
  OBVIOUS
<1>2. ASSUME NEW i \in 1 .. Len(L) + n, M[i].batch = b, M[i].phase = k
      PROVE  Said(L, Len(L), b, k) \/ \E j \in 1 .. n : rs[j].batch = b /\ rs[j].phase = k
  <2>1. CASE i <= Len(L)
    <3>1. i \in 1 .. Len(L) /\ L[i] = M[i]
      BY <2>1, <1>1 DEF Grown
    <3> QED BY <3>1, <1>2 DEF Said
  <2>2. CASE ~(i <= Len(L))
    <3>1. i - Len(L) \in 1 .. n /\ i - Len(L) \in 1 .. Len(rs) /\ Len(L) + (i - Len(L)) = i
      BY <2>2, <1>1
    <3>2. M[i] = rs[i - Len(L)]
      BY <3>1 DEF Grown
    <3> QED BY <3>1, <3>2, <1>2
  <2> QED BY <2>1, <2>2
<1>3. Said(L, Len(L), b, k) => Said(M, Len(L) + n, b, k)
  <2>1. ASSUME NEW i \in 1 .. Len(L), L[i].batch = b, L[i].phase = k PROVE Said(M, Len(L) + n, b, k)
    <3>1. i \in 1 .. Len(L) + n /\ M[i] = L[i]
      BY <1>1 DEF Grown
    <3> QED BY <3>1, <2>1 DEF Said
  <2> QED BY <2>1 DEF Said
<1>4. ASSUME NEW j \in 1 .. n, rs[j].batch = b, rs[j].phase = k PROVE Said(M, Len(L) + n, b, k)
  <2>1. Len(L) + j \in 1 .. Len(L) + n /\ j \in 1 .. Len(rs)
    BY <1>1
  <2>2. M[Len(L) + j] = rs[j]
    BY <2>1 DEF Grown
  <2> QED BY <2>1, <2>2, <1>4 DEF Said
<1> QED BY <1>2, <1>3, <1>4 DEF Said

\* A log stays well formed when its new reports are in turn.
LEMMA GrownWell ==
  ASSUME NEW L \in Seq(RepType), NEW rs \in Seq(RepType), NEW M, Grown(L, rs, M),
         NEW s \in Seq(Msgs), NEW t \in Seq(Msgs), Longer(s, t), WellFormed(L, s),
         \A i \in 1 .. Len(rs) : InTurn(M, t, Len(L) + i)
  PROVE  WellFormed(M, t)
<1>1. Len(L) \in Nat /\ Len(rs) \in Nat /\ Len(s) \in Nat /\ Len(t) \in Nat
  OBVIOUS
<1>2. ASSUME NEW n \in 1 .. Len(M), n <= Len(L) PROVE InTurn(M, t, n)
  <2>1. n \in 1 .. Len(L) /\ n - 1 \in 0 .. Len(L)
    BY <1>1, <1>2
  <2>2. M[n] = L[n] /\ InTurn(L, s, n)
    BY <2>1 DEF Grown, WellFormed
  <2>3. /\ \A b, k : Said(M, n - 1, b, k) <=> Said(L, n - 1, b, k)
        /\ OpenAt(M, n - 1) = OpenAt(L, n - 1)
    BY <2>1, GrownSaid
  <2>4. \A b \in 1 .. Len(s) : b \in 1 .. Len(t) /\ t[b] = s[b]
    BY <1>1 DEF Longer
  <2> QED BY <2>2, <2>3, <2>4 DEF InTurn
<1>3. ASSUME NEW n \in 1 .. Len(M), ~(n <= Len(L)) PROVE InTurn(M, t, n)
  <2>1. Len(M) = Len(L) + Len(rs)
    BY DEF Grown
  <2>2. n - Len(L) \in 1 .. Len(rs) /\ Len(L) + (n - Len(L)) = n
    BY <1>1, <1>3, <2>1
  <2> QED BY <2>2
<1> QED BY <1>2, <1>3 DEF WellFormed

\* The evidence does not depend on reports that are yet to come.
LEMMA MatchesGrown ==
  ASSUME NEW L \in Seq(RepType), NEW rs \in Seq(RepType), NEW M, Grown(L, rs, M),
         NEW s \in Seq(Msgs), NEW w, NEW e, WellFormed(L, s), Follows(e, L, s, w)
  PROVE  /\ Follows(e, M, s, w)
         /\ w \in Msgs => Follows(e, M, Append(s, w), NoMsg)
<1> DEFINE n == e.nextReport
<1>1. n \in 0 .. Len(L) /\ DOMAIN e.reports = {} /\ Matches(e, L, n, s, w)
  BY DEF Follows
<1>2. Len(L) \in Nat /\ Len(rs) \in Nat /\ Len(s) \in Nat /\ Len(M) = Len(L) + Len(rs)
  BY DEF Grown
<1>3. n \in 0 .. Len(M)
  BY <1>1, <1>2
<1>4. (\A b, k : Said(M, n, b, k) <=> Said(L, n, b, k)) /\ OpenAt(M, n) = OpenAt(L, n)
  BY <1>1, GrownSaid
<1> HIDE DEF n
<1>5. Matches(e, M, n, s, w)
  BY <1>1, <1>4 DEF Matches
<1>6. ASSUME w \in Msgs PROVE Matches(e, M, n, Append(s, w), NoMsg)
  <2> DEFINE t == Append(s, w)
  <2>1. /\ Len(t) = Len(s) + 1 /\ \A i \in 1 .. Len(s) : t[i] = s[i]
        /\ t[Len(s) + 1] = w
    BY <1>6, AppendIs
  <2>2. w # NoMsg
    BY <1>6, DeliveryAssumption
  <2> HIDE DEF t
  <2>3. PICK k \in 0 .. Len(s) :
           /\ \A d \in 1 .. Len(s) : Said(L, n, d, 1) <=> d <= k
           /\ Len(e.staged) = (Len(s) - k) + 1
           /\ \A i \in 1 .. Len(s) - k : e.staged[i] = s[k + i]
           /\ e.staged[Len(e.staged)] = w
    BY <2>2, <1>1 DEF Matches
  <2>4. k \in 0 .. Len(t) /\ Len(e.staged) = (Len(t) - k) + 0
    BY <2>1, <2>3, <1>2
  <2>5. ASSUME NEW d \in 1 .. Len(t) PROVE Said(M, n, d, 1) <=> d <= k
    <3>1. CASE d \in 1 .. Len(s)
      BY <3>1, <2>3, <1>4
    <3>2. CASE d \notin 1 .. Len(s)
      <4>1. ~(d <= k)
        BY <3>2, <2>1, <1>2
      <4>2. ~Said(L, n, d, 1)
        BY <3>2, <1>1, SaidBefore
      <4> QED BY <4>1, <4>2, <1>4
    <3> QED BY <3>1, <3>2
  <2>6. ASSUME NEW i \in 1 .. Len(t) - k PROVE e.staged[i] = t[k + i]
    <3>1. CASE i \in 1 .. Len(s) - k
      <4>1. k + i \in 1 .. Len(s)
        BY <3>1, <1>2
      <4> QED BY <4>1, <3>1, <2>1, <2>3
    <3>2. CASE i \notin 1 .. Len(s) - k
      <4>1. i = Len(e.staged) /\ k + i = Len(s) + 1
        BY <3>2, <2>1, <2>3, <1>2
      <4> QED BY <4>1, <2>1, <2>3
    <3> QED BY <3>1, <3>2
  <2>7. \A b \in DOMAIN e.batches : e.batches[b].ids = <<t[b]>>
    <3>1. \A b : Said(L, n, b, 1) => b \in 1 .. Len(s)
      BY <1>1, SaidBefore
    <3>2. \A b \in DOMAIN e.batches : b \in 1 .. Len(s) /\ e.batches[b].ids = <<s[b]>>
      BY <3>1, <1>1 DEF Matches, OpenAt
    <3> QED BY <3>2, <2>1
  <2> QED BY <1>1, <1>4, <2>4, <2>5, <2>6, <2>7 DEF Matches, t
<1> QED BY <1>1, <1>3, <1>5, <1>6 DEF Follows, n

\* The reports a claim, or phases of other batches, add are in turn.
LEMMA ClaimGrown ==
  ASSUME NEW L \in Seq(RepType), NEW s \in Seq(Msgs), WellFormed(L, s), NEW m \in Msgs,
         NEW r \in RepType, r = [batch |-> Len(s) + 1, phase |-> 1, ids |-> <<m>>],
         \A a \in 1 .. Len(s) : Said(L, Len(L), a, 1),
         Cardinality(OpenAt(L, Len(L))) < QueueLimit, NEW M, Grown(L, <<r>>, M)
  PROVE  /\ WellFormed(M, Append(s, m))
         /\ \A b, k : Said(M, Len(M), b, k) <=> Said(L, Len(L), b, k) \/ (b = Len(s) + 1 /\ k = 1)
<1> DEFINE rs == <<r>>
           t == Append(s, m)
           n == Len(L)
<1>1. rs \in Seq(RepType) /\ Len(rs) = 1 /\ rs[1] = r /\ 1 \in 1 .. Len(rs) /\ 0 \in 0 .. Len(rs)
  OBVIOUS
<1>2. /\ t \in Seq(Msgs) /\ Len(t) = Len(s) + 1 /\ \A i \in 1 .. Len(s) : t[i] = s[i]
      /\ t[Len(s) + 1] = m
  BY AppendIs
<1>3. Len(s) \in Nat /\ n \in Nat /\ n \in 0 .. n /\ (n + 1) - 1 = n /\ n + 0 = n
  OBVIOUS
<1>4. M \in Seq(RepType) /\ Len(M) = n + 1 /\ M[n + 1] = r
  BY <1>1 DEF Grown
<1> HIDE DEF rs, t
<1>g. Grown(L, rs, M)
  BY DEF rs
<1>5. ASSUME NEW b, NEW k PROVE Said(M, n + 1, b, k) <=> Said(L, n, b, k) \/ (b = Len(s) + 1 /\ k = 1)
  <2>1. Said(M, n + 1, b, k) <=> Said(L, n, b, k) \/ Said(rs, 1, b, k)
    <3>1. 1 \in 0 .. Len(rs) /\ rs \in Seq(RepType)
      BY <1>1
    <3> QED BY <3>1, <1>g, GrownAll
  <2>2. Said(rs, 1, b, k) <=> b = Len(s) + 1 /\ k = 1
    <3>1. \A i \in 1 .. 1 : rs[i] = r
      BY <1>1
    <3> QED BY <3>1 DEF Said
  <2> QED BY <2>1, <2>2
<1>6. (\A b, k : Said(M, n, b, k) <=> Said(L, n, b, k)) /\ OpenAt(M, n) = OpenAt(L, n)
  BY <1>3, <1>g, GrownSaid
<1>7. ~Said(L, n, Len(s) + 1, 1)
  <2>1. Said(L, n, Len(s) + 1, 1) => Len(s) + 1 \in 1 .. Len(s)
    BY <1>3, SaidBefore
  <2> QED BY <2>1, <1>3
<1>8. InTurn(M, t, n + 1)
  <2>1. r.batch = Len(s) + 1 /\ r.phase = 1 /\ r.ids = <<m>>
    OBVIOUS
  <2>2. r.batch \in 1 .. Len(t) /\ r.ids = <<t[r.batch]>>
    BY <2>1, <1>2, <1>3
  <2>3. \A a \in 1 .. r.batch - 1 : Said(M, n, a, 1)
    BY <2>1, <1>3, <1>6
  <2> QED BY <2>1, <2>2, <2>3, <1>3, <1>4, <1>6, <1>7 DEF InTurn
<1>9. Longer(s, t)
  BY <1>2, <1>3 DEF Longer
<1>10. WellFormed(M, t)
  <2>1. \A i \in 1 .. Len(rs) : InTurn(M, t, n + i)
    <3>1. \A i \in 1 .. Len(rs) : i = 1
      BY <1>1
    <3> QED BY <3>1, <1>8
  <2> QED BY <2>1, <1>1, <1>2, <1>9, <1>g, GrownWell
<1> QED BY <1>4, <1>5, <1>10 DEF t

\* The reports that carry batches one phase on are in turn.
LEMMA CarryGrown ==
  ASSUME NEW L \in Seq(RepType), NEW s \in Seq(Msgs), WellFormed(L, s), NEW rs \in Seq(RepType),
         \A i \in 1 .. Len(rs) :
            LET r == rs[i] IN
            /\ r.batch \in 1 .. Len(s) /\ r.ids = <<s[r.batch]>> /\ r.phase \in 2 .. 4
            /\ ~Said(L, Len(L), r.batch, r.phase) /\ Said(L, Len(L), r.batch, r.phase - 1)
            /\ \A j \in 1 .. Len(rs) : rs[j].batch = r.batch => j = i,
         NEW M, Grown(L, rs, M)
  PROVE  WellFormed(M, s)
<1> DEFINE n == Len(L)
<1>1. n \in Nat /\ Len(rs) \in Nat /\ Len(s) \in Nat
  OBVIOUS
<1>2. ASSUME NEW i \in 1 .. Len(rs) PROVE InTurn(M, s, n + i)
  <2> DEFINE r == rs[i]
  <2>1. M[n + i] = r /\ (n + i) - 1 = n + (i - 1) /\ i - 1 \in 0 .. Len(rs)
    BY <1>1 DEF Grown
  <2>2. /\ r.batch \in 1 .. Len(s) /\ r.ids = <<s[r.batch]>> /\ r.phase \in 2 .. 4
        /\ ~Said(L, n, r.batch, r.phase) /\ Said(L, n, r.batch, r.phase - 1)
    OBVIOUS
  <2>3. \A j \in 1 .. i - 1 : rs[j].batch # r.batch
    <3>1. \A j \in 1 .. i - 1 : j \in 1 .. Len(rs) /\ j # i
      BY <1>1
    <3> QED BY <3>1
  <2> HIDE DEF r
  <2>4. Said(M, n + (i - 1), r.batch, r.phase - 1)
    <3>1. PICK h \in 0 .. Len(rs) : h = i - 1
      BY <2>1
    <3>2. PICK q : q = r.phase - 1
      OBVIOUS
    <3>3. Said(M, n + h, r.batch, q) <=> Said(L, n, r.batch, q) \/ Said(rs, h, r.batch, q)
      BY GrownAll
    <3> QED BY <3>1, <3>2, <3>3, <2>2
  <2>5. ~Said(M, n + (i - 1), r.batch, r.phase)
    <3>1. PICK h \in 0 .. Len(rs) : h = i - 1
      BY <2>1
    <3>2. Said(M, n + h, r.batch, r.phase) <=>
            Said(L, n, r.batch, r.phase) \/ Said(rs, h, r.batch, r.phase)
      BY GrownAll
    <3>3. ~Said(rs, h, r.batch, r.phase)
      BY <3>1, <2>3 DEF Said
    <3> QED BY <3>1, <3>2, <3>3, <2>2
  <2>6. r.phase \in 1 .. 4 /\ r.phase # 1
    BY <2>2
  <2> QED BY <2>1, <2>2, <2>4, <2>5, <2>6 DEF InTurn
<1>3. Longer(s, s)
  BY <1>1 DEF Longer
<1> QED BY <1>2, <1>3, GrownWell

-----------------------------------------------------------------------------
\* A message is reserved, or its reservation is withdrawn.

\* A reserved message is the last that is staged.
LEMMA ReserveFollows ==
  ASSUME NEW L \in Seq(RepType), NEW s \in Seq(Msgs), NEW e, EvTyped(e), Follows(e, L, s, NoMsg),
         NEW m \in Msgs
  PROVE  Follows(Reserve(e, m), L, s, m)
<1> DEFINE t == Append(e.staged, m)
           x == Reserve(e, m)
<1>1. /\ x.staged = t /\ x.batches = e.batches /\ x.completed = e.completed
      /\ x.nextReport = e.nextReport /\ x.reports = e.reports
  BY DEF Reserve, EvTyped, IsRecord, EvidenceFields
<1>2. /\ Len(t) = Len(e.staged) + 1 /\ Len(e.staged) \in Nat /\ t[Len(e.staged) + 1] = m
      /\ \A i \in 1 .. Len(e.staged) : t[i] = e.staged[i]
  BY AppendIs DEF EvTyped
<1> HIDE DEF t, x
<1>3. PICK k \in 0 .. Len(s) :
         /\ \A d \in 1 .. Len(s) : Said(L, e.nextReport, d, 1) <=> d <= k
         /\ Len(e.staged) = (Len(s) - k) + 0
         /\ \A i \in 1 .. Len(s) - k : e.staged[i] = s[k + i]
  BY DEF Follows, Matches
<1>4. Len(s) \in Nat /\ m # NoMsg
  BY DeliveryAssumption
<1>5. Len(x.staged) = (Len(s) - k) + 1 /\ x.staged[Len(x.staged)] = m
      /\ \A i \in 1 .. Len(s) - k : x.staged[i] = s[k + i]
  BY <1>1, <1>2, <1>3, <1>4
<1>6. Matches(x, L, e.nextReport, s, m)
  BY <1>1, <1>3, <1>4, <1>5 DEF Follows, Matches
<1> QED BY <1>1, <1>6 DEF Follows, x

\* The last of a sequence without repetitions is what RemoveFirst takes.
LEMMA RemoveLast ==
  ASSUME NEW T, NEW s \in Seq(T), Len(s) >= 1, \A i, j \in DOMAIN s : s[i] = s[j] => i = j
  PROVE  /\ Contains(s, s[Len(s)]) /\ Len(RemoveFirst(s, s[Len(s)])) = Len(s) - 1
         /\ \A i \in 1 .. Len(s) - 1 : RemoveFirst(s, s[Len(s)])[i] = s[i]
<1> DEFINE n == Len(s)
           e == s[n]
           t == RemoveFirst(s, e)
<1>1. n \in Nat /\ n \in 1 .. n /\ DOMAIN s = 1 .. n
  OBVIOUS
<1>2. Contains(s, e)
  BY <1>1 DEF Contains
<1> HIDE DEF e
<1>3. t \in Seq(T) /\ \E k \in DOMAIN s :
              /\ s[k] = e
              /\ DOMAIN t = 1 .. Len(s) - 1
              /\ \A i \in DOMAIN t :
                   IF i < k THEN i \in DOMAIN s /\ t[i] = s[i]
                   ELSE i + 1 \in DOMAIN s /\ t[i] = s[i + 1]
  BY <1>2, RemoveFirstIs
<1> HIDE DEF t
<1>4. PICK k \in DOMAIN s :
              /\ s[k] = e
              /\ DOMAIN t = 1 .. n - 1
              /\ \A i \in DOMAIN t :
                   IF i < k THEN i \in DOMAIN s /\ t[i] = s[i]
                   ELSE i + 1 \in DOMAIN s /\ t[i] = s[i + 1]
  BY <1>3
<1>5. k = n
  BY <1>1, <1>4 DEF e
<1>6. \A i \in 1 .. n - 1 : i < n
  BY <1>1
<1>7. Len(t) = n - 1
  <2>1. n - 1 \in Nat
    BY <1>1
  <2> HIDE DEF n
  <2>2. DOMAIN t = 1 .. Len(t) /\ Len(t) \in Nat
    BY <1>3
  <2> QED BY <2>1, <2>2, <1>4
<1> QED BY <1>2, <1>4, <1>5, <1>6, <1>7 DEF t, e

\* The reservation of a message native rejected can be withdrawn.
LEMMA WithdrawFollows ==
  ASSUME NEW L \in Seq(RepType), NEW s \in Seq(Msgs), NEW e, EvTyped(e), EvUnique(e), ~e.failed,
         NEW w \in Msgs, Follows(e, L, s, w)
  PROVE  ~Withdraw(e, w).failed /\ Follows(Withdraw(e, w), L, s, NoMsg)
<1> DEFINE t == RemoveFirst(e.staged, w)
           x == Withdraw(e, w)
<1>0. w # NoMsg /\ Len(s) \in Nat /\ e.staged \in Seq(Msgs) /\ Len(e.staged) \in Nat
  BY DeliveryAssumption DEF EvTyped
<1>1. PICK k \in 0 .. Len(s) :
         /\ \A d \in 1 .. Len(s) : Said(L, e.nextReport, d, 1) <=> d <= k
         /\ Len(e.staged) = (Len(s) - k) + 1
         /\ \A i \in 1 .. Len(s) - k : e.staged[i] = s[k + i]
         /\ e.staged[Len(e.staged)] = w
  BY <1>0 DEF Follows, Matches
<1>2. Len(e.staged) >= 1
  BY <1>0, <1>1
<1>3. /\ Contains(e.staged, w) /\ Len(t) = Len(e.staged) - 1
      /\ \A i \in 1 .. Len(e.staged) - 1 : t[i] = e.staged[i]
  <2>1. \A i, j \in DOMAIN e.staged : e.staged[i] = e.staged[j] => i = j
    BY DEF EvUnique
  <2> QED BY <2>1, <1>0, <1>1, <1>2, RemoveLast
<1>4. /\ x.staged = t /\ x.batches = e.batches /\ x.completed = e.completed /\ x.failed = e.failed
      /\ x.nextReport = e.nextReport /\ x.reports = e.reports
  BY <1>3 DEF Withdraw, EvTyped, IsRecord, EvidenceFields
<1> HIDE DEF t, x
<1>5. Len(x.staged) = (Len(s) - k) + 0 /\ \A i \in 1 .. Len(s) - k : x.staged[i] = s[k + i]
  BY <1>0, <1>1, <1>3, <1>4
<1>6. Matches(x, L, e.nextReport, s, NoMsg)
  BY <1>1, <1>4, <1>5 DEF Follows, Matches
<1> QED BY <1>4, <1>6 DEF Follows, x

-----------------------------------------------------------------------------
\* Reports on their way.

\* A report that the registry has not answered, and one that is not sent.
Sends(c, o)  == c.kind = "observe" /\ c.owner = o /\ c.reply = "none"
Queues(r, o) == r.kind = "observe" /\ r.owner = o

\* Report n of binding o is on its way, in the calls cs or in the queue rs.
Waits(cs, rs, o, n) ==
  \/ \E c \in cs : Sends(c, o) /\ c.seq = n
  \/ \E i \in DOMAIN rs : Queues(rs[i], o) /\ rs[i].seq = n

\* The reports of binding o on their way are those of its log L after the first n,
\* the next of them alone in the calls.  Only a binding that ended loses reports.
Travels(cs, rs, n, ends, o, L) ==
  /\ \A c \in cs : Sends(c, o) =>
       /\ c.seq = n + 1 /\ c.seq <= Len(L) /\ c.rep = L[c.seq]
       /\ \A d \in cs : Sends(d, o) => d = c
       /\ \A i \in DOMAIN rs : Queues(rs[i], o) => rs[i].seq > c.seq /\ c.awaited
       /\ c.awaited \/ o \in ends
  /\ \A i \in DOMAIN rs : Queues(rs[i], o) =>
       /\ rs[i].seq \in n + 1 .. Len(L) /\ rs[i].rep = L[rs[i].seq]
       /\ \A j \in DOMAIN rs : Queues(rs[j], o) /\ i < j => rs[i].seq < rs[j].seq
       /\ \A k \in n + 1 .. rs[i].seq : Waits(cs, rs, o, k)
  /\ o \notin ends => \A k \in n + 1 .. Len(L) : Waits(cs, rs, o, k)

\* The reports of o are the same.
SameWaits(cs, rs, ds, qs, o) ==
  /\ \A c : Sends(c, o) => (c \in cs <=> c \in ds)
  /\ \A i \in DOMAIN rs : Queues(rs[i], o) => i \in DOMAIN qs /\ qs[i] = rs[i]
  /\ \A i \in DOMAIN qs : Queues(qs[i], o) => i \in DOMAIN rs /\ qs[i] = rs[i]

\* The same reports are on their way.
LEMMA TravelsSame ==
  ASSUME NEW cs, NEW rs, NEW ds, NEW qs, NEW o, NEW n, NEW L, NEW ends, NEW fs,
         Travels(cs, rs, n, ends, o, L), SameWaits(cs, rs, ds, qs, o), ends \subseteq fs
  PROVE  Travels(ds, qs, n, fs, o, L)
<1>1. \A k : Waits(cs, rs, o, k) <=> Waits(ds, qs, o, k)
  BY DEF Waits, SameWaits
<1>2. ASSUME NEW c \in ds, Sends(c, o)
      PROVE  /\ c.seq = n + 1 /\ c.seq <= Len(L) /\ c.rep = L[c.seq]
             /\ \A d \in ds : Sends(d, o) => d = c
             /\ \A i \in DOMAIN qs : Queues(qs[i], o) => qs[i].seq > c.seq /\ c.awaited
             /\ c.awaited \/ o \in fs
  BY <1>2 DEF Travels, SameWaits
<1>3. ASSUME NEW i \in DOMAIN qs, Queues(qs[i], o)
      PROVE  /\ qs[i].seq \in n + 1 .. Len(L) /\ qs[i].rep = L[qs[i].seq]
             /\ \A j \in DOMAIN qs : Queues(qs[j], o) /\ i < j => qs[i].seq < qs[j].seq
             /\ \A k \in n + 1 .. qs[i].seq : Waits(ds, qs, o, k)
  <2>1. i \in DOMAIN rs /\ qs[i] = rs[i] /\ Queues(rs[i], o)
    BY <1>3 DEF SameWaits
  <2>2. /\ rs[i].seq \in n + 1 .. Len(L) /\ rs[i].rep = L[rs[i].seq]
        /\ \A j \in DOMAIN rs : Queues(rs[j], o) /\ i < j => rs[i].seq < rs[j].seq
        /\ \A k \in n + 1 .. rs[i].seq : Waits(cs, rs, o, k)
    BY <2>1 DEF Travels
  <2>3. \A j \in DOMAIN qs : Queues(qs[j], o) => j \in DOMAIN rs /\ qs[j] = rs[j]
    BY DEF SameWaits
  <2> QED BY <2>1, <2>2, <2>3, <1>1
<1>4. o \notin fs => \A k \in n + 1 .. Len(L) : Waits(ds, qs, o, k)
  BY <1>1 DEF Travels
<1> QED BY <1>2, <1>3, <1>4 DEF Travels

\* A binding that ended has lost its queue, and its call may be abandoned.
LostWaits(cs, rs, ds, qs, o) ==
  /\ \A c \in ds : Sends(c, o) =>
       \E d \in cs : /\ Sends(d, o) /\ c.seq = d.seq /\ c.rep = d.rep
                     /\ c = d \/ (c = [d EXCEPT !.awaited = FALSE] /\ d \notin ds)
  /\ \A i \in DOMAIN qs : ~Queues(qs[i], o)

\* What is left of the reports of a binding that ended is on its way.
LEMMA TravelsLost ==
  ASSUME NEW cs, NEW rs, NEW ds, NEW qs, NEW o, NEW n, NEW L, NEW ends, NEW fs,
         Travels(cs, rs, n, ends, o, L), LostWaits(cs, rs, ds, qs, o), o \in fs
  PROVE  Travels(ds, qs, n, fs, o, L)
<1>1. ASSUME NEW c \in ds, Sends(c, o)
      PROVE  /\ c.seq = n + 1 /\ c.seq <= Len(L) /\ c.rep = L[c.seq]
             /\ \A d \in ds : Sends(d, o) => d = c
             /\ \A i \in DOMAIN qs : Queues(qs[i], o) => qs[i].seq > c.seq /\ c.awaited
  <2>1. PICK d \in cs : /\ Sends(d, o) /\ c.seq = d.seq /\ c.rep = d.rep
                        /\ c = d \/ (c = [d EXCEPT !.awaited = FALSE] /\ d \notin ds)
    BY <1>1 DEF LostWaits
  <2>2. d.seq = n + 1 /\ d.seq <= Len(L) /\ d.rep = L[d.seq] /\ \A e \in cs : Sends(e, o) => e = d
    BY <2>1 DEF Travels
  <2>3. ASSUME NEW e \in ds, Sends(e, o) PROVE e = c
    <3>1. PICK f \in cs : Sends(f, o) /\ (e = f \/ (e = [f EXCEPT !.awaited = FALSE] /\ f \notin ds))
      BY <2>3 DEF LostWaits
    <3>2. f = d
      BY <2>2, <3>1
    <3> QED BY <1>1, <2>1, <2>3, <3>1, <3>2
  <2> QED BY <2>1, <2>2, <2>3, <1>1 DEF LostWaits
<1> QED BY <1>1 DEF Travels, LostWaits

\* The worker sends the first of the queue, with no call under way.
LEMMA TravelsSend ==
  ASSUME NEW cs \in SUBSET CallType, NEW rs \in Seq(ItemType), rs # <<>>,
         \A c \in cs : ~c.awaited,
         NEW o, NEW n \in Nat, NEW L \in Seq(RepType), NEW ends, Travels(cs, rs, n, ends, o, L)
  PROVE  Travels(cs \cup {Request(Head(rs))}, Tail(rs), n, ends, o, L)
<1> DEFINE r == Head(rs)
           q == Request(r)
           ds == cs \cup {q}
           qs == Tail(rs)
<1>1. /\ 1 \in DOMAIN rs /\ r = rs[1] /\ DOMAIN rs = 1 .. Len(rs) /\ Len(rs) \in Nat
      /\ DOMAIN qs = 1 .. Len(rs) - 1 /\ r \in ItemType
      /\ \A i \in DOMAIN qs : i + 1 \in DOMAIN rs /\ qs[i] = rs[i + 1]
  BY TailIs
<1>2. /\ q.kind = r.kind /\ q.owner = r.owner /\ q.seq = r.seq /\ q.rep = r.rep
      /\ q.reply = "none" /\ q.awaited = TRUE
  BY DEF Request
<1>3. Sends(q, o) <=> Queues(rs[1], o)
  BY <1>1, <1>2 DEF Sends, Queues
<1>4. \A c \in ds : c \in cs \/ c = q
  OBVIOUS
<1>5. \A i \in DOMAIN rs : i = 1 \/ (i - 1 \in DOMAIN qs /\ qs[i - 1] = rs[i])
  <2>1. \A i \in 1 .. Len(rs) : i = 1 \/ (i - 1 \in 1 .. Len(rs) - 1 /\ (i - 1) + 1 = i)
    BY <1>1
  <2> QED BY <2>1, <1>1
<1>6. \A i \in DOMAIN rs : rs[i].seq \in Nat
  <2>1. \A i \in DOMAIN rs : rs[i] \in ItemType
    BY <1>1
  <2> QED BY <2>1 DEF ItemType
<1> HIDE DEF r, q, ds, qs
<1>7. \A k : Waits(cs, rs, o, k) => Waits(ds, qs, o, k)
  <2>1. ASSUME NEW k, NEW c \in cs, Sends(c, o), c.seq = k PROVE Waits(ds, qs, o, k)
    BY <2>1 DEF Waits, ds
  <2>2. ASSUME NEW k, NEW i \in DOMAIN rs, Queues(rs[i], o), rs[i].seq = k PROVE Waits(ds, qs, o, k)
    <3>1. CASE i = 1
      <4>1. q \in ds /\ Sends(q, o) /\ q.seq = k
        BY <3>1, <2>2, <1>1, <1>2, <1>3 DEF ds
      <4> QED BY <4>1 DEF Waits
    <3>2. CASE i # 1
      <4>1. i - 1 \in DOMAIN qs /\ qs[i - 1] = rs[i]
        BY <3>2, <1>5
      <4> QED BY <4>1, <2>2 DEF Waits
    <3> QED BY <3>1, <3>2
  <2> QED BY <2>1, <2>2 DEF Waits
<1>8. ASSUME NEW i \in DOMAIN qs, Queues(qs[i], o)
      PROVE  /\ qs[i].seq \in n + 1 .. Len(L) /\ qs[i].rep = L[qs[i].seq]
             /\ \A j \in DOMAIN qs : Queues(qs[j], o) /\ i < j => qs[i].seq < qs[j].seq
             /\ \A k \in n + 1 .. qs[i].seq : Waits(ds, qs, o, k)
  <2>1. i + 1 \in DOMAIN rs /\ qs[i] = rs[i + 1] /\ Queues(rs[i + 1], o)
    BY <1>1, <1>8
  <2>2. /\ rs[i + 1].seq \in n + 1 .. Len(L) /\ rs[i + 1].rep = L[rs[i + 1].seq]
        /\ \A j \in DOMAIN rs : Queues(rs[j], o) /\ i + 1 < j => rs[i + 1].seq < rs[j].seq
        /\ \A k \in n + 1 .. rs[i + 1].seq : Waits(cs, rs, o, k)
    BY <2>1 DEF Travels
  <2>3. ASSUME NEW j \in DOMAIN qs, Queues(qs[j], o), i < j PROVE qs[i].seq < qs[j].seq
    <3>1. j + 1 \in DOMAIN rs /\ qs[j] = rs[j + 1] /\ i + 1 < j + 1
      BY <1>1, <2>3
    <3> QED BY <3>1, <2>1, <2>2, <2>3
  <2> QED BY <2>1, <2>2, <2>3, <1>7
<1>9. ASSUME Queues(rs[1], o)
      PROVE  /\ r.seq = n + 1 /\ \A c \in cs : ~Sends(c, o)
             /\ \A i \in DOMAIN qs : Queues(qs[i], o) => qs[i].seq > r.seq
  <2>1. /\ rs[1].seq \in n + 1 .. Len(L)
        /\ \A j \in DOMAIN rs : Queues(rs[j], o) /\ 1 < j => rs[1].seq < rs[j].seq
        /\ \A k \in n + 1 .. rs[1].seq : Waits(cs, rs, o, k)
    BY <1>1, <1>9 DEF Travels
  <2>2. \A c \in cs : ~Sends(c, o)
    BY <1>1, <1>9 DEF Travels
  <2>3. Waits(cs, rs, o, n + 1)
    BY <2>1
  <2>4. PICK i \in DOMAIN rs : Queues(rs[i], o) /\ rs[i].seq = n + 1
    BY <2>2, <2>3 DEF Waits
  <2>5. i = 1
    <3>1. CASE i # 1
      <4>1. 1 < i
        BY <1>1, <3>1
      <4>2. rs[1].seq < n + 1 /\ rs[1].seq >= n + 1 /\ rs[1].seq \in Nat
        BY <4>1, <2>1, <2>4
      <4> QED BY <4>2
    <3> QED BY <3>1
  <2>6. \A j \in DOMAIN qs : Queues(qs[j], o) => qs[j].seq > r.seq
    <3>1. ASSUME NEW j \in DOMAIN qs, Queues(qs[j], o) PROVE qs[j].seq > r.seq
      <4>1. j + 1 \in DOMAIN rs /\ qs[j] = rs[j + 1] /\ 1 < j + 1
        BY <1>1
      <4>2. rs[1].seq < rs[j + 1].seq /\ rs[1].seq \in Nat /\ rs[j + 1].seq \in Nat
        BY <4>1, <3>1, <2>1, <1>6, <1>1
      <4> QED BY <4>1, <4>2, <1>1
    <3> QED BY <3>1
  <2> QED BY <2>2, <2>4, <2>5, <2>6, <1>1
<1>10. ASSUME NEW c \in ds, Sends(c, o)
       PROVE  /\ c.seq = n + 1 /\ c.seq <= Len(L) /\ c.rep = L[c.seq]
              /\ \A d \in ds : Sends(d, o) => d = c
              /\ \A i \in DOMAIN qs : Queues(qs[i], o) => qs[i].seq > c.seq /\ c.awaited
              /\ c.awaited \/ o \in ends
  <2>1. CASE Queues(rs[1], o)
    <3>1. c = q /\ \A d \in ds : Sends(d, o) => d = q
      BY <2>1, <1>4, <1>9, <1>10
    <3>2. r.seq <= Len(L) /\ r.rep = L[r.seq]
      <4>1. rs[1].seq \in n + 1 .. Len(L) /\ rs[1].rep = L[rs[1].seq]
        BY <2>1, <1>1 DEF Travels
      <4> QED BY <4>1, <1>1
    <3> QED BY <3>1, <3>2, <2>1, <1>2, <1>9
  <2>2. CASE ~Queues(rs[1], o)
    <3>1. \A d \in ds : Sends(d, o) => d \in cs
      BY <2>2, <1>3, <1>4
    <3>2. /\ c.seq = n + 1 /\ c.seq <= Len(L) /\ c.rep = L[c.seq]
          /\ \A d \in cs : Sends(d, o) => d = c
          /\ \A i \in DOMAIN rs : Queues(rs[i], o) => rs[i].seq > c.seq /\ c.awaited
          /\ c.awaited \/ o \in ends
      BY <3>1, <1>10 DEF Travels
    <3> QED BY <3>1, <3>2, <1>1
  <2> QED BY <2>1, <2>2
<1>11. o \notin ends => \A k \in n + 1 .. Len(L) : Waits(ds, qs, o, k)
  BY <1>7 DEF Travels
<1>12. Travels(ds, qs, n, ends, o, L)
  BY <1>8, <1>10, <1>11 DEF Travels
<1> QED BY <1>12 DEF ds, qs, q, r

\* The registry has applied the report under way.
LEMMA TravelsHandled ==
  ASSUME NEW cs, NEW rs \in Seq(ItemType), NEW o, NEW n \in Nat, NEW L \in Seq(RepType), NEW ends,
         Travels(cs, rs, n, ends, o, L),
         NEW c \in cs, Sends(c, o), NEW ds, \A d \in ds : ~Sends(d, o)
  PROVE  n + 1 <= Len(L) /\ c.seq = n + 1 /\ c.rep = L[n + 1] /\ Travels(ds, rs, n + 1, ends, o, L)
<1>1. /\ c.seq = n + 1 /\ c.seq <= Len(L) /\ c.rep = L[c.seq]
      /\ \A d \in cs : Sends(d, o) => d = c
      /\ \A i \in DOMAIN rs : Queues(rs[i], o) => rs[i].seq > c.seq
  BY DEF Travels
<1>2. ASSUME NEW k \in Nat, k > n + 1, Waits(cs, rs, o, k) PROVE Waits(ds, rs, o, k)
  <2>1. \A d \in cs : Sends(d, o) => d.seq # k
    BY <1>1, <1>2
  <2> QED BY <2>1, <1>2 DEF Waits
<1>3. ASSUME NEW i \in DOMAIN rs, Queues(rs[i], o)
      PROVE  /\ rs[i].seq \in (n + 1) + 1 .. Len(L) /\ rs[i].rep = L[rs[i].seq]
             /\ \A j \in DOMAIN rs : Queues(rs[j], o) /\ i < j => rs[i].seq < rs[j].seq
             /\ \A k \in (n + 1) + 1 .. rs[i].seq : Waits(ds, rs, o, k)
  <2>1. /\ rs[i].seq \in n + 1 .. Len(L) /\ rs[i].rep = L[rs[i].seq]
        /\ \A j \in DOMAIN rs : Queues(rs[j], o) /\ i < j => rs[i].seq < rs[j].seq
        /\ \A k \in n + 1 .. rs[i].seq : Waits(cs, rs, o, k)
    BY <1>3 DEF Travels
  <2>2. rs[i].seq \in (n + 1) + 1 .. Len(L)
    BY <2>1, <1>1, <1>3
  <2>3. \A k \in (n + 1) + 1 .. rs[i].seq : k \in n + 1 .. rs[i].seq /\ k \in Nat /\ k > n + 1
    BY <2>2
  <2> QED BY <2>1, <2>2, <2>3, <1>2
<1>4. ASSUME o \notin ends, NEW k \in (n + 1) + 1 .. Len(L) PROVE Waits(ds, rs, o, k)
  <2>1. k \in n + 1 .. Len(L) /\ k \in Nat /\ k > n + 1
    BY <1>4
  <2> QED BY <2>1, <1>2, <1>4 DEF Travels
<1> QED BY <1>1, <1>3, <1>4 DEF Travels

\* The queue qs is rs with the reports xs of binding o after it, numbered from base.
Queued2(rs, qs, o, base, xs) ==
  /\ DOMAIN qs = 1 .. Len(rs) + Len(xs)
  /\ \A i \in 1 .. Len(rs) : qs[i] = rs[i]
  /\ \A i \in 1 .. Len(xs) : qs[Len(rs) + i] = Item("observe", o, base + i, xs[i])

\* The reports of another binding are not affected.
LEMMA OthersWait ==
  ASSUME NEW cs, NEW rs \in Seq(ItemType), NEW qs, NEW o, NEW xs \in Seq(RepType), NEW base,
         Queued2(rs, qs, o, base, xs), NEW p, p # o
  PROVE  SameWaits(cs, rs, cs, qs, p)
<1>1. DOMAIN rs = 1 .. Len(rs) /\ Len(rs) \in Nat /\ Len(xs) \in Nat
  OBVIOUS
<1>2. \A i \in 1 .. Len(rs) : i \in DOMAIN qs /\ qs[i] = rs[i]
  BY <1>1 DEF Queued2
<1>3. ASSUME NEW i \in DOMAIN qs, Queues(qs[i], p) PROVE i \in DOMAIN rs
  <2>1. CASE i \notin 1 .. Len(rs)
    <3>1. i - Len(rs) \in 1 .. Len(xs) /\ Len(rs) + (i - Len(rs)) = i
      BY <2>1, <1>1 DEF Queued2
    <3>2. qs[i] = Item("observe", o, base + (i - Len(rs)), xs[i - Len(rs)])
      BY <3>1 DEF Queued2
    <3> QED BY <3>2, <1>3 DEF Queues, Item
  <2> QED BY <2>1, <1>1
<1> QED BY <1>1, <1>2, <1>3 DEF SameWaits

\* The queue of the binding grows with its log.
LEMMA TravelsGrown ==
  ASSUME NEW cs \in SUBSET CallType, NEW rs \in Seq(ItemType), NEW qs, NEW o, NEW n \in Nat,
         NEW L \in Seq(RepType), NEW xs \in Seq(RepType), NEW M, Grown(L, xs, M), NEW ends, o \notin ends,
         n <= Len(L), Queued2(rs, qs, o, Len(L), xs), Travels(cs, rs, n, ends, o, L)
  PROVE  Travels(cs, qs, n, ends, o, M)
<1>0. /\ DOMAIN rs = 1 .. Len(rs) /\ Len(rs) \in Nat /\ Len(xs) \in Nat /\ Len(L) \in Nat
      /\ Len(M) = Len(L) + Len(xs) /\ DOMAIN qs = 1 .. Len(rs) + Len(xs)
  BY DEF Grown, Queued2
<1>1. \A i \in DOMAIN rs : i \in DOMAIN qs /\ qs[i] = rs[i]
  BY <1>0 DEF Queued2
<1>2. ASSUME NEW j \in 1 .. Len(xs)
      PROVE  /\ Len(rs) + j \in DOMAIN qs /\ Queues(qs[Len(rs) + j], o)
             /\ qs[Len(rs) + j].seq = Len(L) + j /\ qs[Len(rs) + j].rep = M[Len(L) + j]
  <2>1. Len(rs) + j \in DOMAIN qs
    BY <1>0
  <2>2. qs[Len(rs) + j] = Item("observe", o, Len(L) + j, xs[j]) /\ M[Len(L) + j] = xs[j]
    BY DEF Queued2, Grown
  <2> QED BY <2>1, <2>2 DEF Queues, Item
<1>3. \A i \in DOMAIN qs : i \in DOMAIN rs \/ \E j \in 1 .. Len(xs) : i = Len(rs) + j
  <2>1. ASSUME NEW i \in DOMAIN qs, i \notin DOMAIN rs PROVE \E j \in 1 .. Len(xs) : i = Len(rs) + j
    <3>1. i - Len(rs) \in 1 .. Len(xs) /\ i = Len(rs) + (i - Len(rs))
      BY <2>1, <1>0
    <3> QED BY <3>1
  <2> QED BY <2>1
<1>4. \A k : Waits(cs, rs, o, k) => Waits(cs, qs, o, k)
  BY <1>1 DEF Waits
<1>5. ASSUME NEW k \in n + 1 .. Len(M) PROVE Waits(cs, qs, o, k)
  <2>1. CASE k <= Len(L)
    <3>1. k \in n + 1 .. Len(L)
      BY <2>1, <1>0
    <3> QED BY <3>1, <1>4 DEF Travels
  <2>2. CASE ~(k <= Len(L))
    <3>1. k - Len(L) \in 1 .. Len(xs) /\ Len(L) + (k - Len(L)) = k
      BY <2>2, <1>0
    <3>2. PICK j \in 1 .. Len(xs) : Len(L) + j = k
      BY <3>1
    <3> QED BY <3>2, <1>2 DEF Waits
  <2> QED BY <2>1, <2>2
<1>6. ASSUME NEW i \in DOMAIN rs, Queues(rs[i], o)
      PROVE  /\ rs[i].seq \in n + 1 .. Len(L) /\ rs[i].rep = L[rs[i].seq]
             /\ \A j \in DOMAIN rs : Queues(rs[j], o) /\ i < j => rs[i].seq < rs[j].seq
  BY <1>6 DEF Travels
<1>7. ASSUME NEW i \in DOMAIN qs, Queues(qs[i], o)
      PROVE  /\ qs[i].seq \in n + 1 .. Len(M) /\ qs[i].rep = M[qs[i].seq]
             /\ \A j \in DOMAIN qs : Queues(qs[j], o) /\ i < j => qs[i].seq < qs[j].seq
             /\ \A k \in n + 1 .. qs[i].seq : Waits(cs, qs, o, k)
  <2>1. CASE i \in DOMAIN rs
    <3>1. /\ qs[i] = rs[i] /\ Queues(rs[i], o)
          /\ rs[i].seq \in n + 1 .. Len(L) /\ rs[i].rep = L[rs[i].seq]
          /\ \A j \in DOMAIN rs : Queues(rs[j], o) /\ i < j => rs[i].seq < rs[j].seq
      BY <2>1, <1>1, <1>6, <1>7
    <3>2. rs[i].seq \in n + 1 .. Len(M) /\ M[rs[i].seq] = L[rs[i].seq] /\ rs[i].seq \in Nat
      <4>1. rs[i].seq \in 1 .. Len(L) /\ rs[i].seq \in n + 1 .. Len(M)
        BY <3>1, <1>0
      <4> QED BY <4>1 DEF Grown
    <3>3. ASSUME NEW j \in DOMAIN qs, Queues(qs[j], o), i < j PROVE qs[i].seq < qs[j].seq
      <4>1. CASE j \in DOMAIN rs
        BY <4>1, <3>1, <3>3, <1>1
      <4>2. CASE j \notin DOMAIN rs
        <5>1. PICK h \in 1 .. Len(xs) : j = Len(rs) + h
          BY <4>2, <1>3
        <5>2. qs[j].seq = Len(L) + h
          BY <5>1, <1>2
        <5> QED BY <5>2, <3>1, <1>0
      <4> QED BY <4>1, <4>2
    <3>4. \A k \in n + 1 .. qs[i].seq : Waits(cs, qs, o, k)
      <4>1. \A k \in n + 1 .. qs[i].seq : k \in n + 1 .. Len(M)
        BY <3>1, <3>2, <1>0
      <4> QED BY <4>1, <1>5
    <3> QED BY <3>1, <3>2, <3>3, <3>4
  <2>2. CASE i \notin DOMAIN rs
    <3>1. PICK h \in 1 .. Len(xs) : i = Len(rs) + h
      BY <2>2, <1>3
    <3>2. qs[i].seq = Len(L) + h /\ qs[i].rep = M[Len(L) + h]
      BY <3>1, <1>2
    <3>3. qs[i].seq \in n + 1 .. Len(M)
      BY <3>2, <1>0
    <3>4. ASSUME NEW j \in DOMAIN qs, Queues(qs[j], o), i < j PROVE qs[i].seq < qs[j].seq
      <4>1. j \notin DOMAIN rs
        BY <3>4, <3>1, <1>0
      <4>2. PICK g \in 1 .. Len(xs) : j = Len(rs) + g
        BY <4>1, <1>3
      <4>3. qs[j].seq = Len(L) + g
        BY <4>2, <1>2
      <4> QED BY <4>2, <4>3, <3>1, <3>2, <3>4, <1>0
    <3>5. \A k \in n + 1 .. qs[i].seq : k \in n + 1 .. Len(M)
      BY <3>3, <1>0
    <3> QED BY <3>2, <3>3, <3>4, <3>5, <1>5
  <2> QED BY <2>1, <2>2
<1>8. ASSUME NEW c \in cs, Sends(c, o)
      PROVE  /\ c.seq = n + 1 /\ c.seq <= Len(M) /\ c.rep = M[c.seq]
             /\ \A d \in cs : Sends(d, o) => d = c
             /\ \A i \in DOMAIN qs : Queues(qs[i], o) => qs[i].seq > c.seq /\ c.awaited
             /\ c.awaited \/ o \in ends
  <2>1. /\ c.seq = n + 1 /\ c.seq <= Len(L) /\ c.rep = L[c.seq]
        /\ \A d \in cs : Sends(d, o) => d = c
        /\ \A i \in DOMAIN rs : Queues(rs[i], o) => rs[i].seq > c.seq /\ c.awaited
        /\ c.awaited \/ o \in ends
    BY <1>8 DEF Travels
  <2>2. c.seq \in 1 .. Len(L) /\ c.seq <= Len(M)
    BY <2>1, <1>0
  <2>3. M[c.seq] = L[c.seq]
    BY <2>2 DEF Grown
  <2>4. ASSUME NEW i \in DOMAIN qs, Queues(qs[i], o) PROVE qs[i].seq > c.seq
    <3>1. CASE i \in DOMAIN rs
      BY <3>1, <2>1, <2>4, <1>1
    <3>2. CASE i \notin DOMAIN rs
      <4>1. PICK h \in 1 .. Len(xs) : i = Len(rs) + h
        BY <3>2, <1>3
      <4>2. qs[i].seq = Len(L) + h
        BY <4>1, <1>2
      <4> QED BY <4>2, <2>2, <1>0
    <3> QED BY <3>1, <3>2
  <2> QED BY <2>1, <2>2, <2>3, <2>4
<1> QED BY <1>5, <1>7, <1>8 DEF Travels

-----------------------------------------------------------------------------
\* The order of the reports, as an invariant of the states.

\* The message of binding o that is reserved and that native has not accepted.
Reserved(o) == IF loop[o] \in Submitted THEN NoMsg ELSE loop[o]
\* The registry may still apply reports of binding o.
Live(o) == Healthy /\ bound[o] \in {"absent", "bound"}

\* L is the log of the reports of binding o: what native reached, in the order in which
\* it reached it.  What is on its way, and the evidence, are parts of it.
LogInv(o, L) ==
  /\ L \in Seq(RepType) /\ Len(L) = rseq[o] /\ WellFormed(L, submitted[o])
  /\ \A b \in 1 .. Len(submitted[o]), k \in 1 .. 4 :
       Said(L, Len(L), b, k) <=> k <= observed[submitted[o][b]]
  /\ o \notin ending => \A b \in 1 .. Len(submitted[o]) :
       observed[submitted[o][b]] # 4 => b \in DOMAIN batches[o]
  /\ Live(o) => /\ Travels(calls, reports, ev[o].nextReport, ending, o, L)
                /\ Follows(ev[o], L, submitted[o], Reserved(o))

\* A binding that was replaced is ending, and reports are of bindings that were current.
FlagInv ==
  /\ IsFiniteSet(calls)
  /\ \A o \in Owners : o < current => o \in ending
  /\ \A i \in DOMAIN reports : reports[i].kind = "observe" => reports[i].owner <= current

\* Nothing was delivered to a binding that is not admitted.
AbsentInv(o) ==
  bound[o] = "absent" => submitted[o] = <<>> /\ loop[o] = NoMsg /\ stageReq[o] = NoMsg

\* Even after a failure, what is reserved can be withdrawn.
SoundInv(o) ==
  /\ IsRecord(ev[o]) /\ ~ev[o].failed
  /\ bound[o] = "bound" /\ Reserved(o) # NoMsg => Contains(ev[o].staged, Reserved(o))

OrderInv ==
  /\ NoProtocolFailure /\ FlagInv /\ GateInv
  /\ \A o \in Owners : AbsentInv(o) /\ SoundInv(o)
  /\ \A o \in Owners : \E L : LogInv(o, L)

\* A sequence of no element.
LEMMA NothingSaid ==
  ASSUME NEW b, NEW k
  PROVE  ~Said(<<>>, 0, b, k)
BY DEF Said

\* The initial states.
LEMMA InitOrder == Init => OrderInv
<1> SUFFICES ASSUME Init PROVE OrderInv
  OBVIOUS
<1> USE DEF Init
<1>0. 1 \in Owners /\ NoMsg \notin Msgs /\ MaxOwners \in Nat
  BY DeliveryAssumption DEF Owners
<1>1. NoProtocolFailure
  BY DEF NoProtocolFailure
<1>2. FlagInv
  <2>1. IsFiniteSet({})
    BY FS_EmptySet
  <2>2. \A o \in Owners : ~(o < 1)
    BY <1>0 DEF Owners
  <2>3. DOMAIN <<>> = {}
    OBVIOUS
  <2> QED BY <2>1, <2>2, <2>3 DEF FlagInv
<1>3. GateInv
  <2>1. \A o \in Owners : o > 1 => bound[o] = "absent"
    BY <1>0 DEF Owners
  <2>2. holder.pc = "none"
    BY DEF NoHolder
  <2>3. DOMAIN <<>> = {}
    OBVIOUS
  <2> QED BY <2>1, <2>2, <2>3 DEF GateInv
<1>4. \A o \in Owners : AbsentInv(o) /\ Reserved(o) = NoMsg
  BY DEF AbsentInv, Reserved
<1>5. \A o \in Owners : SoundInv(o)
  <2>1. IsRecord(NoEvidence) /\ ~NoEvidence.failed
    BY DEF IsRecord, EvidenceFields, NoEvidence
  <2> QED BY <2>1, <1>4 DEF SoundInv
<1>6. ASSUME NEW o \in Owners PROVE LogInv(o, <<>>)
  <2> DEFINE L == <<>>
             e == NoEvidence
  <2>1. L \in Seq(RepType) /\ Len(L) = 0 /\ DOMAIN L = {} /\ 1 .. 0 = {} /\ L \in Seq(Nat)
    OBVIOUS
  <2>2. /\ e.staged = <<>> /\ e.batches = <<>> /\ e.completed = <<>> /\ e.reports = <<>>
        /\ e.nextReport = 0
    BY DEF NoEvidence
  <2>3. submitted[o] = <<>> /\ ev[o] = e /\ rseq[o] = 0 /\ reports = <<>> /\ calls = {}
    OBVIOUS
  <2>4. \A b, k : ~Said(L, 0, b, k)
    BY NothingSaid
  <2>5. OpenAt(L, 0) = {}
    BY <2>4 DEF OpenAt
  <2> HIDE DEF L, e
  <2>6. WellFormed(L, <<>>)
    BY <2>1 DEF WellFormed
  <2>7. Matches(e, L, 0, <<>>, NoMsg)
    <3>1. 0 \in 0 .. Len(<<>>) /\ Len(<<>>) = 0 /\ DOMAIN <<>> = {}
      OBVIOUS
    <3>2. /\ e.completed \in Seq(Nat) /\ DOMAIN e.completed = {} /\ DOMAIN e.batches = {}
          /\ Len(e.staged) = 0
      BY <2>1, <2>2 DEF L
    <3>3. \E k \in 0 .. Len(<<>>) :
            /\ \A b \in 1 .. Len(<<>>) : Said(L, 0, b, 1) <=> b <= k
            /\ Len(e.staged) = (Len(<<>>) - k) + (IF NoMsg = NoMsg THEN 0 ELSE 1)
            /\ \A i \in 1 .. Len(<<>>) - k : e.staged[i] = <<>>[k + i]
            /\ NoMsg # NoMsg => e.staged[Len(e.staged)] = NoMsg
      BY <2>1, <3>1, <3>2
    <3> QED BY <2>5, <3>2, <3>3 DEF Matches
  <2>8. Follows(e, L, <<>>, NoMsg)
    BY <2>1, <2>2, <2>7 DEF Follows
  <2>9. Travels({}, <<>>, 0, ending, o, L)
    <3>1. 0 + 1 .. Len(L) = {} /\ DOMAIN <<>> = {}
      BY <2>1
    <3> QED BY <3>1 DEF Travels
  <2>10. LogInv(o, L)
    BY <2>1, <2>2, <2>3, <2>6, <2>8, <2>9, <1>4 DEF LogInv
  <2> QED BY <2>10 DEF L
<1> QED BY <1>1, <1>2, <1>3, <1>4, <1>5, <1>6 DEF OrderInv

\* The log of a binding still is its log when nothing native reached changes.
LEMMA LogKept ==
  ASSUME NEW o \in Owners, NEW L, LogInv(o, L), submitted'[o] = submitted[o], rseq'[o] = rseq[o],
         \A b \in 1 .. Len(submitted[o]) : observed'[submitted[o][b]] = observed[submitted[o][b]],
         o \notin ending' => o \notin ending /\ batches'[o] = batches[o],
         Live(o)' => /\ Travels(calls', reports', ev'[o].nextReport, ending', o, L)
                     /\ Follows(ev'[o], L, submitted[o], Reserved(o)')
  PROVE  LogInv(o, L)'
BY DEF LogInv

\* What is reserved is staged.
LEMMA FollowsStaged ==
  ASSUME NEW e, EvTyped(e), NEW L, NEW s \in Seq(Msgs), NEW w, w # NoMsg, Follows(e, L, s, w)
  PROVE  Contains(e.staged, w)
<1>1. PICK k \in 0 .. Len(s) :
        Len(e.staged) = (Len(s) - k) + 1 /\ e.staged[Len(e.staged)] = w
  BY DEF Follows, Matches
<1>2. Len(s) \in Nat /\ e.staged \in Seq(Msgs)
  BY DEF EvTyped
<1>3. Len(e.staged) \in 1 .. Len(e.staged)
  BY <1>1, <1>2
<1> QED BY <1>1, <1>3 DEF Contains

\* While the registry is healthy, the evidence is sound because it follows the log.
LEMMA OrderFrom ==
  ASSUME IInv', NoProtocolFailure', FlagInv', GateInv', \A o \in Owners : AbsentInv(o)',
         \A o \in Owners : \E L : LogInv(o, L)',
         ~Healthy' => \A o \in Owners : SoundInv(o)'
  PROVE  OrderInv'
<1>1. ASSUME Healthy', NEW o \in Owners PROVE SoundInv(o)'
  <2>1. EvOk(ev'[o], observed', credited')
    BY <1>1 DEF IInv, EvidenceInv
  <2>2. IsRecord(ev'[o]) /\ ~ev'[o].failed /\ EvTyped(ev'[o])
    BY <2>1 DEF EvOk, EvTyped
  <2>3. ASSUME bound'[o] = "bound", Reserved(o)' # NoMsg PROVE Contains(ev'[o].staged, Reserved(o)')
    <3>1. PICK L : LogInv(o, L)'
      OBVIOUS
    <3>2. Live(o)'
      BY <1>1, <2>3 DEF Live
    <3>3. Follows(ev'[o], L, submitted'[o], Reserved(o)')
      BY <3>1, <3>2 DEF LogInv
    <3>4. submitted'[o] \in Seq(Msgs)
      BY DEF IInv, TypeInv
    <3> QED BY <2>2, <2>3, <3>3, <3>4, FollowsStaged
  <2> QED BY <2>2, <2>3 DEF SoundInv
<1> QED BY <1>1 DEF OrderInv

\* The evidence that stays sound.
LEMMA SoundSame ==
  ASSUME NEW o \in Owners, SoundInv(o), ev'[o] = ev[o], bound'[o] = "bound" => bound[o] = "bound",
         Reserved(o)' \in {Reserved(o), NoMsg}
  PROVE  SoundInv(o)'
BY DEF SoundInv

\* The gate is not touched.
LEMMA GateSame ==
  ASSUME GateInv, UNCHANGED <<bound, holder>>,
         \A i \in DOMAIN reports' : reports'[i].kind = "switch" => reports'[i].owner > 1,
         \A c \in calls' : c.kind = "switch" => c.owner > 1
  PROVE  GateInv'
BY DEF GateInv, Removing

-----------------------------------------------------------------------------
\* Steps in which native reaches nothing.

Stays ==
  /\ UNCHANGED <<bound, ev, errs, loop, submitted, observed, rseq>>
  /\ \A o \in Owners : stageReq'[o] \in {stageReq[o], NoMsg}
  /\ ending \subseteq ending'
  /\ \A o \in Owners : o < current' => o \in ending'
  /\ \A o \in Owners : o \notin ending' => batches'[o] = batches[o]
  /\ IsFiniteSet(calls')
  /\ \A i \in DOMAIN reports' : /\ reports'[i].kind = "observe" => reports'[i].owner <= current'
                                /\ reports'[i].kind = "switch" => reports'[i].owner > 1
  /\ \A c \in calls' : c.kind = "switch" => c.owner > 1
  /\ \A o \in Owners, n \in Nat, L \in Seq(RepType) :
       Travels(calls, reports, n, ending, o, L) => Travels(calls', reports', n, ending', o, L)

\* What is on its way is the same, or is lost with its binding.
LEMMA WaitsTravel ==
  ASSUME ending \subseteq ending',
         \A o \in Owners : \/ SameWaits(calls, reports, calls', reports', o)
                           \/ o \in ending' /\ LostWaits(calls, reports, calls', reports', o)
  PROVE  \A o \in Owners, n \in Nat, L \in Seq(RepType) :
           Travels(calls, reports, n, ending, o, L) => Travels(calls', reports', n, ending', o, L)
BY TravelsSame, TravelsLost

\* They keep the order.
LEMMA StaysOrder ==
  ASSUME OrderInv, IInv', Stays, GateInv'
  PROVE  OrderInv'
<1>1. /\ NoProtocolFailure /\ \A o \in Owners : AbsentInv(o) /\ SoundInv(o)
      /\ \A o \in Owners : \E L : LogInv(o, L)
  BY DEF OrderInv
<1>2. NoProtocolFailure' /\ (Healthy' <=> Healthy)
  BY <1>1 DEF NoProtocolFailure, Stays, Healthy
<1>3. FlagInv'
  BY DEF FlagInv, Stays
<1>4. \A o \in Owners : AbsentInv(o)'
  BY <1>1 DEF AbsentInv, Stays
<1>5. \A o \in Owners : Reserved(o)' = Reserved(o)
  BY DEF Reserved, Submitted, Stays
<1>6. \A o \in Owners : SoundInv(o)'
  BY <1>1, <1>5, SoundSame DEF Stays
<1>7. ASSUME NEW o \in Owners PROVE \E L : LogInv(o, L)'
  <2>1. PICK L : LogInv(o, L)
    BY <1>1
  <2>2. ASSUME Live(o)'
        PROVE  /\ Travels(calls', reports', ev'[o].nextReport, ending', o, L)
               /\ Follows(ev'[o], L, submitted[o], Reserved(o)')
    <3>1. Live(o) /\ ev'[o] = ev[o]
      BY <1>2, <2>2 DEF Live, Stays
    <3>2. Travels(calls, reports, ev[o].nextReport, ending, o, L) /\ Follows(ev[o], L, submitted[o], Reserved(o))
      BY <2>1, <3>1 DEF LogInv
    <3>3. L \in Seq(RepType) /\ ev[o].nextReport \in Nat
      <4>1. L \in Seq(RepType) /\ ev[o].nextReport \in 0 .. Len(L)
        BY <2>1, <3>2 DEF LogInv, Follows
      <4> QED BY <4>1
    <3> QED BY <1>5, <3>1, <3>2, <3>3 DEF Stays
  <2>3. LogInv(o, L)'
    <3>1. /\ submitted'[o] = submitted[o] /\ rseq'[o] = rseq[o] /\ observed' = observed
          /\ o \notin ending' => o \notin ending /\ batches'[o] = batches[o]
      BY DEF Stays
    <3> QED BY <2>1, <2>2, <3>1, LogKept
  <2> QED BY <2>3
<1> QED BY <1>2, <1>3, <1>4, <1>6, <1>7, OrderFrom

-----------------------------------------------------------------------------
\* What is left of the calls that carry reports of binding o.
CallsLeft(o) ==
  \A c \in calls' : Sends(c, o) =>
    \E d \in calls : /\ Sends(d, o) /\ c.seq = d.seq /\ c.rep = d.rep
                     /\ c = d \/ (c = [d EXCEPT !.awaited = FALSE] /\ d \notin calls')

\* The calls that carry reports of binding o are the same.
CallsSame(o) == \A c : Sends(c, o) => (c \in calls <=> c \in calls')

\* Bindings that failed, or were removed, keep no batch.
LEMMA FailedBatches ==
  ASSUME NEW S, NEW E, FailAndEnd(S, E)
  PROVE  /\ ending' = ending \cup S \cup E /\ ending \subseteq ending'
         /\ \A o \in Owners : o \notin ending' => batches'[o] = batches[o]
BY DEF FailAndEnd, Discard

\* When the worker fails, the bindings that had reports are ending.
LEMMA FailedStays ==
  ASSUME TypeInv, FlagInv, NEW r, NEW rest \in Seq(ItemType), WorkerFailed(r, rest), UNCHANGED current,
         \A o \in Owners : CallsLeft(o), \A o \in Owners : o # r.owner => CallsSame(o)
  PROVE  /\ ending \subseteq ending' /\ \A o \in Owners : o < current' => o \in ending'
         /\ \A o \in Owners : o \notin ending' => batches'[o] = batches[o]
         /\ \A i \in DOMAIN reports' : reports'[i].kind = "end"
         /\ \A o \in Owners, n \in Nat, L \in Seq(RepType) :
              Travels(calls, reports, n, ending, o, L) => Travels(calls', reports', n, ending', o, L)
<1>1. \E E : FailAndEnd({r.owner, current}, E)
  BY DEF WorkerFailed
<1>2. /\ ending \subseteq ending' /\ r.owner \in ending' /\ current \in ending'
      /\ \A o \in Owners : o \notin ending' => batches'[o] = batches[o]
  BY <1>1, FailedBatches
<1>3. \A o \in Owners : o < current' => o \in ending'
  BY <1>2 DEF FlagInv
<1>4. \A i \in DOMAIN reports' : reports'[i].kind = "end"
  BY EndReportsIs DEF WorkerFailed
<1>5. \A o, i : i \in DOMAIN reports' => ~Queues(reports'[i], o)
  BY <1>4 DEF Queues
<1>6. ASSUME NEW o \in Owners, o \in ending' PROVE LostWaits(calls, reports, calls', reports', o)
  BY <1>5 DEF CallsLeft, LostWaits
<1>7. ASSUME NEW o \in Owners, o \notin ending' PROVE SameWaits(calls, reports, calls', reports', o)
  <2>1. o # r.owner /\ o # current /\ ~(o < current)
    BY <1>2, <1>3, <1>7
  <2>2. o \in Nat /\ current \in Nat
    BY DeliveryAssumption DEF TypeInv, Owners
  <2>3. ~(o <= current)
    BY <2>1, <2>2
  <2>4. \A i \in DOMAIN reports : ~Queues(reports[i], o)
    BY <2>3 DEF FlagInv, Queues
  <2> QED BY <1>5, <2>1, <2>4 DEF CallsSame, SameWaits
<1> QED BY <1>2, <1>3, <1>4, <1>6, <1>7, WaitsTravel

\* Neither calls nor queue change.
LEMMA SameAll ==
  ASSUME UNCHANGED <<calls, reports>>
  PROVE  \A o : SameWaits(calls, reports, calls', reports', o)
BY DEF SameWaits

\* Reports of no binding are added to the queue, and the calls that carry reports are the same.
LEMMA SameAppend ==
  ASSUME NEW rs \in Seq(ItemType), NEW x \in ItemType, x.kind # "observe"
  PROVE  \A o, cs : SameWaits(cs, rs, cs, Append(rs, x), o)
<1> DEFINE qs == Append(rs, x)
<1>1. /\ DOMAIN rs = 1 .. Len(rs) /\ DOMAIN qs = 1 .. Len(rs) + 1 /\ Len(rs) \in Nat
      /\ \A i \in DOMAIN rs : qs[i] = rs[i]
      /\ qs[Len(rs) + 1] = x
  BY AppendIs
<1> HIDE DEF qs
<1>2. \A i \in DOMAIN qs : i \in DOMAIN rs \/ i = Len(rs) + 1
  BY <1>1
<1>3. DOMAIN rs \subseteq DOMAIN qs
  BY <1>1
<1>4. \A o : \A i \in DOMAIN qs : Queues(qs[i], o) => i \in DOMAIN rs
  BY <1>1, <1>2 DEF Queues
<1> QED BY <1>1, <1>3, <1>4 DEF SameWaits, qs

\* A step that touches neither the queue nor the calls, and at most fails bindings.
LEMMA QuietStays ==
  ASSUME FlagInv, GateInv,
         UNCHANGED <<bound, ev, errs, loop, submitted, observed, rseq, calls, reports, current>>,
         \A o \in Owners : stageReq'[o] \in {stageReq[o], NoMsg},
         UNCHANGED <<ending, batches>> \/ \E S, E : FailAndEnd(S, E)
  PROVE  Stays /\ (UNCHANGED holder => GateInv')
<1>1. /\ ending \subseteq ending' /\ \A o \in Owners : o \notin ending' => batches'[o] = batches[o]
  BY FailedBatches
<1>2. \A i \in DOMAIN reports' : /\ reports'[i].kind = "observe" => reports'[i].owner <= current'
                                 /\ reports'[i].kind = "switch" => reports'[i].owner > 1
  BY DEF FlagInv, GateInv
<1>3. /\ IsFiniteSet(calls') /\ \A o \in Owners : o < current' => o \in ending'
      /\ \A c \in calls' : c.kind = "switch" => c.owner > 1
  BY <1>1 DEF FlagInv, GateInv
<1>4. \A o \in Owners, n \in Nat, L \in Seq(RepType) :
        Travels(calls, reports, n, ending, o, L) => Travels(calls', reports', n, ending', o, L)
  BY <1>1, SameAll, WaitsTravel
<1>5. Stays
  BY <1>1, <1>2, <1>3, <1>4 DEF Stays
<1>6. UNCHANGED holder => GateInv'
  BY <1>2, <1>3, GateSame
<1> QED BY <1>5, <1>6

\* Native describes its session.
LEMMA DescribeStays ==
  ASSUME IInv, OrderInv, NativeDescribe
  PROVE  Stays /\ GateInv'
<1>1. /\ UNCHANGED <<bound, ev, errs, loop, submitted, observed, rseq, stageReq, calls, reports, current>>
      /\ holder.pc = "describe"
      /\ Hold("refused") \/ Hold("described")
      /\ UNCHANGED <<ending, batches>> \/ FailState({holder.owner})
  BY DEF NativeDescribe, stageVars, histVars, flags
<1>2. /\ FlagInv /\ GateInv /\ HolderInv
  BY DEF OrderInv, IInv
<1>3. Stays
  BY <1>1, <1>2, QuietStays DEF FailState
<1>4. GateInv'
  <2>1. /\ holder'.kind = holder.kind /\ holder'.owner = holder.owner
        /\ holder'.pc \in {"refused", "described"}
    BY <1>1, <1>2 DEF Hold, HolderInv, IsHolder, HolderFields
  <2>2. Removing' = Removing
    BY <2>1 DEF Removing
  <2>3. /\ holder.owner \in Owners /\ Removing \in Owners
        /\ holder.kind = "switch" /\ bound[Removing] = "bound"
    BY <1>1, <1>2 DEF GateInv
  <2> QED BY <1>1, <1>2, <2>1, <2>2, <2>3 DEF GateInv
<1> QED BY <1>3, <1>4

\* Native accepts a staged message.
Takes(o) ==
  LET m == stageReq[o] IN
  /\ UNCHANGED <<bound, holder, ev, errs, loop, calls, current, ending>>
  /\ m # NoMsg /\ stageReq' = [stageReq EXCEPT ![o] = NoMsg]
  /\ o = current /\ o \notin ending /\ Cardinality(DOMAIN batches[o]) < QueueLimit
  /\ Report(o, <<[batch |-> Len(submitted[o]) + 1, phase |-> Claimed, ids |-> <<m>>]>>)
  /\ batches' = [batches EXCEPT ![o] =
                   Extended(@, Len(submitted[o]) + 1, [id |-> m, phase |-> Claimed])]
  /\ submitted' = [submitted EXCEPT ![o] = Append(@, m)]
  /\ observed' = [observed EXCEPT ![m] = Claimed]

\* The stage handler of native refuses the message, or native accepts it.
LEMMA StageStays ==
  ASSUME IInv, OrderInv, NEW o \in Owners, NativeStage(o)
  PROVE  (Stays /\ GateInv') \/ Takes(o)
<1>1. /\ UNCHANGED <<bound, holder, ev, errs, loop, calls, current>>
      /\ stageReq[o] # NoMsg /\ stageReq' = [stageReq EXCEPT ![o] = NoMsg]
  BY DEF NativeStage, goVars, publicVars
<1>2. \/ UNCHANGED <<rseq, reports, submitted, observed, ending, batches>>
      \/ UNCHANGED <<rseq, reports, submitted, observed>> /\ FailState({o})
      \/ Takes(o)
  BY <1>1 DEF NativeStage, Takes, Deliverable, flags
<1>3. \A p \in Owners : stageReq'[p] \in {stageReq[p], NoMsg}
  BY <1>1 DEF IInv, TypeInv
<1>4. UNCHANGED <<rseq, reports, submitted, observed, ending, batches>> => Stays /\ GateInv'
  BY <1>1, <1>3, QuietStays DEF OrderInv
<1>5. UNCHANGED <<rseq, reports, submitted, observed>> /\ FailState({o}) => Stays /\ GateInv'
  BY <1>1, <1>3, QuietStays DEF OrderInv, FailState
<1> QED BY <1>2, <1>4, <1>5

\* Native carries the batches of done, which the reports xs name, one phase on.
Brings(xs, done) ==
  LET o == current IN
  /\ UNCHANGED <<bound, holder, ev, errs, loop, stageReq, submitted, calls, current, ending>>
  /\ o \notin ending /\ xs \in Seq(RepType) /\ Report(o, xs) /\ done \subseteq DOMAIN batches[o]
  /\ \A i \in 1 .. Len(xs) : /\ xs[i].batch \in done
                             /\ xs[i].ids = <<batches[o][xs[i].batch].id>>
                             /\ xs[i].phase = batches[o][xs[i].batch].phase + 1
                             /\ \A j \in 1 .. Len(xs) : xs[j].batch = xs[i].batch => j = i
  /\ \A b \in done : \E i \in 1 .. Len(xs) : xs[i].batch = b
  /\ observed' = [m \in Msgs |-> IF m \in {batches[o][b].id : b \in done}
                                 THEN observed[m] + 1 ELSE observed[m]]
  /\ \A p \in Owners : p # o => batches'[p] = batches[p]
  /\ \A b \in DOMAIN batches[o] :
       b \in DOMAIN batches'[o] \/ (b \in done /\ batches[o][b].phase = 3)

\* message_start and message_end.
LEMMA MessageBrings ==
  ASSUME IInv, OrderInv, NEW b, NEW phase, NativeMessage(b, phase)
  PROVE  (Stays /\ GateInv') \/ \E xs, done : Brings(xs, done)
<1> USE DEF Claimed, Started, Ended, InContext
<1> DEFINE o == current
           x == batches[o][b]
           m == x.id
           r == [batch |-> b, phase |-> phase, ids |-> <<m>>]
<1>0. TypeInv /\ BatchInv /\ FlagInv /\ GateInv
  BY DEF IInv, OrderInv
<1>1. /\ UNCHANGED <<bound, holder, ev, errs, loop, stageReq, submitted, calls, current>>
      /\ phase \in {2, 3} /\ b \in DOMAIN batches[o] /\ x.phase = phase - 1 /\ o \notin ending
  BY DEF NativeMessage, goVars, publicVars, stageVars
<1>2. \/ FailState({o}) /\ UNCHANGED <<rseq, reports, observed>>
      \/ /\ batches' = [batches EXCEPT ![o][b].phase = phase]
         /\ Report(o, <<r>>) /\ observed' = [observed EXCEPT ![m] = phase] /\ UNCHANGED ending
  BY DEF NativeMessage, flags
<1>3. CASE FailState({o}) /\ UNCHANGED <<rseq, reports, observed>>
  <2>1. \A p \in Owners : stageReq'[p] \in {stageReq[p], NoMsg}
    BY <1>1
  <2> QED BY <1>0, <1>1, <1>3, <2>1, QuietStays DEF FailState
<1>4. CASE /\ batches' = [batches EXCEPT ![o][b].phase = phase]
           /\ Report(o, <<r>>) /\ observed' = [observed EXCEPT ![m] = phase] /\ UNCHANGED ending
  <2>1. /\ o \in Owners /\ BatchOk(o) /\ submitted[o] \in Seq(Msgs)
        /\ observed \in [Msgs -> 0 .. 4] /\ IsMap(batches) /\ DOMAIN batches = Owners
        /\ IsMap(batches[o]) /\ DOMAIN batches[o] \subseteq 1 .. Len(submitted[o])
        /\ \A c \in DOMAIN batches[o] : batches[o][c] \in [id: Msgs, phase: 1 .. 3]
        /\ \A c \in DOMAIN batches[o] : batches[o][c].id = submitted[o][c]
        /\ \A c \in DOMAIN batches[o] : batches[o][c].phase = observed[submitted[o][c]]
    <3>1. o \in Owners /\ BatchOk(o)
      BY <1>0 DEF TypeInv, BatchInv
    <3> QED BY <1>0, <3>1 DEF TypeInv, BatchOk
  <2>3. m \in Msgs /\ b \in Nat /\ observed[m] + 1 = phase
    BY <1>1, <2>1
  <2>4. observed' = [n \in Msgs |-> IF n \in {batches[o][c].id : c \in {b}}
                                    THEN observed[n] + 1 ELSE observed[n]]
    <3>1. {batches[o][c].id : c \in {b}} = {m}
      OBVIOUS
    <3> HIDE DEF m
    <3>2. observed' = [n \in Msgs |-> IF n = m THEN phase ELSE observed[n]]
      BY <1>4, <2>1
    <3> QED BY <2>3, <3>1, <3>2
  <2>5. /\ \A p \in Owners : p # o => batches'[p] = batches[p]
        /\ DOMAIN batches'[o] = DOMAIN batches[o]
    BY <1>4, <2>1 DEF IsMap
  <2> DEFINE xs == <<r>>
  <2>6. r \in RepType /\ r.batch = b /\ r.ids = <<m>> /\ r.phase = x.phase + 1
    BY <1>1, <2>3 DEF RepType
  <2> HIDE DEF r
  <2>7. xs \in Seq(RepType) /\ Len(xs) = 1 /\ xs[1] = r
    BY <2>6
  <2>8. Report(o, xs)
    BY <1>4
  <2> HIDE DEF xs
  <2>9. \A i \in 1 .. Len(xs) : i = 1 /\ xs[i] = r
    BY <2>7
  <2>10. 1 \in 1 .. Len(xs)
    BY <2>7
  <2> HIDE DEF m, x, o
  <2>11. Brings(xs, {b})
    BY <1>1, <1>4, <2>4, <2>5, <2>6, <2>7, <2>8, <2>9, <2>10 DEF Brings, m, x, o
  <2> QED BY <2>11
<1> HIDE DEF r, m, x, o
<1> QED BY <1>2, <1>3, <1>4

\* A strictly rising function onto as many numbers reaches all of them.
LEMMA AscendingAll ==
  ASSUME NEW k \in Nat, NEW S \in SUBSET (1 .. k)
  PROVE  /\ \A i, j \in 1 .. Cardinality(S) : Ascending(S)[i] = Ascending(S)[j] => i = j
         /\ \A b \in S : \E i \in 1 .. Cardinality(S) : Ascending(S)[i] = b
<1> DEFINE n == Cardinality(S)
           f == Ascending(S)
<1>1. f \in [1 .. n -> S] /\ n \in Nat /\ \A i, j \in 1 .. n : i < j => f[i] < f[j]
  BY AscendingIs
<1>0. IsFiniteSet(S) /\ \A x \in S : x \in Nat
  <2>1. IsFiniteSet(S)
    BY BoundedFinite
  <2>2. \A x \in S : x \in Nat
    OBVIOUS
  <2> QED BY <2>1, <2>2
<1> HIDE DEF f, n
<1>2. IsFiniteSet(1 .. n) /\ Cardinality(1 .. n) = n
  BY <1>1, FS_Interval
<1>3. ASSUME NEW i \in 1 .. n, NEW j \in 1 .. n, f[i] = f[j] PROVE i = j
  <2>1. f[i] \in Nat /\ f[j] \in Nat
    BY <1>0, <1>1
  <2>2. ~(f[i] < f[j]) /\ ~(f[j] < f[i])
    BY <1>3, <2>1
  <2>3. ~(i < j) /\ ~(j < i)
    BY <1>1, <2>2
  <2> QED BY <2>3, <1>1
<1>4. f \in Injection(1 .. n, S)
  BY <1>1, <1>3 DEF Injection, IsInjective
<1>5. f \in Surjection(1 .. n, S)
  BY <1>0, <1>2, <1>4, FS_Injection DEF n
<1>6. \A b \in S : \E i \in 1 .. n : f[i] = b
  BY <1>5 DEF Surjection
<1> QED BY <1>3, <1>6 DEF f, n

\* The context event.
LEMMA ContextBrings ==
  ASSUME IInv, OrderInv, NativeContext
  PROVE  (Stays /\ GateInv') \/ \E xs, done : Brings(xs, done)
<1> USE DEF Claimed, Started, Ended, InContext
<1> DEFINE o == current
           done == {b \in DOMAIN batches[o] : batches[o][b].phase = 3}
           n == Cardinality(done)
           f == Ascending(done)
           rs == [i \in 1 .. n |->
                   LET b == f[i] IN [batch |-> b, phase |-> 4, ids |-> <<batches[o][b].id>>]]
<1>0. TypeInv /\ BatchInv /\ FlagInv /\ GateInv
  BY DEF IInv, OrderInv
<1>1. /\ UNCHANGED <<bound, holder, ev, errs, loop, stageReq, submitted, calls, current>>
      /\ o \notin ending
  BY DEF NativeContext, goVars, publicVars, stageVars
<1>2. \/ FailState({o}) /\ UNCHANGED <<rseq, reports, observed>>
      \/ /\ batches' = [batches EXCEPT ![o] = Restrict(@, DOMAIN @ \ done)]
         /\ Report(o, rs) /\ UNCHANGED ending
         /\ observed' = [m \in Msgs |-> IF m \in {batches[o][b].id : b \in done} THEN 4 ELSE observed[m]]
  BY DEF NativeContext, flags
<1>3. CASE FailState({o}) /\ UNCHANGED <<rseq, reports, observed>>
  <2>1. \A p \in Owners : stageReq'[p] \in {stageReq[p], NoMsg}
    BY <1>1
  <2> QED BY <1>0, <1>1, <1>3, <2>1, QuietStays DEF FailState
<1>4. CASE /\ batches' = [batches EXCEPT ![o] = Restrict(@, DOMAIN @ \ done)]
           /\ Report(o, rs) /\ UNCHANGED ending
           /\ observed' = [m \in Msgs |-> IF m \in {batches[o][b].id : b \in done} THEN 4 ELSE observed[m]]
  <2>1. /\ o \in Owners /\ BatchOk(o) /\ submitted[o] \in Seq(Msgs) /\ Len(submitted[o]) \in Nat
        /\ IsMap(batches) /\ DOMAIN batches = Owners
    BY <1>0 DEF TypeInv, BatchInv
  <2>2. /\ IsMap(batches[o]) /\ DOMAIN batches[o] \subseteq 1 .. Len(submitted[o])
        /\ \A c \in DOMAIN batches[o] : batches[o][c] \in [id: Msgs, phase: 1 .. 3]
        /\ \A c \in DOMAIN batches[o] : batches[o][c].phase = observed[batches[o][c].id]
    BY <2>1 DEF BatchOk
  <2>3. \A b \in done : b \in Nat /\ batches[o][b].id \in Msgs /\ observed[batches[o][b].id] = 3
    BY <2>1, <2>2
  <2>4. observed' = [m \in Msgs |-> IF m \in {batches[o][c].id : c \in done}
                                    THEN observed[m] + 1 ELSE observed[m]]
    <3>1. \A m \in {batches[o][c].id : c \in done} : observed[m] + 1 = 4
      BY <2>3
    <3> HIDE DEF done
    <3> QED BY <1>4, <3>1
  <2>5. /\ \A p \in Owners : p # o => batches'[p] = batches[p]
        /\ batches'[o] = Restrict(batches[o], DOMAIN batches[o] \ done)
    BY <1>4, <2>1 DEF IsMap
  <2>6. DOMAIN batches'[o] = DOMAIN batches[o] \ done
    BY <2>5 DEF Restrict
  <2>7. \A b \in DOMAIN batches[o] :
          b \in DOMAIN batches'[o] \/ (b \in done /\ batches[o][b].phase = 3)
    BY <2>6
  <2>8. done \in SUBSET (1 .. Len(submitted[o])) /\ done \subseteq DOMAIN batches[o]
        /\ \A b \in done : batches[o][b].phase = 3
    BY <2>2
  <2> HIDE DEF done
  <2>9. /\ f \in [1 .. n -> done] /\ n \in Nat
        /\ \A i, j \in 1 .. n : f[i] = f[j] => i = j
        /\ \A b \in done : \E i \in 1 .. n : f[i] = b
    <3>1. PICK k \in Nat : done \in SUBSET (1 .. k)
      BY <2>1, <2>8
    <3>2. f \in [1 .. n -> done] /\ n \in Nat
      BY <3>1, AscendingIs
    <3>3. /\ \A i, j \in 1 .. n : f[i] = f[j] => i = j
          /\ \A b \in done : \E i \in 1 .. n : f[i] = b
      BY <3>1, AscendingAll
    <3> QED BY <3>2, <3>3
  <2> HIDE DEF f, n
  <2>10. ASSUME NEW i \in 1 .. n
         PROVE  /\ rs[i] \in RepType /\ rs[i].batch = f[i] /\ rs[i].phase = 4
                /\ rs[i].ids = <<batches[o][f[i]].id>>
    <3> DEFINE b == f[i]
               m == batches[o][b].id
    <3>1. b \in done
      BY <2>9
    <3>2. b \in Nat /\ m \in Msgs
      BY <2>3, <3>1
    <3>3. rs[i] = [batch |-> b, phase |-> 4, ids |-> <<m>>]
      OBVIOUS
    <3> HIDE DEF b, m, rs
    <3>4. rs[i] \in RepType /\ rs[i].batch = b /\ rs[i].phase = 4 /\ rs[i].ids = <<m>>
      BY <3>2, <3>3 DEF RepType
    <3> QED BY <3>4 DEF b, m
  <2>11. rs \in Seq(RepType) /\ Len(rs) = n
    <3>1. rs = [i \in 1 .. n |-> rs[i]] /\ DOMAIN rs = 1 .. n
      OBVIOUS
    <3> HIDE DEF rs
    <3>2. rs \in Seq(RepType)
      BY <3>1, <2>9, <2>10, IsASeq
    <3> QED BY <3>1, <3>2, <2>9
  <2> HIDE DEF rs
  <2>12. ASSUME NEW i \in 1 .. Len(rs)
         PROVE  /\ rs[i].batch \in done
                /\ rs[i].ids = <<batches[o][rs[i].batch].id>>
                /\ rs[i].phase = batches[o][rs[i].batch].phase + 1
                /\ \A j \in 1 .. Len(rs) : rs[j].batch = rs[i].batch => j = i
    <3>1. f[i] \in done /\ rs[i].batch = f[i] /\ rs[i].phase = 4 /\ rs[i].ids = <<batches[o][f[i]].id>>
      BY <2>9, <2>10, <2>11
    <3>2. batches[o][f[i]].phase + 1 = 4
      BY <2>8, <3>1
    <3>3. \A j \in 1 .. Len(rs) : rs[j].batch = f[i] => j = i
      BY <2>9, <2>10, <2>11
    <3> QED BY <3>1, <3>2, <3>3
  <2>13. \A b \in done : \E i \in 1 .. Len(rs) : rs[i].batch = b
    BY <2>9, <2>10, <2>11
  <2>14. Brings(rs, done)
    <3>1. Report(o, rs) /\ UNCHANGED ending
      BY <1>4
    <3> HIDE DEF o
    <3> QED BY <1>1, <2>4, <2>5, <2>7, <2>8, <2>11, <2>12, <2>13, <3>1 DEF Brings, o
  <2> QED BY <2>14
<1> HIDE DEF rs, n, f, done, o
<1> QED BY <1>2, <1>3, <1>4

-----------------------------------------------------------------------------
\* session_switch and session_shutdown.
LEMMA SwitchStays ==
  ASSUME IInv, OrderInv, NativeSwitch \/ NativeEnd
  PROVE  Stays /\ GateInv'
<1> DEFINE o == current
<1>0. TypeInv /\ FlagInv /\ GateInv
  BY DEF IInv, OrderInv
<1>1. /\ UNCHANGED <<bound, holder, ev, errs, loop, submitted, observed, rseq, stageReq, calls>>
      /\ current' = current \/ (current' = current + 1 /\ current' \in Owners)
  BY DEF NativeSwitch, NativeEnd, goVars, publicVars, stageVars, histVars
<1>2. current \in Owners /\ current \in Nat /\ current' \in Nat /\ current <= current' /\ Owners \subseteq Nat
  BY <1>0, <1>1, DeliveryAssumption DEF TypeInv, Owners
<1> DEFINE Adds(x) == /\ x \in ItemType /\ x.kind # "observe" /\ (x.kind = "switch" => x.owner > 1)
                      /\ reports' = Append(reports, x)
                      /\ ending' = ending \cup {o} /\ Discard({o})
<1>3. \/ \E x : Adds(x)
      \/ reports' = reports /\ \E S, E : o \in S \cup E /\ FailAndEnd(S, E)
  <2>1. NoReport \in RepType
    BY DEF NoReport, RepType, InContext
  <2>2. CASE NativeSwitch
    <3>1. current + 1 \in Owners /\ current + 1 > 1
      BY <2>2, <1>2, DeliveryAssumption DEF NativeSwitch, Owners
    <3> DEFINE x == Item("switch", current + 1, 0, NoReport)
    <3>2. x \in ItemType /\ x.kind = "switch" /\ x.owner = current + 1
      BY <2>1, <3>1 DEF Item, ItemType
    <3>3. \/ reports' = Append(reports, x) /\ ending' = ending \cup {o} /\ Discard({o})
          \/ reports' = reports /\ FailAndEnd({current + 1}, {o})
          \/ reports' = reports /\ FailAndEnd({o}, {})
      BY <2>2 DEF NativeSwitch, FailState
    <3> HIDE DEF x
    <3>4. CASE reports' = Append(reports, x) /\ ending' = ending \cup {o} /\ Discard({o})
      <4>1. Adds(x)
        BY <3>1, <3>2, <3>4
      <4> QED BY <4>1
    <3>5. CASE reports' = reports /\ FailAndEnd({current + 1}, {o})
      <4>1. o \in {current + 1} \cup {o}
        OBVIOUS
      <4> QED BY <4>1, <3>5
    <3>6. CASE reports' = reports /\ FailAndEnd({o}, {})
      <4>1. o \in {o} \cup {}
        OBVIOUS
      <4> QED BY <4>1, <3>6
    <3> QED BY <3>3, <3>4, <3>5, <3>6
  <2>3. CASE NativeEnd
    <3> DEFINE x == Item("end", o, 0, NoReport)
    <3>2. x \in ItemType /\ x.kind = "end"
      BY <2>1, <1>2 DEF Item, ItemType
    <3>3. \/ reports' = Append(reports, x) /\ ending' = ending \cup {o} /\ Discard({o})
          \/ reports' = reports /\ FailAndEnd({o}, {o})
      BY <2>3 DEF NativeEnd
    <3> HIDE DEF x
    <3>4. CASE reports' = Append(reports, x) /\ ending' = ending \cup {o} /\ Discard({o})
      <4>1. Adds(x)
        BY <3>2, <3>4
      <4> QED BY <4>1
    <3>5. CASE reports' = reports /\ FailAndEnd({o}, {o})
      <4>1. o \in {o} \cup {o}
        OBVIOUS
      <4> QED BY <4>1, <3>5
    <3> QED BY <3>3, <3>4, <3>5
  <2> QED BY <2>2, <2>3
<1>4. /\ ending \subseteq ending' /\ o \in ending'
      /\ \A p \in Owners : p \notin ending' => batches'[p] = batches[p]
  BY <1>3, FailedBatches DEF Discard
<1>5. \A p \in Owners : p < current' => p \in ending'
  <2>1. \A p \in Owners : p < current' => p < current \/ p = current
    BY <1>1, <1>2
  <2> QED BY <2>1, <1>0, <1>4 DEF FlagInv
<1>6. /\ \A i \in DOMAIN reports' : /\ reports'[i].kind = "observe" => reports'[i].owner <= current'
                                    /\ reports'[i].kind = "switch" => reports'[i].owner > 1
      /\ \A p \in Owners : SameWaits(calls, reports, calls', reports', p)
  <2>0. reports \in Seq(ItemType) /\ \A i \in DOMAIN reports : reports[i].owner \in Nat
    <3>1. reports \in Seq(ItemType)
      BY <1>0 DEF TypeInv
    <3>2. \A i \in DOMAIN reports : reports[i] \in ItemType
      BY <3>1
    <3> QED BY <3>1, <3>2, <1>2 DEF ItemType
  <2>1. \A i \in DOMAIN reports : /\ reports[i].kind = "observe" => reports[i].owner <= current'
                                  /\ reports[i].kind = "switch" => reports[i].owner > 1
    BY <1>0, <1>2, <2>0 DEF FlagInv, GateInv
  <2>2. ASSUME NEW x, Adds(x)
        PROVE  /\ \A i \in DOMAIN reports' : /\ reports'[i].kind = "observe" => reports'[i].owner <= current'
                                             /\ reports'[i].kind = "switch" => reports'[i].owner > 1
               /\ \A p \in Owners : SameWaits(calls, reports, calls', reports', p)
    <3>1. /\ DOMAIN reports = 1 .. Len(reports) /\ DOMAIN reports' = 1 .. Len(reports) + 1
          /\ Len(reports) \in Nat
          /\ \A i \in DOMAIN reports : reports'[i] = reports[i]
          /\ reports'[Len(reports) + 1] = x
      BY <2>0, <2>2, AppendIs
    <3>2. \A i \in DOMAIN reports' : i \in DOMAIN reports \/ i = Len(reports) + 1
      BY <3>1
    <3>3. \A p : SameWaits(calls, reports, calls, reports', p)
      BY <2>0, <2>2, SameAppend
    <3> QED BY <1>1, <2>1, <2>2, <3>1, <3>2, <3>3
  <2>3. CASE reports' = reports
    BY <2>1, <2>3, <1>1, SameAll
  <2> QED BY <2>2, <2>3, <1>3
<1> HIDE DEF o, Adds
<1>7. \A p \in Owners, n \in Nat, L \in Seq(RepType) :
        Travels(calls, reports, n, ending, p, L) => Travels(calls', reports', n, ending', p, L)
  BY <1>4, <1>6, WaitsTravel
<1>8. IsFiniteSet(calls') /\ \A c \in calls' : c.kind = "switch" => c.owner > 1
  BY <1>0, <1>1 DEF FlagInv, GateInv
<1>9. Stays
  BY <1>1, <1>4, <1>5, <1>6, <1>7, <1>8 DEF Stays
<1>10. GateInv'
  BY <1>0, <1>1, <1>6, <1>8, GateSame
<1> QED BY <1>9, <1>10

\* A failure of the worker.
LEMMA WorkerFailedStays ==
  ASSUME IInv, OrderInv, NEW r, NEW rest \in Seq(ItemType), WorkerFailed(r, rest),
         UNCHANGED <<bound, holder, ev, errs, loop, submitted, observed, rseq, stageReq, current>>,
         IsFiniteSet(calls'), \A c \in calls' : c.kind = "switch" => c.owner > 1,
         \A o \in Owners : CallsLeft(o), \A o \in Owners : o # r.owner => CallsSame(o)
  PROVE  Stays /\ GateInv'
<1>1. TypeInv /\ FlagInv /\ GateInv
  BY DEF IInv, OrderInv
<1>2. /\ ending \subseteq ending' /\ \A o \in Owners : o < current' => o \in ending'
      /\ \A o \in Owners : o \notin ending' => batches'[o] = batches[o]
      /\ \A i \in DOMAIN reports' : reports'[i].kind = "end"
      /\ \A o \in Owners, n \in Nat, L \in Seq(RepType) :
           Travels(calls, reports, n, ending, o, L) => Travels(calls', reports', n, ending', o, L)
  BY <1>1, FailedStays
<1>3. \A i \in DOMAIN reports' : reports'[i].kind # "observe" /\ reports'[i].kind # "switch"
  BY <1>2
<1>4. Stays
  BY <1>2, <1>3 DEF Stays
<1>5. GateInv'
  BY <1>1, <1>3, GateSame
<1> QED BY <1>4, <1>5

\* The worker sends the first report of the queue, or gives up on it.
LEMMA SendStays ==
  ASSUME IInv, OrderInv, Pipeline = 1, WorkerSend
  PROVE  Stays /\ GateInv'
<1> DEFINE r == Head(reports)
<1>0. TypeInv /\ FlagInv /\ GateInv /\ reports \in Seq(ItemType) /\ calls \in SUBSET CallType
  BY DEF IInv, OrderInv, TypeInv
<1>1. /\ UNCHANGED <<bound, holder, ev, errs, loop, submitted, observed, rseq, stageReq, current>>
      /\ reports # <<>> /\ Cardinality(Awaited) < 1
  BY DEF WorkerSend, goVars, publicVars, stageVars, histVars
<1>2. \/ WorkerFailed(r, Tail(reports)) /\ UNCHANGED calls
      \/ calls' = calls \cup {Request(r)} /\ reports' = Tail(reports) /\ UNCHANGED <<ending, batches>>
  BY DEF WorkerSend, flags
<1>3. /\ r \in ItemType /\ Tail(reports) \in Seq(ItemType) /\ 1 \in DOMAIN reports /\ r = reports[1]
      /\ \A i \in DOMAIN Tail(reports) : i + 1 \in DOMAIN reports /\ Tail(reports)[i] = reports[i + 1]
  BY <1>0, <1>1, TailIs
<1>4. \A o : UNCHANGED calls => CallsLeft(o) /\ CallsSame(o)
  BY DEF CallsLeft, CallsSame
<1>5. CASE WorkerFailed(r, Tail(reports)) /\ UNCHANGED calls
  <2>1. IsFiniteSet(calls') /\ \A c \in calls' : c.kind = "switch" => c.owner > 1
    BY <1>0, <1>5 DEF FlagInv, GateInv
  <2> QED BY <1>1, <1>3, <1>4, <1>5, <2>1, WorkerFailedStays
<1>6. CASE calls' = calls \cup {Request(r)} /\ reports' = Tail(reports) /\ UNCHANGED <<ending, batches>>
  <2>1. \A c \in calls : ~c.awaited
    <3>1. IsFiniteSet(Awaited)
      BY <1>0, FS_Subset DEF FlagInv, Awaited
    <3>2. Cardinality(Awaited) \in Nat
      BY <3>1, FS_CardinalityType
    <3>3. Cardinality(Awaited) = 0
      BY <3>2, <1>1
    <3>4. Awaited = {}
      BY <3>1, <3>3, FS_EmptySet
    <3> QED BY <3>4 DEF Awaited
  <2>2. \A o \in Owners, n \in Nat, L \in Seq(RepType) :
          Travels(calls, reports, n, ending, o, L) => Travels(calls', reports', n, ending', o, L)
    <3>1. ASSUME NEW o \in Owners, NEW n \in Nat, NEW L \in Seq(RepType),
                 Travels(calls, reports, n, ending, o, L)
          PROVE  Travels(calls \cup {Request(r)}, Tail(reports), n, ending, o, L)
      BY <1>0, <1>1, <2>1, <3>1, TravelsSend
    <3> QED BY <1>6, <3>1
  <2>3. IsFiniteSet(calls')
    BY <1>0, <1>6, FS_AddElement DEF FlagInv
  <2>4. \A i \in DOMAIN reports' : /\ reports'[i].kind = "observe" => reports'[i].owner <= current'
                                   /\ reports'[i].kind = "switch" => reports'[i].owner > 1
    BY <1>0, <1>1, <1>3, <1>6 DEF FlagInv, GateInv
  <2>5. \A c \in calls' : c.kind = "switch" => c.owner > 1
    <3>1. Request(r).kind = r.kind /\ Request(r).owner = r.owner
      BY DEF Request
    <3> QED BY <3>1, <1>0, <1>3, <1>6 DEF GateInv
  <2>6. \A o \in Owners : o < current' => o \in ending'
    BY <1>0, <1>1, <1>6 DEF FlagInv
  <2>7. ending \subseteq ending' /\ batches' = batches
    BY <1>6
  <2>8. Stays
    BY <1>1, <2>2, <2>3, <2>4, <2>5, <2>6, <2>7 DEF Stays
  <2>9. GateInv'
    BY <1>0, <1>1, <2>4, <2>5, GateSame
  <2> QED BY <2>8, <2>9
<1> QED BY <1>2, <1>5, <1>6

\* The worker learns that a request was served.
LEMMA AckStays ==
  ASSUME IInv, OrderInv, NEW c \in calls, WorkerAck(c)
  PROVE  Stays /\ GateInv'
<1>0. TypeInv /\ FlagInv /\ GateInv /\ reports \in Seq(ItemType)
  BY DEF IInv, OrderInv, TypeInv
<1>1. /\ UNCHANGED <<bound, holder, ev, errs, loop, submitted, observed, rseq, stageReq, current>>
      /\ c.reply = "ok" /\ calls' = calls \ {c}
  BY DEF WorkerAck, goVars, publicVars, stageVars, histVars
<1>2. WorkerFailed(c, reports) \/ UNCHANGED <<ending, batches, reports>>
  <2>1. c.kind \in {"observe", "switch", "end"}
    BY <1>0 DEF TypeInv, CallType
  <2> QED BY <2>1 DEF WorkerAck, flags
<1>3. \A o : CallsLeft(o) /\ CallsSame(o)
  <2>1. \A o : ~Sends(c, o)
    BY <1>1 DEF Sends
  <2> QED BY <1>1, <2>1 DEF CallsLeft, CallsSame
<1>4. IsFiniteSet(calls') /\ \A d \in calls' : d.kind = "switch" => d.owner > 1
  BY <1>0, <1>1, FS_Subset DEF FlagInv, GateInv
<1>5. CASE WorkerFailed(c, reports)
  BY <1>0, <1>1, <1>3, <1>4, <1>5, WorkerFailedStays
<1>6. CASE UNCHANGED <<ending, batches, reports>>
  <2>1. \A o \in Owners : SameWaits(calls, reports, calls', reports', o)
    BY <1>3, <1>6 DEF CallsSame, SameWaits
  <2>2. \A o \in Owners, n \in Nat, L \in Seq(RepType) :
          Travels(calls, reports, n, ending, o, L) => Travels(calls', reports', n, ending', o, L)
    BY <1>6, <2>1, WaitsTravel
  <2>3. /\ \A i \in DOMAIN reports' : /\ reports'[i].kind = "observe" => reports'[i].owner <= current'
                                      /\ reports'[i].kind = "switch" => reports'[i].owner > 1
        /\ \A o \in Owners : o < current' => o \in ending'
    BY <1>0, <1>1, <1>6 DEF FlagInv, GateInv
  <2>4. Stays
    BY <1>1, <1>4, <1>6, <2>2, <2>3 DEF Stays
  <2>5. GateInv'
    BY <1>0, <1>1, <1>4, <2>3, GateSame
  <2> QED BY <2>4, <2>5
<1> QED BY <1>2, <1>5, <1>6

\* The worker learns that a request failed, or abandons it.
LEMMA ErrorStays ==
  ASSUME IInv, OrderInv, NEW c \in calls, WorkerError(c)
  PROVE  Stays /\ GateInv'
<1> DEFINE x == [c EXCEPT !.awaited = FALSE]
<1>0. TypeInv /\ FlagInv /\ GateInv /\ reports \in Seq(ItemType) /\ c \in CallType
  BY DEF IInv, OrderInv, TypeInv
<1>1. /\ UNCHANGED <<bound, holder, ev, errs, loop, submitted, observed, rseq, stageReq, current>>
      /\ c.awaited /\ WorkerFailed(c, reports)
      /\ calls' = calls \ {c} \/ calls' = (calls \ {c}) \cup {x}
  BY DEF WorkerError, goVars, publicVars, stageVars, histVars
<1>2. /\ x.kind = c.kind /\ x.owner = c.owner /\ x.seq = c.seq /\ x.rep = c.rep /\ x.reply = c.reply
      /\ x.awaited = FALSE
  BY <1>0 DEF CallType
<1>3. c \notin calls' /\ \A o : Sends(x, o) <=> Sends(c, o)
  <2>1. x # c
    <3> HIDE DEF x
    <3> QED BY <1>1, <1>2
  <2>2. \A o : Sends(x, o) <=> Sends(c, o)
    <3> HIDE DEF x
    <3> QED BY <1>2 DEF Sends
  <2> QED BY <1>1, <2>1, <2>2
<1>4. \A o : CallsLeft(o)
  <2>1. ASSUME NEW o, NEW d \in calls', Sends(d, o)
        PROVE  \E e \in calls : /\ Sends(e, o) /\ d.seq = e.seq /\ d.rep = e.rep
                                /\ d = e \/ (d = [e EXCEPT !.awaited = FALSE] /\ e \notin calls')
    <3>1. CASE d \in calls
      BY <3>1, <2>1
    <3>2. CASE d = x
      <4>1. Sends(c, o) /\ d.seq = c.seq /\ d.rep = c.rep
        <5> HIDE DEF x
        <5> QED BY <3>2, <2>1, <1>2, <1>3
      <4> QED BY <4>1, <3>2, <1>3
    <3> QED BY <3>1, <3>2, <1>1
  <2> QED BY <2>1 DEF CallsLeft
<1> HIDE DEF x
<1>5. \A o : o # c.owner => CallsSame(o)
  BY <1>1, <1>2 DEF CallsSame, Sends
<1>6. IsFiniteSet(calls')
  <2>1. IsFiniteSet(calls \ {c})
    BY <1>0, FS_Subset DEF FlagInv
  <2>2. calls' = calls \ {c} \/ calls' = (calls \ {c}) \cup {x}
    BY <1>1
  <2>3. IsFiniteSet((calls \ {c}) \cup {x})
    BY <2>1, FS_AddElement
  <2> QED BY <2>1, <2>2, <2>3
<1>7. \A d \in calls' : d.kind = "switch" => d.owner > 1
  BY <1>0, <1>1, <1>2 DEF GateInv
<1> QED BY <1>0, <1>1, <1>4, <1>5, <1>6, <1>7, WorkerFailedStays

\* A step of the extension keeps what native reached, or brings it further.
LEMMA ExtensionStays ==
  ASSUME IInv, OrderInv, Pipeline = 1, Extension
  PROVE  (Stays /\ GateInv') \/ (\E o \in Owners : Takes(o)) \/ \E xs, done : Brings(xs, done)
<1>1. CASE NativeDescribe
  BY <1>1, DescribeStays
<1>2. CASE \E o \in Owners : NativeStage(o)
  BY <1>2, StageStays
<1>3. CASE \E b \in 1 .. Cardinality(Msgs), p \in {Started, Ended} : NativeMessage(b, p)
  <2>1. \E b, p : NativeMessage(b, p)
    BY <1>3
  <2> QED BY <2>1, MessageBrings
<1>4. CASE NativeContext
  BY <1>4, ContextBrings
<1>5. CASE NativeReset
  <2>1. UNCHANGED <<bound, holder, ev, errs, loop, submitted, observed, rseq, calls, reports, current,
                    stageReq, ending, batches>>
    BY <1>5 DEF NativeReset, goVars, publicVars, stageVars, flags
  <2>2. \A p \in Owners : stageReq'[p] \in {stageReq[p], NoMsg}
    BY <2>1
  <2> QED BY <2>1, <2>2, QuietStays DEF OrderInv
<1>6. CASE NativeSwitch \/ NativeEnd
  BY <1>6, SwitchStays
<1>7. CASE WorkerSend
  BY <1>7, SendStays
<1>8. CASE \E c \in calls : WorkerAck(c) \/ WorkerError(c)
  BY <1>8, AckStays, ErrorStays
<1> QED BY <1>1, <1>2, <1>3, <1>4, <1>5, <1>6, <1>7, <1>8 DEF Extension

-----------------------------------------------------------------------------
\* Steps in which native reaches something.

\* Reports are put at the end of the queue.
LEMMA ReportQueued ==
  ASSUME TypeInv, NEW o \in Owners, NEW xs \in Seq(RepType), Report(o, xs)
  PROVE  /\ Queued2(reports, reports', o, rseq[o], xs)
         /\ rseq'[o] = rseq[o] + Len(xs) /\ \A p \in Owners : p # o => rseq'[p] = rseq[p]
<1> DEFINE s == [i \in 1 .. Len(xs) |-> Item("observe", o, rseq[o] + i, xs[i])]
<1>1. /\ reports' = reports \o s /\ rseq' = [rseq EXCEPT ![o] = @ + Len(xs)]
      /\ rseq \in [Owners -> Nat] /\ reports \in Seq(ItemType)
      /\ Len(reports) \in Nat /\ Len(xs) \in Nat
  BY DEF Report, TypeInv
<1>2. s \in Seq(ItemType) /\ Len(s) = Len(xs)
  <2>1. ASSUME NEW i \in 1 .. Len(xs) PROVE s[i] \in ItemType
    <3>1. xs[i] \in RepType /\ rseq[o] + i \in Nat
      BY <1>1
    <3> QED BY <3>1 DEF Item, ItemType
  <2>2. DOMAIN s = 1 .. Len(xs) /\ s = [i \in 1 .. Len(xs) |-> s[i]]
    OBVIOUS
  <2> HIDE DEF s
  <2>3. s \in Seq(ItemType)
    BY <1>1, <2>1, <2>2, IsASeq
  <2> QED BY <1>1, <2>2, <2>3
<1>3. \A i \in 1 .. Len(xs) : s[i] = Item("observe", o, rseq[o] + i, xs[i])
  OBVIOUS
<1> HIDE DEF s
<1>4. /\ reports' \in Seq(ItemType) /\ Len(reports') = Len(reports) + Len(xs)
      /\ \A i \in 1 .. Len(reports) + Len(xs) :
           reports'[i] = IF i <= Len(reports) THEN reports[i] ELSE s[i - Len(reports)]
  <2>1. /\ reports \o s \in Seq(ItemType) /\ Len(reports \o s) = Len(reports) + Len(s)
        /\ \A i \in 1 .. Len(reports) + Len(s) :
             (reports \o s)[i] = IF i <= Len(reports) THEN reports[i] ELSE s[i - Len(reports)]
    BY <1>1, <1>2, ConcatProperties
  <2> DEFINE q == reports \o s
  <2>2. reports' = q
    BY <1>1
  <2> HIDE DEF q
  <2> QED BY <1>2, <2>1, <2>2 DEF q
<1>5. \A i \in 1 .. Len(reports) : reports'[i] = reports[i]
  BY <1>1, <1>4
<1>6. ASSUME NEW i \in 1 .. Len(xs) PROVE reports'[Len(reports) + i] = Item("observe", o, rseq[o] + i, xs[i])
  <2>1. /\ Len(reports) + i \in 1 .. Len(reports) + Len(xs) /\ ~(Len(reports) + i <= Len(reports))
        /\ (Len(reports) + i) - Len(reports) = i
    BY <1>1
  <2> QED BY <1>3, <1>4, <2>1
<1>7. DOMAIN reports' = 1 .. Len(reports) + Len(xs)
  BY <1>4
<1> QED BY <1>1, <1>5, <1>6, <1>7 DEF Queued2

\* What reports of the current binding leave as it was.
LEMMA ReportFrame ==
  ASSUME TypeInv, OrderInv, NEW xs \in Seq(RepType), Report(current, xs),
         UNCHANGED <<bound, holder, errs, calls, current, ending>>
  PROVE  NoProtocolFailure' /\ FlagInv' /\ GateInv'
<1> DEFINE o == current
<1>0. /\ NoProtocolFailure /\ FlagInv /\ GateInv /\ o \in Owners /\ o \in Nat
      /\ reports \in Seq(ItemType) /\ Len(reports) \in Nat /\ Len(xs) \in Nat
  BY DeliveryAssumption DEF OrderInv, TypeInv, Owners
<1>1. Queued2(reports, reports', o, rseq[o], xs)
  BY <1>0, ReportQueued
<1>2. ASSUME NEW i \in DOMAIN reports'
      PROVE  \/ i \in DOMAIN reports /\ reports'[i] = reports[i]
             \/ reports'[i].kind = "observe" /\ reports'[i].owner = o
  <2>1. i \in 1 .. Len(reports) + Len(xs)
    BY <1>1 DEF Queued2
  <2>2. CASE i \in 1 .. Len(reports)
    BY <1>0, <1>1, <2>2 DEF Queued2
  <2>3. CASE i \notin 1 .. Len(reports)
    <3>1. i - Len(reports) \in 1 .. Len(xs) /\ Len(reports) + (i - Len(reports)) = i
      BY <1>0, <2>1, <2>3
    <3>2. reports'[i] = Item("observe", o, rseq[o] + (i - Len(reports)), xs[i - Len(reports)])
      BY <1>1, <3>1 DEF Queued2
    <3> QED BY <3>2 DEF Item
  <2> QED BY <2>2, <2>3
<1> HIDE DEF o
<1>3. FlagInv'
  <2>1. o <= current' /\ current' = current
    BY <1>0 DEF o
  <2> QED BY <1>0, <1>2, <2>1 DEF FlagInv
<1>4. GateInv'
  <2>1. \A i \in DOMAIN reports' : reports'[i].kind = "switch" => reports'[i].owner > 1
    BY <1>0, <1>2 DEF GateInv
  <2>2. \A c \in calls' : c.kind = "switch" => c.owner > 1
    BY <1>0 DEF GateInv
  <2> QED BY <1>0, <2>1, <2>2, GateSame
<1> QED BY <1>0, <1>3, <1>4 DEF NoProtocolFailure

\* The other bindings keep their logs.
LEMMA ReportOthers ==
  ASSUME TypeInv, NEW o \in Owners, NEW xs \in Seq(RepType), Report(o, xs),
         UNCHANGED <<bound, ev, errs, calls, ending>>,
         NEW p \in Owners, p # o, NEW L, LogInv(p, L), submitted'[p] = submitted[p],
         \A b \in 1 .. Len(submitted[p]) : observed'[submitted[p][b]] = observed[submitted[p][b]],
         batches'[p] = batches[p], Reserved(p)' = Reserved(p)
  PROVE  LogInv(p, L)'
<1>1. Queued2(reports, reports', o, rseq[o], xs) /\ rseq'[p] = rseq[p]
  BY ReportQueued
<1>2. SameWaits(calls, reports, calls', reports', p)
  BY <1>1, OthersWait DEF TypeInv
<1>3. Live(p)' => Live(p)
  BY DEF Live, Healthy
<1>4. Live(p)' => /\ Travels(calls', reports', ev'[p].nextReport, ending', p, L)
                  /\ Follows(ev'[p], L, submitted[p], Reserved(p)')
  BY <1>2, <1>3, TravelsSame DEF LogInv
<1> QED BY <1>1, <1>4, LogKept

\* A message native accepts.
LEMMA TakesLog ==
  ASSUME IInv, OrderInv, NEW o \in Owners, Takes(o), NEW L, LogInv(o, L)
  PROVE  \E M : LogInv(o, M)'
<1> USE DEF Claimed, Started, Ended, InContext
<1> DEFINE m == stageReq[o]
           s == submitted[o]
           t == Append(s, m)
           x == Len(s) + 1
           r == [batch |-> x, phase |-> 1, ids |-> <<m>>]
           xs == <<r>>
<1>0. TypeInv /\ SubmitInv /\ BatchOk(o) /\ StageInv /\ LoopInv
  BY DEF IInv, PlaceInv, BatchInv
<1>1. /\ UNCHANGED <<bound, ev, errs, loop, calls, current, ending>>
      /\ m # NoMsg /\ o \notin ending /\ Cardinality(DOMAIN batches[o]) < QueueLimit
      /\ Report(o, xs)
      /\ batches' = [batches EXCEPT ![o] = Extended(@, x, [id |-> m, phase |-> 1])]
      /\ submitted' = [submitted EXCEPT ![o] = t]
      /\ observed' = [observed EXCEPT ![m] = 1]
  BY DEF Takes
<1>2. /\ m \in Msgs /\ s \in Seq(Msgs) /\ Len(s) \in Nat /\ x \in Nat
      /\ observed \in [Msgs -> 0 .. 4] /\ DOMAIN batches = Owners /\ DOMAIN submitted = Owners
      /\ reports \in Seq(ItemType) /\ calls \in SUBSET CallType
  BY <1>0, <1>1 DEF TypeInv
<1>3. m \notin Submitted /\ (Healthy => loop[o] = m)
  BY <1>0, <1>1 DEF StageInv
<1>4. \A b \in 1 .. Len(s) : s[b] \in Submitted /\ s[b] # m /\ s[b] \in Msgs
  <2>1. \A b \in 1 .. Len(s) : s[b] \in ToSet(s) /\ s[b] \in Msgs
    BY <1>2 DEF ToSet
  <2> QED BY <1>3, <2>1 DEF Submitted
<1>5. /\ DOMAIN t = 1 .. Len(s) + 1 /\ Len(t) = x /\ t \in Seq(Msgs)
      /\ \A b \in 1 .. Len(s) : t[b] = s[b]
      /\ t[x] = m
      /\ ToSet(t) = ToSet(s) \cup {m}
  BY <1>2, AppendIs
<1>6. /\ L \in Seq(RepType) /\ Len(L) = rseq[o] /\ WellFormed(L, s) /\ Len(L) \in Nat
      /\ \A b \in 1 .. Len(s), k \in 1 .. 4 : Said(L, Len(L), b, k) <=> k <= observed[s[b]]
      /\ \A b \in 1 .. Len(s) : observed[s[b]] # 4 => b \in DOMAIN batches[o]
      /\ Live(o) => /\ Travels(calls, reports, ev[o].nextReport, ending, o, L)
                    /\ Follows(ev[o], L, s, Reserved(o))
  BY <1>1 DEF LogInv
<1>7. /\ r \in RepType /\ xs \in Seq(RepType) /\ Len(xs) = 1
  <2>1. r \in RepType
    BY <1>2 DEF RepType
  <2> HIDE DEF r
  <2> QED BY <2>1
<1>8. /\ submitted'[o] = t /\ observed'[m] = 1
      /\ \A b \in 1 .. Len(s) : observed'[s[b]] = observed[s[b]]
      /\ DOMAIN batches'[o] = DOMAIN batches[o] \cup {x}
  <2>1. DOMAIN Extended(batches[o], x, [id |-> m, phase |-> 1]) = DOMAIN batches[o] \cup {x}
    BY DEF Extended
  <2> HIDE DEF t, m
  <2> QED BY <1>1, <1>2, <1>4, <2>1
<1>9. \A a \in 1 .. Len(s) : Said(L, Len(L), a, 1)
  <2>1. ASSUME NEW a \in 1 .. Len(s) PROVE 1 <= observed[s[a]]
    <3>1. observed[s[a]] # 0 /\ observed[s[a]] \in 0 .. 4
      BY <1>0, <1>2, <1>4 DEF SubmitInv
    <3> QED BY <3>1
  <2> QED BY <1>6, <2>1
<1>10. Cardinality(OpenAt(L, Len(L))) < QueueLimit
  <2>1. OpenAt(L, Len(L)) \subseteq DOMAIN batches[o]
    <3>1. ASSUME NEW b, Said(L, Len(L), b, 1), ~Said(L, Len(L), b, 4) PROVE b \in DOMAIN batches[o]
      <4>1. b \in 1 .. Len(s)
        <5>1. Len(L) \in 0 .. Len(L)
          BY <1>6
        <5> QED BY <1>6, <3>1, <5>1, SaidBefore
      <4>2. ~(4 <= observed[s[b]])
        BY <1>6, <3>1, <4>1
      <4> QED BY <1>6, <4>1, <4>2
    <3> QED BY <3>1 DEF OpenAt
  <2>2. IsFiniteSet(DOMAIN batches[o]) /\ Cardinality(DOMAIN batches[o]) \in Nat
    <3>1. DOMAIN batches[o] \in SUBSET (1 .. Len(s))
      BY <1>0 DEF BatchOk
    <3> QED BY <1>2, <3>1, BoundedFinite
  <2>3. Cardinality(OpenAt(L, Len(L))) <= Cardinality(DOMAIN batches[o])
        /\ IsFiniteSet(OpenAt(L, Len(L)))
    BY <2>1, <2>2, FS_Subset
  <2>4. Cardinality(OpenAt(L, Len(L))) \in Nat
    BY <2>3, FS_CardinalityType
  <2> QED BY <1>1, <2>2, <2>3, <2>4, DeliveryAssumption
<1> HIDE DEF xs
<1>11. PICK M : Grown(L, xs, M)
  BY <1>6, <1>7, GrownIs
<1>12. M \in Seq(RepType) /\ Len(M) = rseq[o] + 1 /\ rseq'[o] = rseq[o] + 1
       /\ Queued2(reports, reports', o, Len(L), xs)
  BY <1>0, <1>1, <1>6, <1>7, <1>11, ReportQueued DEF Grown
<1>13. /\ WellFormed(M, t)
       /\ \A b, k : Said(M, Len(M), b, k) <=> Said(L, Len(L), b, k) \/ (b = x /\ k = 1)
  <2>1. Grown(L, <<r>>, M) /\ r = [batch |-> Len(s) + 1, phase |-> 1, ids |-> <<m>>] /\ r \in RepType
    BY <1>7, <1>11 DEF xs
  <2> HIDE DEF r, m, s
  <2> QED BY <1>2, <1>6, <1>9, <1>10, <2>1, ClaimGrown
<1> HIDE DEF r, t, m
<1>14. ASSUME NEW b \in 1 .. Len(t), NEW k \in 1 .. 4
       PROVE  Said(M, Len(M), b, k) <=> k <= observed'[t[b]]
  <2>1. CASE b \in 1 .. Len(s)
    <3>1. b # x
      BY <1>2, <2>1
    <3> QED BY <1>5, <1>6, <1>8, <1>13, <2>1, <3>1
  <2>2. CASE b \notin 1 .. Len(s)
    <3>1. b = x
      BY <1>2, <1>5, <2>2
    <3>2. ~Said(L, Len(L), b, k)
      <4>1. Len(L) \in 0 .. Len(L)
        BY <1>6
      <4> QED BY <1>6, <2>2, <4>1, SaidBefore
    <3>3. k <= 1 <=> k = 1
      OBVIOUS
    <3> QED BY <1>5, <1>8, <1>13, <3>1, <3>2, <3>3
  <2> QED BY <2>1, <2>2
<1>15. ASSUME NEW b \in 1 .. Len(t), observed'[t[b]] # 4 PROVE b \in DOMAIN batches'[o]
  <2>1. b \in 1 .. Len(s) \/ b = x
    BY <1>2, <1>5
  <2> QED BY <1>5, <1>6, <1>8, <1>15, <2>1
<1>16. ASSUME Live(o)'
       PROVE  /\ Travels(calls', reports', ev'[o].nextReport, ending', o, M)
              /\ Follows(ev'[o], M, t, Reserved(o)')
  <2>1. Live(o) /\ Healthy
    BY <1>1, <1>16 DEF Live, Healthy
  <2>2. Reserved(o) = m /\ Reserved(o)' = NoMsg
    <3>1. m \in Submitted'
      BY <1>5, <1>8 DEF Submitted
    <3> QED BY <1>1, <1>3, <2>1, <3>1 DEF Reserved
  <2>3. Follows(ev[o], M, t, NoMsg)
    <3>1. Follows(ev[o], L, s, m)
      BY <1>6, <2>1, <2>2
    <3>2. Follows(ev[o], M, Append(s, m), NoMsg)
      BY <1>2, <1>6, <1>7, <1>11, <3>1, MatchesGrown
    <3> QED BY <3>2 DEF t
  <2>4. ev[o].nextReport \in Nat /\ ev[o].nextReport <= Len(L)
    <3>1. ev[o].nextReport \in 0 .. Len(L)
      BY <1>6, <2>1 DEF Follows
    <3> QED BY <3>1, <1>6
  <2>5. Travels(calls, reports', ev[o].nextReport, ending, o, M)
    BY <1>1, <1>2, <1>6, <1>7, <1>11, <1>12, <2>1, <2>4, TravelsGrown
  <2> QED BY <1>1, <2>2, <2>3, <2>5
<1>17. LogInv(o, M)'
  BY <1>8, <1>12, <1>13, <1>14, <1>15, <1>16 DEF LogInv
<1> QED BY <1>17

\* The order stays when native accepts a message.
LEMMA TakesOrder ==
  ASSUME IInv, IInv', OrderInv, NEW o \in Owners, Takes(o)
  PROVE  OrderInv'
<1> USE DEF Claimed, Started, Ended, InContext
<1> DEFINE m == stageReq[o]
           r == [batch |-> Len(submitted[o]) + 1, phase |-> 1, ids |-> <<m>>]
           xs == <<r>>
<1>0. /\ TypeInv /\ SubmitInv /\ StageInv /\ submitted \in [Owners -> Seq(Msgs)]
      /\ observed \in [Msgs -> 0 .. 4] /\ DOMAIN batches = Owners
  BY DEF IInv, PlaceInv, BatchInv, TypeInv
<1>1. /\ UNCHANGED <<bound, holder, ev, errs, loop, calls, current, ending>>
      /\ m # NoMsg /\ o = current /\ Report(o, xs)
      /\ stageReq' = [stageReq EXCEPT ![o] = NoMsg]
      /\ \A p \in Owners : p # o => batches'[p] = batches[p]
      /\ submitted' = [submitted EXCEPT ![o] = Append(@, m)]
      /\ observed' = [observed EXCEPT ![m] = 1]
  BY <1>0 DEF Takes
<1>2. /\ m \in Msgs /\ m \notin Submitted /\ stageReq'[o] = NoMsg
      /\ \A p \in Owners : p # o => stageReq'[p] = stageReq[p] /\ loop[p] # m
  BY <1>0, <1>1 DEF StageInv, TypeInv
<1>3. xs \in Seq(RepType)
  <2>1. submitted[o] \in Seq(Msgs)
    BY <1>0
  <2>2. r \in RepType
    BY <1>2, <2>1 DEF RepType
  <2> HIDE DEF r
  <2> QED BY <2>2
<1> HIDE DEF r, xs, m
<1>4. /\ submitted'[o] = Append(submitted[o], m)
      /\ \A p \in Owners : p # o => submitted'[p] = submitted[p]
      /\ Submitted' = Submitted \cup {m}
  <2>1. /\ submitted'[o] = Append(submitted[o], m)
        /\ \A p \in Owners : p # o => submitted'[p] = submitted[p]
    BY <1>0, <1>1
  <2>2. ToSet(Append(submitted[o], m)) = ToSet(submitted[o]) \cup {m}
    BY <1>0, <1>2, AppendIs
  <2> QED BY <2>1, <2>2 DEF Submitted
<1>5. NoProtocolFailure' /\ FlagInv' /\ GateInv'
  BY <1>0, <1>1, <1>3, ReportFrame
<1>6. \A p \in Owners : Reserved(p)' \in {Reserved(p), NoMsg} /\ (p # o => Reserved(p)' = Reserved(p))
  BY <1>1, <1>2, <1>4 DEF Reserved
<1>7. ASSUME NEW p \in Owners PROVE AbsentInv(p)' /\ SoundInv(p)'
  <2>1. AbsentInv(p) /\ SoundInv(p) /\ AbsentInv(o)
    BY DEF OrderInv
  <2>2. SoundInv(p)'
    BY <1>1, <1>6, <2>1, SoundSame
  <2>3. AbsentInv(p)'
    BY <1>1, <1>2, <1>4, <2>1 DEF AbsentInv, m
  <2> QED BY <2>2, <2>3
<1>8. ASSUME NEW p \in Owners PROVE \E M : LogInv(p, M)'
  <2>1. PICK L : LogInv(p, L)
    BY DEF OrderInv
  <2>2. CASE p = o
    BY <2>1, <2>2, TakesLog
  <2>3. CASE p # o
    <3>1. ASSUME NEW b \in 1 .. Len(submitted[p])
          PROVE  observed'[submitted[p][b]] = observed[submitted[p][b]]
      <4>1. submitted[p] \in Seq(Msgs)
        BY <1>0
      <4>2. submitted[p][b] \in Msgs /\ submitted[p][b] \in ToSet(submitted[p])
        BY <4>1 DEF ToSet
      <4>3. submitted[p][b] # m
        BY <1>2, <4>2 DEF Submitted
      <4> QED BY <1>0, <1>1, <4>2, <4>3
    <3>2. LogInv(p, L)'
      BY <1>0, <1>1, <1>3, <1>4, <1>6, <2>1, <2>3, <3>1, ReportOthers
    <3> QED BY <3>2
  <2> QED BY <2>2, <2>3
<1> QED BY <1>5, <1>7, <1>8, OrderFrom

\* The batches native carries on, and what it reached of every message then.
LEMMA BringsReached ==
  ASSUME IInv, NEW xs, NEW done, Brings(xs, done)
  PROVE  LET o == current
             s == submitted[o]
         IN  /\ \A b \in done : /\ b \in 1 .. Len(s) /\ observed[s[b]] \in 1 .. 3
                                /\ batches[o][b].id = s[b] /\ batches[o][b].phase = observed[s[b]]
                                /\ observed'[s[b]] = observed[s[b]] + 1
             /\ \A b \in 1 .. Len(s) : b \notin done => observed'[s[b]] = observed[s[b]]
             /\ \A p \in Owners : p # o =>
                  \A b \in 1 .. Len(submitted[p]) : observed'[submitted[p][b]] = observed[submitted[p][b]]
<1> USE DEF Claimed, Started, Ended, InContext
<1> DEFINE o == current
           s == submitted[o]
           ids == {batches[o][b].id : b \in done}
<1>0. /\ TypeInv /\ SubmitInv /\ o \in Owners /\ BatchOk(o) /\ submitted \in [Owners -> Seq(Msgs)]
      /\ observed \in [Msgs -> 0 .. 4]
  BY DEF IInv, BatchInv, TypeInv
<1>1. /\ done \subseteq DOMAIN batches[o]
      /\ observed' = [m \in Msgs |-> IF m \in ids THEN observed[m] + 1 ELSE observed[m]]
  BY DEF Brings
<1>2. \A b \in done : /\ b \in 1 .. Len(s) /\ batches[o][b].phase \in 1 .. 3
                      /\ batches[o][b].id = s[b] /\ batches[o][b].phase = observed[s[b]]
  BY <1>0, <1>1 DEF BatchOk
<1>3. \A p \in Owners : \A b \in 1 .. Len(submitted[p]) :
         submitted[p][b] \in Msgs /\ b \in DOMAIN submitted[p]
  BY <1>0
<1>4. ids = {s[b] : b \in done}
  BY <1>2
<1> HIDE DEF ids
<1>5. \A b \in done : observed'[s[b]] = observed[s[b]] + 1
  BY <1>0, <1>1, <1>2, <1>3, <1>4
<1>6. ASSUME NEW p \in Owners, NEW b \in 1 .. Len(submitted[p]), p # o \/ b \notin done
      PROVE  observed'[submitted[p][b]] = observed[submitted[p][b]]
  <2>1. ASSUME NEW c \in done PROVE submitted[p][b] # s[c]
    <3>1. c \in DOMAIN submitted[o] /\ b \in DOMAIN submitted[p]
      BY <1>0, <1>2, <1>3
    <3> QED BY <1>0, <1>6, <3>1 DEF SubmitInv
  <2>2. submitted[p][b] \notin ids
    BY <1>4, <2>1
  <2> QED BY <1>1, <1>3, <2>2
<1> QED BY <1>0, <1>2, <1>5, <1>6

\* A binding whose batches native carries on.
LEMMA BringsLog ==
  ASSUME IInv, OrderInv, NEW xs, NEW done, Brings(xs, done), NEW L, LogInv(current, L)
  PROVE  \E M : LogInv(current, M)'
<1> DEFINE o == current
           s == submitted[o]
<1>0. /\ TypeInv /\ o \in Owners /\ s \in Seq(Msgs) /\ Len(s) \in Nat
      /\ observed \in [Msgs -> 0 .. 4] /\ \A b \in 1 .. Len(s) : s[b] \in Msgs
      /\ reports \in Seq(ItemType) /\ calls \in SUBSET CallType
  BY DEF IInv, TypeInv, InContext
<1>1. /\ UNCHANGED <<bound, ev, errs, loop, submitted, calls, current, ending>>
      /\ o \notin ending /\ xs \in Seq(RepType) /\ Report(o, xs)
      /\ done \subseteq DOMAIN batches[o]
      /\ \A i \in 1 .. Len(xs) : /\ xs[i].batch \in done
                                 /\ xs[i].ids = <<batches[o][xs[i].batch].id>>
                                 /\ xs[i].phase = batches[o][xs[i].batch].phase + 1
                                 /\ \A j \in 1 .. Len(xs) : xs[j].batch = xs[i].batch => j = i
      /\ \A b \in done : \E i \in 1 .. Len(xs) : xs[i].batch = b
      /\ \A b \in DOMAIN batches[o] :
           b \in DOMAIN batches'[o] \/ (b \in done /\ batches[o][b].phase = 3)
  BY DEF Brings
<1>2. /\ \A b \in done : /\ b \in 1 .. Len(s) /\ observed[s[b]] \in 1 .. 3
                         /\ batches[o][b].id = s[b] /\ batches[o][b].phase = observed[s[b]]
                         /\ observed'[s[b]] = observed[s[b]] + 1
      /\ \A b \in 1 .. Len(s) : b \notin done => observed'[s[b]] = observed[s[b]]
  BY BringsReached
<1>3. /\ L \in Seq(RepType) /\ Len(L) = rseq[o] /\ WellFormed(L, s) /\ Len(L) \in Nat
      /\ \A b \in 1 .. Len(s), k \in 1 .. 4 : Said(L, Len(L), b, k) <=> k <= observed[s[b]]
      /\ \A b \in 1 .. Len(s) : observed[s[b]] # 4 => b \in DOMAIN batches[o]
      /\ Live(o) => /\ Travels(calls, reports, ev[o].nextReport, ending, o, L)
                    /\ Follows(ev[o], L, s, Reserved(o))
  BY <1>1 DEF LogInv
<1>4. PICK M : Grown(L, xs, M)
  BY <1>1, <1>3, GrownIs
<1>5. /\ M \in Seq(RepType) /\ Len(M) = rseq[o] + Len(xs) /\ rseq'[o] = rseq[o] + Len(xs)
      /\ Queued2(reports, reports', o, Len(L), xs) /\ Len(xs) \in Nat /\ Len(M) = Len(L) + Len(xs)
  BY <1>0, <1>1, <1>3, <1>4, ReportQueued DEF Grown
<1> HIDE DEF s, o
<1>6. WellFormed(M, s)
  <2>1. ASSUME NEW i \in 1 .. Len(xs)
        PROVE  LET r == xs[i] IN
               /\ r.batch \in 1 .. Len(s) /\ r.ids = <<s[r.batch]>> /\ r.phase \in 2 .. 4
               /\ ~Said(L, Len(L), r.batch, r.phase) /\ Said(L, Len(L), r.batch, r.phase - 1)
               /\ \A j \in 1 .. Len(xs) : xs[j].batch = r.batch => j = i
    <3>1. PICK r : r = xs[i]
      OBVIOUS
    <3>2. /\ r.batch \in done /\ r.ids = <<s[r.batch]>> /\ r.phase = observed[s[r.batch]] + 1
          /\ r.batch \in 1 .. Len(s) /\ observed[s[r.batch]] \in 1 .. 3
          /\ \A j \in 1 .. Len(xs) : xs[j].batch = r.batch => j = i
      BY <1>1, <1>2, <3>1
    <3>3. PICK q : q = observed[s[r.batch]]
      OBVIOUS
    <3>4. q \in 1 .. 3 /\ r.phase = q + 1
      BY <3>2, <3>3
    <3>5. q + 1 \in 2 .. 4 /\ (q + 1) - 1 = q /\ q \in 1 .. 4 /\ q + 1 \in 1 .. 4 /\ ~(q + 1 <= q) /\ q <= q
      BY <3>4
    <3>6. ~Said(L, Len(L), r.batch, q + 1) /\ Said(L, Len(L), r.batch, q)
      BY <1>3, <3>2, <3>3, <3>5
    <3> QED BY <3>1, <3>2, <3>4, <3>5, <3>6
  <2> QED BY <1>0, <1>1, <1>3, <1>4, <2>1, CarryGrown
<1>7. ASSUME NEW b \in 1 .. Len(s), NEW k \in 1 .. 4
      PROVE  Said(M, Len(M), b, k) <=> k <= observed'[s[b]]
  <2>1. Said(M, Len(M), b, k) <=> Said(L, Len(L), b, k) \/ Said(xs, Len(xs), b, k)
    <3>1. PICK n \in Nat : n = Len(xs)
      BY <1>5
    <3>2. n \in 0 .. Len(xs)
      BY <3>1
    <3>3. Said(M, Len(L) + n, b, k) <=> Said(L, Len(L), b, k) \/ Said(xs, n, b, k)
      BY <1>1, <1>3, <1>4, <3>2, GrownAll
    <3> QED BY <1>5, <3>1, <3>3
  <2>2. PICK q : q = observed[s[b]]
    OBVIOUS
  <2>3. q \in 0 .. 4 /\ (Said(L, Len(L), b, k) <=> k <= q)
    BY <1>0, <1>3, <2>2
  <2>4. CASE b \in done
    <3>1. PICK i \in 1 .. Len(xs) : xs[i].batch = b
      BY <1>1, <2>4
    <3>2. /\ xs[i].phase = q + 1 /\ observed'[s[b]] = q + 1
          /\ \A j \in 1 .. Len(xs) : xs[j].batch = b => j = i
      <4>1. batches[o][b].phase = q /\ observed'[s[b]] = q + 1
        BY <1>2, <2>2, <2>4
      <4>2. /\ xs[i].phase = batches[o][xs[i].batch].phase + 1
            /\ \A j \in 1 .. Len(xs) : xs[j].batch = xs[i].batch => j = i
        BY <1>1
      <4> QED BY <3>1, <4>1, <4>2
    <3>3. Said(xs, Len(xs), b, k) <=> k = q + 1
      BY <3>1, <3>2 DEF Said
    <3>4. k <= q + 1 <=> k <= q \/ k = q + 1
      BY <2>3
    <3> QED BY <2>1, <2>3, <3>2, <3>3, <3>4
  <2>5. CASE b \notin done
    <3>1. ~Said(xs, Len(xs), b, k)
      BY <1>1, <2>5 DEF Said
    <3> QED BY <1>2, <2>1, <2>2, <2>3, <2>5, <3>1
  <2> QED BY <2>4, <2>5
<1>8. ASSUME NEW b \in 1 .. Len(s), observed'[s[b]] # 4 PROVE b \in DOMAIN batches'[o]
  <2>1. CASE b \in done
    <3>1. batches[o][b].phase # 3
      BY <1>2, <1>8, <2>1
    <3> QED BY <1>1, <2>1, <3>1
  <2>2. CASE b \notin done
    <3>1. b \in DOMAIN batches[o]
      BY <1>2, <1>3, <1>8, <2>2
    <3> QED BY <1>1, <2>2, <3>1
  <2> QED BY <2>1, <2>2
<1>9. ASSUME Live(o)'
      PROVE  /\ Travels(calls', reports', ev'[o].nextReport, ending', o, M)
             /\ Follows(ev'[o], M, s, Reserved(o)')
  <2>1. Live(o) /\ Reserved(o)' = Reserved(o)
    BY <1>1, <1>9 DEF Live, Healthy, Reserved, Submitted, o
  <2>2. Follows(ev[o], M, s, Reserved(o))
    BY <1>0, <1>1, <1>3, <1>4, <2>1, MatchesGrown
  <2>3. ev[o].nextReport \in Nat /\ ev[o].nextReport <= Len(L)
    <3>1. ev[o].nextReport \in 0 .. Len(L)
      BY <1>3, <2>1 DEF Follows
    <3> QED BY <3>1, <1>3
  <2>4. Travels(calls, reports', ev[o].nextReport, ending, o, M)
    BY <1>0, <1>1, <1>3, <1>4, <1>5, <2>1, <2>3, TravelsGrown
  <2> QED BY <1>1, <2>1, <2>2, <2>4
<1>10. LogInv(o, M)'
  <2>1. submitted'[o] = s /\ o' = o
    BY <1>1 DEF s, o
  <2> QED BY <1>5, <1>6, <1>7, <1>8, <1>9, <2>1 DEF LogInv
<1> QED BY <1>1, <1>10 DEF o

\* The order stays when native carries batches on.
LEMMA BringsOrder ==
  ASSUME IInv, IInv', OrderInv, NEW xs, NEW done, Brings(xs, done)
  PROVE  OrderInv'
<1>0. TypeInv /\ current \in Owners /\ NoMsg \in {NoMsg}
  BY DEF IInv, TypeInv
<1>1. /\ UNCHANGED <<bound, holder, ev, errs, loop, stageReq, submitted, calls, current, ending>>
      /\ xs \in Seq(RepType) /\ Report(current, xs)
      /\ \A p \in Owners : p # current => batches'[p] = batches[p]
  BY DEF Brings
<1>2. NoProtocolFailure' /\ FlagInv' /\ GateInv'
  BY <1>0, <1>1, ReportFrame
<1>3. \A p \in Owners : Reserved(p)' = Reserved(p)
  BY <1>1 DEF Reserved, Submitted
<1>4. ASSUME NEW p \in Owners PROVE AbsentInv(p)' /\ SoundInv(p)'
  <2>1. AbsentInv(p) /\ SoundInv(p)
    BY DEF OrderInv
  <2> QED BY <1>1, <1>3, <2>1, SoundSame DEF AbsentInv
<1>5. ASSUME NEW p \in Owners PROVE \E M : LogInv(p, M)'
  <2>1. PICK L : LogInv(p, L)
    BY DEF OrderInv
  <2>2. CASE p = current
    <3>1. PICK M : LogInv(current, M)'
      BY <2>1, <2>2, BringsLog
    <3> QED BY <1>1, <2>2, <3>1
  <2>3. CASE p # current
    <3>1. \A b \in 1 .. Len(submitted[p]) : observed'[submitted[p][b]] = observed[submitted[p][b]]
      BY <2>3, BringsReached
    <3>2. LogInv(p, L)'
      BY <1>0, <1>1, <1>3, <2>1, <2>3, <3>1, ReportOthers
    <3> QED BY <3>2
  <2> QED BY <2>2, <2>3
<1> QED BY <1>2, <1>4, <1>5, OrderFrom

-----------------------------------------------------------------------------
\* The public connections.

\* The evidence of binding p and what is reserved for it change together.
Reserves(p) ==
  /\ Live(p)' => /\ ev'[p].nextReport = ev[p].nextReport
                 /\ \A L : LogInv(p, L) => Follows(ev'[p], L, submitted[p], Reserved(p)')
  /\ ~Healthy' => SoundInv(p)'

\* A step that touches nothing of native, and neither the calls nor the map of bindings.
LEMMA ReservesOrder ==
  ASSUME OrderInv, IInv', UNCHANGED <<bound, holder, calls, extVars, submitted, observed>>,
         errs \subseteq errs', errs' \cap {"report", "claimed"} = {},
         \A p \in Owners : bound[p] = "absent" => loop'[p] = NoMsg /\ stageReq'[p] = NoMsg,
         \A p \in Owners : (Reserved(p)' \in {Reserved(p)} \cup (IF Healthy' THEN {} ELSE {NoMsg})
                             /\ ev'[p] = ev[p])
                           \/ Reserves(p)
  PROVE  OrderInv'
<1>1. UNCHANGED <<current, ending, batches, rseq, reports>>
  BY DEF extVars, flags
<1>2. /\ FlagInv /\ GateInv /\ \A p \in Owners : AbsentInv(p) /\ SoundInv(p)
      /\ \A p \in Owners : \E L : LogInv(p, L)
  BY DEF OrderInv
<1>3. NoProtocolFailure' /\ (Healthy' => Healthy)
  BY DEF NoProtocolFailure, Healthy
<1>4. FlagInv'
  BY <1>1, <1>2 DEF FlagInv
<1>5. GateInv'
  BY <1>1, <1>2, GateSame DEF GateInv
<1>6. \A p \in Owners : AbsentInv(p)'
  BY <1>2 DEF AbsentInv
<1>7. ~Healthy' => \A p \in Owners : SoundInv(p)'
  BY <1>2, SoundSame DEF Reserves
<1>8. ASSUME NEW p \in Owners PROVE \E L : LogInv(p, L)'
  <2>1. PICK L : LogInv(p, L)
    BY <1>2
  <2>2. ASSUME Live(p)'
        PROVE  /\ Travels(calls', reports', ev'[p].nextReport, ending', p, L)
               /\ Follows(ev'[p], L, submitted[p], Reserved(p)')
    <3>1. Live(p) /\ Healthy'
      BY <1>3, <2>2 DEF Live
    <3>2. Travels(calls, reports, ev[p].nextReport, ending, p, L) /\ Follows(ev[p], L, submitted[p], Reserved(p))
      BY <2>1, <3>1 DEF LogInv
    <3>3. ev'[p].nextReport = ev[p].nextReport /\ Follows(ev'[p], L, submitted[p], Reserved(p)')
      BY <2>1, <2>2, <3>1, <3>2 DEF Reserves
    <3> QED BY <1>1, <3>2, <3>3
  <2>3. LogInv(p, L)'
    BY <1>1, <2>1, <2>2, LogKept
  <2> QED BY <2>3
<1> QED BY <1>3, <1>4, <1>5, <1>6, <1>7, <1>8, OrderFrom

\* The delivery loop takes a delivery.
LEMMA AdmitReserves ==
  ASSUME IInv, IInv', OrderInv, NEW o \in Owners, StageAdmit(o)
  PROVE  OrderInv'
<1> DEFINE m == Head(inbox[o])
<1>0. /\ TypeInv /\ InboxInv /\ NoProtocolFailure
      /\ \A p \in Owners : AbsentInv(p)
  BY DEF IInv, PlaceInv, OrderInv
<1>1. /\ UNCHANGED <<bound, holder, calls, extVars, submitted, observed>>
      /\ loop[o] = NoMsg /\ Healthy /\ inbox[o] # <<>>
      /\ \/ /\ bound[o] = "bound" /\ ev' = [ev EXCEPT ![o] = Reserve(@, m)]
            /\ loop' = [loop EXCEPT ![o] = m] /\ stageReq' = [stageReq EXCEPT ![o] = m]
            /\ UNCHANGED errs
         \/ /\ \E why \in {"capacity", "generation"} : Failing(why)
            /\ UNCHANGED <<ev, loop, stageReq>>
  BY DEF StageAdmit, StageTake
<1>2. CASE /\ \E why \in {"capacity", "generation"} : Failing(why)
           /\ UNCHANGED <<ev, loop, stageReq>>
  <2>1. errs \subseteq errs' /\ errs' \cap {"report", "claimed"} = {}
    BY <1>0, <1>2 DEF Failing, NoProtocolFailure
  <2>2. \A p \in Owners : Reserved(p)' = Reserved(p)
    BY <1>1, <1>2 DEF Reserved, Submitted
  <2>3. \A p \in Owners : bound[p] = "absent" => loop'[p] = NoMsg /\ stageReq'[p] = NoMsg
    BY <1>0, <1>2 DEF AbsentInv
  <2> QED BY <1>1, <1>2, <2>1, <2>2, <2>3, ReservesOrder
<1>3. CASE /\ bound[o] = "bound" /\ ev' = [ev EXCEPT ![o] = Reserve(@, m)]
           /\ loop' = [loop EXCEPT ![o] = m] /\ stageReq' = [stageReq EXCEPT ![o] = m]
           /\ UNCHANGED errs
  <2>1. inbox[o] \in Seq(Msgs) /\ 1 \in DOMAIN inbox[o] /\ m = inbox[o][1]
    BY <1>0, <1>1 DEF TypeInv
  <2>2. m \in Msgs /\ m \notin Submitted
    BY <1>0, <2>1 DEF InboxInv
  <2> HIDE DEF m
  <2>3. /\ loop'[o] = m /\ \A p \in Owners : p # o => loop'[p] = loop[p] /\ stageReq'[p] = stageReq[p]
        /\ ev'[o] = Reserve(ev[o], m) /\ \A p \in Owners : p # o => ev'[p] = ev[p]
        /\ Submitted' = Submitted
    BY <1>0, <1>1, <1>3 DEF TypeInv, IsMap, Submitted
  <2>4. Reserved(o) = NoMsg /\ Reserved(o)' = m
    BY <1>1, <2>2, <2>3 DEF Reserved
  <2>5. Reserves(o)
    <3>1. Healthy'
      BY <1>1, <1>3 DEF Healthy
    <3>2. ev'[o].nextReport = ev[o].nextReport
      <4>1. IsRecord(ev[o])
        BY <1>1 DEF IInv, EvidenceInv, EvOk, EvTyped
      <4> QED BY <2>3, <4>1 DEF Reserve, IsRecord, EvidenceFields
    <3>3. ASSUME NEW L, LogInv(o, L) PROVE Follows(ev'[o], L, submitted[o], m)
      <4>1. Live(o) /\ EvTyped(ev[o]) /\ submitted[o] \in Seq(Msgs)
        BY <1>0, <1>1, <1>3 DEF Live, TypeInv, IInv, EvidenceInv, EvOk
      <4>2. L \in Seq(RepType) /\ Follows(ev[o], L, submitted[o], NoMsg)
        BY <2>4, <3>3, <4>1 DEF LogInv
      <4> QED BY <2>2, <2>3, <4>1, <4>2, ReserveFollows
    <3> QED BY <2>4, <3>1, <3>2, <3>3 DEF Reserves
  <2>6. \A p \in Owners : p # o => Reserved(p)' = Reserved(p)
    BY <2>3 DEF Reserved
  <2>7. \A p \in Owners : bound[p] = "absent" => loop'[p] = NoMsg /\ stageReq'[p] = NoMsg
    BY <1>0, <1>3, <2>3 DEF AbsentInv
  <2>8. errs \subseteq errs' /\ errs' \cap {"report", "claimed"} = {}
    BY <1>0, <1>3 DEF NoProtocolFailure
  <2> QED BY <1>1, <2>3, <2>5, <2>6, <2>7, <2>8, ReservesOrder
<1> QED BY <1>1, <1>2, <1>3

\* What the loop was waiting for ends: the binding keeps its evidence, or native
\* refused the message and it is withdrawn.
LEMMA ReturnReserves ==
  ASSUME IInv, IInv', OrderInv, NEW o \in Owners, StageReturn(o) \/ StageCanceled(o)
  PROVE  OrderInv'
<1> DEFINE m == loop[o]
           w == Withdraw(ev[o], m)
<1>0. /\ TypeInv /\ LoopInv /\ NoProtocolFailure /\ SoundInv(o)
      /\ \A p \in Owners : AbsentInv(p)
  BY DEF IInv, PlaceInv, OrderInv
<1>1. /\ UNCHANGED <<bound, holder, calls, extVars, submitted, observed, stageReq>>
      /\ m # NoMsg /\ loop' = [loop EXCEPT ![o] = NoMsg]
  BY DEF StageReturn, StageCanceled, StageLost, stageVars
<1>2. /\ loop'[o] = NoMsg /\ \A p \in Owners : p # o => loop'[p] = loop[p]
      /\ Submitted' = Submitted /\ m \in Msgs
  BY <1>0, <1>1 DEF TypeInv, Submitted
<1>3. Reserved(o)' = NoMsg /\ \A p \in Owners : p # o => Reserved(p)' = Reserved(p)
  BY <1>2 DEF Reserved
<1>4. \A p \in Owners : bound[p] = "absent" => loop'[p] = NoMsg /\ stageReq'[p] = NoMsg
  BY <1>0, <1>1, <1>2 DEF AbsentInv
<1>5. bound[o] # "absent"
  BY <1>0, <1>1 DEF AbsentInv
<1> HIDE DEF m, w
<1>6. \/ Failing("uncertain") /\ UNCHANGED ev
      \/ bound[o] # "bound" /\ (Failing("generation") \/ UNCHANGED errs) /\ UNCHANGED ev
      \/ /\ stageRsp[o] = "queue_full" /\ bound[o] = "bound" /\ ev' = [ev EXCEPT ![o] = w]
         /\ w.failed \/ UNCHANGED errs
      \/ stageRsp[o] = "queued" /\ bound[o] = "bound" /\ UNCHANGED <<ev, errs>>
  <2>1. CASE StageCanceled(o)
    BY <2>1 DEF StageCanceled, StageLost
  <2>2. CASE StageReturn(o)
    <3>1. stageRsp[o] \in {"queued", "queue_full", "error"}
      BY <1>0, <2>2 DEF TypeInv, StageReturn
    <3>2. CASE stageRsp[o] = "error"
      BY <2>2, <3>2 DEF StageReturn
    <3>3. CASE stageRsp[o] # "error" /\ bound[o] # "bound"
      BY <2>2, <3>3 DEF StageReturn
    <3>4. CASE stageRsp[o] = "queue_full" /\ bound[o] = "bound"
      BY <2>2, <3>4 DEF StageReturn, w, m
    <3>5. CASE stageRsp[o] = "queued" /\ bound[o] = "bound"
      BY <2>2, <3>5 DEF StageReturn
    <3> QED BY <3>1, <3>2, <3>3, <3>4, <3>5
  <2> QED BY <2>1, <2>2
<1>7. CASE Failing("uncertain") /\ UNCHANGED ev
  <2>1. errs \subseteq errs' /\ errs' \cap {"report", "claimed"} = {} /\ ~Healthy'
    BY <1>0, <1>7 DEF Failing, NoProtocolFailure, Healthy
  <2> QED BY <1>1, <1>3, <1>4, <1>7, <2>1, ReservesOrder
<1>8. CASE bound[o] # "bound" /\ (Failing("generation") \/ UNCHANGED errs) /\ UNCHANGED ev
  <2>1. errs \subseteq errs' /\ errs' \cap {"report", "claimed"} = {}
    BY <1>0, <1>8 DEF Failing, NoProtocolFailure
  <2>2. Reserves(o)
    <3>1. ~Live(o)'
      BY <1>1, <1>5, <1>8 DEF Live
    <3>2. SoundInv(o)'
      BY <1>0, <1>1, <1>3, <1>8, SoundSame
    <3> QED BY <3>1, <3>2 DEF Reserves
  <2> QED BY <1>1, <1>3, <1>4, <1>8, <2>1, <2>2, ReservesOrder
<1>9. CASE /\ stageRsp[o] = "queue_full" /\ bound[o] = "bound" /\ ev' = [ev EXCEPT ![o] = w]
           /\ w.failed \/ UNCHANGED errs
  <2>1. Reserved(o) = m
    BY <1>0, <1>1, <1>9 DEF LoopInv, Reserved, m
  <2>2. Contains(ev[o].staged, m) /\ IsRecord(ev[o]) /\ ~ev[o].failed
    BY <1>0, <1>1, <1>9, <2>1 DEF SoundInv, m
  <2>3. IsRecord(w) /\ ~w.failed /\ w.nextReport = ev[o].nextReport
    BY <2>2 DEF w, Withdraw, IsRecord, EvidenceFields
  <2>4. /\ UNCHANGED errs /\ ev'[o] = w /\ \A p \in Owners : p # o => ev'[p] = ev[p]
    BY <1>0, <1>9, <2>3 DEF TypeInv, IsMap
  <2>5. Reserves(o)
    <3>1. ASSUME Live(o)', NEW L, LogInv(o, L) PROVE Follows(w, L, submitted[o], NoMsg)
      <4>1. Live(o) /\ Healthy
        BY <1>1, <2>4, <3>1 DEF Live, Healthy
      <4>2. EvTyped(ev[o]) /\ EvUnique(ev[o]) /\ submitted[o] \in Seq(Msgs)
        BY <1>0, <4>1 DEF IInv, EvidenceInv, EvOk, TypeInv
      <4>3. L \in Seq(RepType) /\ Follows(ev[o], L, submitted[o], m)
        BY <2>1, <3>1, <4>1 DEF LogInv
      <4> QED BY <1>2, <2>2, <4>2, <4>3, WithdrawFollows DEF w
    <3>2. SoundInv(o)'
      BY <1>3, <2>3, <2>4 DEF SoundInv
    <3> QED BY <1>3, <2>3, <2>4, <3>1, <3>2 DEF Reserves
  <2>6. errs \subseteq errs' /\ errs' \cap {"report", "claimed"} = {}
    BY <1>0, <2>4 DEF NoProtocolFailure
  <2> QED BY <1>1, <1>3, <1>4, <2>4, <2>5, <2>6, ReservesOrder
<1>10. CASE stageRsp[o] = "queued" /\ bound[o] = "bound" /\ UNCHANGED <<ev, errs>>
  <2>1. Reserved(o) = NoMsg
    BY <1>0, <1>1, <1>10 DEF LoopInv, Reserved, m
  <2>2. errs \subseteq errs' /\ errs' \cap {"report", "claimed"} = {}
    BY <1>0, <1>10 DEF NoProtocolFailure
  <2> QED BY <1>1, <1>3, <1>4, <1>10, <2>1, <2>2, ReservesOrder
<1> QED BY <1>6, <1>7, <1>8, <1>9, <1>10

\* A step of a public connection.
LEMMA PublicOrder ==
  ASSUME IInv, IInv', OrderInv, NEW o \in Owners, Public(o)
  PROVE  OrderInv'
<1>1. CASE StageAdmit(o)
  BY <1>1, AdmitReserves
<1>2. CASE StageReturn(o) \/ StageCanceled(o)
  BY <1>2, ReturnReserves
<1>3. CASE (\E m \in Msgs : Deliver(o, m)) \/ ConnectionDone(o) \/ AttemptJoined(o) \/ Connect(o)
  <2>1. /\ UNCHANGED <<bound, holder, calls, extVars, submitted, observed, ev, loop, stageReq>>
        /\ UNCHANGED errs \/ Failing("inbox") \/ Failing("bytes")
    BY <1>3 DEF Deliver, ConnectionDone, AttemptJoined, Connect, goVars, stageVars, histVars
  <2>2. NoProtocolFailure /\ \A p \in Owners : AbsentInv(p)
    BY DEF OrderInv
  <2>3. errs \subseteq errs' /\ errs' \cap {"report", "claimed"} = {}
    BY <2>1, <2>2 DEF Failing, NoProtocolFailure
  <2>4. \A p \in Owners : Reserved(p)' = Reserved(p)
    BY <2>1 DEF Reserved, Submitted
  <2>5. \A p \in Owners : bound[p] = "absent" => loop'[p] = NoMsg /\ stageReq'[p] = NoMsg
    BY <2>1, <2>2 DEF AbsentInv
  <2> QED BY <2>1, <2>3, <2>4, <2>5, ReservesOrder
<1> QED BY <1>1, <1>2, <1>3 DEF Public

-----------------------------------------------------------------------------
\* The registry.

\* The evidence of binding p and the reports on their way to it change together.
Handles(p) ==
  Live(p)' => \A L : LogInv(p, L) =>
    /\ Travels(calls', reports, ev'[p].nextReport, ending, p, L)
    /\ Follows(ev'[p], L, submitted[p], Reserved(p))

\* What no step of the registry touches.
RegistryLeaves ==
  UNCHANGED <<loop, stageReq, submitted, observed, current, ending, batches, rseq, reports>>

\* A step of the registry that handles every binding as it should.
LEMMA HandlesOrder ==
  ASSUME OrderInv, IInv', NoProtocolFailure', GateInv', RegistryLeaves, IsFiniteSet(calls'),
         \A p \in Owners : bound'[p] = "absent" => bound[p] = "absent",
         \A p \in Owners : Handles(p), ~Healthy' => \A p \in Owners : SoundInv(p)'
  PROVE  OrderInv'
<1> USE DEF RegistryLeaves
<1>1. /\ FlagInv /\ \A p \in Owners : AbsentInv(p)
      /\ \A p \in Owners : \E L : LogInv(p, L)
  BY DEF OrderInv
<1>2. FlagInv'
  BY <1>1 DEF FlagInv
<1>3. \A p \in Owners : AbsentInv(p)'
  BY <1>1 DEF AbsentInv
<1>4. ASSUME NEW p \in Owners PROVE \E L : LogInv(p, L)'
  <2>1. PICK L : LogInv(p, L)
    BY <1>1
  <2>2. Reserved(p)' = Reserved(p)
    BY DEF Reserved, Submitted
  <2>3. Live(p)' => /\ Travels(calls', reports', ev'[p].nextReport, ending', p, L)
                    /\ Follows(ev'[p], L, submitted[p], Reserved(p)')
    BY <2>1, <2>2 DEF Handles
  <2>4. LogInv(p, L)'
    BY <2>1, <2>3, LogKept
  <2> QED BY <2>4
<1> QED BY <1>2, <1>3, <1>4, OrderFrom

\* A binding that is left alone.
LEMMA LeftAlone ==
  ASSUME NEW p \in Owners, Live(p)' => Live(p) /\ ev'[p] = ev[p],
         SameWaits(calls, reports, calls', reports, p)
  PROVE  Handles(p)
<1>1. ASSUME Live(p)', NEW L, LogInv(p, L)
      PROVE  /\ Travels(calls', reports, ev'[p].nextReport, ending, p, L)
             /\ Follows(ev'[p], L, submitted[p], Reserved(p))
  <2>1. /\ Travels(calls, reports, ev[p].nextReport, ending, p, L)
        /\ Follows(ev[p], L, submitted[p], Reserved(p)) /\ ev'[p] = ev[p]
    BY <1>1 DEF LogInv
  <2> QED BY <2>1, TravelsSame
<1> QED BY <1>1 DEF Handles

\* A reply concerns the binding of its call alone.
LEMMA ReplyWaits ==
  ASSUME FlagInv, GateInv, calls \subseteq CallType, NEW c \in calls, NEW r \in {"ok", "error"}, Reply(c, r)
  PROVE  /\ \A p : ~Sends(c, p) => SameWaits(calls, reports, calls', reports, p)
         /\ \A d \in calls' : d \in calls \ {c} \/ \A p : ~Sends(d, p)
         /\ IsFiniteSet(calls') /\ \A d \in calls' : d.kind = "switch" => d.owner > 1
<1> DEFINE x == [c EXCEPT !.reply = r]
<1>1. x \in CallType /\ x.kind = c.kind /\ x.owner = c.owner /\ x.reply = r
  BY DEF CallType
<1>2. calls' = (calls \ {c}) \cup (IF c.awaited THEN {x} ELSE {})
  BY DEF Reply
<1> HIDE DEF x
<1>3. \A p : ~Sends(x, p)
  BY <1>1 DEF Sends
<1>4. /\ \A d \in calls' : d \in calls \ {c} \/ d = x
      /\ \A d \in calls \ {c} : d \in calls'
  BY <1>2
<1>5. \A p : ~Sends(c, p) => SameWaits(calls, reports, calls', reports, p)
  BY <1>3, <1>4 DEF SameWaits
<1>6. IsFiniteSet(calls')
  <2>1. IsFiniteSet(calls \ {c})
    BY FS_Subset DEF FlagInv
  <2>2. IsFiniteSet((calls \ {c}) \cup {x})
    BY <2>1, FS_AddElement
  <2>3. calls' \subseteq (calls \ {c}) \cup {x}
    BY <1>2
  <2> QED BY <2>2, <2>3, FS_Subset
<1>7. \A d \in calls' : d.kind = "switch" => d.owner > 1
  BY <1>1, <1>4 DEF GateInv
<1> QED BY <1>3, <1>4, <1>5, <1>6, <1>7

\* The gate stays as it is when the map and the holder do.
LEMMA GateLeft ==
  ASSUME GateInv, UNCHANGED <<bound, holder, reports>>, \A c \in calls' : c.kind = "switch" => c.owner > 1
  PROVE  GateInv'
<1>1. \A i \in DOMAIN reports' : reports'[i].kind = "switch" => reports'[i].owner > 1
  BY DEF GateInv
<1> QED BY <1>1, GateSame

\* A report of a binding that is not admitted cannot be on its way.
LEMMA AbsentWaits ==
  ASSUME TypeInv, OrderInv, NEW o \in Owners, Healthy, NEW c \in calls, Sends(c, o)
  PROVE  bound[o] # "absent"
<1> SUFFICES ASSUME bound[o] = "absent" PROVE FALSE
  OBVIOUS
<1>1. PICK L : LogInv(o, L)
  BY DEF OrderInv
<1>2. submitted[o] = <<>>
  BY DEF OrderInv, AbsentInv
<1>3. /\ L \in Seq(RepType) /\ WellFormed(L, <<>>)
      /\ Travels(calls, reports, ev[o].nextReport, ending, o, L) /\ ev[o].nextReport \in 0 .. Len(L)
  BY <1>1, <1>2 DEF LogInv, Live, Follows
<1>4. c.seq = ev[o].nextReport + 1 /\ c.seq <= Len(L)
  BY <1>3 DEF Travels
<1>5. c.seq \in 1 .. Len(L)
  BY <1>3, <1>4
<1>6. L[c.seq].batch \in 1 .. Len(<<>>)
  BY <1>3, <1>5 DEF WellFormed, InTurn
<1>7. 1 .. Len(<<>>) = {}
  OBVIOUS
<1> QED BY <1>6, <1>7

\* The registry applies a report.
LEMMA ApplyHandles ==
  ASSUME IInv, OrderInv, Room, NEW o \in Owners, Healthy, bound[o] = "bound",
         NEW c \in calls, Sends(c, o), \A d \in calls' : d \in calls \ {c} \/ ~Sends(d, o),
         NEW x, x = Enqueue(ev[o], c.seq, c.rep)
  PROVE  ~x.failed /\ \A L : LogInv(o, L) => /\ Travels(calls', reports, x.nextReport, ending, o, L)
                                             /\ Follows(x, L, submitted[o], Reserved(o))
<1> DEFINE e == ev[o]
           s == submitted[o]
           n == e.nextReport
<1>0. /\ EvTyped(e) /\ ~e.failed /\ s \in Seq(Msgs) /\ Live(o) /\ QueueLimit <= Tracked
      /\ reports \in Seq(ItemType)
  BY DEF IInv, TypeInv, EvidenceInv, EvOk, Live, Room
<1>1. ASSUME NEW L, LogInv(o, L)
      PROVE  ~x.failed /\ Travels(calls', reports, x.nextReport, ending, o, L) /\ Follows(x, L, s, Reserved(o))
  <2>1. /\ L \in Seq(RepType) /\ WellFormed(L, s)
        /\ Travels(calls, reports, n, ending, o, L) /\ Follows(e, L, s, Reserved(o))
    BY <1>0, <1>1 DEF LogInv
  <2>2. n \in Nat
    BY <1>0 DEF EvTyped
  <2>3. \A d \in calls' : ~Sends(d, o)
    <3>1. \A d \in calls : Sends(d, o) => d = c
      BY <2>1 DEF Travels
    <3> QED BY <3>1
  <2> HIDE DEF e, s, n
  <2>4. /\ n + 1 <= Len(L) /\ c.seq = n + 1 /\ c.rep = L[n + 1]
        /\ Travels(calls', reports, n + 1, ending, o, L)
    BY <1>0, <2>1, <2>2, <2>3, TravelsHandled
  <2>5. PICK k : k = n + 1
    OBVIOUS
  <2>6. ~x.failed /\ x.nextReport = k /\ Follows(x, L, s, Reserved(o))
    <3>1. k = e.nextReport + 1 /\ k <= Len(L) /\ x = Enqueue(e, k, L[k])
      BY <2>4, <2>5 DEF e, n
    <3> QED BY <1>0, <2>1, <3>1, EnqueueFollows
  <2> QED BY <2>4, <2>5, <2>6
<1>2. \E L : LogInv(o, L)
  BY DEF OrderInv
<1> QED BY <1>1, <1>2

\* observeDelivery.
LEMMA ReportOrder ==
  ASSUME IInv, IInv', OrderInv, Room, NEW c \in calls, HandleReport(c)
  PROVE  OrderInv'
<1> DEFINE o == c.owner
           x == Enqueue(ev[o], c.seq, c.rep)
<1>0. /\ TypeInv /\ calls \subseteq CallType /\ o \in Owners /\ IsMap(ev) /\ DOMAIN ev = Owners
      /\ NoProtocolFailure /\ FlagInv /\ GateInv /\ \A p \in Owners : SoundInv(p)
  BY DEF IInv, TypeInv, OrderInv, CallType
<1>1. /\ UNCHANGED <<bound, holder>> /\ RegistryLeaves /\ Sends(c, o)
      /\ \A p \in Owners : p # o => ~Sends(c, p)
  BY DEF HandleReport, RegistryLeaves, Sends, publicVars, stageVars, extVars, flags
<1>2. \E r \in {"ok", "error"} : Reply(c, r)
  BY DEF HandleReport
<1>3. /\ \A p : ~Sends(c, p) => SameWaits(calls, reports, calls', reports, p)
      /\ \A d \in calls' : d \in calls \ {c} \/ \A p : ~Sends(d, p)
      /\ IsFiniteSet(calls') /\ \A d \in calls' : d.kind = "switch" => d.owner > 1
  BY <1>0, <1>2, ReplyWaits
<1>4. GateInv'
  BY <1>0, <1>1, <1>3, GateLeft DEF RegistryLeaves
<1>5. CASE UNCHANGED ev /\ (Failing("bytes") \/ (UNCHANGED errs /\ (~Healthy \/ bound[o] # "bound")))
  <2>1. UNCHANGED ev /\ errs \subseteq errs' /\ errs' \cap {"report", "claimed"} = {}
    BY <1>0, <1>5 DEF Failing, NoProtocolFailure
  <2>2. \A p \in Owners : Handles(p)
    <3>1. ASSUME NEW p \in Owners, p # o PROVE Handles(p)
      <4>1. Live(p)' => Live(p) /\ ev'[p] = ev[p]
        BY <1>1, <2>1 DEF Live, Healthy
      <4> QED BY <1>1, <1>3, <3>1, <4>1, LeftAlone
    <3>2. ~Live(o)'
      <4>1. Healthy => bound[o] # "absent"
        BY <1>0, <1>1, AbsentWaits
      <4> QED BY <1>1, <1>5, <2>1, <4>1 DEF Live, Healthy, Failing
    <3> QED BY <3>1, <3>2 DEF Handles
  <2>3. \A p \in Owners : SoundInv(p)'
    <3>1. \A p \in Owners : Reserved(p)' = Reserved(p)
      BY <1>1 DEF Reserved, Submitted, RegistryLeaves
    <3> QED BY <1>0, <1>1, <2>1, <3>1, SoundSame
  <2>4. NoProtocolFailure'
    BY <2>1 DEF NoProtocolFailure
  <2> QED BY <1>1, <1>3, <1>4, <2>2, <2>3, <2>4, HandlesOrder
<1>6. CASE /\ Healthy /\ bound[o] = "bound" /\ ev' = [ev EXCEPT ![o] = x]
           /\ x.failed \/ UNCHANGED errs
  <2>1. ~x.failed /\ \A L : LogInv(o, L) => /\ Travels(calls', reports, x.nextReport, ending, o, L)
                                            /\ Follows(x, L, submitted[o], Reserved(o))
    BY <1>0, <1>1, <1>3, <1>6, ApplyHandles
  <2>2. ev' = [ev EXCEPT ![o] = x] /\ UNCHANGED errs
    BY <1>6, <2>1
  <2> HIDE DEF x, o
  <2>3. ev'[o] = x /\ \A p \in Owners : p # o => ev'[p] = ev[p]
    BY <1>0, <2>2 DEF IsMap
  <2>4. \A p \in Owners : Handles(p)
    <3>1. ASSUME NEW p \in Owners, p # o PROVE Handles(p)
      <4>1. Live(p)' => Live(p) /\ ev'[p] = ev[p]
        BY <1>1, <2>2, <2>3, <3>1 DEF Live, Healthy
      <4> QED BY <1>1, <1>3, <3>1, <4>1, LeftAlone
    <3> QED BY <2>1, <2>3, <3>1 DEF Handles
  <2>5. NoProtocolFailure' /\ Healthy'
    BY <1>0, <1>6, <2>2 DEF NoProtocolFailure, Healthy
  <2> QED BY <1>1, <1>3, <1>4, <2>4, <2>5, HandlesOrder
<1>7. \/ UNCHANGED <<ev, errs>> /\ (~Healthy \/ bound[o] # "bound")
      \/ UNCHANGED ev /\ Failing("bytes")
      \/ /\ Healthy /\ bound[o] = "bound" /\ ev' = [ev EXCEPT ![o] = x]
         /\ x.failed \/ UNCHANGED errs
  BY DEF HandleReport
<1> HIDE DEF x, o
<1> QED BY <1>5, <1>6, <1>7

\* A canceled request is refused.
LEMMA OrphanOrder ==
  ASSUME IInv, IInv', OrderInv, NEW c \in calls, CancelOrphan(c)
  PROVE  OrderInv'
<1>0. /\ NoProtocolFailure /\ FlagInv /\ GateInv /\ \A p \in Owners : SoundInv(p)
  BY DEF OrderInv
<1>1. /\ UNCHANGED <<bound, holder, ev, errs>> /\ RegistryLeaves /\ ~c.awaited /\ calls' = calls \ {c}
  BY DEF CancelOrphan, RegistryLeaves, goVars, publicVars, stageVars, extVars, histVars, flags
<1>2. IsFiniteSet(calls') /\ \A d \in calls' : d.kind = "switch" => d.owner > 1
  BY <1>0, <1>1, FS_Subset DEF FlagInv, GateInv
<1>3. GateInv'
  BY <1>0, <1>1, <1>2, GateLeft DEF RegistryLeaves
<1>4. ASSUME NEW p \in Owners PROVE Handles(p)
  <2>1. Live(p)' => Live(p) /\ ev'[p] = ev[p]
    BY <1>1 DEF Live, Healthy
  <2>2. CASE ~Sends(c, p)
    <3>1. SameWaits(calls, reports, calls', reports, p)
      BY <1>1, <2>2 DEF SameWaits
    <3> QED BY <2>1, <3>1, LeftAlone
  <2>3. CASE Sends(c, p)
    <3>1. ASSUME Live(p)', NEW L, LogInv(p, L)
          PROVE  /\ Travels(calls', reports, ev'[p].nextReport, ending, p, L)
                 /\ Follows(ev'[p], L, submitted[p], Reserved(p))
      <4>1. /\ Travels(calls, reports, ev[p].nextReport, ending, p, L)
            /\ Follows(ev[p], L, submitted[p], Reserved(p)) /\ ev'[p] = ev[p]
        BY <2>1, <3>1 DEF LogInv
      <4>2. p \in ending /\ \A i \in DOMAIN reports : ~Queues(reports[i], p)
        BY <1>1, <2>3, <4>1 DEF Travels
      <4>3. LostWaits(calls, reports, calls', reports, p)
        BY <1>1, <4>2 DEF LostWaits
      <4> QED BY <4>1, <4>2, <4>3, TravelsLost
    <3> QED BY <3>1 DEF Handles
  <2> QED BY <2>2, <2>3
<1>5. \A p \in Owners : SoundInv(p)'
  <2>1. \A p \in Owners : Reserved(p)' = Reserved(p)
    BY <1>1 DEF Reserved, Submitted, RegistryLeaves
  <2> QED BY <1>0, <1>1, <2>1, SoundSame
<1>6. NoProtocolFailure'
  BY <1>0, <1>1 DEF NoProtocolFailure
<1> QED BY <1>1, <1>2, <1>3, <1>4, <1>5, <1>6, HandlesOrder

-----------------------------------------------------------------------------
\* The gate's holder.

\* A step of a lifecycle handler: no report is touched, and a binding only leaves the map,
\* or is admitted while the registry is healthy.
LEMMA GatedOrder ==
  ASSUME OrderInv, IInv', RegistryLeaves, GateInv', IsFiniteSet(calls'),
         \A p \in Owners : SameWaits(calls, reports, calls', reports, p),
         errs \subseteq errs', errs' \cap {"report", "claimed"} = {},
         \A p \in Owners : bound'[p] = "absent" => bound[p] = "absent",
         \A p \in Owners : \/ ev'[p] = ev[p] /\ (bound'[p] \in {"absent", "bound"} => bound[p] = bound'[p])
                           \/ ev'[p] = NoEvidence /\ bound'[p] = "retired"
                           \/ ev'[p] = ev[p] /\ bound[p] = "absent" /\ Healthy'
  PROVE  OrderInv'
<1>1. NoProtocolFailure' /\ (Healthy' => Healthy)
  BY DEF NoProtocolFailure, Healthy
<1>2. ASSUME NEW p \in Owners PROVE Handles(p)
  <2>1. Live(p)' => Live(p) /\ ev'[p] = ev[p]
    BY <1>1 DEF Live
  <2>2. SameWaits(calls, reports, calls', reports', p)
    BY DEF RegistryLeaves
  <2> QED BY <2>1, <2>2, LeftAlone
<1>3. ASSUME ~Healthy', NEW p \in Owners PROVE SoundInv(p)'
  <2>1. Reserved(p)' = Reserved(p)
    BY DEF Reserved, Submitted, RegistryLeaves
  <2>2. SoundInv(p)
    BY DEF OrderInv
  <2>3. CASE ev'[p] = ev[p] /\ (bound'[p] \in {"absent", "bound"} => bound[p] = bound'[p])
    BY <2>1, <2>2, <2>3, SoundSame
  <2>4. CASE ev'[p] = NoEvidence /\ bound'[p] = "retired"
    <3>1. IsRecord(NoEvidence) /\ ~NoEvidence.failed
      BY DEF IsRecord, EvidenceFields, NoEvidence
    <3> QED BY <2>4, <3>1 DEF SoundInv
  <2> QED BY <1>3, <2>3, <2>4
<1> QED BY <1>1, <1>2, <1>3, HandlesOrder

\* The holder is done: its call is answered.
LEMMA FinishWaits ==
  ASSUME IInv, FlagInv, GateInv, holder.pc # "none", NEW r \in {"ok", "error"}, Finish(r)
  PROVE  /\ holder'.pc = "none" /\ \A p : SameWaits(calls, reports, calls', reports, p)
         /\ IsFiniteSet(calls') /\ \A d \in calls' : d.kind = "switch" => d.owner > 1
<1>1. HolderInv /\ calls \subseteq CallType
  BY DEF IInv, TypeInv
<1>2. /\ Serving \in calls /\ Serving.kind \in {"switch", "end"} /\ Reply(Serving, r)
      /\ holder' = NoHolder
  BY <1>1, ServingIs DEF Finish
<1>3. \A p : ~Sends(Serving, p)
  BY <1>2 DEF Sends
<1> QED BY <1>1, <1>2, <1>3, ReplyWaits DEF NoHolder

\* ownerSwitch and ownerEnd.
LEMMA BeginOrder ==
  ASSUME IInv, IInv', OrderInv, NEW c \in calls, BeginLifecycle(c)
  PROVE  OrderInv'
<1> DEFINE o == IF c.kind = "switch" THEN c.owner - 1 ELSE c.owner
<1>0. /\ NoProtocolFailure /\ FlagInv /\ GateInv /\ calls \subseteq CallType
      /\ bound \in [Owners -> {"absent", "bound", "removed", "retired"}] /\ Chain(bound)
  BY DEF OrderInv, IInv, TypeInv, GateInv, Chain
<1>1. /\ UNCHANGED <<ev, errs>> /\ RegistryLeaves /\ c.kind \in {"switch", "end"} /\ c.reply = "none"
      /\ \/ Reply(c, "error") /\ UNCHANGED <<holder, bound>>
         \/ /\ bound[o] = "bound" /\ UNCHANGED calls
            /\ holder' = [kind |-> c.kind, owner |-> c.owner,
                          pc |-> IF c.kind = "switch" THEN "describe" ELSE "unmapped"]
            /\ IF c.kind = "end" THEN Unmap(o) ELSE UNCHANGED bound
  BY DEF BeginLifecycle, RegistryLeaves, lifecycleUnchanged, stageVars, flags, histVars
<1>2. c.owner \in Owners /\ o \in Owners
  <2>1. c.owner \in Owners /\ (c.kind = "switch" => c.owner > 1)
    BY <1>0 DEF CallType, GateInv
  <2> QED BY <2>1, OwnersAre
<1>3. errs \subseteq errs' /\ errs' \cap {"report", "claimed"} = {}
  BY <1>0, <1>1 DEF NoProtocolFailure
<1>4. CASE Reply(c, "error") /\ UNCHANGED <<holder, bound>>
  <2>1. \A p : ~Sends(c, p)
    BY <1>1 DEF Sends
  <2>2. /\ \A p : SameWaits(calls, reports, calls', reports, p)
        /\ IsFiniteSet(calls') /\ \A d \in calls' : d.kind = "switch" => d.owner > 1
    BY <1>0, <1>1, <1>4, <2>1, ReplyWaits DEF RegistryLeaves
  <2>3. GateInv'
    BY <1>0, <1>1, <1>4, <2>2, GateLeft DEF RegistryLeaves
  <2> QED BY <1>1, <1>3, <1>4, <2>2, <2>3, GatedOrder
<1>5. CASE /\ bound[o] = "bound" /\ UNCHANGED calls
           /\ holder' = [kind |-> c.kind, owner |-> c.owner,
                         pc |-> IF c.kind = "switch" THEN "describe" ELSE "unmapped"]
           /\ IF c.kind = "end" THEN Unmap(o) ELSE UNCHANGED bound
  <2>1. Removing' = o /\ holder'.owner \in Owners
    BY <1>1, <1>2, <1>5 DEF Removing
  <2>2. IsFiniteSet(calls') /\ \A d \in calls' : d.kind = "switch" => d.owner > 1
    BY <1>0, <1>5 DEF FlagInv, GateInv
  <2>3. \A p : SameWaits(calls, reports, calls', reports, p)
    BY <1>5 DEF SameWaits
  <2> HIDE DEF o
  <2>4. CASE c.kind = "switch"
    <3>1. /\ UNCHANGED bound /\ holder'.kind = "switch" /\ holder'.pc = "describe"
      BY <1>5, <2>4
    <3>2. GateInv'
      BY <1>0, <1>1, <1>2, <1>5, <2>1, <2>2, <3>1, GateFrom DEF RegistryLeaves, Chain
    <3> QED BY <1>1, <1>3, <2>2, <2>3, <3>1, <3>2, GatedOrder
  <2>5. CASE c.kind = "end"
    <3>1. bound' = [bound EXCEPT ![o] = "removed"] /\ holder'.pc = "unmapped"
      BY <1>5, <2>5 DEF Unmap
    <3>2. /\ Chain(bound)' /\ bound'[o] = "removed" /\ \A p \in Owners : p # o => bound'[p] = bound[p]
          /\ bound' \in [Owners -> {"absent", "bound", "removed", "retired"}]
      BY <1>0, <1>2, <1>5, <3>1, ChainKept
    <3>3. GateInv'
      BY <1>0, <1>1, <1>2, <2>1, <2>2, <3>1, <3>2, GateFrom DEF RegistryLeaves
    <3>4. \A p \in Owners : bound'[p] \in {"absent", "bound"} => bound[p] = bound'[p]
      BY <3>2
    <3> QED BY <1>1, <1>3, <2>2, <2>3, <3>3, <3>4, GatedOrder
  <2> QED BY <1>1, <2>4, <2>5
<1> QED BY <1>1, <1>4, <1>5

\* removeForSwitch, the failed description and the public connection of a removed binding.
LEMMA HoldOrder ==
  ASSUME IInv, IInv', OrderInv, SwitchUnmap \/ DescribeFailed \/ PublicCancel
  PROVE  OrderInv'
<1> DEFINE o == Removing
<1>0. /\ NoProtocolFailure /\ FlagInv /\ GateInv /\ IsHolder(holder) /\ calls \subseteq CallType
      /\ bound \in [Owners -> {"absent", "bound", "removed", "retired"}] /\ Chain(bound)
  BY DEF OrderInv, IInv, TypeInv, GateInv, Chain, HolderInv
<1>1. /\ UNCHANGED ev /\ RegistryLeaves /\ holder.pc # "none"
      /\ \/ /\ holder.pc = "described" /\ Hold("unmapped") /\ Unmap(o) /\ UNCHANGED <<calls, errs>>
         \/ Finish("error") /\ UNCHANGED bound /\ (Failing("describe") \/ UNCHANGED errs)
         \/ holder.pc = "unmapped" /\ Hold("canceled") /\ UNCHANGED <<bound, calls, errs>>
  BY DEF SwitchUnmap, DescribeFailed, PublicCancel, RegistryLeaves, lifecycleUnchanged,
         stageVars, flags, histVars
<1>2. /\ holder.owner \in Owners /\ o \in Owners
      /\ holder.pc = "described" => holder.kind = "switch" /\ bound[o] = "bound"
      /\ holder.pc = "unmapped" => bound[o] = "removed"
  BY <1>0, <1>1 DEF GateInv
<1>3. errs \subseteq errs' /\ errs' \cap {"report", "claimed"} = {}
  BY <1>0, <1>1 DEF NoProtocolFailure, Failing
<1>4. ASSUME NEW pc, Hold(pc) PROVE holder'.pc = pc /\ holder'.owner = holder.owner /\ holder'.kind = holder.kind
                                    /\ Removing' = o
  <2>1. holder'.pc = pc /\ holder'.owner = holder.owner /\ holder'.kind = holder.kind
    BY <1>0, <1>4 DEF Hold, IsHolder, HolderFields
  <2> QED BY <2>1 DEF Removing
<1>5. UNCHANGED calls => /\ \A p : SameWaits(calls, reports, calls', reports, p)
                         /\ IsFiniteSet(calls') /\ \A d \in calls' : d.kind = "switch" => d.owner > 1
  BY <1>0 DEF SameWaits, FlagInv, GateInv
<1> HIDE DEF o
<1>6. CASE holder.pc = "described" /\ Hold("unmapped") /\ Unmap(o) /\ UNCHANGED <<calls, errs>>
  <2>1. /\ Chain(bound)' /\ bound'[o] = "removed" /\ \A p \in Owners : p # o => bound'[p] = bound[p]
        /\ bound' \in [Owners -> {"absent", "bound", "removed", "retired"}]
    BY <1>0, <1>2, <1>6, ChainKept DEF Unmap
  <2>2. holder'.pc = "unmapped" /\ holder'.owner \in Owners /\ Removing' = o
    BY <1>2, <1>4, <1>6
  <2>3. GateInv'
    BY <1>0, <1>1, <1>2, <1>5, <1>6, <2>1, <2>2, GateFrom DEF RegistryLeaves
  <2>4. \A p \in Owners : bound'[p] \in {"absent", "bound"} => bound[p] = bound'[p]
    BY <2>1
  <2> QED BY <1>1, <1>3, <1>5, <1>6, <2>3, <2>4, GatedOrder
<1>7. CASE Finish("error") /\ UNCHANGED bound /\ (Failing("describe") \/ UNCHANGED errs)
  <2>1. /\ holder'.pc = "none" /\ \A p : SameWaits(calls, reports, calls', reports, p)
        /\ IsFiniteSet(calls') /\ \A d \in calls' : d.kind = "switch" => d.owner > 1
    BY <1>0, <1>1, <1>7, FinishWaits
  <2>2. GateInv'
    BY <1>0, <1>1, <1>7, <2>1, GateFrom DEF RegistryLeaves, Chain
  <2> QED BY <1>1, <1>3, <1>7, <2>1, <2>2, GatedOrder
<1>8. CASE holder.pc = "unmapped" /\ Hold("canceled") /\ UNCHANGED <<bound, calls, errs>>
  <2>1. holder'.pc = "canceled" /\ holder'.owner \in Owners /\ Removing' = o
    BY <1>2, <1>4, <1>8
  <2>2. GateInv'
    BY <1>0, <1>1, <1>2, <1>5, <1>8, <2>1, GateFrom DEF RegistryLeaves, Chain
  <2> QED BY <1>1, <1>3, <1>5, <1>8, <2>2, GatedOrder
<1> QED BY <1>1, <1>6, <1>7, <1>8

\* removeBinding's second critical section, and admit.
LEMMA JoinOrder ==
  ASSUME IInv, IInv', OrderInv, PublicJoin
  PROVE  OrderInv'
<1> DEFINE o == Removing
           n == holder.owner
<1>0. /\ NoProtocolFailure /\ FlagInv /\ GateInv /\ HolderInv /\ calls \subseteq CallType
      /\ bound \in [Owners -> {"absent", "bound", "removed", "retired"}] /\ Chain(bound)
      /\ IsMap(ev) /\ DOMAIN ev = Owners
  BY DEF OrderInv, IInv, TypeInv, GateInv, Chain
<1>1. /\ RegistryLeaves /\ holder.pc = "canceled" /\ ev' = [ev EXCEPT ![o] = NoEvidence]
      /\ \E r \in {"ok", "error"} : Finish(r)
      /\ \/ /\ bound' = [bound EXCEPT ![o] = "retired"] /\ (UNCHANGED errs \/ Failing("admission"))
         \/ /\ holder.kind = "switch" /\ Healthy /\ UNCHANGED errs
            /\ bound' = [bound EXCEPT ![o] = "retired", ![n] = "bound"]
  BY DEF PublicJoin, RegistryLeaves, lifecycleUnchanged, stageVars, flags, histVars
<1>2. n \in Owners /\ o \in Owners /\ bound[o] = "removed"
  BY <1>0, <1>1 DEF GateInv
<1>3. errs \subseteq errs' /\ errs' \cap {"report", "claimed"} = {}
  BY <1>0, <1>1 DEF NoProtocolFailure, Failing
<1>4. /\ holder'.pc = "none" /\ \A p : SameWaits(calls, reports, calls', reports, p)
      /\ IsFiniteSet(calls') /\ \A d \in calls' : d.kind = "switch" => d.owner > 1
  BY <1>0, <1>1, FinishWaits
<1>5. ev'[o] = NoEvidence /\ \A p \in Owners : p # o => ev'[p] = ev[p]
  BY <1>0, <1>1, <1>2 DEF IsMap
<1>6. CASE bound' = [bound EXCEPT ![o] = "retired"] /\ (UNCHANGED errs \/ Failing("admission"))
  <2> HIDE DEF o, n
  <2>1. /\ Chain(bound)' /\ bound'[o] = "retired" /\ \A p \in Owners : p # o => bound'[p] = bound[p]
        /\ bound' \in [Owners -> {"absent", "bound", "removed", "retired"}]
    BY <1>0, <1>2, <1>6, ChainKept
  <2>2. GateInv'
    BY <1>0, <1>1, <1>4, <2>1, GateFrom DEF RegistryLeaves
  <2>3. \A p \in Owners : bound'[p] = "absent" => bound[p] = "absent"
    BY <2>1
  <2> QED BY <1>1, <1>3, <1>4, <1>5, <2>1, <2>2, <2>3, GatedOrder
<1>7. CASE /\ holder.kind = "switch" /\ Healthy /\ UNCHANGED errs
           /\ bound' = [bound EXCEPT ![o] = "retired", ![n] = "bound"]
  <2>1. n > 1 /\ o = n - 1
    <3>1. Serving \in calls /\ Serving.kind = "switch" /\ Serving.owner = n
      BY <1>0, <1>1, <1>7, ServingIs
    <3> QED BY <1>0, <1>7, <3>1 DEF GateInv, Removing
  <2> HIDE DEF o, n
  <2>2. n # o /\ bound[n] = "absent"
    BY <1>0, <1>2, <2>1, OwnersAre DEF Chain
  <2>3. /\ bound'[o] = "retired" /\ bound'[n] = "bound"
        /\ \A p \in Owners : p # o /\ p # n => bound'[p] = bound[p]
        /\ bound' \in [Owners -> {"absent", "bound", "removed", "retired"}]
    BY <1>0, <1>2, <1>7, <2>2
  <2>4. Chain(bound)'
    <3>1. ASSUME NEW p \in Owners, p > 1, bound'[p] # "absent" PROVE bound'[p - 1] = "retired"
      <4>1. CASE p = n
        BY <2>1, <2>3, <4>1
      <4>2. CASE p # n
        <5>1. bound[p] # "absent" /\ p - 1 \in Owners
          BY <1>2, <2>3, <3>1, <4>2, OwnersAre
        <5>2. bound[p - 1] = "retired"
          BY <1>0, <3>1, <5>1 DEF Chain
        <5> QED BY <2>2, <2>3, <5>1, <5>2
      <4> QED BY <4>1, <4>2
    <3> QED BY <3>1 DEF Chain
  <2>5. GateInv'
    BY <1>0, <1>1, <1>4, <2>3, <2>4, GateFrom DEF RegistryLeaves
  <2>6. \A p \in Owners : bound'[p] = "absent" => bound[p] = "absent"
    BY <2>2, <2>3
  <2>7. Healthy'
    BY <1>7 DEF Healthy
  <2>8. \A p \in Owners : \/ ev'[p] = ev[p] /\ (bound'[p] \in {"absent", "bound"} => bound[p] = bound'[p])
                          \/ ev'[p] = NoEvidence /\ bound'[p] = "retired"
                          \/ ev'[p] = ev[p] /\ bound[p] = "absent" /\ Healthy'
    BY <1>5, <2>2, <2>3, <2>7
  <2> QED BY <1>1, <1>3, <1>4, <2>5, <2>6, <2>8, GatedOrder
<1> QED BY <1>1, <1>6, <1>7

\* A step of the registry.
LEMMA RegistryOrder ==
  ASSUME IInv, IInv', OrderInv, Room, Registry
  PROVE  OrderInv'
<1>1. CASE \E c \in calls : HandleReport(c) \/ CancelOrphan(c) \/ BeginLifecycle(c)
  BY <1>1, ReportOrder, OrphanOrder, BeginOrder
<1>2. CASE SwitchUnmap \/ DescribeFailed \/ PublicCancel
  BY <1>2, HoldOrder
<1>3. CASE PublicJoin
  BY <1>3, JoinOrder
<1> QED BY <1>1, <1>2, <1>3 DEF Registry

-----------------------------------------------------------------------------
\* The bridge closes: no binding is live.
LEMMA BridgeOrder ==
  ASSUME IInv, IInv', OrderInv, BridgeEnded
  PROVE  OrderInv'
<1>0. /\ NoProtocolFailure /\ FlagInv /\ GateInv /\ calls \subseteq CallType /\ current \in Owners
      /\ \A p \in Owners : AbsentInv(p) /\ SoundInv(p)
      /\ \A p \in Owners : \E L : LogInv(p, L)
  BY DEF OrderInv, IInv, TypeInv
<1>1. /\ UNCHANGED <<bound, holder, ev, loop, submitted, observed, rseq, current>>
      /\ Failing("bridge") /\ stageReq' = [p \in Owners |-> NoMsg]
      /\ calls' = {[c EXCEPT !.awaited = FALSE] : c \in {d \in calls : d.reply = "none"}}
      /\ reports' = <<>> /\ ending' = ending \cup 1 .. current /\ Discard(1 .. current)
  BY DEF BridgeEnded, publicVars, histVars
<1>2. NoProtocolFailure' /\ ~Healthy'
  BY <1>0, <1>1 DEF Failing, NoProtocolFailure, Healthy
<1>3. DOMAIN reports' = {}
  BY <1>1
<1> DEFINE X == {d \in calls : d.reply = "none"}
           f == [c \in X |-> [c EXCEPT !.awaited = FALSE]]
<1>4. IsFiniteSet(calls')
  <2>1. IsFiniteSet(X)
    BY <1>0, FS_Subset DEF FlagInv
  <2>2. f \in [X -> calls'] /\ \A d \in calls' : \E c \in X : f[c] = d
    BY <1>1
  <2> HIDE DEF f, X
  <2>3. f \in Surjection(X, calls')
    BY <2>2 DEF Surjection
  <2> QED BY <2>1, <2>3, FS_Surjection
<1>5. \A c \in calls' : c.kind = "switch" => c.owner > 1
  <2>1. ASSUME NEW d \in calls
        PROVE  [d EXCEPT !.awaited = FALSE].kind = d.kind /\ [d EXCEPT !.awaited = FALSE].owner = d.owner
    BY <1>0 DEF CallType
  <2>2. ASSUME NEW c \in calls' PROVE \E d \in calls : c.kind = d.kind /\ c.owner = d.owner
    <3>1. PICK d \in calls : c = [d EXCEPT !.awaited = FALSE]
      BY <1>1
    <3> QED BY <2>1, <3>1
  <2>3. \A d \in calls : d.kind = "switch" => d.owner > 1
    BY <1>0 DEF GateInv
  <2> QED BY <2>2, <2>3
<1>6. GateInv'
  BY <1>0, <1>1, <1>3, <1>5, GateSame
<1>7. FlagInv'
  <2>1. \A p \in Owners : p < current => p \in 1 .. current
    BY <1>0, DeliveryAssumption DEF Owners
  <2> QED BY <1>1, <1>3, <1>4, <2>1 DEF FlagInv
<1>8. \A p \in Owners : AbsentInv(p)'
  BY <1>0, <1>1 DEF AbsentInv
<1>9. \A p \in Owners : SoundInv(p)'
  <2>1. \A p \in Owners : Reserved(p)' = Reserved(p)
    BY <1>1 DEF Reserved, Submitted
  <2> QED BY <1>0, <1>1, <2>1, SoundSame
<1>10. ASSUME NEW p \in Owners PROVE \E L : LogInv(p, L)'
  <2>1. PICK L : LogInv(p, L)
    BY <1>0
  <2>2. p \notin ending' => p \notin ending /\ batches'[p] = batches[p]
    BY <1>1 DEF Discard
  <2>3. ~Live(p)'
    BY <1>2 DEF Live
  <2>4. LogInv(p, L)'
    BY <1>1, <2>1, <2>2, <2>3, LogKept
  <2> QED BY <2>4
<1> QED BY <1>2, <1>6, <1>7, <1>8, <1>9, <1>10, OrderFrom

\* Nothing happens.
LEMMA StutterOrder ==
  ASSUME OrderInv, IInv', UNCHANGED vars
  PROVE  OrderInv'
<1>1. /\ UNCHANGED <<bound, holder, ev, errs, loop, stageReq, submitted, observed, rseq, calls, reports, current>>
      /\ UNCHANGED <<ending, batches>>
  BY DEF vars, goVars, publicVars, stageVars, extVars, histVars, flags
<1>2. Stays /\ GateInv'
  BY <1>1, QuietStays DEF OrderInv
<1> QED BY <1>2, StaysOrder

\* Every step keeps the order, where the worker awaits each report and the registry
\* remembers as many batches as the extension retains.
LEMMA NextOrder ==
  ASSUME IInv, IInv', OrderInv, Room, [Next]_vars
  PROVE  OrderInv'
<1>1. CASE \E o \in Owners : Public(o)
  BY <1>1, PublicOrder
<1>2. CASE Registry
  BY <1>2, RegistryOrder
<1>3. CASE Extension
  <2>1. Pipeline = 1
    BY DEF Room
  <2>2. (Stays /\ GateInv') \/ (\E o \in Owners : Takes(o)) \/ \E xs, done : Brings(xs, done)
    BY <1>3, <2>1, ExtensionStays
  <2> QED BY <2>2, StaysOrder, TakesOrder, BringsOrder
<1>4. CASE BridgeEnded
  BY <1>4, BridgeOrder
<1>5. CASE Stopped \/ UNCHANGED vars
  BY <1>5, StutterOrder DEF Stopped
<1> QED BY <1>1, <1>2, <1>3, <1>4, <1>5 DEF Next

\* With the code's own pipeline and limits, the reports of every binding keep the order of
\* what native reached: the invariant the next two theorems rest on.
THEOREM OrderAlways == Room => (Spec => []OrderInv)
<1> SUFFICES ASSUME Room PROVE Spec => []OrderInv
  OBVIOUS
<1>1. Init => IInv /\ LineInv /\ OrderInv
  BY InitInv, InitLine, InitOrder
<1>2. (IInv /\ LineInv /\ OrderInv) /\ [Next]_vars => (IInv /\ LineInv /\ OrderInv)'
  BY NextOk, NextOrder
<1> QED BY <1>1, <1>2, PTL DEF Spec

\* An honest native is never accused: no report is out of turn, names a batch the registry
\* cannot place, or contradicts a stage acknowledgement.
THEOREM NoProtocolFailureAlways == Room => (Spec => []NoProtocolFailure)
<1> SUFFICES ASSUME Room PROVE Spec => []NoProtocolFailure
  OBVIOUS
<1>1. OrderInv => NoProtocolFailure
  BY DEF OrderInv
<1> QED BY <1>1, OrderAlways, PTL

\* A log that has been applied in full, and the evidence.
LEMMA DrainedAgrees ==
  ASSUME IInv, OrderInv, NEW o \in Owners, Healthy, bound[o] = "bound", o \notin ending, Quiet(o)
  PROVE  /\ ev[o].staged = <<>> /\ DOMAIN ev[o].reports = {}
         /\ ev[o].nextReport = rseq[o]
         /\ DOMAIN ev[o].batches = DOMAIN batches[o]
         /\ \A b \in DOMAIN batches[o] :
              ev[o].batches[b] = [ids |-> <<batches[o][b].id>>, phase |-> batches[o][b].phase]
<1> USE DEF Claimed, Started, Ended, InContext
<1> DEFINE e == ev[o]
           s == submitted[o]
<1>0. /\ TypeInv /\ SubmitInv /\ BatchOk(o) /\ EvTyped(e) /\ s \in Seq(Msgs) /\ Len(s) \in Nat
      /\ observed \in [Msgs -> 0 .. 4]
  BY DEF IInv, BatchInv, TypeInv, EvidenceInv, EvOk
<1>1. loop[o] = NoMsg /\ reports = <<>> /\ calls = {} /\ Reserved(o) = NoMsg /\ Live(o)
  BY DEF Quiet, Reserved, Live
<1>2. PICK L : LogInv(o, L)
  BY DEF OrderInv
<1> DEFINE n == e.nextReport
           obs(b) == observed[s[b]]
<1>3. /\ L \in Seq(RepType) /\ Len(L) = rseq[o] /\ WellFormed(L, s) /\ Len(L) \in Nat
      /\ \A b \in 1 .. Len(s), k \in 1 .. 4 : Said(L, Len(L), b, k) <=> k <= obs(b)
      /\ \A b \in 1 .. Len(s) : obs(b) # 4 => b \in DOMAIN batches[o]
      /\ Travels({}, <<>>, n, ending, o, L) /\ Follows(e, L, s, NoMsg)
  BY <1>1, <1>2 DEF LogInv
<1>4. \A b \in 1 .. Len(s) : obs(b) \in 1 .. 4
  <2>1. \A b \in 1 .. Len(s) : s[b] \in Msgs /\ s[b] \in ToSet(s)
    BY <1>0 DEF ToSet
  <2>2. \A b \in 1 .. Len(s) : obs(b) # 0 /\ obs(b) \in 0 .. 4
    BY <1>0, <2>1 DEF SubmitInv, Submitted
  <2> HIDE DEF obs
  <2> QED BY <2>2
<1> HIDE DEF e, s
<1>5. n = Len(L)
  <2>1. n \in 0 .. Len(L) /\ \A k \in n + 1 .. Len(L) : Waits({}, <<>>, o, k)
    BY <1>3 DEF Travels, Follows, n
  <2>2. \A k : ~Waits({}, <<>>, o, k)
    <3>1. DOMAIN <<>> = {}
      OBVIOUS
    <3> QED BY <3>1 DEF Waits
  <2>3. n + 1 .. Len(L) = {}
    BY <2>1, <2>2
  <2> HIDE DEF n
  <2> QED BY <1>3, <2>1, <2>3
<1>6. Matches(e, L, Len(L), s, NoMsg) /\ DOMAIN e.reports = {} /\ e.nextReport = rseq[o]
  BY <1>3, <1>5 DEF Follows
<1> HIDE DEF n, obs
<1>7. \A b \in 1 .. Len(s) : Said(L, Len(L), b, 1) /\ (Said(L, Len(L), b, 4) <=> obs(b) = 4)
  <2>1. \A b \in 1 .. Len(s) : 1 <= obs(b) /\ (4 <= obs(b) <=> obs(b) = 4)
    BY <1>4
  <2> QED BY <1>3, <2>1
<1>8. e.staged = <<>>
  <2>1. PICK k \in 0 .. Len(s) :
          /\ \A b \in 1 .. Len(s) : Said(L, Len(L), b, 1) <=> b <= k
          /\ Len(e.staged) = (Len(s) - k) + 0
    BY <1>6 DEF Matches
  <2>2. Len(s) <= k
    <3>1. CASE Len(s) = 0
      BY <2>1, <3>1
    <3>2. CASE Len(s) # 0
      <4>1. Len(s) \in 1 .. Len(s)
        BY <1>0, <3>2
      <4> QED BY <1>7, <2>1, <4>1
    <3> QED BY <3>1, <3>2
  <2>3. Len(e.staged) = 0
    BY <1>0, <2>1, <2>2
  <2> QED BY <1>0, <2>3 DEF EvTyped
<1>9. ASSUME NEW b PROVE b \in DOMAIN e.batches <=> b \in DOMAIN batches[o]
  <2>1. b \in DOMAIN e.batches <=> b \in Nat /\ Said(L, Len(L), b, 1) /\ ~Said(L, Len(L), b, 4)
    BY <1>6 DEF Matches, OpenAt
  <2>2. Said(L, Len(L), b, 1) => b \in 1 .. Len(s)
    <3>1. Len(L) \in 0 .. Len(L)
      BY <1>3
    <3> QED BY <1>3, <3>1, SaidBefore
  <2>3. b \in DOMAIN batches[o] => b \in 1 .. Len(s) /\ b \in Nat /\ obs(b) # 4
    BY <1>0 DEF BatchOk, obs, s
  <2> QED BY <1>3, <1>7, <2>1, <2>2, <2>3
<1>10. DOMAIN e.batches = DOMAIN batches[o]
  BY <1>9
<1>11. ASSUME NEW b \in DOMAIN batches[o]
       PROVE  e.batches[b] = [ids |-> <<batches[o][b].id>>, phase |-> batches[o][b].phase]
  <2>1. /\ b \in 1 .. Len(s) /\ batches[o][b].id = s[b] /\ batches[o][b].phase = obs(b)
        /\ obs(b) \in 1 .. 3
    BY <1>0 DEF BatchOk, obs, s
  <2>2. e.batches[b] \in [ids: Seq(Msgs), phase: 1 .. 3]
    BY <1>0, <1>10 DEF EvTyped
  <2>3. /\ e.batches[b].ids = <<s[b]>>
        /\ \A k \in 1 .. 3 : Said(L, Len(L), b, k) <=> k <= e.batches[b].phase
    BY <1>6, <1>10 DEF Matches
  <2>4. \A k \in 1 .. 3 : k <= obs(b) <=> k <= e.batches[b].phase
    BY <1>3, <2>1, <2>3
  <2>5. PICK p \in 1 .. 3 : p = e.batches[b].phase
    BY <2>2
  <2>6. PICK q \in 1 .. 3 : q = obs(b)
    BY <2>1
  <2>7. \A k \in 1 .. 3 : k <= q <=> k <= p
    BY <2>4, <2>5, <2>6
  <2>8. p = q
    BY <2>7
  <2> QED BY <2>1, <2>2, <2>3, <2>5, <2>6, <2>8
<1> QED BY <1>6, <1>8, <1>10, <1>11 DEF e

\* Once every call and report of a live binding has drained, the registry and the extension
\* hold the same batches in the same phases, and nothing staged.
THEOREM QuiescentAgreementAlways == Room => (Spec => []QuiescentAgreement)
<1> SUFFICES ASSUME Room PROVE Spec => []QuiescentAgreement
  OBVIOUS
<1>1. IInv /\ OrderInv => QuiescentAgreement
  BY DrainedAgrees DEF QuiescentAgreement
<1> QED BY <1>1, Invariant, OrderAlways, PTL
=============================================================================
