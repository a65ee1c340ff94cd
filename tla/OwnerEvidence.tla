--------------------------- MODULE OwnerEvidence ---------------------------
(***************************************************************************)
(* What the Go owner registry (wrappers/omp/owner_registry.go) keeps for   *)
(* one binding about the messages it staged and the reports it received:   *)
(* the reserved FIFO, the claimed batches and their phase, the remembered  *)
(* completed batches, the reports that arrived ahead of their turn, and    *)
(* the retained bytes charged to them.                                     *)
(*                                                                         *)
(* Every operator here is one critical section of registry.mu, or a part   *)
(* of one, and returns the next evidence.  Sizes are counted in units: a   *)
(* message id, a batch token and a buffered report are one each.  Whether  *)
(* the registry has them left (reserveStateLocked) is decided where these  *)
(* operators are used.                                                     *)
(***************************************************************************)
EXTENDS Integers, SequencesExt

CONSTANT Tracked            \* maxOwnerTrackedItems

ASSUME TrackedAssumption == Tracked \in Nat \ {0}

\* deliveryPhaseIndex: claimed, message_start, message_end, context
Claimed   == 1
Started   == 2
Ended     == 3
InContext == 4
NoEvidence ==
  [staged |-> <<>>, batches |-> <<>>, completed |-> <<>>,
   nextReport |-> 0, reports |-> <<>>, bytes |-> 0, failed |-> FALSE]

Without(f, x) == Restrict(f, DOMAIN f \ {x})
Extended(f, x, v) == [y \in DOMAIN f \cup {x} |-> IF y = x THEN v ELSE f[y]]

\* protocolFailureLocked, as the evidence sees it: nothing is applied after it.
Fail(ev) == [ev EXCEPT !.failed = TRUE]

BatchMessages(ev) == UNION {ToSet(ev.batches[b].ids) : b \in DOMAIN ev.batches}

\* ownerMessageTracked
Holds(ev) == ToSet(ev.staged) \cup BatchMessages(ev)

-----------------------------------------------------------------------------
\* deliver reserves the native FIFO position before the bridge call.

CanReserve(ev, m) == Len(ev.staged) < Tracked /\ m \notin Holds(ev)

Reserve(ev, m) == [ev EXCEPT !.staged = Append(@, m), !.bytes = @ + 1]

\* deliver withdraws the reservation of a message native rejected; the
\* rejection of a message native already claimed is a protocol failure.
Withdraw(ev, m) ==
  IF Contains(ev.staged, m)
  THEN [ev EXCEPT !.staged = RemoveFirst(@, m), !.bytes = @ - 1]
  ELSE Fail(ev)

-----------------------------------------------------------------------------
\* applyReportLocked for a delivery observation r = [batch, phase, ids].

\* Mutation: a claim must take the whole FIFO.
ClaimableWhole(ev, ids) == ids = ev.staged

Claimable(ev, ids) == IsPrefix(ids, ev.staged)       \* stagedPrefixEqual

Claim(ev, r) ==
  IF /\ r.phase = Claimed
     /\ ~Contains(ev.completed, r.batch)
     /\ Cardinality(DOMAIN ev.batches) < Tracked
     /\ Claimable(ev, r.ids)
  THEN [ev EXCEPT !.staged  = SubSeq(@, Len(r.ids) + 1, Len(@)),
                  !.batches = Extended(@, r.batch, [ids |-> r.ids, phase |-> Claimed]),
                  !.bytes   = @ + 1]
  ELSE Fail(ev)

\* The context phase forgets the batch but remembers its token; the oldest
\* remembered token is evicted when more than Tracked are kept.
Complete(ev, r) ==
  LET all   == Append(ev.completed, r.batch)
      evict == Len(all) > Tracked
  IN  [ev EXCEPT !.batches   = Without(@, r.batch),
                 !.completed = IF evict THEN Tail(all) ELSE all,
                 !.bytes     = @ - Len(r.ids) - (IF evict THEN 1 ELSE 0)]

Advance(ev, r) ==
  LET batch == ev.batches[r.batch]
  IN  IF r.ids # batch.ids \/ r.phase # batch.phase + 1 THEN Fail(ev)
      ELSE IF r.phase = InContext THEN Complete(ev, r)
      ELSE [ev EXCEPT !.batches[r.batch].phase = r.phase]

Apply(ev, r) ==
  IF r.batch \in DOMAIN ev.batches THEN Advance(ev, r) ELSE Claim(ev, r)

-----------------------------------------------------------------------------
\* enqueueReportLocked: admit sequence number n, then apply every report whose
\* turn has come.

ApplyNext(ev, n) ==
  IF ev.failed THEN ev
  ELSE LET after == Apply([ev EXCEPT !.reports = Without(@, n), !.bytes = @ - 1],
                          ev.reports[n])
       IN  IF after.failed THEN after ELSE [after EXCEPT !.nextReport = n]

\* The sequence numbers that follow nextReport without a gap, in order.
Contiguous(ev) ==
  LET due == {n \in DOMAIN ev.reports :
                \A k \in (ev.nextReport + 1) .. n : k \in DOMAIN ev.reports}
  IN  [i \in 1 .. Cardinality(due) |-> ev.nextReport + i]

\* Mutation: reports are applied in the order their handlers run.
EnqueueUnordered(ev, n, r) ==
  LET after == Apply(ev, r)
  IN  IF after.failed THEN after ELSE [after EXCEPT !.nextReport = n]

Enqueue(ev, n, r) ==
  IF \/ n <= ev.nextReport
     \/ n - ev.nextReport > Tracked
     \/ n \in DOMAIN ev.reports
     \/ Cardinality(DOMAIN ev.reports) >= Tracked
  THEN Fail(ev)
  ELSE LET buffered == [ev EXCEPT !.reports = Extended(@, n, r), !.bytes = @ + 1]
       IN  FoldLeft(ApplyNext, buffered, Contiguous(buffered))

\* What the retained bytes of a binding should be: one unit for everything it
\* still holds.
Retained(ev) ==
  Len(ev.staged) + Cardinality(DOMAIN ev.batches) + Cardinality(BatchMessages(ev))
    + Len(ev.completed) + Cardinality(DOMAIN ev.reports)
=============================================================================
