---------------------------- MODULE DeliveryFifo ----------------------------
(***************************************************************************)
(* What a managed OMP owner promises about the messages the daemon sends   *)
(* it, with no bridge, no reports and no failures of either side in sight: *)
(*                                                                         *)
(*   - a binding accepts the messages sent to it in the order they came,   *)
(*     each at most once, though it may leave some out;                    *)
(*   - it accepts none once it is removed;                                 *)
(*   - the sender is told "queued" only of an accepted message, and        *)
(*     "rejected" only of one that is never accepted, before or after;     *)
(*   - native carries an accepted message through its phases one at a      *)
(*     time, and the owner credits it with no phase native did not reach.  *)
(***************************************************************************)
EXTENDS Integers, Sequences, Functions

CONSTANTS Msgs, Owners

VARIABLES
  arrived,    \* [Owners -> Seq(Msgs)], the messages the daemon sent, in order
  removed,    \* the bindings that have been removed
  accepted,   \* [Owners -> Seq(Msgs)], the messages handed to native, in order
  answer,     \* [Msgs -> Answers], what the sender was told
  observed,   \* [Msgs -> 0..4], the phase native reached
  credited    \* [Msgs -> 0..4], the phase the Go owner believes

fifoVars == <<arrived, removed, accepted, answer, observed, credited>>

Answers == {"none", "queued", "rejected", "failed", "lost"}
Everyone == UNION {Range(accepted[o]) : o \in Owners}

Init ==
  /\ arrived  = [o \in Owners |-> <<>>]
  /\ removed  = {}
  /\ accepted = [o \in Owners |-> <<>>]
  /\ answer   = [m \in Msgs |-> "none"]
  /\ observed = [m \in Msgs |-> 0]
  /\ credited = [m \in Msgs |-> 0]

\* The daemon sends a message once, to one binding.
Arrive(o, m) ==
  /\ \A p \in Owners : m \notin Range(arrived[p])
  /\ arrived' = [arrived EXCEPT ![o] = Append(@, m)]
  /\ UNCHANGED <<removed, accepted, answer, observed, credited>>

Remove(o) ==
  /\ removed' = removed \cup {o}
  /\ UNCHANGED <<arrived, accepted, answer, observed, credited>>

\* m was sent to o after everything o has accepted.
IsNext(o, m) ==
  \E i \in DOMAIN arrived[o] :
    /\ arrived[o][i] = m
    /\ \A n \in Range(accepted[o]) : \E j \in 1 .. i - 1 : arrived[o][j] = n

\* A message accepted is also the first thing native observes of it.
Accept(o, m) ==
  /\ o \notin removed
  /\ IsNext(o, m)
  /\ answer[m] # "rejected"
  /\ accepted' = [accepted EXCEPT ![o] = Append(@, m)]
  /\ observed' = [observed EXCEPT ![m] = 1]
  /\ UNCHANGED <<arrived, removed, answer, credited>>

\* Losing a connection answers every message on it at once.
Answer(S, r) ==
  /\ \A m \in S : answer[m] = "none"
  /\ r = "queued"   => S \subseteq Everyone
  /\ r = "rejected" => S \cap Everyone = {}
  /\ answer' = [m \in Msgs |-> IF m \in S THEN r ELSE answer[m]]
  /\ UNCHANGED <<arrived, removed, accepted, observed, credited>>

Observe(S) ==
  /\ \A m \in S : observed[m] \in 1 .. 3
  /\ observed' = [m \in Msgs |-> IF m \in S THEN observed[m] + 1 ELSE observed[m]]
  /\ UNCHANGED <<arrived, removed, accepted, answer, credited>>

Credit ==
  /\ credited' \in [Msgs -> 0 .. 4]
  /\ \A m \in Msgs : credited[m] <= credited'[m] /\ credited'[m] <= observed[m]
  /\ UNCHANGED <<arrived, removed, accepted, answer, observed>>

Next ==
  \/ \E o \in Owners, m \in Msgs : Arrive(o, m) \/ Accept(o, m)
  \/ \E o \in Owners : Remove(o)
  \/ \E S \in SUBSET Msgs, r \in Answers \ {"none"} : Answer(S, r)
  \/ \E S \in SUBSET Msgs : Observe(S)
  \/ Credit

Spec == Init /\ [][Next]_fifoVars
=============================================================================
