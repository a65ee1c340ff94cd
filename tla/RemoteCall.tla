------------------------------ MODULE RemoteCall ------------------------------
(***************************************************************************)
(* What a correlated call promises: on the private bridge, to callers at   *)
(* either end, and on the OMP RPC client.  A call is performed at most     *)
(* once.  Its caller hears once: the answer of the work that was           *)
(* performed, busy if it was refused before it began, or that the answer   *)
(* is lost: the caller gave up or the connection closed.                   *)
(***************************************************************************)
CONSTANT Ids    \* the calls

VARIABLES
  caller,  \* [Ids -> idle, waiting, what the caller heard]
  work     \* [Ids -> none, running, ok, error, busy]

Answers == {"ok", "error", "busy"}
Lost    == {"gaveup", "closed"}

Init ==
  /\ caller = [c \in Ids |-> "idle"]
  /\ work   = [c \in Ids |-> "none"]

Make(c) ==
  /\ caller[c] = "idle"
  /\ caller' = [caller EXCEPT ![c] = "waiting"]
  /\ UNCHANGED work

\* The work may begin after the caller gave up, never before the call was made.
Begin(c) ==
  /\ caller[c] # "idle" /\ work[c] = "none"
  /\ \E w \in {"running", "busy"} : work' = [work EXCEPT ![c] = w]
  /\ UNCHANGED caller

End(c) ==
  /\ work[c] = "running"
  /\ \E w \in {"ok", "error"} : work' = [work EXCEPT ![c] = w]
  /\ UNCHANGED caller

Settle(c) ==
  /\ caller[c] = "waiting"
  /\ \E a \in Lost \cup (Answers \cap {work[c]}) : caller' = [caller EXCEPT ![c] = a]
  /\ UNCHANGED work

Next == \E c \in Ids : Make(c) \/ Begin(c) \/ End(c) \/ Settle(c)

Spec == Init /\ [][Next]_<<caller, work>>
=============================================================================
