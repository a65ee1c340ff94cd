------------------------------ MODULE PiOwner ------------------------------
(***************************************************************************)
(* One interactive Pi launch: the extension inside the native process, the *)
(* wrapper's owner behind the private bridge, and the owner's public       *)
(* session at the bus.                                                     *)
(*                                                                         *)
(* Sources: wrappers/pi/interactive_owner.go (the owner),                  *)
(* wrappers/pi/extension.mjs (the extension, interactive topology) and     *)
(* wrappers/pi/interactive_launch.go (the supervisor of both).  The bus,   *)
(* its connection library and Pi itself are external: Pi raises its events *)
(* in the orders its documentation allows, and the bus answers a hello,    *)
(* delivers, supersedes and drops links.                                   *)
(*                                                                         *)
(* Bridge calls are the threads of the owner.  Call c is the one           *)
(* outstanding call of its kind; its "pc" is "sent" until the handler has  *)
(* done something and "none" when nothing is outstanding.  The response    *)
(* reaches the extension in the handler's last step, except where the      *)
(* extension has more to do with it: "ok" and "err" are the responses to   *)
(* session_end and owner.before_tree on their way.                         *)
(***************************************************************************)
EXTENDS Naturals, Sequences, FiniteSets

CONSTANTS
  Msgs,         \* messages the bus may deliver, each once
  Ids,          \* native session identities
  NoId,
  Titles,       \* native session titles, "" when there is none
  MaxInst,      \* bound: native sessions started in the process
  MaxEvents,    \* bound: optional native events
  MaxGen,       \* bound: the bus drops connections only before this one
  QueueLimit,   \* maxInteractiveQueueItems
  SlotLimit,    \* capacity of the slots channel
  Events,       \* the optional native events that happen
  Faults        \* the faults that happen

Calls == {"start", "info", "end", "drain", "tree", "tool"}
Free == "free"   \* the gate's token is there

ASSUME PiAssumption ==
  /\ NoId \notin Ids
  /\ Msgs \cap (Calls \cup {Free}) = {}
  /\ {MaxInst, MaxEvents, MaxGen, QueueLimit, SlotLimit} \subseteq Nat
  /\ Events \subseteq {"turn", "compact", "tree", "rename", "tool",
                       "switch", "quit"}
  /\ Faults \subseteq {"refuse", "loss", "supersede", "crash",
                       "signal", "abort", "invalid", "bytes"}

VARIABLES
  ext,    \* the extension and the native session it is bound to
  call,   \* the bridge calls of the extension, by kind
  own,    \* what the owner keeps under its mutex, and its context
  gate,   \* who holds the owner's one-token gate
  lives,  \* the public lifetimes, each with its current connection
  del,    \* the goroutine of every delivery
  app,    \* the native.append of every message
  sup,    \* the goroutine answering session.superseded
  host    \* the supervisor of the launch

vars == <<ext, call, own, gate, lives, del, app, sup, host>>

InitialName == "wrapper"
Witnesses == {"before_agent_start", "agent_settled", "session_compact",
              "session_compact_failed", "session_tree",
              "session_before_tree_cancelled"}

(* The wrapper's name stands in for an untitled native session. *)
PublicName(title) == IF title = "" THEN InitialName ELSE title

NoCall == [pc |-> "none", id |-> NoId, arg |-> "", life |-> 0, gen |-> 0]
NoAsk == [st |-> "none", ver |-> 0]

Init ==
  /\ ext = [count |-> 0, id |-> NoId, title |-> "", left |-> MaxEvents,
            act |-> "off", branch |-> FALSE, admitted |-> {}, later |-> "none",
            taken |-> [m \in Msgs |-> 0],
            quit |-> FALSE, stopped |-> FALSE, wire |-> TRUE, alive |-> TRUE]
  /\ call = [c \in Calls |-> NoCall]
  /\ own = [id |-> NoId, name |-> "", public |-> 0, conn |-> 0, connecting |-> 0,
            gen |-> 0, ver |-> 0, queue |-> <<>>, tree |-> FALSE,
            ending |-> FALSE, down |-> FALSE,
            ever |-> FALSE, last |-> ""]
  /\ gate = Free
  /\ lives = <<>>
  /\ del = [m \in Msgs |-> [pc |-> "none", gen |-> 0, life |-> 0, id |-> NoId,
                            tree |-> FALSE, res |-> "none"]]
  /\ app = [m \in Msgs |-> "none"]
  /\ sup = "none"
  /\ host = "run"

-----------------------------------------------------------------------------
(* The owner's own operations on its state. *)

(* fail: an owner that is not ending cancels its context. *)
Fail(o) == [o EXCEPT !.down = @ \/ ~o.ending]

(* The session of a request is the one the owner publishes. *)
Owns(o, id) == ~o.ending /\ o.id = id /\ o.public # 0

Gone(l) == lives[l].gone \/ own.down
Current(l) == ~own.ending /\ own.public = l /\ own.id = lives[l].id
LinkUp(g) == \E l \in DOMAIN lives : lives[l].gen = g /\ lives[l].up
Canceled(m) == ~LinkUp(del[m].gen)

Busy == Cardinality({m \in Msgs : del[m].pc \notin {"none", "done"}})
          + (IF sup = "ack" THEN 1 ELSE 0)

(* stop: close the bridge and shut Pi down. *)
Stop(e) == [e EXCEPT !.stopped = TRUE, !.wire = FALSE]

(* A response reaches the extension over a live bridge.  hostCall stops    *)
(* the extension on an error; a tool call hands its error to native.       *)
Reply(c, r) ==
  LET kept == ext.wire /\ (c = "end" \/ (c = "tree" /\ r = "ok"))
  IN /\ call' = [call EXCEPT ![c] =
                   IF kept THEN [NoCall EXCEPT !.pc = r, !.arg = call[c].arg] ELSE NoCall]
     /\ ext' = IF r = "err" /\ c \notin {"end", "tool"} /\ ext.wire THEN Stop(ext) ELSE ext

(* protocolFailure: the whole owner fails, and the call is refused. *)
Refuse(c) == own' = Fail(own) /\ Reply(c, "err")

(* owner.ready reports an ending owner as unavailable, anything else as a  *)
(* protocol failure.                                                       *)
RefuseReady(c) ==
  /\ own' = IF own.ending \/ own.down THEN own ELSE Fail(own)
  /\ Reply(c, "err")

-----------------------------------------------------------------------------
(* The extension. *)

Bound == ext.alive /\ ext.wire /\ ~ext.stopped /\ ext.id # NoId

(* An optional event happens, within the bound. *)
Event(kind) == Bound /\ kind \in Events /\ ext.left > 0

Send(c, id, arg) ==
  /\ call[c].pc = "none"
  /\ call' = [call EXCEPT ![c] = [NoCall EXCEPT !.pc = "sent", !.id = id, !.arg = arg]]

SessionStart(id, title) ==
  /\ ext.alive /\ ext.wire /\ ~ext.stopped /\ ~ext.quit
  /\ ext.id = NoId /\ ext.count < MaxInst
  /\ Send("start", id, "")
  /\ ext' = [ext EXCEPT !.count = @ + 1, !.id = id, !.title = title,
                        !.act = "idle", !.branch = FALSE, !.admitted = {}]
  /\ UNCHANGED <<own, gate, lives, del, app, sup, host>>

Rename(title) ==
  /\ Event("rename") /\ title # ext.title
  /\ Send("info", ext.id, "")
  /\ ext' = [ext EXCEPT !.title = title, !.left = @ - 1]
  /\ UNCHANGED <<own, gate, lives, del, app, sup, host>>

(* before_agent_start is raised while the native session is still idle. *)
Prompt ==
  /\ Event("turn") /\ ext.act = "idle"
  /\ Send("drain", ext.id, "before_agent_start")
  /\ ext' = [ext EXCEPT !.branch = FALSE, !.left = @ - 1]
  /\ UNCHANGED <<own, gate, lives, del, app, sup, host>>

TurnBegins ==
  /\ Event("turn") /\ ext.act = "idle"
  /\ ext' = [ext EXCEPT !.act = "turn", !.left = @ - 1]
  /\ UNCHANGED <<call, own, gate, lives, del, app, sup, host>>

(* message_start and message_end of an admitted delivery. *)
MessageShown(m) ==
  /\ Bound /\ ext.act = "turn" /\ m \in ext.admitted
  /\ ext' = [ext EXCEPT !.admitted = @ \ {m}]
  /\ UNCHANGED <<call, own, gate, lives, del, app, sup, host>>

\* Mutation: the end of a turn drains nothing.
SettledSilent ==
  /\ Bound /\ ext.act = "turn"
  /\ ext' = [ext EXCEPT !.act = "idle", !.branch = FALSE]
  /\ UNCHANGED <<call, own, gate, lives, del, app, sup, host>>

Settled ==
  /\ Bound /\ ext.act = "turn"
  /\ Send("drain", ext.id, "agent_settled")
  /\ ext' = [ext EXCEPT !.act = "idle", !.branch = FALSE]
  /\ UNCHANGED <<own, gate, lives, del, app, sup, host>>

CompactBegins ==
  /\ Event("compact") /\ ext.act = "idle"
  /\ ext' = [ext EXCEPT !.act = "compact", !.left = @ - 1]
  /\ UNCHANGED <<call, own, gate, lives, del, app, sup, host>>

(* session_compact comes before Pi is idle: its drain waits for the next   *)
(* task.                                                                   *)
Compacted ==
  /\ Bound /\ ext.act = "compact" /\ ext.later = "none"
  /\ ext' = [ext EXCEPT !.act = "idle", !.later = "session_compact"]
  /\ UNCHANGED <<call, own, gate, lives, del, app, sup, host>>

CompactFailed ==
  /\ Bound /\ ext.act = "compact"
  /\ Send("drain", ext.id, "session_compact_failed")
  /\ ext' = [ext EXCEPT !.act = "idle"]
  /\ UNCHANGED <<own, gate, lives, del, app, sup, host>>

BeforeTree ==
  /\ Event("tree") /\ ext.act = "idle"
  /\ Send("tree", ext.id, "")
  /\ ext' = [ext EXCEPT !.branch = TRUE, !.act = "tree", !.left = @ - 1]
  /\ UNCHANGED <<own, gate, lives, del, app, sup, host>>

(* Pi is not idle until the handler of session_before_tree has returned.    *)
(* owner.before_tree was answered: delivered work cancels the navigation.  *)
TreeAnswered ==
  /\ Bound /\ call["tree"].pc = "ok" /\ ext.later = "none"
  /\ call' = [call EXCEPT !["tree"] = NoCall]
  /\ ext' = IF call["tree"].arg = "pending" \/ ext.admitted # {}
            THEN [ext EXCEPT !.branch = FALSE, !.act = "idle",
                             !.later = "session_before_tree_cancelled"]
            ELSE ext
  /\ UNCHANGED <<own, gate, lives, del, app, sup, host>>

TreeDone ==
  /\ Bound /\ ext.act = "tree" /\ call["tree"].pc = "none" /\ ext.later = "none"
  /\ ext' = [ext EXCEPT !.act = "idle", !.branch = FALSE, !.later = "session_tree"]
  /\ UNCHANGED <<call, own, gate, lives, del, app, sup, host>>

(* A navigation that fails raises no event. *)
TreeFails ==
  /\ Bound /\ ext.act = "tree" /\ call["tree"].pc = "none"
  /\ ext' = [ext EXCEPT !.act = "idle"]
  /\ UNCHANGED <<call, own, gate, lives, del, app, sup, host>>

(* scheduleDrain's task.  EndAnswered drops the one of a session that      *)
(* ended.                                                                  *)
LaterDrain ==
  /\ Bound /\ ext.later # "none"
  /\ Send("drain", ext.id, ext.later)
  /\ ext' = [ext EXCEPT !.later = "none"]
  /\ UNCHANGED <<own, gate, lives, del, app, sup, host>>

ToolCall ==
  /\ Event("tool")
  /\ Send("tool", ext.id, "")
  /\ ext' = [ext EXCEPT !.left = @ - 1]
  /\ UNCHANGED <<own, gate, lives, del, app, sup, host>>

(* A tool call that native aborts rejects with the signal's reason, which  *)
(* is not a BridgeCallError.                                               *)
ToolAborted ==
  /\ Bound /\ "abort" \in Faults /\ call["tool"].pc # "none"
  /\ ext' = Stop(ext)
  /\ UNCHANGED <<call, own, gate, lives, del, app, sup, host>>

SessionShutdown(reason) ==
  /\ Bound /\ IF reason = "quit" THEN "quit" \in Events
              ELSE "switch" \in Events /\ call["start"].pc = "none"
  /\ Send("end", ext.id, reason)
  /\ UNCHANGED <<ext, own, gate, lives, del, app, sup, host>>

(* session_shutdown's finally: the old record's controller aborts every    *)
(* call of that session still outstanding, and each of them stops the      *)
(* extension; quit closes the bridge.                                      *)
EndAnswered ==
  /\ ext.wire /\ call["end"].pc \in {"ok", "err"}
  /\ LET late == \E c \in Calls \ {"end"} : call[c].pc # "none"
         e == [ext EXCEPT !.id = NoId, !.branch = FALSE, !.admitted = {},
                          !.later = "none", !.act = "off"]
         quit == call["end"].arg = "quit"
     IN ext' = CASE call["end"].pc = "err" \/ late -> Stop(e)
                 [] OTHER -> [e EXCEPT !.quit = quit, !.wire = ~quit]
  /\ call' = [call EXCEPT !["end"] = NoCall]
  /\ UNCHANGED <<own, gate, lives, del, app, sup, host>>

(* The native process leaves: after quit, after stop, when the supervisor  *)
(* kills it, or by a crash.                                                *)
NativeExit ==
  /\ ext.alive
  /\ ext.quit \/ ext.stopped \/ host = "kill" \/ "crash" \in Faults
  /\ ext' = [ext EXCEPT !.alive = FALSE, !.wire = FALSE, !.id = NoId, !.act = "off"]
  /\ UNCHANGED <<call, own, gate, lives, del, app, sup, host>>

(* native.append: the branch-summary flag, then the idle test that decides *)
(* whether the message starts a turn.                                      *)
NativeAppend(m) ==
  /\ app[m] = "sent" /\ ext.wire
  /\ LET idle == ext.act = "idle"
         e == IF idle THEN [ext EXCEPT !.branch = FALSE] ELSE ext
     IN IF ext.id = NoId \/ ext.id # del[m].id
        THEN app' = [app EXCEPT ![m] = "fail"] /\ UNCHANGED ext
        ELSE IF e.branch
        THEN app' = [app EXCEPT ![m] = "branch"] /\ UNCHANGED ext
        ELSE IF ~idle
        THEN app' = [app EXCEPT ![m] = "busy"] /\ UNCHANGED ext
        ELSE /\ app' = [app EXCEPT ![m] = "yes"]
             /\ ext' = [e EXCEPT !.act = "turn", !.admitted = @ \cup {m},
                               !.taken[m] = @ + 1]
  /\ UNCHANGED <<call, own, gate, lives, del, sup, host>>

(* The bridge ends, or the caller gave up and its cancel came first. *)
AppendLost(m) ==
  /\ app[m] = "sent"
  /\ ~ext.wire \/ (del[m].pc = "done" /\ del[m].res = "error")
  /\ app' = [app EXCEPT ![m] = "fail"]
  /\ UNCHANGED <<ext, call, own, gate, lives, del, sup, host>>

(* session.hello: the bus registers the name, or refuses it.  The response *)
(* is on its way, with the identity version the request was built from.    *)
(* A lifetime's ask is that hello: "due" when the owner has decided on it  *)
(* and not sent it yet, "yes" or "no" with the bus's answer.               *)
Hello(l, name, ver) ==
  \/ lives' = [lives EXCEPT ![l].ask = [st |-> "yes", ver |-> ver], ![l].bus = name]
  \/ "refuse" \in Faults /\ lives' = [lives EXCEPT ![l].ask = [st |-> "no", ver |-> ver]]

-----------------------------------------------------------------------------
(* The owner's bridge handlers. *)

(* acquire fails when the handler's context or the owner's has ended.      *)
AcquireRefused(c) ==
  /\ \/ c \in {"end", "drain", "tree"} /\ call[c].pc = "sent"
     \/ c \in {"start", "info"} /\ call[c].pc = "described"
  /\ own.down \/ ~ext.wire
  /\ Reply(c, "err")
  /\ UNCHANGED <<own, gate, lives, del, app, sup, host>>

(* owner.ready: the nested native.describe reads the current title before  *)
(* the gate is acquired.                                                   *)
Describe(c) ==
  /\ c \in {"start", "info"} /\ call[c].pc = "sent"
  /\ IF ext.wire /\ ext.id # NoId /\ ext.id = call[c].id
     THEN /\ call' = [call EXCEPT ![c].pc = "described", ![c].arg = PublicName(ext.title)]
          /\ UNCHANGED <<ext, own>>
     ELSE Refuse(c)
  /\ UNCHANGED <<gate, lives, del, app, sup, host>>

(* publish, the first time: a new public lifetime.  The call waits, with   *)
(* the gate, until the bus has admitted the session.                       *)
PublishFirst(c) ==
  /\ gate = Free /\ call[c].pc = "described" /\ ~own.ending /\ own.id = NoId
  /\ IF own.public # 0 \/ own.conn # 0 \/ own.connecting # 0
     THEN RefuseReady(c) /\ UNCHANGED <<gate, lives>>
     ELSE /\ lives' = Append(lives, [id |-> call[c].id, pc |-> "dial", gone |-> FALSE,
                                     ready |-> FALSE, gen |-> 0, up |-> FALSE,
                                     bus |-> "", ask |-> NoAsk])
          /\ own' = [own EXCEPT !.public = Len(lives) + 1, !.id = call[c].id,
                                !.name = call[c].arg, !.ver = @ + 1]
          /\ call' = [call EXCEPT ![c].pc = "admit", ![c].life = Len(lives) + 1]
          /\ gate' = c /\ UNCHANGED ext
  /\ UNCHANGED <<del, app, sup, host>>

\* Mutation: an owner that is ending publishes again.
PublishAgainEnding(c) ==
  /\ gate = Free /\ call[c].pc = "described"
  /\ own.id = call[c].id /\ own.public # 0 /\ own.conn # 0
  /\ own' = [own EXCEPT !.name = call[c].arg, !.ver = @ + 1]
  /\ gate' = c
  /\ call' = [call EXCEPT ![c].pc = "rehello", ![c].life = own.public, ![c].gen = own.conn]
  /\ lives' = [lives EXCEPT ![own.public].ask = [st |-> "due", ver |-> own'.ver]]
  /\ UNCHANGED <<ext, del, app, sup, host>>

(* publish again, under the mutex: a new identity, to be said at once or   *)
(* with the hello of the next connection.                                  *)
PublishAgain(c) ==
  /\ gate = Free /\ call[c].pc = "described" /\ ~own.ending
  /\ own.id = call[c].id /\ own.public # 0
  /\ own' = [own EXCEPT !.name = call[c].arg, !.ver = @ + 1]
  /\ IF own.conn = 0
     THEN Reply(c, "ok") /\ UNCHANGED <<gate, lives>>
     ELSE /\ gate' = c /\ UNCHANGED ext
          /\ call' = [call EXCEPT ![c].pc = "rehello", ![c].life = own.public,
                                  ![c].gen = own.conn]
          /\ lives' = [lives EXCEPT ![own.public].ask = [st |-> "due", ver |-> own'.ver]]
  /\ UNCHANGED <<del, app, sup, host>>

(* The connection of the second hello is still the lifetime's.             *)
OnLink(c) ==
  LET l == call[c].life IN lives[l].gen = call[c].gen /\ lives[l].up

(* The second hello is sent after the mutex is released, whatever has come *)
(* to the owner in between.                                                *)
Rehello(c) ==
  /\ call[c].pc = "rehello" /\ OnLink(c) /\ lives[call[c].life].ask.st = "due"
  /\ Hello(call[c].life, call[c].arg, lives[call[c].life].ask.ver)
  /\ UNCHANGED <<ext, call, own, gate, del, app, sup, host>>

PublishRefused(c) ==
  /\ gate = Free /\ call[c].pc = "described"
  /\ \/ own.ending
     \/ own.id \notin {NoId, call[c].id}
     \/ own.id = call[c].id /\ own.public = 0
  /\ RefuseReady(c)
  /\ UNCHANGED <<gate, lives, del, app, sup, host>>

Admitted(c) ==
  /\ call[c].pc = "admit" /\ lives[call[c].life].ready
  /\ gate' = Free /\ Reply(c, "ok")
  /\ UNCHANGED <<own, lives, del, app, sup, host>>

NotAdmitted(c) ==
  /\ call[c].pc = "admit"
  /\ lives[call[c].life].pc = "done" \/ ~ext.wire \/ own.down
  /\ gate' = Free /\ RefuseReady(c)
  /\ UNCHANGED <<lives, del, app, sup, host>>

(* The observer of the second hello's response. *)
Rehelloed(c) ==
  /\ call[c].pc = "rehello" /\ OnLink(c) /\ lives[call[c].life].ask.st \in {"yes", "no"}
  /\ LET l == call[c].life IN
     /\ IF /\ lives[l].ask.st = "yes" /\ Current(l) /\ own.conn = call[c].gen
           /\ own.gen = call[c].gen /\ own.ver = lives[l].ask.ver
        THEN own' = [own EXCEPT !.ever = TRUE, !.last = ""] /\ Reply(c, "ok")
        ELSE RefuseReady(c)
     /\ lives' = [lives EXCEPT ![l].ask = NoAsk]
  /\ gate' = Free
  /\ UNCHANGED <<del, app, sup, host>>

(* The connection ended first: the next one says hello with the new name.  *)
RehelloLost(c) ==
  /\ call[c].pc = "rehello" /\ ~LinkUp(call[c].gen)
  /\ gate' = Free /\ Reply(c, "ok")
  /\ UNCHANGED <<own, lives, del, app, sup, host>>

RehelloCut(c) ==
  /\ call[c].pc = "rehello" /\ ~ext.wire /\ LinkUp(call[c].gen)
  /\ gate' = Free /\ RefuseReady(c)
  /\ lives' = [lives EXCEPT ![call[c].life].ask = NoAsk]
  /\ UNCHANGED <<del, app, sup, host>>

\* Mutation: session_end does not wait for the gate.
EndBeginsUngated ==
  /\ call["end"].pc = "sent"
  /\ IF ~Owns(own, call["end"].id)
     THEN Refuse("end") /\ UNCHANGED <<gate, lives>>
     ELSE /\ own' = [own EXCEPT !.public = 0, !.conn = 0, !.connecting = 0,
                                !.id = NoId, !.name = "", !.queue = <<>>, !.tree = FALSE]
          /\ lives' = [lives EXCEPT ![own.public].gone = TRUE, ![own.public].up = FALSE]
          /\ gate' = "end" /\ UNCHANGED ext
          /\ call' = [call EXCEPT !["end"].pc = "join", !["end"].life = own.public]
  /\ UNCHANGED <<del, app, sup, host>>

(* session_end withdraws the session and, with the gate, joins the old     *)
(* lifetime.                                                               *)
EndBegins ==
  /\ gate = Free /\ call["end"].pc = "sent"
  /\ IF ~Owns(own, call["end"].id)
     THEN Refuse("end") /\ UNCHANGED <<gate, lives>>
     ELSE /\ own' = [own EXCEPT !.public = 0, !.conn = 0, !.connecting = 0,
                                !.id = NoId, !.name = "", !.last = call["end"].arg,
                                !.queue = <<>>, !.tree = FALSE]
          /\ lives' = [lives EXCEPT ![own.public].gone = TRUE, ![own.public].up = FALSE]
          /\ gate' = "end" /\ UNCHANGED ext
          /\ call' = [call EXCEPT !["end"].pc = "join", !["end"].life = own.public]
  /\ UNCHANGED <<del, app, sup, host>>

\* Mutation: the old lifetime is not joined.
EndJoinedAtOnce ==
  /\ call["end"].pc = "join"
  /\ gate' = Free /\ Reply("end", "ok")
  /\ UNCHANGED <<own, lives, del, app, sup, host>>

\* Mutation: the gate is not released.
EndJoinedKeepsGate ==
  /\ call["end"].pc = "join" /\ lives[call["end"].life].pc = "done"
  /\ Reply("end", "ok")
  /\ UNCHANGED <<own, gate, lives, del, app, sup, host>>

EndJoined ==
  /\ call["end"].pc = "join" /\ lives[call["end"].life].pc = "done"
  /\ gate' = Free /\ Reply("end", "ok")
  /\ UNCHANGED <<own, lives, del, app, sup, host>>

TreeBegins ==
  /\ gate = Free /\ call["tree"].pc = "sent"
  /\ IF ~Owns(own, call["tree"].id)
     THEN Refuse("tree")
     ELSE /\ UNCHANGED ext
          /\ own' = [own EXCEPT !.tree = TRUE]
          /\ call' = [call EXCEPT !["tree"] = [NoCall EXCEPT
               !.pc = IF ext.wire THEN "ok" ELSE "none",
               !.arg = IF own.queue # <<>> THEN "pending" ELSE ""]]
  /\ UNCHANGED <<gate, lives, del, app, sup, host>>

(* owner.drain hands the queue to native, head first, until it is empty or *)
(* native is busy.                                                         *)
DrainBegins ==
  /\ gate = Free /\ call["drain"].pc = "sent"
  /\ own' = IF call["drain"].arg \in {"session_before_tree_cancelled", "session_tree"}
            THEN [own EXCEPT !.tree = FALSE] ELSE own
  /\ call' = [call EXCEPT !["drain"].pc = "pump"]
  /\ gate' = "drain"
  /\ UNCHANGED <<ext, lives, del, app, sup, host>>

DrainSends ==
  /\ call["drain"].pc = "pump" /\ Owns(own, call["drain"].id) /\ own.queue # <<>>
  /\ LET m == Head(own.queue) IN
     /\ app' = [app EXCEPT ![m] = "sent"]
     /\ call' = [call EXCEPT !["drain"].pc = "append", !["drain"].arg = m]
  /\ UNCHANGED <<ext, own, gate, lives, del, sup, host>>

DrainEnds ==
  /\ call["drain"].pc = "pump"
  /\ IF Owns(own, call["drain"].id)
     THEN own.queue = <<>> /\ UNCHANGED own /\ Reply("drain", "ok")
     ELSE Refuse("drain")
  /\ gate' = Free
  /\ UNCHANGED <<lives, del, app, sup, host>>

DrainAppended ==
  /\ call["drain"].pc = "append" /\ app[call["drain"].arg] # "sent"
  /\ LET m == call["drain"].arg
         same == own.queue # <<>> /\ Head(own.queue) = m /\ own.id = call["drain"].id
     IN /\ app' = [app EXCEPT ![m] = "none"]
        /\ \/ /\ app[m] = "yes" /\ same
              /\ own' = [own EXCEPT !.queue = Tail(@)]
              /\ call' = [call EXCEPT !["drain"] = [@ EXCEPT !.pc = "pump", !.arg = ""]]
              /\ UNCHANGED <<ext, gate>>
           \/ /\ app[m] = "fail" \/ (app[m] = "yes" /\ ~same) \/ ~ext.wire
              /\ Refuse("drain") /\ gate' = Free
           \/ /\ app[m] \in {"busy", "branch"}
              /\ UNCHANGED own /\ Reply("drain", "ok") /\ gate' = Free
  /\ UNCHANGED <<lives, del, sup, host>>

(* tool.call runs outside the gate and checks the session before and after.*)
ToolBegins ==
  /\ call["tool"].pc = "sent"
  /\ IF Owns(own, call["tool"].id)
     THEN /\ call' = [call EXCEPT !["tool"].pc = "lookup", !["tool"].life = own.public]
          /\ UNCHANGED ext
     ELSE Reply("tool", "err")
  /\ UNCHANGED <<own, gate, lives, del, app, sup, host>>

(* callPublic *)
ToolPublic ==
  /\ call["tool"].pc = "lookup"
  /\ IF Owns(own, call["tool"].id) /\ own.public = call["tool"].life /\ own.conn # 0
     THEN /\ call' = [call EXCEPT !["tool"].pc = "public", !["tool"].gen = own.conn]
          /\ UNCHANGED ext
     ELSE Reply("tool", "err")
  /\ UNCHANGED <<own, gate, lives, del, app, sup, host>>

ToolResult ==
  /\ call["tool"].pc = "public"
  /\ IF LinkUp(call["tool"].gen) /\ ext.wire
     THEN call' = [call EXCEPT !["tool"].pc = "result"] /\ UNCHANGED ext
     ELSE Reply("tool", "err")
  /\ UNCHANGED <<own, gate, lives, del, app, sup, host>>

ToolReturns ==
  /\ call["tool"].pc = "result"
  /\ IF Owns(own, call["tool"].id) /\ own.public = call["tool"].life
     THEN Reply("tool", "ok") ELSE Reply("tool", "err")
  /\ UNCHANGED <<own, gate, lives, del, app, sup, host>>

-----------------------------------------------------------------------------
(* The public lifetime: dial, say hello, serve, and dial again. *)

(* waitPublicRetry gives up on a lifetime that is no longer current, or    *)
(* ends with it.  Its interval, and the wake channel that shortens it, are *)
(* the time before Dialled.                                                *)
RetryOrEnd(l) == IF Current(l) /\ ~Gone(l) THEN "dial" ELSE "done"

DialEnds(l) ==
  /\ lives[l].pc = "dial" /\ Gone(l)
  /\ lives' = [lives EXCEPT ![l].pc = "done"]
  /\ UNCHANGED <<ext, call, own, gate, del, app, sup, host>>

Dialled(l) ==
  /\ lives[l].pc = "dial"
  /\ IF Current(l)
     THEN /\ own' = [own EXCEPT !.gen = @ + 1, !.connecting = own.gen + 1]
          /\ lives' = [lives EXCEPT ![l].pc = "hello", ![l].gen = own.gen + 1,
                                    ![l].up = TRUE, ![l].bus = "", ![l].ask = NoAsk]
     ELSE lives' = [lives EXCEPT ![l].pc = "done"] /\ UNCHANGED own
  /\ UNCHANGED <<ext, call, gate, del, app, sup, host>>

(* The connection is the lifetime's own, still waiting for admission. *)
Admitting(l) ==
  Current(l) /\ own.connecting = lives[l].gen /\ own.gen = lives[l].gen

(* What runPublic does when admitPublic returns: detach and close the      *)
(* connection, then end, fail or retry.  bad: it returned an error that is *)
(* not the end of the transport.                                           *)
Detached(l, bad) ==
  LET g == lives[l].gen
      o == [own EXCEPT !.conn = IF @ = g THEN 0 ELSE @,
                       !.connecting = IF @ = g THEN 0 ELSE @]
      fails == bad /\ ~Gone(l)
  IN /\ own' = IF fails THEN Fail(o) ELSE o
     /\ lives' = [lives EXCEPT ![l].pc = IF fails THEN "done" ELSE RetryOrEnd(l),
                               ![l].up = FALSE, ![l].ask = NoAsk]
     /\ UNCHANGED <<ext, call, gate, del, app, sup, host>>

HelloSent(l) ==
  /\ lives[l].pc = "hello" /\ lives[l].up /\ lives[l].ask.st = "none" /\ Admitting(l)
  /\ Hello(l, own.name, own.ver)
  /\ UNCHANGED <<ext, call, own, gate, del, app, sup, host>>

\* Mutation: the identity's version is not compared.
HelloObservedAnyway(l) ==
  /\ lives[l].pc = "hello" /\ lives[l].up /\ lives[l].ask.st = "yes" /\ Admitting(l)
  /\ own' = [own EXCEPT !.conn = lives[l].gen, !.connecting = 0, !.ever = TRUE, !.last = ""]
  /\ lives' = [lives EXCEPT ![l].pc = "serve", ![l].ready = TRUE, ![l].ask = NoAsk]
  /\ UNCHANGED <<ext, call, gate, del, app, sup, host>>

(* The observer of the first hello's response installs the connection,     *)
(* unless the identity has changed: then hello is said again.              *)
HelloObserved(l) ==
  /\ lives[l].pc = "hello" /\ lives[l].up /\ lives[l].ask.st = "yes" /\ Admitting(l)
  /\ IF own.ver # lives[l].ask.ver
     THEN lives' = [lives EXCEPT ![l].ask = NoAsk] /\ UNCHANGED own
     ELSE /\ own' = [own EXCEPT !.conn = lives[l].gen, !.connecting = 0,
                                !.ever = TRUE, !.last = ""]
          /\ lives' = [lives EXCEPT ![l].pc = "serve", ![l].ready = TRUE, ![l].ask = NoAsk]
  /\ UNCHANGED <<ext, call, gate, del, app, sup, host>>

HelloFails(l) ==
  /\ lives[l].pc = "hello"
  /\ \/ ~lives[l].up /\ Detached(l, FALSE)
     \/ /\ lives[l].up
        /\ lives[l].ask.st = "no" \/ Gone(l) \/ ~Admitting(l)
        /\ Detached(l, TRUE)

ServeEnds(l) ==
  /\ lives[l].pc = "serve" /\ (~lives[l].up \/ Gone(l))
  /\ Detached(l, FALSE)

(* The transport ends: its requests are cancelled. *)
LinkLoss(l) ==
  /\ "loss" \in Faults /\ lives[l].up /\ own.gen < MaxGen
  /\ lives' = [lives EXCEPT ![l].up = FALSE]
  /\ UNCHANGED <<ext, call, own, gate, del, app, sup, host>>

-----------------------------------------------------------------------------
(* Requests from the bus.  A registered peer receives them; frames behind  *)
(* an unread first hello response wait for it.                             *)

CanArrive(l) ==
  /\ lives[l].up /\ lives[l].bus # ""
  /\ lives[l].pc = "serve" \/ (lives[l].ask.st # "yes" /\ own.gen < MaxGen)

(* The owner answers requests on its installed connection only; on another *)
(* it hangs up.                                                            *)
Served(l) == ~own.ending /\ own.conn = lives[l].gen /\ own.gen = lives[l].gen

Hangup(l) == lives' = [lives EXCEPT ![l].up = FALSE]

(* handlePublic for message.deliver *)
Arrive(l, m) ==
  /\ CanArrive(l) /\ del[m].pc = "none"
  /\ IF ~Served(l)
     THEN Hangup(l) /\ del' = [del EXCEPT ![m].pc = "done"] /\ UNCHANGED own
     ELSE IF Busy >= SlotLimit
     THEN /\ Hangup(l) /\ del' = [del EXCEPT ![m].pc = "done"]
          /\ own' = Fail(own)
     ELSE /\ del' = [del EXCEPT ![m].pc = "slot", ![m].gen = lives[l].gen, ![m].life = l]
          /\ UNCHANGED <<lives, own>>
  /\ UNCHANGED <<ext, call, gate, app, sup, host>>

\* Mutation: the acknowledgement takes no slot.
SupersedeSlotless(l) ==
  /\ "supersede" \in Faults /\ sup = "none" /\ CanArrive(l) /\ Served(l)
  /\ own' = [own EXCEPT !.ending = TRUE] /\ sup' = "ack"
  /\ lives' = [lives EXCEPT ![l].bus = ""]
  /\ UNCHANGED <<ext, call, gate, app, del, host>>

(* handlePublic for session.superseded: the owner is ending from here on.  *)
Supersede(l) ==
  /\ "supersede" \in Faults /\ sup = "none" /\ CanArrive(l)
  /\ IF ~Served(l)
     THEN Hangup(l) /\ UNCHANGED <<own, sup>>
     ELSE IF Busy >= SlotLimit
     THEN Hangup(l) /\ own' = [own EXCEPT !.ending = TRUE, !.down = TRUE] /\ sup' = "done"
     ELSE /\ own' = [own EXCEPT !.ending = TRUE] /\ sup' = "ack"
          /\ lives' = [lives EXCEPT ![l].bus = ""]
  /\ UNCHANGED <<ext, call, gate, del, app, host>>

SupersedeAcked ==
  /\ sup = "ack" /\ sup' = "done"
  /\ own' = [own EXCEPT !.down = TRUE]
  /\ UNCHANGED <<ext, call, gate, lives, del, app, host>>

(* The end of a delivery.  An error other than a cancellation before any   *)
(* native call fails the owner, and so does a response that cannot be      *)
(* written although the request was not cancelled.                         *)
Settle(m, res, o) ==
  /\ del' = [del EXCEPT ![m] = [@ EXCEPT !.pc = "done", !.gen = 0, !.tree = FALSE, !.res = res]]
  /\ \/ own' = IF res = "error" THEN Fail(o) ELSE o
     \/ "loss" \in Faults /\ ~Canceled(m) /\ own' = Fail(o)

(* A delivery that does not render is refused before the gate is asked for.*)
DeliverRefused(m) ==
  /\ del[m].pc = "slot" /\ (own.down \/ Canceled(m) \/ "invalid" \in Faults)
  /\ Settle(m, IF Canceled(m) THEN "canceled" ELSE "error", own)
  /\ UNCHANGED <<ext, call, gate, lives, app, sup, host>>

DeliverBegins(m) ==
  /\ gate = Free /\ del[m].pc = "slot"
  /\ IF Canceled(m) THEN Settle(m, "canceled", own) /\ UNCHANGED gate
     ELSE del' = [del EXCEPT ![m].pc = "check"] /\ gate' = m /\ UNCHANGED own
  /\ UNCHANGED <<ext, call, lives, app, sup, host>>

\* Mutation: the queue is not looked at.
DeliverChecksNoQueue(m) ==
  /\ del[m].pc = "check"
  /\ IF own.ending \/ own.gen # del[m].gen \/ own.conn = 0 \/ own.id = NoId
     THEN Settle(m, "error", own) /\ gate' = Free /\ UNCHANGED app
     ELSE /\ del' = [del EXCEPT ![m].pc = "append", ![m].id = own.id, ![m].tree = own.tree]
          /\ app' = [app EXCEPT ![m] = "sent"] /\ UNCHANGED <<own, gate>>
  /\ UNCHANGED <<ext, call, lives, sup, host>>

DeliverChecks(m) ==
  /\ del[m].pc = "check"
  /\ LET lost == own.ending \/ own.gen # del[m].gen \/ own.conn = 0 \/ own.id = NoId
         held == own.queue # <<>>
         next == [del EXCEPT ![m].pc = IF held THEN "queue" ELSE "append",
                             ![m].id = own.id, ![m].tree = own.tree]
     IN IF lost THEN Settle(m, "error", own) /\ gate' = Free /\ UNCHANGED app
        ELSE IF own.tree /\ held
        THEN Settle(m, "rejected", own) /\ gate' = Free /\ UNCHANGED app
        ELSE /\ del' = next /\ UNCHANGED <<own, gate>>
             /\ app' = IF held THEN app ELSE [app EXCEPT ![m] = "sent"]
  /\ UNCHANGED <<ext, call, lives, sup, host>>

\* Mutation: a native call that is given up counts as never made.
DeliverAppendedCanceled(m) ==
  /\ del[m].pc = "append" /\ gate' = Free
  /\ \/ app[m] = "yes" /\ Settle(m, "written", own)
     \/ app[m] \in {"branch", "busy"} /\ Settle(m, "rejected", own)
     \/ Canceled(m) /\ Settle(m, "canceled", own)
  /\ app' = IF app[m] = "sent" THEN app ELSE [app EXCEPT ![m] = "none"]
  /\ UNCHANGED <<ext, call, lives, sup, host>>

(* The native call ends with its answer, or because the delivery's context *)
(* or the bridge did: native may have taken the message even so.           *)
DeliverAppended(m) ==
  /\ del[m].pc = "append"
  /\ \/ /\ app[m] = "yes" /\ gate' = Free
        /\ Settle(m, "written",
                  IF del[m].tree /\ own.id = del[m].id THEN [own EXCEPT !.tree = FALSE] ELSE own)
     \/ app[m] = "branch" /\ gate' = Free /\ Settle(m, "rejected", own)
     \/ app[m] = "busy" /\ del' = [del EXCEPT ![m].pc = "queue"] /\ UNCHANGED <<own, gate>>
     \/ /\ app[m] = "fail" \/ Canceled(m) \/ ~ext.wire
        /\ gate' = Free /\ Settle(m, "error", own)
  /\ app' = IF app[m] = "sent" THEN app ELSE [app EXCEPT ![m] = "none"]
  /\ UNCHANGED <<ext, call, lives, sup, host>>

(* queueDelivery looks at the context, and then takes the lock. *)
DeliverQueues(m) ==
  /\ del[m].pc = "queue"
  /\ IF Canceled(m) THEN Settle(m, "canceled", own) /\ gate' = Free
     ELSE del' = [del EXCEPT ![m].pc = "lock"] /\ UNCHANGED <<own, gate>>
  /\ UNCHANGED <<ext, call, lives, app, sup, host>>

DeliverQueued(m) ==
  /\ del[m].pc = "lock" /\ gate' = Free
  /\ LET lost == own.ending \/ own.gen # del[m].gen \/ own.id # del[m].id \/ own.conn = 0
         full == Len(own.queue) >= QueueLimit
     IN \/ (lost \/ full \/ "bytes" \in Faults) /\ Settle(m, "error", own)
        \/ ~lost /\ ~full /\ Settle(m, "queued", [own EXCEPT !.queue = Append(@, m)])
  /\ UNCHANGED <<ext, call, lives, app, sup, host>>

-----------------------------------------------------------------------------
(* The supervisor: runs until the owner, the bridge or the child ends, or  *)
(* a signal comes; stops the child, joins the bridge, closes the owner.    *)

GracefulNativeEnd == own.ever /\ own.id = NoId /\ own.conn = 0 /\ own.last = "quit"

HostStops ==
  /\ host = "run"
  /\ own.down \/ ~ext.wire \/ "signal" \in Faults
  /\ host' = IF ~own.down /\ ~ext.wire /\ GracefulNativeEnd THEN "leave" ELSE "kill"
  /\ UNCHANGED <<ext, call, own, gate, lives, del, app, sup>>

(* interactiveOwner.Close, once the bridge has joined its handlers. *)
OwnerCloses ==
  /\ host \in {"kill", "leave"} /\ ~ext.alive
  /\ \A c \in Calls : call[c].pc = "none"
  /\ host' = "close"
  /\ own' = [own EXCEPT !.ending = TRUE, !.down = TRUE, !.public = 0, !.conn = 0,
                        !.connecting = 0, !.id = NoId, !.name = "",
                        !.queue = <<>>, !.tree = FALSE]
  /\ lives' = [l \in DOMAIN lives |->
                 IF l = own.public \/ lives[l].gen \in {own.conn, own.connecting} \ {0}
                 THEN [lives[l] EXCEPT !.gone = TRUE, !.up = FALSE] ELSE lives[l]]
  /\ UNCHANGED <<ext, call, gate, del, app, sup>>

OwnerClosed ==
  /\ host = "close"
  /\ \A l \in DOMAIN lives : lives[l].pc = "done"
  /\ \A m \in Msgs : del[m].pc \in {"none", "done"}
  /\ sup # "ack"
  /\ host' = "closed"
  /\ UNCHANGED <<ext, call, own, gate, lives, del, app, sup>>

(* A response, or a request, that the bridge can no longer carry. *)
CallLost(c) ==
  /\ ~ext.wire /\ call[c].pc \in {"sent", "ok", "err"}
  /\ call' = [call EXCEPT ![c] = NoCall]
  /\ UNCHANGED <<ext, own, gate, lives, del, app, sup, host>>

Extension ==
  \/ \E id \in Ids, t \in Titles : SessionStart(id, t)
  \/ \E t \in Titles : Rename(t)
  \/ Prompt \/ TurnBegins \/ CompactBegins \/ BeforeTree \/ ToolCall
  \/ \E m \in Msgs : MessageShown(m)
  \/ \E r \in {"quit", "new"} : SessionShutdown(r)
  \/ ToolAborted

Response ==
  \/ Settled \/ Compacted \/ CompactFailed \/ TreeAnswered \/ TreeDone \/ TreeFails
  \/ LaterDrain \/ EndAnswered \/ NativeExit
  \/ \E c \in Calls : CallLost(c)
  \/ \E m \in Msgs : NativeAppend(m) \/ AppendLost(m)

Handler(c) ==
  \/ AcquireRefused(c) \/ Describe(c)
  \/ PublishFirst(c) \/ PublishAgain(c) \/ PublishRefused(c)
  \/ Admitted(c) \/ NotAdmitted(c) \/ Rehello(c) \/ Rehelloed(c) \/ RehelloLost(c) \/ RehelloCut(c)
  \/ c = "end" /\ (EndBegins \/ EndJoined)
  \/ c = "tree" /\ TreeBegins
  \/ c = "drain" /\ (DrainBegins \/ DrainSends \/ DrainEnds \/ DrainAppended)
  \/ c = "tool" /\ (ToolBegins \/ ToolPublic \/ ToolResult \/ ToolReturns)

Lifetime(l) ==
  \/ DialEnds(l) \/ Dialled(l)
  \/ HelloSent(l) \/ HelloObserved(l) \/ HelloFails(l) \/ ServeEnds(l)

Bus(l) == LinkLoss(l) \/ Supersede(l) \/ \E m \in Msgs : Arrive(l, m)

Deliver(m) ==
  \/ DeliverRefused(m) \/ DeliverBegins(m) \/ DeliverChecks(m)
  \/ DeliverAppended(m) \/ DeliverQueues(m) \/ DeliverQueued(m)

Supervisor == SupersedeAcked \/ HostStops \/ OwnerCloses \/ OwnerClosed

Next ==
  \/ Extension \/ Response \/ Supervisor
  \/ \E c \in Calls : Handler(c)
  \/ \E l \in DOMAIN lives : Lifetime(l) \/ Bus(l)
  \/ \E m \in Msgs : Deliver(m)

Spec == Init /\ [][Next]_vars

(* Everything but the native user, the bus and the faults is scheduled:    *)
(* Go runs its goroutines, Node its tasks, Pi finishes what it began and   *)
(* the bus is back in the end and answers a hello.                         *)
Progress ==
  \/ Response \/ Supervisor
  \/ \E c \in Calls : Handler(c)
  \/ \E l \in DOMAIN lives : Lifetime(l)
  \/ \E m \in Msgs : Deliver(m)

FairSpec == Spec /\ WF_vars(Progress)

-----------------------------------------------------------------------------
\* The values of the state, and the limits on the queue and on the slots.
TypeOK ==
  /\ ext.act \in {"off", "idle", "turn", "compact", "tree"}
  /\ ext.id \in Ids \cup {NoId} /\ ext.admitted \subseteq Msgs
  /\ ext.later \in Witnesses \cup {"none"}
  /\ \A c \in Calls : /\ call[c].id \in Ids \cup {NoId}
                       /\ call[c].life \in 0..Len(lives)
                       /\ call[c].gen \in 0..own.gen
  /\ own.id \in Ids \cup {NoId} /\ own.public \in 0..Len(lives)
  /\ own.conn \in 0..own.gen /\ own.connecting \in 0..own.gen /\ own.gen <= MaxGen + Len(lives)
  /\ own.queue \in Seq(Msgs) /\ Len(own.queue) <= QueueLimit
  /\ gate \in {Free} \cup Calls \cup Msgs
  /\ app \in [Msgs -> {"none", "sent", "yes", "busy", "branch", "fail"}]
  /\ sup \in {"none", "ack", "done"}
  /\ host \in {"run", "kill", "leave", "close", "closed"}
  /\ Busy <= SlotLimit

\* session_end joins the old public lifetime before its session's successor can
\* begin one, so two of them never dial, say hello or serve at the same time.
OneLifetime ==
  \A k, l \in DOMAIN lives : lives[k].pc # "done" /\ lives[l].pc # "done" => k = l

\* Between hellos, the name the bus has registered for the session is the latest
\* the owner was told, however renames and reconnects fall together.
NamePublished ==
  \A l \in DOMAIN lives :
    /\ lives[l].pc = "serve" /\ lives[l].up /\ lives[l].ask.st = "none"
    /\ own.public = l /\ ext.wire /\ ~own.ending /\ ~own.down
    => lives[l].bus = own.name

SessionOver(m) == del[m].life # 0 /\ lives[del[m].life].gone

\* A receipt says what happened: "written" and "queued_for_next_turn" messages
\* are native's or still queued until their session ends, a rejected or canceled
\* one never reaches native, and none reaches it twice.
ReceiptHonest ==
  \A m \in Msgs :
    /\ ext.taken[m] <= 1
    /\ del[m].res = "written" => ext.taken[m] = 1
    /\ del[m].res \in {"rejected", "canceled"} => ext.taken[m] = 0
    /\ del[m].res = "queued" =>
         \/ ext.taken[m] = 1
         \/ \E i \in DOMAIN own.queue : own.queue[i] = m
         \/ SessionOver(m)

\* The message a drain has handed to native stays the head of the queue until
\* native answers: "Pi delivery queue changed during drain" cannot happen.
QueueStable ==
  call["drain"].pc = "append" => own.queue # <<>> /\ Head(own.queue) = call["drain"].arg

\* While messages are queued for the next turn, native takes only the first of
\* them; a delivery that arrives later does not slip past them.
NoOvertaking ==
  [][\A m \in Msgs : ext'.taken[m] > ext.taken[m] =>
        own.queue = <<>> \/ Head(own.queue) = m \/ own.down]_vars

\* From the moment session.superseded is classified the owner opens no connection,
\* installs none, admits the answer to no hello, takes no session_end and decides on no
\* further hello.  The one it may still say is a re-hello that was due by then.
SupersededIsFinal ==
  [][sup # "none" => /\ own'.gen = own.gen /\ Len(lives') = Len(lives)
                     /\ own'.conn \in {own.conn, 0}
                     /\ own'.ever = own.ever /\ own'.last = own.last
                     /\ \A l \in DOMAIN lives :
                          lives'[l].ask.st # "none" => lives[l].ask.st # "none"]_vars

\* Again and again the extension has no call outstanding: events being bounded,
\* every handler that waits for the gate, the bus or an old lifetime comes back.
CallsAnswered == []<>(\A c \in Calls : call[c].pc = "none")

\* A message queued for the next turn reaches native, unless its session ends or
\* the owner fails: some witness always drains the queue.
QueuedIsDelivered ==
  \A m \in Msgs : del[m].res = "queued" ~> (ext.taken[m] = 1 \/ SessionOver(m) \/ own.down)
=============================================================================
