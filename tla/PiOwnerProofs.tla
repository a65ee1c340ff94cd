---------------------------- MODULE PiOwnerProofs ----------------------------
(***************************************************************************)
(* Machine-checked proofs about PiOwner, for any messages, identities and  *)
(* titles, any limits, and every set of events and faults.                 *)
(*                                                                         *)
(* The inductive invariant is IInv: the types (TypeInv), who is behind the *)
(* gate (GateInv), the lifetimes (LifeInv) and the messages that native is *)
(* given (QueueInv).  Each part is preserved by a lemma of its own.        *)
(***************************************************************************)
EXTENDS PiOwner, SequenceTheorems, TLAPS

(* Names, titles, witnesses, reasons and messages. *)
Values == Titles \cup Msgs \cup Witnesses \cup {"", InitialName, "quit", "new", "pending"}
IdsOrNone == Ids \cup {NoId}
Acts == {"off", "idle", "turn", "compact", "tree"}
CallPcs == {"none", "sent", "ok", "err", "described", "admit", "rehello", "join", "pump",
            "append", "lookup", "public", "result"}
LifePcs == {"dial", "hello", "serve", "done"}
DelPcs == {"none", "slot", "check", "append", "queue", "lock", "done"}
Results == {"none", "written", "queued", "rejected", "canceled", "error"}
Answers == {"none", "sent", "yes", "busy", "branch", "fail"}

ExtType == [count: Int, id: IdsOrNone, title: Values, left: Int, act: Acts,
            branch: BOOLEAN, admitted: SUBSET Msgs, later: Witnesses \cup {"none"},
            taken: [Msgs -> Nat],
            quit: BOOLEAN, stopped: BOOLEAN, wire: BOOLEAN, alive: BOOLEAN]
CallType == [pc: CallPcs, id: IdsOrNone, arg: Values, life: Nat, gen: Nat]
OwnType == [id: IdsOrNone, name: Values, public: Nat, conn: Nat, connecting: Nat,
            gen: Nat, ver: Nat, queue: Seq(Msgs), tree: BOOLEAN, ending: BOOLEAN,
            down: BOOLEAN, ever: BOOLEAN, last: Values]
AskType == [st: {"none", "due", "yes", "no"}, ver: Nat]
LifeType == [id: IdsOrNone, pc: LifePcs, gone: BOOLEAN, ready: BOOLEAN, gen: Nat,
             up: BOOLEAN, bus: Values, ask: AskType]
DelType == [pc: DelPcs, gen: Nat, life: Nat, id: IdsOrNone, tree: BOOLEAN, res: Results]

TypeInv ==
  /\ ext \in ExtType
  /\ call \in [Calls -> CallType]
  /\ own \in OwnType
  /\ lives \in Seq(LifeType)
  /\ del \in [Msgs -> DelType]
  /\ app \in [Msgs -> Answers]

\* What is behind the gate holds it: a handler that publishes, ends a session or drains,
\* and a delivery past its slot.
Inside == {"admit", "rehello", "join", "pump", "append"}
Past == {"check", "append", "queue", "lock"}
GateInv ==
  /\ \A c \in Calls : call[c].pc \in Inside => gate = c
  /\ \A m \in Msgs : del[m].pc \in Past => gate = m

\* A lifetime that is not over is the one the owner publishes, or the one session_end
\* joins, or the owner is closing.
LifeInv ==
  /\ OneLifetime
  /\ \A l \in DOMAIN lives : lives[l].pc # "done" =>
       \/ l = own.public
       \/ call["end"].pc = "join" /\ call["end"].life = l
       \/ host \in {"close", "closed"}
  /\ call["end"].pc = "join" => own.public = 0
  /\ host \in {"close", "closed"} => own.ending

\* A message native has been sent is the head of the queue in a drain, or found the queue
\* empty, which it stays until its delivery ends, or until the owner has no use for it.
QueueInv ==
  /\ QueueStable
  /\ \A m \in Msgs : app[m] = "sent" =>
       \/ del[m].pc = "append" /\ own.queue = <<>>
       \/ call["drain"].pc = "append" /\ call["drain"].arg = m
       \/ own.down
       \/ own.ending /\ own.queue = <<>>

IInv == TypeInv /\ GateInv /\ LifeInv /\ QueueInv

-----------------------------------------------------------------------------
(* The operations the actions share.                                         *)

\* A failed owner is an owner.
LEMMA FailTypes ==
  ASSUME NEW o \in OwnType
  PROVE  /\ Fail(o) \in OwnType
         /\ Fail(o).queue = o.queue /\ Fail(o).public = o.public /\ Fail(o).ending = o.ending
         /\ o.down => Fail(o).down
         /\ Fail(o).down \/ o.ending
BY DEF Fail, OwnType

\* Any pc makes a call.
LEMMA CallTypes ==
  ASSUME NEW f \in [Calls -> CallType], NEW c \in Calls, NEW r \in CallType
  PROVE  [f EXCEPT ![c] = r] \in [Calls -> CallType]
OBVIOUS

\* No call is a call.
LEMMA NoCallType == NoCall \in CallType
BY DEF NoCall, CallType, CallPcs, IdsOrNone, Values

\* A response leaves its call with the response on its way, or with nothing.
LEMMA ReplyTypes ==
  ASSUME TypeInv, NEW c \in Calls, NEW r \in {"ok", "err"}, Reply(c, r)
  PROVE  /\ ext' \in ExtType /\ call' \in [Calls -> CallType]
         /\ call'[c].pc \in {"none", "ok", "err"}
         /\ \A d \in Calls \ {c} : call'[d] = call[d]
         /\ ext'.taken = ext.taken
<1>1. ext' \in ExtType /\ ext'.taken = ext.taken
  BY DEF TypeInv, Reply, Stop, ExtType
<1> DEFINE x == IF ext.wire /\ (c = "end" \/ (c = "tree" /\ r = "ok"))
                THEN [NoCall EXCEPT !.pc = r, !.arg = call[c].arg] ELSE NoCall
<1>2. x \in CallType /\ x.pc \in {"none", "ok", "err"} /\ call' = [call EXCEPT ![c] = x]
  BY NoCallType DEF TypeInv, Reply, CallType, CallPcs, NoCall
<1> QED BY <1>1, <1>2 DEF TypeInv

\* The refusals of a handler keep the types.
LEMMA RefuseTypes ==
  ASSUME TypeInv, NEW c \in Calls, Refuse(c) \/ RefuseReady(c)
  PROVE  /\ ext' \in ExtType /\ call' \in [Calls -> CallType] /\ own' \in OwnType
         /\ call'[c].pc \in {"none", "ok", "err"}
         /\ \A d \in Calls \ {c} : call'[d] = call[d]
         /\ ext'.taken = ext.taken
         /\ own'.queue = own.queue /\ own'.public = own.public /\ own'.ending = own.ending
         /\ own.down => own'.down
BY FailTypes, ReplyTypes DEF Refuse, RefuseReady, TypeInv

\* The arithmetic of the actions, apart from the records it is stored in.
LEMMA CountTypes ==
  ASSUME NEW e \in ExtType
  PROVE  /\ e.count + 1 \in Int /\ e.left - 1 \in Int
         /\ \A m \in Msgs : [e.taken EXCEPT ![m] = @ + 1] \in [Msgs -> Nat]
BY DEF ExtType

\* Counters stay numbers.
LEMMA NumberTypes ==
  ASSUME NEW o \in OwnType, NEW s \in Seq(LifeType)
  PROVE  o.gen + 1 \in Nat /\ o.ver + 1 \in Nat /\ Len(s) + 1 \in Nat
BY DEF OwnType

\* A call of the extension begins.
LEMMA SendTypes ==
  ASSUME TypeInv, NEW c \in Calls, NEW id \in IdsOrNone, NEW x \in Values, Send(c, id, x)
  PROVE  /\ call' \in [Calls -> CallType] /\ call'[c].pc = "sent"
         /\ \A d \in Calls \ {c} : call'[d] = call[d]
BY NoCallType DEF TypeInv, Send, CallType, CallPcs, NoCall

\* Setting one lifetime changes that one, when there is one.
LEMMA SetLife ==
  ASSUME NEW s \in Seq(LifeType), NEW l, NEW e, l \in DOMAIN s => e \in LifeType
  PROVE  /\ [s EXCEPT ![l] = e] \in Seq(LifeType)
         /\ Len([s EXCEPT ![l] = e]) = Len(s)
         /\ DOMAIN [s EXCEPT ![l] = e] = DOMAIN s
         /\ \A j \in DOMAIN s : [s EXCEPT ![l] = e][j] = IF j = l THEN e ELSE s[j]
<1>1. DOMAIN s = 1..Len(s)
  OBVIOUS
<1>2. CASE l \in DOMAIN s
  BY <1>1, <1>2, ExceptSeq
<1>3. CASE l \notin DOMAIN s
  <2>1. s = [x \in DOMAIN s |-> s[x]]
    BY LenProperties
  <2>2. [s EXCEPT ![l] = e] = [x \in DOMAIN s |-> s[x]]
    BY <2>1, <1>3
  <2> QED BY <2>1, <2>2
<1> QED BY <1>2, <1>3

\* The values that the actions store.
LEMMA IdTypes ==
  ASSUME TypeInv
  PROVE  NoId \in IdsOrNone /\ Ids \subseteq IdsOrNone /\ ext.id \in IdsOrNone
BY DEF TypeInv, ExtType, IdsOrNone

\* The literals the extension's state takes.
LEMMA ValueTypes ==
  /\ Titles \subseteq Values /\ Msgs \subseteq Values
  /\ Witnesses \subseteq Values /\ {"", InitialName, "quit", "new", "pending"} \subseteq Values
BY DEF Values

-----------------------------------------------------------------------------
(* The types.                                                              *)

\* Types: events of the extension.
LEMMA ExtensionTypes ==
  ASSUME TypeInv, Extension
  PROVE  TypeInv'
<1>1. ASSUME NEW id \in Ids, NEW t \in Titles, SessionStart(id, t) PROVE TypeInv'
  BY <1>1, SendTypes, CountTypes, IdTypes, ValueTypes DEF TypeInv, ExtType, Acts, Witnesses,
    Calls, SessionStart
<1>2. ASSUME NEW t \in Titles, Rename(t) PROVE TypeInv'
  BY <1>2, SendTypes, CountTypes, IdTypes, ValueTypes DEF TypeInv, ExtType, Acts, Witnesses,
    Calls, Rename
<1>3. CASE Prompt
  BY <1>3, SendTypes, CountTypes, IdTypes, ValueTypes DEF TypeInv, ExtType, Acts, Witnesses,
    Calls, Prompt
<1>4. CASE TurnBegins
  BY <1>4, SendTypes, CountTypes, IdTypes, ValueTypes DEF TypeInv, ExtType, Acts, Witnesses,
    Calls, TurnBegins
<1>5. CASE CompactBegins
  BY <1>5, SendTypes, CountTypes, IdTypes, ValueTypes DEF TypeInv, ExtType, Acts, Witnesses,
    Calls, CompactBegins
<1>6. CASE BeforeTree
  BY <1>6, SendTypes, CountTypes, IdTypes, ValueTypes DEF TypeInv, ExtType, Acts, Witnesses,
    Calls, BeforeTree
<1>7. CASE ToolCall
  BY <1>7, SendTypes, CountTypes, IdTypes, ValueTypes DEF TypeInv, ExtType, Acts, Witnesses,
    Calls, ToolCall
<1>8. ASSUME NEW m \in Msgs, MessageShown(m) PROVE TypeInv'
  BY <1>8, SendTypes, CountTypes, IdTypes, ValueTypes DEF TypeInv, ExtType, Acts, Witnesses,
    Calls, MessageShown
<1>9. ASSUME NEW r \in {"quit", "new"}, SessionShutdown(r) PROVE TypeInv'
  BY <1>9, SendTypes, IdTypes, ValueTypes DEF TypeInv, Calls, SessionShutdown
<1>10. CASE ToolAborted
  BY <1>10, SendTypes, CountTypes, IdTypes, ValueTypes DEF TypeInv, ExtType, Acts, Witnesses,
    Calls, ToolAborted, Stop
<1> QED BY <1>1, <1>2, <1>3, <1>4, <1>5, <1>6, <1>7, <1>8, <1>9, <1>10 DEF Extension

\* Types: what the extension and Pi do on their own.
LEMMA ResponseTypes ==
  ASSUME TypeInv, Response
  PROVE  TypeInv'
<1>1. CASE Settled
  BY <1>1, NoCallType, SendTypes, IdTypes, ValueTypes DEF TypeInv, ExtType, Acts, Witnesses,
    Calls, Settled
<1>2. CASE Compacted
  BY <1>2, NoCallType, SendTypes, IdTypes, ValueTypes DEF TypeInv, ExtType, Acts, Witnesses,
    Calls, Compacted
<1>3. CASE CompactFailed
  BY <1>3, NoCallType, SendTypes, IdTypes, ValueTypes DEF TypeInv, ExtType, Acts, Witnesses,
    Calls, CompactFailed
<1>4. CASE TreeAnswered
  BY <1>4, NoCallType, SendTypes, IdTypes, ValueTypes DEF TypeInv, ExtType, Acts, Witnesses,
    Calls, TreeAnswered
<1>5. CASE TreeDone
  BY <1>5, NoCallType, SendTypes, IdTypes, ValueTypes DEF TypeInv, ExtType, Acts, Witnesses,
    Calls, TreeDone
<1>6. CASE TreeFails
  BY <1>6, NoCallType, SendTypes, IdTypes, ValueTypes DEF TypeInv, ExtType, Acts, Witnesses,
    Calls, TreeFails
<1>7. CASE LaterDrain
  BY <1>7, NoCallType, SendTypes, IdTypes, ValueTypes DEF TypeInv, ExtType, Acts, Witnesses,
    Calls, LaterDrain
<1>8. CASE EndAnswered
  <2> DEFINE e == [ext EXCEPT !.id = NoId, !.branch = FALSE, !.admitted = {},
                              !.later = "none", !.act = "off"]
             q == call["end"].arg = "quit"
  <2>1. e \in ExtType
    BY IdTypes DEF TypeInv, ExtType, Acts
  <2>2. Stop(e) \in ExtType /\ [e EXCEPT !.quit = q, !.wire = ~q] \in ExtType
    BY ZenonT(60), <2>1 DEF ExtType, Stop
  <2>3. ext' \in ExtType /\ call' \in [Calls -> CallType]
    BY <1>8, <2>2, NoCallType DEF EndAnswered, TypeInv
  <2> QED BY <1>8, <2>3 DEF EndAnswered, TypeInv
<1>9. CASE NativeExit
  BY <1>9, NoCallType, SendTypes, IdTypes, ValueTypes DEF TypeInv, ExtType, Acts, Witnesses,
    Calls, NativeExit
<1>10. ASSUME NEW c \in Calls, CallLost(c) PROVE TypeInv'
  BY <1>10, NoCallType, SendTypes, IdTypes, ValueTypes DEF TypeInv, ExtType, Acts, Witnesses,
    Calls, CallLost
<1>11. ASSUME NEW m \in Msgs, NativeAppend(m) PROVE TypeInv'
  <2> DEFINE e == IF ext.act = "idle" THEN [ext EXCEPT !.branch = FALSE] ELSE ext
  <2>1. e \in ExtType
    BY DEF TypeInv, ExtType
  <2>2. PICK t \in [Msgs -> Nat] : t = [e.taken EXCEPT ![m] = @ + 1]
    BY <2>1, CountTypes
  <2>3. [e EXCEPT !.act = "turn", !.admitted = @ \cup {m}, !.taken = t] \in ExtType
    BY ZenonT(60), <2>1 DEF ExtType, Acts
  <2>4. ext' \in {ext, [e EXCEPT !.act = "turn", !.admitted = @ \cup {m}, !.taken = t]}
    BY <1>11, <2>1, <2>2 DEF NativeAppend, ExtType
  <2>5. ext' \in ExtType /\ app' \in [Msgs -> Answers]
    BY <1>11, <2>3, <2>4 DEF NativeAppend, TypeInv, Answers
  <2> QED BY <1>11, <2>5 DEF NativeAppend, TypeInv
<1>12. ASSUME NEW m \in Msgs, AppendLost(m) PROVE TypeInv'
  BY <1>12, CountTypes DEF TypeInv, ExtType, Acts, Witnesses, Calls, Answers, AppendLost
<1> QED BY <1>1, <1>2, <1>3, <1>4, <1>5, <1>6, <1>7, <1>8, <1>9, <1>10, <1>11, <1>12
  DEF Response

\* What a step keeps of every lifetime: there are as many, and each is where it was.
SameLives == /\ lives' \in Seq(LifeType) /\ Len(lives') = Len(lives)
             /\ DOMAIN lives' = DOMAIN lives
             /\ \A j \in DOMAIN lives : lives'[j].pc = lives[j].pc

\* A hello is due, or its response is on its way.
LEMMA AskTypes ==
  /\ NoAsk \in AskType
  /\ \A k \in {"due", "yes", "no"}, v \in Nat : [st |-> k, ver |-> v] \in AskType
BY DEF AskType, NoAsk

\* The changes that an action makes to a lifetime where it is.
LEMMA ChangeTypes ==
  ASSUME NEW r \in LifeType
  PROVE  /\ \A a \in AskType : /\ [r EXCEPT !.ask = a] \in LifeType
                               /\ [r EXCEPT !.ask = a].pc = r.pc
         /\ \A a \in AskType, b \in Values : /\ [r EXCEPT !.ask = a, !.bus = b] \in LifeType
                                            /\ [r EXCEPT !.ask = a, !.bus = b].pc = r.pc
         /\ [r EXCEPT !.up = FALSE] \in LifeType /\ [r EXCEPT !.up = FALSE].pc = r.pc
         /\ \A b \in Values : [r EXCEPT !.bus = b] \in LifeType /\ [r EXCEPT !.bus = b].pc = r.pc
         /\ [r EXCEPT !.gone = TRUE, !.up = FALSE] \in LifeType
         /\ [r EXCEPT !.gone = TRUE, !.up = FALSE].pc = r.pc
BY DEF LifeType

\* Every lifetime has its type.
LEMMA LivesTypes ==
  ASSUME TypeInv
  PROVE  \A l \in DOMAIN lives : lives[l] \in LifeType
BY DEF TypeInv

\* A lifetime changes and stays at its stage.
LEMMA SetSameLife ==
  ASSUME TypeInv, NEW l, NEW e, lives' = [lives EXCEPT ![l] = e],
         l \in DOMAIN lives => e \in LifeType /\ e.pc = lives[l].pc
  PROVE  SameLives
BY SetLife, LenProperties DEF TypeInv, SameLives

\* The state of a lifetime's hello changes.
LEMMA AskSame ==
  ASSUME TypeInv, NEW l, NEW a \in AskType, lives' = [lives EXCEPT ![l].ask = a]
  PROVE  SameLives
<1>1. l \in DOMAIN lives => /\ [lives[l] EXCEPT !.ask = a] \in LifeType
                           /\ [lives[l] EXCEPT !.ask = a].pc = lives[l].pc
  BY LivesTypes, ChangeTypes
<1>2. lives' = [lives EXCEPT ![l] = [lives[l] EXCEPT !.ask = a]]
  OBVIOUS
<1> QED BY <1>1, <1>2, SetSameLife

\* The bus answers a hello.
LEMMA HelloTypes ==
  ASSUME TypeInv, NEW l, NEW name \in Values, NEW ver \in Nat, Hello(l, name, ver)
  PROVE  SameLives
<1>1. PICK a \in AskType : \/ lives' = [lives EXCEPT ![l].ask = a]
                          \/ lives' = [lives EXCEPT ![l].ask = a, ![l].bus = name]
  BY AskTypes DEF Hello
<1>2. CASE lives' = [lives EXCEPT ![l].ask = a]
  BY <1>2, AskSame
<1>3. CASE lives' = [lives EXCEPT ![l].ask = a, ![l].bus = name]
  <2>1. l \in DOMAIN lives => /\ [lives[l] EXCEPT !.ask = a, !.bus = name] \in LifeType
                             /\ [lives[l] EXCEPT !.ask = a, !.bus = name].pc = lives[l].pc
    BY LivesTypes DEF LifeType
  <2>2. lives' = [lives EXCEPT ![l] = [lives[l] EXCEPT !.ask = a, !.bus = name]]
    BY <1>3
  <2> QED BY <2>1, <2>2, SetSameLife
<1> QED BY <1>1, <1>2, <1>3

\* So it does when its connection or its ask changes.
LEMMA LinkTypes ==
  ASSUME TypeInv, NEW l,
         \/ lives' = [lives EXCEPT ![l].ask = NoAsk]
         \/ lives' = [lives EXCEPT ![l].up = FALSE]
         \/ lives' = [lives EXCEPT ![l].bus = ""]
         \/ lives' = [lives EXCEPT ![l].gone = TRUE, ![l].up = FALSE]
  PROVE  SameLives
<1>0. NoAsk \in AskType /\ "" \in Values
  BY AskTypes, ValueTypes
<1>1. CASE lives' = [lives EXCEPT ![l].ask = NoAsk]
  <2>1. l \in DOMAIN lives => /\ [lives[l] EXCEPT !.ask = NoAsk] \in LifeType
                             /\ [lives[l] EXCEPT !.ask = NoAsk].pc = lives[l].pc
    BY LivesTypes, ChangeTypes, <1>0
  <2>2. lives' = [lives EXCEPT ![l] = [lives[l] EXCEPT !.ask = NoAsk]]
    BY <1>1
  <2> QED BY <2>1, <2>2, SetSameLife
<1>2. CASE lives' = [lives EXCEPT ![l].up = FALSE]
  <2>1. l \in DOMAIN lives => /\ [lives[l] EXCEPT !.up = FALSE] \in LifeType
                             /\ [lives[l] EXCEPT !.up = FALSE].pc = lives[l].pc
    BY LivesTypes, ChangeTypes, <1>0
  <2>2. lives' = [lives EXCEPT ![l] = [lives[l] EXCEPT !.up = FALSE]]
    BY <1>2
  <2> QED BY <2>1, <2>2, SetSameLife
<1>3. CASE lives' = [lives EXCEPT ![l].bus = ""]
  <2>1. l \in DOMAIN lives => /\ [lives[l] EXCEPT !.bus = ""] \in LifeType
                             /\ [lives[l] EXCEPT !.bus = ""].pc = lives[l].pc
    BY LivesTypes, ChangeTypes, <1>0
  <2>2. lives' = [lives EXCEPT ![l] = [lives[l] EXCEPT !.bus = ""]]
    BY <1>3
  <2> QED BY <2>1, <2>2, SetSameLife
<1>4. CASE lives' = [lives EXCEPT ![l].gone = TRUE, ![l].up = FALSE]
  <2>1. l \in DOMAIN lives => /\ [lives[l] EXCEPT !.gone = TRUE, !.up = FALSE] \in LifeType
                             /\ [lives[l] EXCEPT !.gone = TRUE, !.up = FALSE].pc = lives[l].pc
    BY LivesTypes, ChangeTypes, <1>0
  <2>2. lives' = [lives EXCEPT ![l] = [lives[l] EXCEPT !.gone = TRUE, !.up = FALSE]]
    BY <1>4
  <2> QED BY <2>1, <2>2, SetSameLife
<1> QED BY <1>1, <1>2, <1>3, <1>4

\* The lifetimes of a step that changes none of them.
LEMMA SameLivesTypes ==
  ASSUME TypeInv, UNCHANGED lives
  PROVE  SameLives
BY LenProperties DEF TypeInv, SameLives

\* A public name is a title or the wrapper's.
LEMMA NameTypes ==
  ASSUME TypeInv
  PROVE  PublicName(ext.title) \in Values
BY DEF TypeInv, ExtType, PublicName, Values

\* What the types say of the parts most steps use.
LEMMA OwnTypes ==
  ASSUME TypeInv
  PROVE  /\ own \in OwnType /\ own.public \in Nat /\ own.conn \in Nat
         /\ own.queue \in Seq(Msgs)
         /\ call \in [Calls -> CallType] /\ \A c \in Calls : call[c].arg \in Values
BY DEF TypeInv, OwnType, CallType

\* The changes that an action makes to a call.
LEMMA MoveTypes ==
  ASSUME call \in [Calls -> CallType], NEW c \in Calls, NEW p \in CallPcs,
         call' = [call EXCEPT ![c].pc = p]
  PROVE  call' \in [Calls -> CallType]
BY DEF CallType, CallPcs

\* A call goes on with an argument.
LEMMA MoveArgTypes ==
  ASSUME call \in [Calls -> CallType], NEW c \in Calls, NEW p \in CallPcs, NEW v \in Values,
         call' = [call EXCEPT ![c].pc = p, ![c].arg = v]
  PROVE  call' \in [Calls -> CallType]
BY ZenonT(60) DEF CallType, CallPcs

\* A call goes on with a lifetime.
LEMMA MoveLifeTypes ==
  ASSUME call \in [Calls -> CallType], NEW c \in Calls, NEW p \in CallPcs, NEW k \in Nat,
         call' = [call EXCEPT ![c].pc = p, ![c].life = k]
  PROVE  call' \in [Calls -> CallType]
BY ZenonT(60) DEF CallType, CallPcs

\* A call goes on with a connection.
LEMMA MoveGenTypes ==
  ASSUME call \in [Calls -> CallType], NEW c \in Calls, NEW p \in CallPcs, NEW g \in Nat,
         call' = [call EXCEPT ![c].pc = p, ![c].gen = g]
  PROVE  call' \in [Calls -> CallType]
BY ZenonT(60) DEF CallType, CallPcs

\* A call goes on with both.
LEMMA MoveBothTypes ==
  ASSUME call \in [Calls -> CallType], NEW c \in Calls, NEW p \in CallPcs, NEW k \in Nat,
         NEW g \in Nat,
         call' = [call EXCEPT ![c].pc = p, ![c].life = k, ![c].gen = g]
  PROVE  call' \in [Calls -> CallType]
<1>1. PICK r \in CallType : r = [call[c] EXCEPT !.pc = p, !.life = k, !.gen = g]
  BY DEF CallType, CallPcs
<1>2. call' = [call EXCEPT ![c] = r]
  BY <1>1
<1> QED BY <1>2

\* The second hello keeps the lifetimes.
LEMMA RehelloSame ==
  ASSUME TypeInv, NEW c \in Calls, Rehello(c)
  PROVE  SameLives
<1>1. PICK l \in Nat : l = call[c].life
  BY DEF TypeInv, CallType
<1>2. call[c].arg \in Values
  BY OwnTypes
<1>3. CASE l \in DOMAIN lives
  <2>1. lives[l].ask.ver \in Nat
    BY <1>3, LivesTypes DEF LifeType, AskType
  <2> QED BY <1>1, <1>2, <2>1, HelloTypes DEF Rehello
<1>4. CASE l \notin DOMAIN lives
  <2>1. PICK v : Hello(l, call[c].arg, v)
    BY <1>1 DEF Rehello
  <2>2. lives' = lives
    <3>1. \A x, y : /\ [lives EXCEPT ![l].ask = x] = lives
                    /\ [lives EXCEPT ![l].ask = x, ![l].bus = y] = lives
      BY <1>4, LenProperties DEF TypeInv
    <3> QED BY <2>1, <3>1 DEF Hello
  <2> QED BY <2>2 DEF SameLives, TypeInv
<1> QED BY <1>3, <1>4

\* Types: the bridge handlers.
LEMMA HandlerTypes ==
  ASSUME TypeInv, NEW c \in Calls, Handler(c)
  PROVE  TypeInv'
<1>1. CASE AcquireRefused(c)
  BY <1>1, ReplyTypes, RefuseTypes DEF TypeInv, AcquireRefused
<1>2. CASE Describe(c)
  <2>1. CASE Refuse(c)
    BY <1>2, <2>1, RefuseTypes DEF Describe, TypeInv
  <2>2. CASE call' = [call EXCEPT ![c].pc = "described", ![c].arg = PublicName(ext.title)]
    <3>1. call' \in [Calls -> CallType]
      BY <2>2, OwnTypes, NameTypes, MoveArgTypes DEF CallPcs
    <3> QED BY <1>2, <2>2, <3>1, RefuseTypes DEF Describe, TypeInv
  <2> QED BY <1>2, <2>1, <2>2 DEF Describe
<1>3. CASE PublishRefused(c)
  BY <1>3, ReplyTypes, RefuseTypes DEF TypeInv, PublishRefused
<1>4. CASE Admitted(c)
  BY <1>4, ReplyTypes, RefuseTypes DEF TypeInv, Admitted
<1>5. CASE NotAdmitted(c)
  BY <1>5, ReplyTypes, RefuseTypes DEF TypeInv, NotAdmitted
<1>6. CASE RehelloLost(c)
  BY <1>6, ReplyTypes, RefuseTypes DEF TypeInv, RehelloLost
<1>7. CASE c = "end" /\ EndJoined
  BY <1>7, ReplyTypes, RefuseTypes DEF TypeInv, EndJoined
<1>8. CASE c = "tree" /\ TreeBegins
  <2>1. own' \in OwnType
    BY <1>8, OwnTypes, RefuseTypes DEF TreeBegins, OwnType
  <2>2. [NoCall EXCEPT !.pc = IF ext.wire THEN "ok" ELSE "none",
                       !.arg = IF own.queue # <<>> THEN "pending" ELSE ""] \in CallType
    BY NoCallType DEF CallType, CallPcs, Values
  <2>3. call' \in [Calls -> CallType] /\ ext' \in ExtType
    BY <1>8, <2>2, RefuseTypes DEF TreeBegins, TypeInv
  <2> QED BY <1>8, <2>1, <2>3 DEF TreeBegins, TypeInv
<1>9. CASE c = "drain" /\ DrainBegins
  BY ZenonT(60), <1>9, ReplyTypes, RefuseTypes DEF TypeInv, CallType, CallPcs, OwnType, DrainBegins
<1>10. CASE c = "drain" /\ DrainSends
  <2>1. Head(own.queue) \in Msgs
    BY <1>10, OwnTypes DEF DrainSends
  <2>2. call' \in [Calls -> CallType]
    BY <1>10, <2>1, ValueTypes, OwnTypes, MoveArgTypes DEF DrainSends, CallPcs
  <2>3. app' \in [Msgs -> Answers]
    BY <1>10, <2>1 DEF DrainSends, TypeInv, Answers
  <2> QED BY <1>10, <2>2, <2>3 DEF DrainSends, TypeInv
<1>11. CASE c = "drain" /\ DrainEnds
  BY <1>11, ReplyTypes, RefuseTypes DEF TypeInv, DrainEnds
<1>12. CASE c = "tool" /\ ToolBegins
  <2>1. CASE Reply("tool", "err")
    BY <1>12, <2>1, ReplyTypes DEF ToolBegins, TypeInv
  <2>2. CASE /\ call' = [call EXCEPT !["tool"].pc = "lookup", !["tool"].life = own.public]
             /\ UNCHANGED ext
    <3>1. call' \in [Calls -> CallType]
      BY <1>12, <2>2, OwnTypes, MoveLifeTypes DEF CallPcs
    <3> QED BY <1>12, <2>2, <3>1 DEF ToolBegins, TypeInv
  <2> QED BY <1>12, <2>1, <2>2 DEF ToolBegins
<1>13. CASE c = "tool" /\ ToolPublic
  <2>1. CASE Reply("tool", "err")
    BY <1>13, <2>1, ReplyTypes DEF ToolPublic, TypeInv
  <2>2. CASE /\ call' = [call EXCEPT !["tool"].pc = "public", !["tool"].gen = own.conn]
             /\ UNCHANGED ext
    <3>1. call' \in [Calls -> CallType]
      BY <1>13, <2>2, OwnTypes, MoveGenTypes DEF CallPcs
    <3> QED BY <1>13, <2>2, <3>1 DEF ToolPublic, TypeInv
  <2> QED BY <1>13, <2>1, <2>2 DEF ToolPublic
<1>14. CASE c = "tool" /\ ToolResult
  <2>1. CASE Reply("tool", "err")
    BY <1>14, <2>1, ReplyTypes DEF ToolResult, TypeInv
  <2>2. CASE call' = [call EXCEPT !["tool"].pc = "result"] /\ UNCHANGED ext
    <3>1. call' \in [Calls -> CallType]
      BY <1>14, <2>2, OwnTypes, MoveTypes DEF CallPcs
    <3> QED BY <1>14, <2>2, <3>1 DEF ToolResult, TypeInv
  <2> QED BY <1>14, <2>1, <2>2 DEF ToolResult
<1>15. CASE c = "tool" /\ ToolReturns
  BY <1>15, ReplyTypes, RefuseTypes DEF TypeInv, ToolReturns
<1>16. CASE PublishFirst(c)
  <2>1. CASE RefuseReady(c) /\ UNCHANGED lives
    BY <1>16, <2>1, RefuseTypes DEF PublishFirst, TypeInv
  <2>2. CASE ~(own.public # 0 \/ own.conn # 0 \/ own.connecting # 0)
    <3>1. call[c].id \in IdsOrNone /\ call[c].arg \in Values /\ "" \in Values
      BY ValueTypes DEF TypeInv, CallType
    <3>2. PICK r \in LifeType : lives' = Append(lives, r)
      BY <1>16, <2>2, <3>1, AskTypes DEF PublishFirst, LifeType, LifePcs
    <3>3. lives' \in Seq(LifeType)
      BY <3>2, AppendProperties DEF TypeInv
    <3>4. PICK n \in Nat, v \in Nat : n = Len(lives) + 1 /\ v = own.ver + 1
      BY NumberTypes, OwnTypes DEF TypeInv
    <3>5. own' = [own EXCEPT !.public = n, !.id = call[c].id, !.name = call[c].arg, !.ver = v]
      BY <1>16, <2>2, <3>4, OwnTypes DEF PublishFirst, OwnType
    <3>6. own' \in OwnType
      BY <3>1, <3>5, OwnTypes DEF OwnType
    <3>7. call' \in [Calls -> CallType]
      <4>1. call' = [call EXCEPT ![c].pc = "admit", ![c].life = n]
        BY <1>16, <2>2, <3>4 DEF PublishFirst
      <4> QED BY <4>1, OwnTypes, MoveLifeTypes DEF CallPcs
    <3> QED BY <1>16, <2>2, <3>3, <3>6, <3>7 DEF PublishFirst, TypeInv
  <2> QED BY <1>16, <2>1, <2>2 DEF PublishFirst
<1>17. CASE PublishAgain(c)
  <2>1. PICK v \in Nat : own' = [own EXCEPT !.name = call[c].arg, !.ver = v] /\ own'.ver = v
    BY <1>17, NumberTypes, OwnTypes DEF PublishAgain, OwnType, TypeInv
  <2>2. call[c].arg \in Values
    BY DEF TypeInv, CallType
  <2>3. own' \in OwnType /\ own'.name \in Values
    BY <2>1, <2>2, OwnTypes DEF OwnType
  <2>4. lives' \in Seq(LifeType)
    BY <1>17, <2>1, AskTypes, AskSame, SameLivesTypes DEF PublishAgain, SameLives
  <2>5. call' \in [Calls -> CallType] /\ ext' \in ExtType
    <3>1. ASSUME call' = [call EXCEPT ![c].pc = "rehello", ![c].life = own.public,
                                     ![c].gen = own.conn]
          PROVE  call' \in [Calls -> CallType]
      BY <3>1, OwnTypes, MoveBothTypes DEF CallPcs
    <3> QED BY <1>17, <3>1, ReplyTypes DEF PublishAgain, TypeInv
  <2> QED BY <1>17, <2>3, <2>4, <2>5 DEF PublishAgain, TypeInv
<1>22. CASE Rehello(c)
  <2>1. SameLives
    BY <1>22, RehelloSame
  <2> QED BY <1>22, <2>1 DEF Rehello, TypeInv, SameLives
<1>18. CASE Rehelloed(c)
  <2>1. SameLives
    BY <1>18, LinkTypes DEF Rehelloed
  <2>2. own' \in OwnType /\ call' \in [Calls -> CallType] /\ ext' \in ExtType
    <3>1. [own EXCEPT !.ever = TRUE, !.last = ""] \in OwnType
      BY OwnTypes, ValueTypes DEF OwnType
    <3> QED BY <1>18, <3>1, ReplyTypes, RefuseTypes DEF Rehelloed
  <2> QED BY <1>18, <2>1, <2>2 DEF Rehelloed, TypeInv, SameLives
<1>19. CASE RehelloCut(c)
  <2>1. SameLives
    BY <1>19, LinkTypes DEF RehelloCut
  <2> QED BY <1>19, <2>1, RefuseTypes DEF RehelloCut, TypeInv, SameLives
<1>20. CASE c = "end" /\ EndBegins
  <2>1. CASE Refuse("end") /\ UNCHANGED lives
    BY <1>20, <2>1, RefuseTypes DEF EndBegins, TypeInv
  <2>2. CASE Owns(own, call["end"].id)
    <3>1. SameLives
      BY <1>20, <2>2, LinkTypes DEF EndBegins
    <3>2. call["end"].arg \in Values /\ "" \in Values /\ <<>> \in Seq(Msgs)
      <4>1. "end" \in Calls
        BY DEF Calls
      <4>2. call["end"].arg \in Values
        BY <4>1, OwnTypes
      <4>3. "" \in Values
        BY ValueTypes
      <4>4. <<>> \in Seq(Msgs)
        OBVIOUS
      <4> QED BY <4>2, <4>3, <4>4
    <3>3. own' \in OwnType
      <4>1. own' = [own EXCEPT !.public = 0, !.conn = 0, !.connecting = 0, !.id = NoId,
                      !.name = "", !.last = call["end"].arg, !.queue = <<>>, !.tree = FALSE]
        BY <1>20, <2>2 DEF EndBegins
      <4> QED BY <3>2, <4>1, OwnTypes, IdTypes DEF OwnType
    <3>4. call' \in [Calls -> CallType]
      <4>1. call' = [call EXCEPT !["end"].pc = "join", !["end"].life = own.public]
        BY <1>20, <2>2 DEF EndBegins
      <4> QED BY <4>1, OwnTypes, MoveLifeTypes DEF CallPcs
    <3> QED BY <1>20, <2>2, <3>1, <3>3, <3>4 DEF EndBegins, TypeInv, SameLives
  <2> QED BY <1>20, <2>1, <2>2 DEF EndBegins
<1>21. CASE c = "drain" /\ DrainAppended
  <2> DEFINE m == call["drain"].arg
  <2>1. app' \in [Msgs -> Answers]
    BY <1>21 DEF DrainAppended, TypeInv, Answers
  <2>2. own.queue # <<>> => [own EXCEPT !.queue = Tail(own.queue)] \in OwnType
    <3>1. own.queue # <<>> => Tail(own.queue) \in Seq(Msgs)
      BY OwnTypes
    <3> QED BY <3>1, OwnTypes DEF OwnType
  <2>3. [call EXCEPT !["drain"] = [call["drain"] EXCEPT !.pc = "pump", !.arg = ""]]
          \in [Calls -> CallType]
    BY ValueTypes DEF TypeInv, CallType, CallPcs
  <2>4. own' \in OwnType /\ call' \in [Calls -> CallType] /\ ext' \in ExtType
    BY <1>21, <2>2, <2>3, ReplyTypes, RefuseTypes, OwnTypes DEF DrainAppended, TypeInv
  <2> QED BY <1>21, <2>1, <2>4 DEF DrainAppended, TypeInv
<1> QED BY <1>1, <1>2, <1>3, <1>4, <1>5, <1>6, <1>7, <1>8, <1>9, <1>10, <1>11, <1>12, <1>13,
  <1>14, <1>15, <1>16, <1>17, <1>18, <1>19, <1>20, <1>21, <1>22 DEF Handler

\* Leaving a connection keeps the lifetime itself, its session and the queue.
LEMMA DetachedTypes ==
  ASSUME TypeInv, NEW l \in DOMAIN lives, NEW bad \in BOOLEAN, Detached(l, bad)
  PROVE  /\ own' \in OwnType /\ lives' \in Seq(LifeType) /\ Len(lives') = Len(lives)
         /\ \A j \in DOMAIN lives \ {l} : lives'[j].pc = lives[j].pc
         /\ lives'[l].pc \in {"dial", "done"}
         /\ own'.queue = own.queue /\ own'.public = own.public /\ own'.ending = own.ending
         /\ own.down => own'.down
<1> DEFINE g == lives[l].gen
           o == [own EXCEPT !.conn = IF @ = g THEN 0 ELSE @,
                            !.connecting = IF @ = g THEN 0 ELSE @]
<1>1. /\ o \in OwnType /\ o.queue = own.queue /\ o.public = own.public
      /\ o.ending = own.ending /\ o.down = own.down
  BY OwnTypes DEF OwnType
<1>2. own' \in {o, Fail(o)}
  BY DEF Detached
<1>3. PICK p \in {"dial", "done"} :
        lives' = [lives EXCEPT ![l].pc = p, ![l].up = FALSE, ![l].ask = NoAsk]
  BY DEF Detached, RetryOrEnd
<1>4. PICK e \in LifeType : e = [lives[l] EXCEPT !.pc = p, !.up = FALSE, !.ask = NoAsk] /\ e.pc = p
  <2>1. PICK r \in LifeType : r = lives[l]
    BY LivesTypes
  <2>2. [r EXCEPT !.pc = p, !.up = FALSE, !.ask = NoAsk] \in LifeType
    BY AskTypes DEF LifeType, LifePcs
  <2>3. [r EXCEPT !.pc = p, !.up = FALSE, !.ask = NoAsk].pc = p
    BY DEF LifeType
  <2> QED BY <2>1, <2>2, <2>3
<1>5. lives' = [lives EXCEPT ![l] = e]
  BY <1>3, <1>4
<1>6. /\ lives' \in Seq(LifeType) /\ Len(lives') = Len(lives)
      /\ \A j \in DOMAIN lives : lives'[j] = IF j = l THEN e ELSE lives[j]
  BY <1>5, SetLife DEF TypeInv
<1>7. /\ own' \in OwnType /\ own'.queue = own.queue /\ own'.public = own.public
      /\ own'.ending = own.ending /\ (own.down => own'.down)
  <2> HIDE DEF o
  <2> QED BY <1>1, <1>2, FailTypes
<1> QED BY <1>4, <1>6, <1>7

\* A delivery ends.
LEMMA SettleTypes ==
  ASSUME TypeInv, NEW m \in Msgs, NEW res \in Results, NEW o \in OwnType, Settle(m, res, o)
  PROVE  /\ del' \in [Msgs -> DelType] /\ own' \in OwnType
         /\ del'[m].pc = "done" /\ del'[m].res = res
         /\ \A n \in Msgs \ {m} : del'[n] = del[n]
         /\ own'.queue = o.queue /\ own'.public = o.public /\ own'.ending = o.ending
         /\ o.down => own'.down
         /\ res = "error" => own'.down \/ own'.ending
<1>1. PICK r \in DelType : /\ r = [del[m] EXCEPT !.pc = "done", !.gen = 0, !.tree = FALSE,
                                               !.res = res]
                          /\ r.pc = "done" /\ r.res = res
  <2>1. PICK d \in DelType : d = del[m]
    BY DEF TypeInv
  <2>2. [d EXCEPT !.pc = "done", !.gen = 0, !.tree = FALSE, !.res = res] \in DelType
    BY DEF DelType, DelPcs
  <2>3. /\ [d EXCEPT !.pc = "done", !.gen = 0, !.tree = FALSE, !.res = res].pc = "done"
        /\ [d EXCEPT !.pc = "done", !.gen = 0, !.tree = FALSE, !.res = res].res = res
    BY DEF DelType
  <2> QED BY <2>1, <2>2, <2>3
<1>2. del' = [del EXCEPT ![m] = r]
  BY <1>1 DEF Settle
<1>3. own' \in {o, Fail(o)} /\ (res = "error" => own' = Fail(o))
  BY DEF Settle
<1>4. del \in [Msgs -> DelType]
  BY DEF TypeInv
<1> QED BY <1>1, <1>2, <1>3, <1>4, FailTypes

\* Types: the public lifetimes.
LEMMA LifetimeTypes ==
  ASSUME TypeInv, NEW l \in DOMAIN lives, Lifetime(l)
  PROVE  TypeInv'
<1>1. CASE DialEnds(l)
  <2>1. PICK e \in LifeType : lives' = [lives EXCEPT ![l] = e]
    BY <1>1, LivesTypes, AskTypes DEF DialEnds, LifeType, LifePcs
  <2>2. lives' \in Seq(LifeType)
    BY <2>1, SetLife DEF TypeInv
  <2> QED BY <1>1, <2>2 DEF DialEnds, TypeInv
<1>2. CASE Dialled(l)
  <2>1. CASE Current(l)
    <3>1. PICK n \in Nat : n = own.gen + 1
      BY NumberTypes, OwnTypes DEF TypeInv
    <3>2. PICK e \in LifeType : e = [lives[l] EXCEPT !.pc = "hello", !.gen = n, !.up = TRUE,
                                                   !.bus = "", !.ask = NoAsk]
      BY LivesTypes, AskTypes, ValueTypes DEF LifeType, LifePcs
    <3>3. lives' = [lives EXCEPT ![l] = e]
      BY <1>2, <2>1, <3>1, <3>2 DEF Dialled
    <3>4. own' = [own EXCEPT !.gen = n, !.connecting = n]
      BY <1>2, <2>1, <3>1 DEF Dialled
    <3>5. own' \in OwnType
      BY <3>4, OwnTypes DEF OwnType
    <3> QED BY <1>2, <3>3, <3>5, SetLife DEF Dialled, TypeInv
  <2>2. CASE ~Current(l)
    <3>1. PICK e \in LifeType : lives' = [lives EXCEPT ![l] = e]
      BY <1>2, <2>2, LivesTypes DEF Dialled, LifeType, LifePcs
    <3> QED BY <1>2, <2>2, <3>1, SetLife DEF Dialled, TypeInv
  <2> QED BY <2>1, <2>2
<1>3. CASE HelloSent(l)
  <2>1. own.name \in Values /\ own.ver \in Nat
    BY OwnTypes DEF OwnType
  <2> QED BY <1>3, <2>1, HelloTypes DEF HelloSent, SameLives, TypeInv
<1>4. CASE HelloObserved(l)
  <2>1. CASE own.ver # lives[l].ask.ver
    BY <1>4, <2>1, LinkTypes DEF HelloObserved, SameLives, TypeInv
  <2>2. CASE own.ver = lives[l].ask.ver
    <3>1. lives[l].gen \in Nat
      BY LivesTypes DEF LifeType
    <3>2. own' = [own EXCEPT !.conn = lives[l].gen, !.connecting = 0, !.ever = TRUE, !.last = ""]
      BY <1>4, <2>2 DEF HelloObserved
    <3>3. own' \in OwnType
      BY <3>1, <3>2, OwnTypes, ValueTypes DEF OwnType
    <3>4. PICK e \in LifeType : e = [lives[l] EXCEPT !.pc = "serve", !.ready = TRUE, !.ask = NoAsk]
      BY LivesTypes, AskTypes DEF LifeType, LifePcs
    <3>5. lives' = [lives EXCEPT ![l] = e]
      BY <1>4, <2>2, <3>4 DEF HelloObserved
    <3> QED BY <1>4, <3>3, <3>5, SetLife DEF HelloObserved, TypeInv
  <2> QED BY <1>4, <2>1, <2>2 DEF HelloObserved
<1>5. CASE HelloFails(l)
  <2>1. PICK bad \in BOOLEAN : Detached(l, bad)
    BY <1>5 DEF HelloFails
  <2> QED BY <2>1, DetachedTypes DEF Detached, TypeInv
<1>6. CASE ServeEnds(l)
  <2> QED BY <1>6, DetachedTypes DEF ServeEnds, Detached, TypeInv
<1> QED BY <1>1, <1>2, <1>3, <1>4, <1>5, <1>6 DEF Lifetime

\* Types: what the bus does.
LEMMA BusTypes ==
  ASSUME TypeInv, NEW l \in DOMAIN lives, Bus(l)
  PROVE  TypeInv'
<1>1. CASE LinkLoss(l)
  <2> QED BY <1>1, LinkTypes DEF LinkLoss, SameLives, TypeInv
<1>2. CASE Supersede(l)
  <2>1. lives' \in Seq(LifeType)
    BY <1>2, LinkTypes DEF Supersede, Hangup, SameLives
  <2>2. own' \in OwnType
    BY ZenonT(60), <1>2, OwnTypes DEF Supersede, OwnType
  <2> QED BY <1>2, <2>1, <2>2 DEF Supersede, TypeInv
<1>3. ASSUME NEW m \in Msgs, Arrive(l, m) PROVE TypeInv'
  <2>1. lives' \in Seq(LifeType)
    BY <1>3, LinkTypes DEF Arrive, Hangup, SameLives, TypeInv
  <2>2. own' \in OwnType
    BY <1>3, OwnTypes, FailTypes DEF Arrive
  <2>3. PICK r \in DelType : del' = [del EXCEPT ![m] = r]
    <3>1. lives[l].gen \in Nat /\ l \in Nat /\ del[m] \in DelType
      BY LivesTypes, LenProperties DEF LifeType, TypeInv
    <3> QED BY <1>3, <3>1 DEF Arrive, DelType, DelPcs
  <2>4. del' \in [Msgs -> DelType]
    BY <2>3 DEF TypeInv
  <2> QED BY <1>3, <2>1, <2>2, <2>4 DEF Arrive, TypeInv
<1> QED BY <1>1, <1>2, <1>3 DEF Bus

\* Types: the deliveries.
LEMMA DeliverTypes ==
  ASSUME TypeInv, NEW m \in Msgs, Deliver(m)
  PROVE  TypeInv'
<1>1. CASE DeliverRefused(m)
  <2> QED BY <1>1, SettleTypes, OwnTypes DEF DeliverRefused, Results, TypeInv
<1>2. CASE DeliverBegins(m)
  <2>1. CASE Settle(m, "canceled", own)
    BY <1>2, <2>1, SettleTypes, OwnTypes DEF DeliverBegins, Results, TypeInv
  <2>2. CASE del' = [del EXCEPT ![m].pc = "check"] /\ UNCHANGED own
    BY <1>2, <2>2, OwnTypes DEF DeliverBegins, DelType, DelPcs, TypeInv
  <2> QED BY <1>2, <2>1, <2>2 DEF DeliverBegins
<1>3. CASE DeliverChecks(m)
  <2>1. CASE \E res \in {"error", "rejected"} : Settle(m, res, own) /\ UNCHANGED app
    BY <1>3, <2>1, SettleTypes, OwnTypes DEF DeliverChecks, Results, TypeInv
  <2>2. CASE UNCHANGED own /\ \E p \in {"queue", "append"} :
               del' = [del EXCEPT ![m].pc = p, ![m].id = own.id, ![m].tree = own.tree]
    <3>1. PICK i \in IdsOrNone, b \in BOOLEAN : i = own.id /\ b = own.tree
      BY OwnTypes DEF OwnType
    <3>2. PICK p \in {"queue", "append"} :
               del' = [del EXCEPT ![m].pc = p, ![m].id = i, ![m].tree = b]
      BY <2>2, <3>1
    <3>3. PICK r \in DelType : r = [del[m] EXCEPT !.pc = p, !.id = i, !.tree = b]
      BY DEF TypeInv, DelType, DelPcs
    <3>4. del' = [del EXCEPT ![m] = r]
      BY <3>2, <3>3
    <3>5. app' \in [Msgs -> Answers]
      BY <1>3 DEF DeliverChecks, TypeInv, Answers
    <3> QED BY <1>3, <2>2, <3>4, <3>5 DEF DeliverChecks, TypeInv
  <2> QED BY <1>3, <2>1, <2>2 DEF DeliverChecks
<1>4. CASE DeliverAppended(m)
  <2>1. app' \in [Msgs -> Answers]
    BY <1>4 DEF DeliverAppended, TypeInv, Answers
  <2>2. [own EXCEPT !.tree = FALSE] \in OwnType
    BY OwnTypes DEF OwnType
  <2>3. CASE \E res \in Results, o \in OwnType : Settle(m, res, o)
    BY <1>4, <2>1, <2>3, SettleTypes DEF DeliverAppended, TypeInv
  <2>4. CASE del' = [del EXCEPT ![m].pc = "queue"] /\ UNCHANGED own
    <3>1. del' \in [Msgs -> DelType]
      BY <2>4 DEF TypeInv, DelType, DelPcs
    <3> QED BY <1>4, <2>1, <2>4, <3>1 DEF DeliverAppended, TypeInv
  <2> QED BY <1>4, <2>2, <2>3, <2>4, OwnTypes DEF DeliverAppended, Results
<1>5. CASE DeliverQueues(m)
  <2>1. CASE Settle(m, "canceled", own)
    BY <1>5, <2>1, SettleTypes, OwnTypes DEF DeliverQueues, Results, TypeInv
  <2>2. CASE del' = [del EXCEPT ![m].pc = "lock"] /\ UNCHANGED own
    BY <1>5, <2>2, OwnTypes DEF DeliverQueues, DelType, DelPcs, TypeInv
  <2> QED BY <1>5, <2>1, <2>2 DEF DeliverQueues
<1>6. CASE DeliverQueued(m)
  <2>1. [own EXCEPT !.queue = Append(own.queue, m)] \in OwnType
    <3>1. Append(own.queue, m) \in Seq(Msgs)
      BY OwnTypes, AppendProperties
    <3> QED BY <3>1, OwnTypes DEF OwnType
  <2>2. \E res \in Results, o \in OwnType : Settle(m, res, o)
    BY <1>6, <2>1, OwnTypes DEF DeliverQueued, Results
  <2> QED BY <1>6, <2>2, SettleTypes DEF DeliverQueued, TypeInv
<1> QED BY <1>1, <1>2, <1>3, <1>4, <1>5, <1>6 DEF Deliver

\* Types: the supervisor.
LEMMA SupervisorTypes ==
  ASSUME TypeInv, Supervisor
  PROVE  TypeInv'
<1>1. CASE SupersedeAcked
  BY <1>1, OwnTypes DEF TypeInv, OwnType, SupersedeAcked
<1>2. CASE HostStops
  BY <1>2, OwnTypes DEF TypeInv, HostStops
<1>3. CASE OwnerCloses
  <2>1. own' \in OwnType
    <3>1. "" \in Values
      BY ValueTypes
    <3>2. <<>> \in Seq(Msgs)
      OBVIOUS
    <3> QED BY <1>3, <3>1, <3>2, OwnTypes, IdTypes DEF OwnerCloses, OwnType
  <2>2. lives' \in Seq(LifeType)
    <3>1. \A l \in 1..Len(lives) : lives'[l] \in LifeType
      BY ZenonT(60), <1>3, LivesTypes, LenProperties DEF OwnerCloses, LifeType, TypeInv
    <3>2. lives' \in [1..Len(lives) -> LifeType]
      BY <1>3, <3>1, LenProperties DEF OwnerCloses, TypeInv
    <3>3. Len(lives) \in Nat
      BY LenProperties DEF TypeInv
    <3> QED BY <3>2, <3>3
  <2> QED BY <1>3, <2>1, <2>2 DEF OwnerCloses, TypeInv
<1>4. CASE OwnerClosed
  BY <1>4, OwnTypes DEF TypeInv, OwnerClosed
<1> QED BY <1>1, <1>2, <1>3, <1>4 DEF Supervisor

-----------------------------------------------------------------------------
(* The gate, the lifetimes and the queue.  Most steps are quiet.           *)

CallsQuiet == \A c \in Calls : call'[c] = call[c]
                                \/ (call[c].pc \notin Inside /\ call'[c].pc \notin Inside)
DelQuiet == \A m \in Msgs : del'[m] = del[m] \/ (del[m].pc \notin Past /\ del'[m].pc \notin Past)
OwnQuiet == /\ own'.queue = own.queue /\ own'.public = own.public
            /\ own.ending => own'.ending
            /\ own.down => own'.down
LivesQuiet == /\ DOMAIN lives' = DOMAIN lives
              /\ \A l \in DOMAIN lives : lives'[l].pc # "done" => lives[l].pc # "done"
AppQuiet == \A m \in Msgs : app'[m] = "sent" => app[m] = "sent"
HostQuiet == host' \in {"close", "closed"} <=> host \in {"close", "closed"}
Quiet == CallsQuiet /\ DelQuiet /\ OwnQuiet /\ LivesQuiet /\ AppQuiet /\ HostQuiet /\ gate' = gate

\* A quiet step keeps the gate's invariant.
LEMMA GateQuiet ==
  ASSUME GateInv, CallsQuiet, DelQuiet, gate' = gate
  PROVE  GateInv'
BY DEF GateInv, CallsQuiet, DelQuiet, Inside, Past

\* A quiet step keeps the lifetimes' invariant.
LEMMA LifeQuiet ==
  ASSUME LifeInv, OwnQuiet, LivesQuiet, HostQuiet,
         call'["end"] = call["end"] \/ (call["end"].pc # "join" /\ call'["end"].pc # "join")
  PROVE  LifeInv'
BY DEF LifeInv, OneLifetime, OwnQuiet, LivesQuiet, HostQuiet

\* A quiet step keeps the queue's invariant.
LEMMA QueueQuiet ==
  ASSUME QueueInv, OwnQuiet, AppQuiet, DelQuiet,
         call'["drain"] = call["drain"] \/ (call["drain"].pc # "append" /\ call'["drain"].pc # "append")
  PROVE  QueueInv'
BY DEF QueueInv, QueueStable, OwnQuiet, AppQuiet, DelQuiet, Past

\* A quiet step keeps the invariant.
LEMMA QuietStep ==
  ASSUME GateInv, LifeInv, QueueInv, Quiet
  PROVE  GateInv' /\ LifeInv' /\ QueueInv'
<1>1. "end" \in Calls /\ "drain" \in Calls /\ "join" \in Inside /\ "append" \in Inside
  BY DEF Calls, Inside
<1>2. /\ call'["end"] = call["end"] \/ (call["end"].pc # "join" /\ call'["end"].pc # "join")
      /\ call'["drain"] = call["drain"] \/ (call["drain"].pc # "append" /\ call'["drain"].pc # "append")
  BY <1>1 DEF Quiet, CallsQuiet
<1> QED BY <1>2, GateQuiet, LifeQuiet, QueueQuiet DEF Quiet

\* A call that is outside the gate, and stays there, or leaves it.
LEMMA OneCallQuiet ==
  ASSUME NEW c \in Calls, call[c].pc \notin Inside, call'[c].pc \notin Inside,
         \A d \in Calls \ {c} : call'[d] = call[d]
  PROVE  CallsQuiet
BY DEF CallsQuiet

\* The extension's events are quiet.
LEMMA ExtensionQuiet ==
  ASSUME TypeInv, Extension
  PROVE  Quiet
<1>1. ASSUME NEW id \in Ids, NEW t \in Titles, SessionStart(id, t) PROVE CallsQuiet
  BY <1>1, SendTypes, IdTypes, ValueTypes, OneCallQuiet DEF SessionStart, Send, Calls, Inside,
    Witnesses
<1>2. ASSUME NEW t \in Titles, Rename(t) PROVE CallsQuiet
  BY <1>2, SendTypes, IdTypes, ValueTypes, OneCallQuiet DEF Rename, Send, Calls, Inside,
    Witnesses
<1>3. ASSUME Prompt PROVE CallsQuiet
  BY <1>3, SendTypes, IdTypes, ValueTypes, OneCallQuiet DEF Prompt, Send, Calls, Inside,
    Witnesses
<1>4. ASSUME TurnBegins PROVE CallsQuiet
  BY <1>4 DEF TurnBegins, CallsQuiet
<1>5. ASSUME CompactBegins PROVE CallsQuiet
  BY <1>5 DEF CompactBegins, CallsQuiet
<1>6. ASSUME BeforeTree PROVE CallsQuiet
  BY <1>6, SendTypes, IdTypes, ValueTypes, OneCallQuiet DEF BeforeTree, Send, Calls, Inside,
    Witnesses
<1>7. ASSUME ToolCall PROVE CallsQuiet
  BY <1>7, SendTypes, IdTypes, ValueTypes, OneCallQuiet DEF ToolCall, Send, Calls, Inside,
    Witnesses
<1>8. ASSUME NEW m \in Msgs, MessageShown(m) PROVE CallsQuiet
  BY <1>8 DEF MessageShown, CallsQuiet
<1>9. ASSUME NEW r \in {"quit", "new"}, SessionShutdown(r) PROVE CallsQuiet
  BY ZenonT(60), <1>9, SendTypes, IdTypes, ValueTypes, OneCallQuiet DEF SessionShutdown, Send, Calls,
    Inside, Witnesses
<1>10. ASSUME ToolAborted PROVE CallsQuiet
  BY <1>10 DEF ToolAborted, CallsQuiet
<1>11. CallsQuiet
  BY <1>1, <1>2, <1>3, <1>4, <1>5, <1>6, <1>7, <1>8, <1>9, <1>10 DEF Extension
<1>12. UNCHANGED <<own, gate, lives, del, host>>
  BY DEF Extension, SessionStart, Rename, Prompt, TurnBegins, CompactBegins, BeforeTree,
    ToolCall, MessageShown, SessionShutdown, ToolAborted
<1>13. AppQuiet
  BY DEF TypeInv, AppQuiet, Extension, SessionStart, Rename, Prompt, TurnBegins,
    CompactBegins, BeforeTree, ToolCall, MessageShown, SessionShutdown, ToolAborted
<1> QED BY <1>11, <1>12, <1>13 DEF DelQuiet, OwnQuiet, LivesQuiet, AppQuiet, HostQuiet, Quiet

\* So is what the extension and Pi do on their own.
LEMMA ResponseQuiet ==
  ASSUME TypeInv, Response
  PROVE  Quiet
<1>1. ASSUME Settled PROVE CallsQuiet
  BY <1>1, SendTypes, IdTypes, ValueTypes, OneCallQuiet DEF Settled, Send, Calls, Inside,
    Witnesses
<1>2. ASSUME Compacted PROVE CallsQuiet
  BY <1>2 DEF Compacted, CallsQuiet
<1>3. ASSUME CompactFailed PROVE CallsQuiet
  BY <1>3, SendTypes, IdTypes, ValueTypes, OneCallQuiet DEF CompactFailed, Send, Calls,
    Inside, Witnesses
<1>4. ASSUME TreeAnswered PROVE CallsQuiet
  BY <1>4, OwnTypes, NoCallType, OneCallQuiet DEF TreeAnswered, Calls, Inside, NoCall
<1>5. ASSUME TreeDone PROVE CallsQuiet
  BY <1>5 DEF TreeDone, CallsQuiet
<1>6. ASSUME TreeFails PROVE CallsQuiet
  BY <1>6 DEF TreeFails, CallsQuiet
<1>7. ASSUME LaterDrain PROVE CallsQuiet
  <2>1. ext.later \in Values
    BY <1>7 DEF LaterDrain, TypeInv, ExtType, Values
  <2> QED BY <1>7, <2>1, SendTypes, IdTypes, OneCallQuiet DEF LaterDrain, Send, Calls, Inside
<1>8. ASSUME EndAnswered PROVE CallsQuiet
  BY <1>8, OwnTypes, NoCallType, OneCallQuiet DEF EndAnswered, Calls, Inside, NoCall
<1>9. ASSUME NativeExit PROVE CallsQuiet
  BY <1>9 DEF NativeExit, CallsQuiet
<1>10. ASSUME NEW c \in Calls, CallLost(c) PROVE CallsQuiet
  BY <1>10, OwnTypes, NoCallType, OneCallQuiet DEF CallLost, Calls, Inside, NoCall
<1>11. ASSUME NEW m \in Msgs, NativeAppend(m) PROVE CallsQuiet
  BY <1>11 DEF NativeAppend, CallsQuiet
<1>12. ASSUME NEW m \in Msgs, AppendLost(m) PROVE CallsQuiet
  BY <1>12 DEF AppendLost, CallsQuiet
<1>13. CallsQuiet
  BY <1>1, <1>2, <1>3, <1>4, <1>5, <1>6, <1>7, <1>8, <1>9, <1>10, <1>11, <1>12 DEF Response
<1>14. UNCHANGED <<own, gate, lives, del, host>>
  BY DEF Response, Settled, Compacted, CompactFailed, TreeAnswered, TreeDone, TreeFails,
    LaterDrain, EndAnswered, NativeExit, CallLost, NativeAppend, AppendLost
<1>15. AppQuiet
  BY DEF TypeInv, AppQuiet, Response, Settled, Compacted, CompactFailed, TreeAnswered,
    TreeDone, TreeFails, LaterDrain, EndAnswered, NativeExit, CallLost, NativeAppend, AppendLost
<1> QED BY <1>13, <1>14, <1>15 DEF DelQuiet, OwnQuiet, LivesQuiet, AppQuiet, HostQuiet, Quiet

\* Nobody is behind a free gate, and nobody but its holder behind a gate that is held.
LEMMA GateFree ==
  ASSUME GateInv, gate = Free
  PROVE  /\ \A c \in Calls : call[c].pc \notin Inside
         /\ \A m \in Msgs : del[m].pc \notin Past
BY PiAssumption DEF GateInv, Calls, Free

\* Who is inside the gate's stretch is there alone.
LEMMA GateHeld ==
  ASSUME GateInv
  PROVE  /\ \A c \in Calls : call[c].pc \in Inside =>
              /\ \A d \in Calls \ {c} : call[d].pc \notin Inside
              /\ \A m \in Msgs : del[m].pc \notin Past
         /\ \A m \in Msgs : del[m].pc \in Past =>
              /\ \A c \in Calls : call[c].pc \notin Inside
              /\ \A n \in Msgs \ {m} : del[n].pc \notin Past
BY PiAssumption DEF GateInv

\* A handler takes the gate, or gives it back.
Enters(c) == /\ gate = Free /\ gate' = c
             /\ \A d \in Calls \ {c} : call'[d] = call[d]
Leaves(c) == /\ call[c].pc \in Inside /\ call'[c].pc \notin Inside /\ gate' = Free
             /\ \A d \in Calls \ {c} : call'[d] = call[d]

\* A handler that takes the gate keeps the invariant.
LEMMA EnterStep ==
  ASSUME GateInv, LifeInv, QueueInv, NEW c \in Calls, Enters(c),
         call'[c].pc \in {"admit", "rehello", "pump"},
         DelQuiet, OwnQuiet, LivesQuiet, AppQuiet, HostQuiet
  PROVE  GateInv' /\ LifeInv' /\ QueueInv'
<1>1. "end" \in Calls /\ "drain" \in Calls /\ "join" \in Inside /\ "append" \in Inside
  BY DEF Calls, Inside
<1>2. /\ \A d \in Calls : call[d].pc \notin Inside
      /\ \A m \in Msgs : del'[m].pc \notin Past
  BY GateFree DEF Enters, DelQuiet
<1>3. GateInv'
  BY <1>2 DEF GateInv, Enters
<1>4. /\ call["end"].pc # "join" /\ call'["end"].pc # "join"
      /\ call["drain"].pc # "append" /\ call'["drain"].pc # "append"
  BY <1>1, <1>2 DEF Enters
<1> QED BY <1>3, <1>4, LifeQuiet, QueueQuiet

\* A handler that gives the gate back keeps the gate's invariant.
LEMMA GateLeft ==
  ASSUME GateInv, NEW c \in Calls, Leaves(c), DelQuiet
  PROVE  GateInv'
<1>1. /\ \A d \in Calls : call'[d].pc \notin Inside
      /\ \A m \in Msgs : del'[m].pc \notin Past
  BY GateHeld DEF Leaves, DelQuiet
<1> QED BY <1>1 DEF GateInv

\* A handler that gives the gate back keeps the invariant.
LEMMA LeaveStep ==
  ASSUME GateInv, LifeInv, QueueInv, NEW c \in Calls, Leaves(c),
         call[c].pc \notin {"join", "append"},
         DelQuiet, OwnQuiet, LivesQuiet, AppQuiet, HostQuiet
  PROVE  GateInv' /\ LifeInv' /\ QueueInv'
<1>1. "end" \in Calls /\ "drain" \in Calls /\ "join" \in Inside /\ "append" \in Inside
  BY DEF Calls, Inside
<1>2. /\ call'["end"] = call["end"] \/ (call["end"].pc # "join" /\ call'["end"].pc # "join")
      /\ call'["drain"] = call["drain"] \/ (call["drain"].pc # "append" /\ call'["drain"].pc # "append")
  BY <1>1 DEF Leaves
<1> QED BY <1>2, GateLeft, LifeQuiet, QueueQuiet

\* What leaves the own state, the lifetimes or the calls alone is quiet there.
LEMMA SameQuiet ==
  ASSUME TypeInv
  PROVE  /\ UNCHANGED lives => LivesQuiet
         /\ SameLives => LivesQuiet
         /\ UNCHANGED own => OwnQuiet
BY DEF LivesQuiet, SameLives, OwnQuiet

\* An answer: the call of the handler is over, and the lifetimes and the queue are as before.
LEMMA AnswerQuiet ==
  ASSUME TypeInv, NEW c \in Calls,
         \/ Refuse(c) \/ RefuseReady(c)
         \/ \E r \in {"ok", "err"} : Reply(c, r) /\ UNCHANGED own
  PROVE  /\ call'[c].pc \notin Inside /\ OwnQuiet
         /\ \A d \in Calls \ {c} : call'[d] = call[d]
         /\ call[c].pc \notin Inside => CallsQuiet
<1>1. /\ call'[c].pc \in {"none", "ok", "err"} /\ OwnQuiet
      /\ \A d \in Calls \ {c} : call'[d] = call[d]
  BY ReplyTypes, RefuseTypes DEF OwnQuiet
<1>2. call'[c].pc \notin Inside
  BY <1>1 DEF Inside
<1> QED BY <1>1, <1>2, OneCallQuiet

\* The handlers of owner.ready keep the invariant.
LEMMA PublishStep ==
  ASSUME IInv, NEW c \in Calls,
         \/ AcquireRefused(c) \/ Describe(c) \/ PublishRefused(c) \/ PublishFirst(c)
         \/ PublishAgain(c) \/ Admitted(c) \/ NotAdmitted(c) \/ Rehello(c) \/ Rehelloed(c)
         \/ RehelloLost(c) \/ RehelloCut(c)
  PROVE  GateInv' /\ LifeInv' /\ QueueInv'
<1> USE DEF IInv
<1>1. CASE AcquireRefused(c)
  <2>1. call[c].pc \notin Inside
    BY <1>1 DEF AcquireRefused, Inside
  <2>2. CallsQuiet /\ OwnQuiet
    BY <1>1, <2>1, AnswerQuiet DEF AcquireRefused
  <2> QED BY <1>1, <2>2, SameQuiet, QuietStep DEF AcquireRefused, IInv, Quiet, DelQuiet,
    AppQuiet, HostQuiet
<1>2. CASE Describe(c)
  <2>1. call[c].pc \notin Inside
    BY <1>2 DEF Describe, Inside
  <2>2. CASE Refuse(c)
    <3>1. CallsQuiet /\ OwnQuiet
      BY <2>1, <2>2, AnswerQuiet
    <3> QED BY <1>2, <3>1, SameQuiet, QuietStep DEF Describe, Quiet, DelQuiet, AppQuiet,
      HostQuiet
  <2>3. CASE /\ call' = [call EXCEPT ![c].pc = "described", ![c].arg = PublicName(ext.title)]
             /\ UNCHANGED own
    <3>1. CallsQuiet
      BY <2>1, <2>3, OwnTypes, OneCallQuiet DEF Inside, CallType
    <3> QED BY <1>2, <2>3, <3>1, SameQuiet, QuietStep DEF Describe, Quiet, DelQuiet, AppQuiet,
      HostQuiet
  <2> QED BY <1>2, <2>2, <2>3 DEF Describe
<1>3. CASE PublishRefused(c)
  <2>1. call[c].pc \notin Inside
    BY <1>3 DEF PublishRefused, Inside
  <2>2. CallsQuiet /\ OwnQuiet
    BY <1>3, <2>1, AnswerQuiet DEF PublishRefused
  <2> QED BY <1>3, <2>2, SameQuiet, QuietStep DEF PublishRefused, IInv, Quiet, DelQuiet,
    AppQuiet, HostQuiet
<1>4. CASE PublishFirst(c)
  <2>1. call[c].pc \notin Inside
    BY <1>4 DEF PublishFirst, Inside
  <2>2. CASE RefuseReady(c) /\ UNCHANGED <<gate, lives>>
    <3>1. CallsQuiet /\ OwnQuiet
      BY <2>1, <2>2, AnswerQuiet
    <3> QED BY <1>4, <2>2, <3>1, SameQuiet, QuietStep DEF PublishFirst, Quiet, DelQuiet,
      AppQuiet, HostQuiet
  <2>3. CASE ~(own.public # 0 \/ own.conn # 0 \/ own.connecting # 0)
    <3>1. PICK n \in Nat : n = Len(lives) + 1 /\ n \notin DOMAIN lives
      BY LenProperties DEF TypeInv
    <3>2. /\ own'.public = n /\ UNCHANGED <<host>> /\ own'.queue = own.queue
          /\ own'.ending = own.ending /\ own'.down = own.down
          /\ call'[c].pc = "admit" /\ \A d \in Calls \ {c} : call'[d] = call[d]
          /\ gate = Free /\ gate' = c /\ UNCHANGED <<del, app>>
          /\ own.public = 0 /\ ~own.ending
      <4>1. /\ own'.public = n /\ own'.queue = own.queue
            /\ own'.ending = own.ending /\ own'.down = own.down
        BY <1>4, <2>3, <3>1, OwnTypes DEF PublishFirst, OwnType
      <4>2. call' = [call EXCEPT ![c].pc = "admit", ![c].life = Len(lives) + 1]
        BY <1>4, <2>3 DEF PublishFirst
      <4>3. call'[c].pc = "admit" /\ \A d \in Calls \ {c} : call'[d] = call[d]
        BY <4>2, OwnTypes DEF CallType
      <4> QED BY <1>4, <2>3, <4>1, <4>3 DEF PublishFirst
    <3>3. "end" \in Calls /\ "drain" \in Calls /\ "join" \in Inside /\ "append" \in Inside
      BY DEF Calls, Inside
    <3>4. /\ \A d \in Calls : call[d].pc \notin Inside
          /\ \A m \in Msgs : del[m].pc \notin Past
      BY <3>2, GateFree
    <3>5. GateInv'
      BY <3>2, <3>4 DEF GateInv
    <3>6. \A l \in DOMAIN lives : lives[l].pc = "done"
      <4>1. call["end"].pc # "join" /\ ~(host \in {"close", "closed"})
        BY <3>2, <3>3, <3>4 DEF LifeInv
      <4>2. \A l \in DOMAIN lives : l # 0
        BY LenProperties DEF TypeInv
      <4> QED BY <3>2, <4>1, <4>2 DEF LifeInv
    <3>7. /\ DOMAIN lives' = DOMAIN lives \cup {n}
          /\ \A l \in DOMAIN lives : lives'[l] = lives[l]
      <4>1. PICK r : lives' = Append(lives, r)
        BY <1>4, <2>3 DEF PublishFirst
      <4> QED BY <3>1, <4>1, LenProperties DEF TypeInv
    <3>8. LifeInv'
      <4>1. call'["end"].pc # "join"
        BY <3>2, <3>3, <3>4
      <4> QED BY <3>2, <3>6, <3>7, <4>1 DEF LifeInv, OneLifetime
    <3>9. QueueInv'
      <4>1. call["drain"].pc # "append" /\ call'["drain"].pc # "append"
        BY <3>2, <3>3, <3>4
      <4> QED BY <3>2, <4>1 DEF QueueInv, QueueStable
    <3> QED BY <3>5, <3>8, <3>9
  <2> QED BY <1>4, <2>2, <2>3 DEF PublishFirst
<1>5. CASE PublishAgain(c)
  <2>1. call[c].pc \notin Inside
    BY <1>5 DEF PublishAgain, Inside
  <2>2. OwnQuiet
    BY <1>5, OwnTypes DEF PublishAgain, OwnType, OwnQuiet
  <2>3. CASE own.conn = 0
    <3>1. CallsQuiet
      BY <1>5, <2>1, <2>3, ReplyTypes, OneCallQuiet DEF PublishAgain, Inside
    <3> QED BY <1>5, <2>2, <2>3, <3>1, SameQuiet, QuietStep DEF PublishAgain, Quiet, DelQuiet,
      AppQuiet, HostQuiet
  <2>4. CASE own.conn # 0
    <3>1. own'.name \in Values /\ own'.ver \in Nat
      BY HandlerTypes, <1>5 DEF Handler, TypeInv, OwnType
    <3>2. LivesQuiet
      BY <1>5, <2>4, <3>1, AskTypes, AskSame, SameQuiet DEF PublishAgain
    <3>3. Enters(c) /\ call'[c].pc = "rehello"
      BY <1>5, <2>4, OwnTypes DEF PublishAgain, Enters, CallType
    <3> QED BY <1>5, <2>2, <3>2, <3>3, EnterStep DEF PublishAgain, DelQuiet, AppQuiet, HostQuiet
  <2> QED BY <2>3, <2>4
<1>6. CASE Admitted(c)
  <2>1. call[c].pc \in Inside \ {"join", "append"}
    BY <1>6 DEF Admitted, Inside
  <2>2. Leaves(c) /\ OwnQuiet
    BY <1>6, <2>1, AnswerQuiet DEF Admitted, Leaves
  <2>3. LivesQuiet
    BY <1>6, SameQuiet DEF Admitted
  <2> QED BY <1>6, <2>1, <2>2, <2>3, LeaveStep DEF Admitted, IInv, DelQuiet, AppQuiet, HostQuiet
<1>7. CASE NotAdmitted(c)
  <2>1. call[c].pc \in Inside \ {"join", "append"}
    BY <1>7 DEF NotAdmitted, Inside
  <2>2. Leaves(c) /\ OwnQuiet
    BY <1>7, <2>1, AnswerQuiet DEF NotAdmitted, Leaves
  <2>3. LivesQuiet
    BY <1>7, SameQuiet DEF NotAdmitted
  <2> QED BY <1>7, <2>1, <2>2, <2>3, LeaveStep DEF NotAdmitted, IInv, DelQuiet, AppQuiet,
    HostQuiet
<1>11. CASE Rehello(c)
  <2>1. LivesQuiet
    BY <1>11, RehelloSame, SameQuiet
  <2>2. CallsQuiet /\ OwnQuiet
    BY <1>11 DEF Rehello, CallsQuiet, OwnQuiet
  <2> QED BY <1>11, <2>1, <2>2, QuietStep DEF Rehello, Quiet, DelQuiet, AppQuiet, HostQuiet
<1>8. CASE Rehelloed(c)
  <2>1. call[c].pc \in Inside \ {"join", "append"}
    BY <1>8 DEF Rehelloed, Inside
  <2>2. OwnQuiet /\ call'[c].pc \notin Inside /\ \A d \in Calls \ {c} : call'[d] = call[d]
    <3>1. CASE own' = [own EXCEPT !.ever = TRUE, !.last = ""] /\ Reply(c, "ok")
      BY <3>1, OwnTypes, ReplyTypes DEF OwnType, OwnQuiet, Inside
    <3>2. CASE RefuseReady(c)
      BY <3>2, AnswerQuiet
    <3> QED BY <1>8, <3>1, <3>2 DEF Rehelloed
  <2>3. LivesQuiet
    BY <1>8, LinkTypes, SameQuiet DEF Rehelloed
  <2> QED BY <1>8, <2>1, <2>2, <2>3, LeaveStep DEF Rehelloed, Leaves, DelQuiet, AppQuiet,
    HostQuiet
<1>9. CASE RehelloLost(c)
  <2>1. call[c].pc \in Inside \ {"join", "append"}
    BY <1>9 DEF RehelloLost, Inside
  <2>2. Leaves(c) /\ OwnQuiet
    BY <1>9, <2>1, AnswerQuiet DEF RehelloLost, Leaves
  <2>3. LivesQuiet
    BY <1>9, SameQuiet DEF RehelloLost
  <2> QED BY <1>9, <2>1, <2>2, <2>3, LeaveStep DEF RehelloLost, IInv, DelQuiet, AppQuiet,
    HostQuiet
<1>10. CASE RehelloCut(c)
  <2>1. call[c].pc \in Inside \ {"join", "append"}
    BY <1>10 DEF RehelloCut, Inside
  <2>2. Leaves(c) /\ OwnQuiet
    BY <1>10, <2>1, AnswerQuiet DEF RehelloCut, Leaves
  <2>3. LivesQuiet
    BY <1>10, LinkTypes, SameQuiet DEF RehelloCut
  <2> QED BY <1>10, <2>1, <2>2, <2>3, LeaveStep DEF RehelloCut, IInv, DelQuiet, AppQuiet,
    HostQuiet
<1> QED BY <1>1, <1>2, <1>3, <1>4, <1>5, <1>6, <1>7, <1>8, <1>9, <1>10, <1>11 DEF IInv

\* The kinds of calls differ from messages and from the free gate.
LEMMA Names ==
  /\ "end" \in Calls /\ "drain" \in Calls /\ "join" \in Inside /\ "append" \in Inside
  /\ "append" \in Past /\ "pump" \in Inside /\ Free \notin Calls
BY DEF Calls, Inside, Past, Free

\* The other handlers keep the invariant.
LEMMA WorkStep ==
  ASSUME IInv, NEW c \in Calls,
         \/ c = "end" /\ (EndBegins \/ EndJoined)
         \/ c = "tree" /\ TreeBegins
         \/ c = "drain" /\ (DrainBegins \/ DrainSends \/ DrainEnds \/ DrainAppended)
         \/ c = "tool" /\ (ToolBegins \/ ToolPublic \/ ToolResult \/ ToolReturns)
  PROVE  GateInv' /\ LifeInv' /\ QueueInv'
<1> USE DEF IInv
<1>1. CASE c = "end" /\ EndBegins
  <2>1. CASE Refuse("end") /\ UNCHANGED <<gate, lives>>
    <3>1. CallsQuiet /\ OwnQuiet
      BY <1>1, <2>1, AnswerQuiet DEF EndBegins, Inside
    <3> QED BY <1>1, <2>1, <3>1, SameQuiet, QuietStep DEF EndBegins, Quiet, DelQuiet,
      AppQuiet, HostQuiet
  <2>2. CASE Owns(own, call["end"].id)
    <3>1. /\ \A d \in Calls : call[d].pc \notin Inside
          /\ \A m \in Msgs : del[m].pc \notin Past
      BY <1>1, GateFree DEF EndBegins
    <3>2. call' = [call EXCEPT !["end"].pc = "join", !["end"].life = own.public]
      BY <1>1, <2>2 DEF EndBegins
    <3>3. /\ call'["end"].pc = "join" /\ call'["end"].life = own.public
          /\ \A d \in Calls \ {"end"} : call'[d] = call[d]
      BY <3>2, Names, OwnTypes DEF CallType
    <3>4. own'.public = 0 /\ own'.queue = <<>> /\ own'.ending = own.ending /\ own'.down = own.down
      BY <1>1, <2>2, OwnTypes DEF EndBegins, OwnType
    <3>5. GateInv'
      BY <1>1, <2>2, <3>1, <3>3 DEF EndBegins, GateInv
    <3>6. LifeInv'
      <4>1. SameLives
        BY <1>1, <2>2, LinkTypes DEF EndBegins
      <4>2. call["end"].pc # "join"
        BY <3>1, Names
      <4> QED BY <1>1, <3>3, <3>4, <4>1, <4>2 DEF EndBegins, LifeInv, OneLifetime, SameLives
    <3>7. QueueInv'
      <4>1. call["drain"].pc # "append" /\ call'["drain"].pc # "append"
        BY <3>1, <3>3, Names
      <4>2. \A m \in Msgs : del[m].pc # "append"
        BY <3>1, Names
      <4> QED BY <1>1, <3>4, <4>1, <4>2 DEF EndBegins, QueueInv, QueueStable
    <3> QED BY <3>5, <3>6, <3>7
  <2> QED BY <1>1, <2>1, <2>2 DEF EndBegins
<1>2. CASE c = "end" /\ EndJoined
  <2>1. Leaves(c) /\ OwnQuiet /\ LivesQuiet
    BY <1>2, AnswerQuiet, SameQuiet DEF EndJoined, Leaves, Inside
  <2>2. GateInv'
    BY <1>2, <2>1, GateLeft DEF EndJoined, DelQuiet
  <2>3. call'["end"].pc # "join" /\ call'["drain"] = call["drain"]
    BY <1>2, <2>1, Names DEF Leaves, Calls
  <2>4. LifeInv'
    BY <1>2, <2>3 DEF EndJoined, LifeInv, OneLifetime
  <2>5. QueueInv'
    BY <1>2, <2>1, <2>3, QueueQuiet DEF EndJoined, DelQuiet, AppQuiet
  <2> QED BY <2>2, <2>4, <2>5
<1>3. CASE c = "tree" /\ TreeBegins
  <2>1. call[c].pc \notin Inside
    BY <1>3 DEF TreeBegins, Inside
  <2>2. CASE Refuse(c)
    <3>1. CallsQuiet /\ OwnQuiet
      BY <2>1, <2>2, AnswerQuiet
    <3> QED BY <1>3, <3>1, SameQuiet, QuietStep DEF TreeBegins, Quiet, DelQuiet, AppQuiet,
      HostQuiet
  <2>3. CASE Owns(own, call["tree"].id)
    <3>1. OwnQuiet
      BY <1>3, <2>3, OwnTypes DEF TreeBegins, OwnType, OwnQuiet
    <3>2. PICK r : call' = [call EXCEPT !["tree"] = r] /\ r.pc \in {"ok", "none"}
      <4>1. PICK p \in {"ok", "none"} :
              \E a : call' = [call EXCEPT !["tree"] = [NoCall EXCEPT !.pc = p, !.arg = a]]
        BY <1>3, <2>3 DEF TreeBegins
      <4>2. PICK a :
              call' = [call EXCEPT !["tree"] = [NoCall EXCEPT !.pc = p, !.arg = a]]
        BY <4>1
      <4>3. [NoCall EXCEPT !.pc = p, !.arg = a].pc = p
        BY DEF NoCall
      <4> QED BY <4>2, <4>3
    <3>3. CallsQuiet
      BY <1>3, <2>1, <3>2, OwnTypes, OneCallQuiet DEF Inside
    <3> QED BY <1>3, <3>1, <3>3, SameQuiet, QuietStep DEF TreeBegins, Quiet, DelQuiet,
      AppQuiet, HostQuiet
  <2> QED BY <1>3, <2>2, <2>3 DEF TreeBegins
<1>4. CASE c = "drain" /\ DrainBegins
  <2>1. OwnQuiet
    BY <1>4, OwnTypes DEF DrainBegins, OwnType, OwnQuiet
  <2>2. Enters(c) /\ call'[c].pc = "pump"
    BY <1>4, OwnTypes DEF DrainBegins, Enters, CallType
  <2> QED BY <1>4, <2>1, <2>2, SameQuiet, EnterStep DEF DrainBegins, DelQuiet, AppQuiet,
    HostQuiet
<1>5. CASE c = "drain" /\ DrainSends
  <2> DEFINE h == Head(own.queue)
  <2>1. /\ \A d \in Calls \ {c} : call'[d] = call[d]
        /\ call'[c].pc = "append" /\ call'[c].arg = h
    BY <1>5, OwnTypes DEF DrainSends, CallType
  <2>2. GateInv'
    BY <1>5, <2>1, Names DEF DrainSends, GateInv
  <2>3. LifeInv'
    BY <1>5, <2>1, SameQuiet, LifeQuiet, "drain" # "end", Names DEF DrainSends, HostQuiet
  <2>4. \A m \in Msgs : app'[m] = "sent" => app[m] = "sent" \/ m = h
    BY <1>5 DEF DrainSends, TypeInv
  <2>5. QueueInv'
    BY <1>5, <2>1, <2>4 DEF DrainSends, QueueInv, QueueStable
  <2> QED BY <2>2, <2>3, <2>5
<1>6. CASE c = "drain" /\ DrainEnds
  <2>1. call[c].pc \in Inside \ {"join", "append"}
    BY <1>6 DEF DrainEnds, Inside
  <2>2. Leaves(c) /\ OwnQuiet
    BY <1>6, <2>1, AnswerQuiet DEF DrainEnds, Leaves
  <2> QED BY <1>6, <2>1, <2>2, SameQuiet, LeaveStep DEF DrainEnds, DelQuiet, AppQuiet, HostQuiet
<1>7. CASE c = "drain" /\ DrainAppended
  <2> DEFINE a == call["drain"].arg
  <2>1. /\ own.queue # <<>> /\ \A m \in Msgs : del[m].pc # "append"
        /\ \A d \in Calls \ {c} : call[d].pc \notin Inside
    BY <1>7, GateHeld, Names DEF DrainAppended, QueueInv, QueueStable
  <2>2. \A m \in Msgs : app'[m] = "sent" => app[m] = "sent" /\ m # a
    BY <1>7 DEF DrainAppended, TypeInv
  <2>3. /\ \A d \in Calls \ {c} : call'[d] = call[d]
        /\ \/ call'[c].pc = "pump" /\ gate' = gate
           \/ call'[c].pc \notin Inside /\ gate' = Free
        /\ own'.public = own.public /\ own'.ending = own.ending /\ (own.down => own'.down)
    <3>1. CASE /\ own' = [own EXCEPT !.queue = Tail(own.queue)] /\ UNCHANGED gate
               /\ call' = [call EXCEPT !["drain"] = [call["drain"] EXCEPT !.pc = "pump", !.arg = ""]]
      BY <1>7, <3>1, OwnTypes DEF OwnType, CallType
    <3>2. CASE Refuse("drain") /\ gate' = Free
      BY <1>7, <3>2, RefuseTypes DEF Inside
    <3>3. CASE UNCHANGED own /\ Reply("drain", "ok") /\ gate' = Free
      BY <1>7, <3>3, ReplyTypes DEF Inside
    <3> QED BY <1>7, <3>1, <3>2, <3>3 DEF DrainAppended
  <2>4. GateInv'
    <3>1. gate = "drain"
      BY <1>7, Names DEF DrainAppended, GateInv
    <3>2. \A m \in Msgs : del'[m].pc \notin Past
      BY <1>7, GateHeld, Names DEF DrainAppended
    <3> QED BY <1>7, <2>1, <2>3, <3>1, <3>2 DEF GateInv
  <2>5. LifeInv'
    <3>1. call'["end"] = call["end"]
      BY <1>7, <2>3, Names
    <3> QED BY <1>7, <2>3, <3>1 DEF DrainAppended, LifeInv, OneLifetime
  <2>6. QueueInv'
    <3>1. call'["drain"].pc # "append"
      BY <1>7, <2>3 DEF Inside
    <3>2. \A m \in Msgs : app'[m] = "sent" => own.down
      BY <1>7, <2>1, <2>2 DEF DrainAppended, QueueInv
    <3> QED BY <2>3, <3>1, <3>2 DEF QueueInv, QueueStable
  <2> QED BY <2>4, <2>5, <2>6
<1>8. CASE c = "tool" /\ ToolBegins
  <2>1. call[c].pc \notin Inside
    BY <1>8 DEF ToolBegins, Inside
  <2>2. CASE \E r \in {"ok", "err"} : Reply(c, r)
    <3>1. CallsQuiet
      BY <1>8, <2>1, <2>2, AnswerQuiet DEF ToolBegins
    <3> QED BY <1>8, <3>1, SameQuiet, QuietStep DEF ToolBegins, Quiet, DelQuiet, AppQuiet,
      HostQuiet
  <2>3. CASE call' = [call EXCEPT !["tool"].pc = "lookup", !["tool"].life = own.public]
    <3>1. CallsQuiet
      BY <1>8, <2>1, <2>3, OwnTypes, OneCallQuiet DEF Inside, CallType
    <3> QED BY <1>8, <3>1, SameQuiet, QuietStep DEF ToolBegins, Quiet, DelQuiet, AppQuiet,
      HostQuiet
  <2> QED BY <1>8, <2>2, <2>3 DEF ToolBegins
<1>9. CASE c = "tool" /\ ToolPublic
  <2>1. call[c].pc \notin Inside
    BY <1>9 DEF ToolPublic, Inside
  <2>2. CASE \E r \in {"ok", "err"} : Reply(c, r)
    <3>1. CallsQuiet
      BY <1>9, <2>1, <2>2, AnswerQuiet DEF ToolPublic
    <3> QED BY <1>9, <3>1, SameQuiet, QuietStep DEF ToolPublic, Quiet, DelQuiet, AppQuiet,
      HostQuiet
  <2>3. CASE call' = [call EXCEPT !["tool"].pc = "public", !["tool"].gen = own.conn]
    <3>1. CallsQuiet
      BY <1>9, <2>1, <2>3, OwnTypes, OneCallQuiet DEF Inside, CallType
    <3> QED BY <1>9, <3>1, SameQuiet, QuietStep DEF ToolPublic, Quiet, DelQuiet, AppQuiet,
      HostQuiet
  <2> QED BY <1>9, <2>2, <2>3 DEF ToolPublic
<1>10. CASE c = "tool" /\ ToolResult
  <2>1. call[c].pc \notin Inside
    BY <1>10 DEF ToolResult, Inside
  <2>2. CASE \E r \in {"ok", "err"} : Reply(c, r)
    <3>1. CallsQuiet
      BY <1>10, <2>1, <2>2, AnswerQuiet DEF ToolResult
    <3> QED BY <1>10, <3>1, SameQuiet, QuietStep DEF ToolResult, Quiet, DelQuiet, AppQuiet,
      HostQuiet
  <2>3. CASE call' = [call EXCEPT !["tool"].pc = "result"]
    <3>1. CallsQuiet
      BY <1>10, <2>1, <2>3, OwnTypes, OneCallQuiet DEF Inside, CallType
    <3> QED BY <1>10, <3>1, SameQuiet, QuietStep DEF ToolResult, Quiet, DelQuiet, AppQuiet,
      HostQuiet
  <2> QED BY <1>10, <2>2, <2>3 DEF ToolResult
<1>11. CASE c = "tool" /\ ToolReturns
  <2>1. call[c].pc \notin Inside
    BY <1>11 DEF ToolReturns, Inside
  <2>2. CASE \E r \in {"ok", "err"} : Reply(c, r)
    <3>1. CallsQuiet
      BY <1>11, <2>1, <2>2, AnswerQuiet DEF ToolReturns
    <3> QED BY <1>11, <3>1, SameQuiet, QuietStep DEF ToolReturns, Quiet, DelQuiet, AppQuiet,
      HostQuiet
  <2> QED BY <1>11, <2>2 DEF ToolReturns
<1> QED BY <1>1, <1>2, <1>3, <1>4, <1>5, <1>6, <1>7, <1>8, <1>9, <1>10, <1>11 DEF IInv

\* The public lifetimes keep the invariant.
LEMMA LifetimeStep ==
  ASSUME IInv, NEW l \in DOMAIN lives, Lifetime(l)
  PROVE  GateInv' /\ LifeInv' /\ QueueInv'
<1> USE DEF IInv
<1>1. CASE DialEnds(l)
  <2>1. LivesQuiet
    BY <1>1 DEF DialEnds, LivesQuiet, TypeInv
  <2> QED BY <1>1, <2>1, SameQuiet, QuietStep DEF DialEnds, Quiet, CallsQuiet, DelQuiet,
    AppQuiet, HostQuiet
<1>2. CASE Dialled(l)
  <2>1. LivesQuiet
    BY <1>2 DEF Dialled, LivesQuiet, TypeInv
  <2>2. OwnQuiet
    BY <1>2, OwnTypes DEF Dialled, OwnQuiet, OwnType
  <2> QED BY <1>2, <2>1, <2>2, QuietStep DEF Dialled, Quiet, CallsQuiet, DelQuiet, AppQuiet,
    HostQuiet
<1>3. CASE HelloSent(l)
  <2>1. own.name \in Values /\ own.ver \in Nat
    BY OwnTypes DEF OwnType
  <2>2. LivesQuiet
    BY <1>3, <2>1, HelloTypes, SameQuiet DEF HelloSent
  <2> QED BY <1>3, <2>2, SameQuiet, QuietStep DEF HelloSent, Quiet, CallsQuiet, DelQuiet,
    AppQuiet, HostQuiet
<1>4. CASE HelloObserved(l)
  <2>1. LivesQuiet
    BY <1>4 DEF HelloObserved, LivesQuiet, TypeInv
  <2>2. OwnQuiet
    BY <1>4, OwnTypes DEF HelloObserved, OwnQuiet, OwnType
  <2> QED BY <1>4, <2>1, <2>2, QuietStep DEF HelloObserved, Quiet, CallsQuiet, DelQuiet,
    AppQuiet, HostQuiet
<1>5. CASE HelloFails(l) \/ ServeEnds(l)
  <2>1. PICK bad \in BOOLEAN : Detached(l, bad)
    BY <1>5 DEF HelloFails, ServeEnds
  <2>2. lives[l].pc # "done"
    BY <1>5 DEF HelloFails, ServeEnds
  <2>3. LivesQuiet /\ OwnQuiet
    BY <2>1, <2>2, DetachedTypes, LenProperties DEF LivesQuiet, OwnQuiet, TypeInv
  <2> QED BY <2>1, <2>3, QuietStep DEF Detached, Quiet, CallsQuiet, DelQuiet, AppQuiet,
    HostQuiet
<1> QED BY <1>1, <1>2, <1>3, <1>4, <1>5 DEF Lifetime

\* The bus keeps the invariant.
LEMMA BusStep ==
  ASSUME IInv, NEW l \in DOMAIN lives, Bus(l)
  PROVE  GateInv' /\ LifeInv' /\ QueueInv'
<1> USE DEF IInv
<1>1. CASE LinkLoss(l)
  <2>1. LivesQuiet
    BY <1>1, LinkTypes, SameQuiet DEF LinkLoss
  <2> QED BY <1>1, <2>1, SameQuiet, QuietStep DEF LinkLoss, Quiet, CallsQuiet, DelQuiet,
    AppQuiet, HostQuiet
<1>2. CASE Supersede(l)
  <2>1. LivesQuiet
    BY <1>2, LinkTypes, SameQuiet DEF Supersede, Hangup
  <2>2. OwnQuiet
    BY <1>2, OwnTypes DEF Supersede, OwnQuiet, OwnType
  <2> QED BY <1>2, <2>1, <2>2, QuietStep DEF Supersede, Quiet, CallsQuiet, DelQuiet, AppQuiet,
    HostQuiet
<1>3. ASSUME NEW m \in Msgs, Arrive(l, m) PROVE GateInv' /\ LifeInv' /\ QueueInv'
  <2>1. LivesQuiet
    BY <1>3, LinkTypes, SameQuiet DEF Arrive, Hangup
  <2>2. OwnQuiet
    BY <1>3, OwnTypes, FailTypes DEF Arrive, OwnQuiet
  <2>3. DelQuiet
    BY <1>3 DEF Arrive, DelQuiet, Past, TypeInv, DelType
  <2> QED BY <1>3, <2>1, <2>2, <2>3, QuietStep DEF Arrive, Quiet, CallsQuiet, AppQuiet,
    HostQuiet
<1> QED BY <1>1, <1>2, <1>3 DEF Bus

\* A delivery that ends behind the gate gives it back.
LEMMA SettleStep ==
  ASSUME IInv, NEW m \in Msgs, del[m].pc \in Past, gate' = Free,
         NEW res \in Results, NEW o \in OwnType, Settle(m, res, o),
         o.public = own.public, o.ending = own.ending, o.down = own.down,
         o.queue = own.queue \/ ~own.ending, UNCHANGED <<call, lives, host>>,
         \A n \in Msgs : app'[n] = "sent" => app[n] = "sent" /\ (n = m => own'.down \/ own'.ending),
         del[m].pc = "append" => o.queue = own.queue
  PROVE  GateInv' /\ LifeInv' /\ QueueInv'
<1> USE DEF IInv
<1>1. /\ \A c \in Calls : call[c].pc \notin Inside
      /\ \A n \in Msgs \ {m} : del[n].pc \notin Past
  BY GateHeld
<1>2. /\ del'[m].pc = "done" /\ \A n \in Msgs \ {m} : del'[n] = del[n]
      /\ own'.queue = o.queue /\ own'.public = own.public /\ own'.ending = own.ending
      /\ own.down => own'.down
  BY SettleTypes
<1>3. GateInv'
  BY <1>1, <1>2 DEF GateInv, Past
<1>4. LifeInv'
  BY <1>2 DEF LifeInv, OneLifetime
<1>5. QueueInv'
  <2>1. call["drain"].pc # "append"
    BY <1>1, Names
  <2>2. \A n \in Msgs : app'[n] = "sent" => own'.down \/ (own'.ending /\ own'.queue = <<>>)
    BY <1>1, <1>2, <2>1, Names DEF QueueInv
  <2> QED BY <2>1, <2>2 DEF QueueInv, QueueStable
<1> QED BY <1>3, <1>4, <1>5

\* The deliveries keep the invariant.
LEMMA DeliverStep ==
  ASSUME IInv, NEW m \in Msgs, Deliver(m)
  PROVE  GateInv' /\ LifeInv' /\ QueueInv'
<1> USE DEF IInv
<1>1. CASE DeliverRefused(m)
  <2>1. PICK res \in {"canceled", "error"} : Settle(m, res, own)
    BY <1>1 DEF DeliverRefused
  <2>2. OwnQuiet
    BY <2>1, SettleTypes, OwnTypes DEF OwnQuiet, Results
  <2>3. DelQuiet
    BY <1>1, <2>1, SettleTypes, OwnTypes DEF DeliverRefused, DelQuiet, Past, Results
  <2> QED BY <1>1, <2>2, <2>3, SameQuiet, QuietStep DEF DeliverRefused, Quiet, CallsQuiet,
    AppQuiet, HostQuiet
<1>2. CASE DeliverBegins(m)
  <2>1. CASE Settle(m, "canceled", own) /\ UNCHANGED gate
    <3>1. OwnQuiet
      BY <2>1, SettleTypes, OwnTypes DEF OwnQuiet, Results
    <3>2. DelQuiet
      BY <1>2, <2>1, SettleTypes, OwnTypes DEF DeliverBegins, DelQuiet, Past, Results
    <3> QED BY <1>2, <2>1, <3>1, <3>2, SameQuiet, QuietStep DEF DeliverBegins, Quiet,
      CallsQuiet, AppQuiet, HostQuiet
  <2>2. CASE del' = [del EXCEPT ![m].pc = "check"] /\ gate' = m /\ UNCHANGED own
    <3>1. GateInv'
      BY <1>2, <2>2, GateFree DEF DeliverBegins, GateInv, TypeInv, DelType
    <3>2. LifeInv'
      BY <1>2, <2>2 DEF DeliverBegins, LifeInv, OneLifetime
    <3>3. QueueInv'
      BY <1>2, <2>2 DEF DeliverBegins, QueueInv, QueueStable, TypeInv, DelType
    <3> QED BY <3>1, <3>2, <3>3
  <2> QED BY <1>2, <2>1, <2>2 DEF DeliverBegins
<1>3. CASE DeliverChecks(m)
  <2>1. CASE \E res \in {"error", "rejected"} : Settle(m, res, own) /\ gate' = Free /\ UNCHANGED app
    <3>1. app[m] # "sent" \/ own.down \/ own.ending
      BY <1>3, GateHeld, Names DEF DeliverChecks, QueueInv, Past
    <3>2. own.down \/ own.ending => own'.down \/ own'.ending
      BY <2>1, SettleTypes, OwnTypes DEF Results
    <3> QED BY <1>3, <2>1, <3>1, <3>2, SettleStep, OwnTypes DEF DeliverChecks, Past, Results
  <2>2. CASE /\ UNCHANGED <<own, gate>>
             /\ \E p \in {"queue", "append"} :
                  /\ del' = [del EXCEPT ![m].pc = p, ![m].id = own.id, ![m].tree = own.tree]
                  /\ p = "append" <=> own.queue = <<>>
                  /\ app' = IF p = "queue" THEN app ELSE [app EXCEPT ![m] = "sent"]
    <3>1. PICK p \in {"queue", "append"} :
            /\ del'[m].pc = p /\ \A n \in Msgs \ {m} : del'[n] = del[n]
            /\ p = "append" <=> own.queue = <<>>
            /\ p = "append" \/ app' = app
            /\ \A n \in Msgs \ {m} : app'[n] = app[n]
      BY <2>2 DEF TypeInv, DelType
    <3>2. GateInv'
      BY <1>3, <2>2, <3>1 DEF DeliverChecks, GateInv, Past
    <3>3. LifeInv'
      BY <1>3, <2>2 DEF DeliverChecks, LifeInv, OneLifetime
    <3>4. QueueInv'
      BY <1>3, <2>2, <3>1 DEF DeliverChecks, QueueInv, QueueStable
    <3> QED BY <3>2, <3>3, <3>4
  <2> QED BY <1>3, <2>1, <2>2 DEF DeliverChecks
<1>4. CASE DeliverAppended(m)
  <2>1. /\ \A n \in Msgs \ {m} : app'[n] = app[n]
        /\ app'[m] = "sent" => app[m] = "sent"
    BY <1>4 DEF DeliverAppended, TypeInv
  <2>2. del[m].pc = "append" /\ gate = m
    BY <1>4 DEF DeliverAppended, GateInv, Past
  <2>3. CASE gate' = Free
    <3>1. PICK res \in Results, o \in OwnType :
            /\ Settle(m, res, o) /\ o \in {own, [own EXCEPT !.tree = FALSE]}
            /\ app[m] = "sent" => res = "error"
      <4>1. [own EXCEPT !.tree = FALSE] \in OwnType
        BY OwnTypes DEF OwnType
      <4>2. gate # Free
        BY <2>2, PiAssumption
      <4> QED BY <1>4, <2>3, <4>1, <4>2, OwnTypes DEF DeliverAppended, Results
    <3>2. /\ o.public = own.public /\ o.ending = own.ending /\ o.down = own.down
          /\ o.queue = own.queue
      BY <3>1, OwnTypes DEF OwnType
    <3>3. app[m] = "sent" => own'.down \/ own'.ending
      BY <3>1, SettleTypes
    <3> QED BY <1>4, <2>1, <2>2, <2>3, <3>1, <3>2, <3>3, SettleStep, Names DEF DeliverAppended
  <2>4. CASE gate' # Free
    <3>1. /\ del'[m].pc = "queue" /\ \A n \in Msgs \ {m} : del'[n] = del[n]
          /\ app[m] = "busy" /\ UNCHANGED <<own, gate>>
      BY <1>4, <2>4 DEF DeliverAppended, TypeInv, DelType
    <3>2. GateInv'
      BY <1>4, <2>2, <3>1 DEF DeliverAppended, GateInv, Past
    <3>3. LifeInv'
      BY <1>4, <3>1 DEF DeliverAppended, LifeInv, OneLifetime
    <3>4. QueueInv'
      BY <1>4, <2>1, <3>1 DEF DeliverAppended, QueueInv, QueueStable
    <3> QED BY <3>2, <3>3, <3>4
  <2> QED BY <2>3, <2>4
<1>5. CASE DeliverQueues(m)
  <2>1. CASE Settle(m, "canceled", own) /\ gate' = Free
    <3>1. app[m] # "sent" \/ own.down \/ own.ending
      BY <1>5, GateHeld, Names DEF DeliverQueues, QueueInv, Past
    <3>2. own.down \/ own.ending => own'.down \/ own'.ending
      BY <2>1, SettleTypes, OwnTypes DEF Results
    <3> QED BY <1>5, <2>1, <3>1, <3>2, SettleStep, OwnTypes DEF DeliverQueues, Past, Results
  <2>2. CASE del' = [del EXCEPT ![m].pc = "lock"] /\ UNCHANGED <<own, gate>>
    <3>1. del'[m].pc = "lock" /\ \A n \in Msgs \ {m} : del'[n] = del[n]
      BY <2>2 DEF TypeInv, DelType
    <3>2. GateInv'
      BY <1>5, <2>2, <3>1 DEF DeliverQueues, GateInv, Past
    <3>3. LifeInv'
      BY <1>5, <2>2 DEF DeliverQueues, LifeInv, OneLifetime
    <3>4. QueueInv'
      BY <1>5, <2>2, <3>1 DEF DeliverQueues, QueueInv, QueueStable
    <3> QED BY <3>2, <3>3, <3>4
  <2> QED BY <1>5, <2>1, <2>2 DEF DeliverQueues
<1>6. CASE DeliverQueued(m)
  <2>1. app[m] # "sent" \/ own.down \/ own.ending
    BY <1>6, GateHeld, Names DEF DeliverQueued, QueueInv, Past
  <2>2. CASE Settle(m, "error", own)
    <3>1. own.down \/ own.ending => own'.down \/ own'.ending
      BY <2>2, SettleTypes, OwnTypes DEF Results
    <3> QED BY <1>6, <2>1, <2>2, <3>1, SettleStep, OwnTypes DEF DeliverQueued, Past, Results
  <2>3. CASE ~own.ending /\ Settle(m, "queued", [own EXCEPT !.queue = Append(own.queue, m)])
    <3>1. PICK o \in OwnType : o = [own EXCEPT !.queue = Append(own.queue, m)]
      <4>1. Append(own.queue, m) \in Seq(Msgs)
        BY OwnTypes, AppendProperties
      <4> QED BY <4>1, OwnTypes DEF OwnType
    <3>2. o.public = own.public /\ o.ending = own.ending /\ o.down = own.down
      BY <3>1, OwnTypes DEF OwnType
    <3>3. own.down => own'.down
      BY <2>3, <3>1, <3>2, SettleTypes DEF Results
    <3> QED BY <1>6, <2>1, <2>3, <3>1, <3>2, <3>3, SettleStep DEF DeliverQueued, Past, Results
  <2> QED BY <1>6, <2>2, <2>3 DEF DeliverQueued
<1> QED BY <1>1, <1>2, <1>3, <1>4, <1>5, <1>6 DEF Deliver

\* The supervisor keeps the invariant.
LEMMA SupervisorStep ==
  ASSUME IInv, Supervisor
  PROVE  GateInv' /\ LifeInv' /\ QueueInv'
<1> USE DEF IInv
<1>1. CASE SupersedeAcked
  <2>1. OwnQuiet
    BY <1>1, OwnTypes DEF SupersedeAcked, OwnQuiet, OwnType
  <2> QED BY <1>1, <2>1, SameQuiet, QuietStep DEF SupersedeAcked, Quiet, CallsQuiet, DelQuiet,
    AppQuiet, HostQuiet
<1>2. CASE HostStops
  <2> QED BY <1>2, SameQuiet, QuietStep DEF HostStops, Quiet, CallsQuiet, DelQuiet, AppQuiet,
    HostQuiet
<1>3. CASE OwnerCloses
  <2>1. /\ own'.ending /\ own'.down /\ own'.queue = <<>>
    BY <1>3, OwnTypes DEF OwnerCloses, OwnType
  <2>2. /\ DOMAIN lives' = DOMAIN lives
        /\ \A l \in DOMAIN lives : lives'[l].pc = lives[l].pc
    BY <1>3, LivesTypes DEF OwnerCloses, LifeType
  <2>3. \A c \in Calls : call'[c].pc = "none"
    BY <1>3 DEF OwnerCloses
  <2>4. GateInv'
    BY <1>3 DEF OwnerCloses, GateInv
  <2>5. LifeInv'
    <3>1. OneLifetime'
      BY <2>2 DEF LifeInv, OneLifetime
    <3>2. host' = "close" /\ call'["end"].pc # "join"
      BY <1>3, <2>3, Names DEF OwnerCloses
    <3> QED BY <2>1, <3>1, <3>2 DEF LifeInv
  <2>6. QueueInv'
    BY <2>1, <2>3, Names DEF QueueInv, QueueStable
  <2> QED BY <2>4, <2>5, <2>6
<1>4. CASE OwnerClosed
  <2> QED BY <1>4, SameQuiet, QuietStep DEF OwnerClosed, Quiet, CallsQuiet, DelQuiet,
    AppQuiet, HostQuiet
<1> QED BY <1>1, <1>2, <1>3, <1>4 DEF Supervisor

-----------------------------------------------------------------------------
(* The invariant and what follows from it.                                 *)

\* The first state of the extension.
LEMMA FirstExt ==
  ASSUME NEW z \in Int, NEW k \in Int, NEW t \in [Msgs -> Nat], NEW j \in IdsOrNone,
         NEW b \in Values, NEW a \in Acts, NEW n \in Witnesses \cup {"none"},
         NEW s \in SUBSET Msgs
  PROVE  [count |-> z, id |-> j, title |-> b, left |-> k, act |-> a, branch |-> FALSE,
          admitted |-> s, later |-> n, taken |-> t, quit |-> FALSE, stopped |-> FALSE,
          wire |-> TRUE, alive |-> TRUE] \in ExtType
BY DEF ExtType

\* The invariant holds at first.
LEMMA InitTypes == Init => IInv
<1> SUFFICES ASSUME Init PROVE IInv
  OBVIOUS
<1>1. NoId \in IdsOrNone /\ "" \in Values
  BY ValueTypes DEF IdsOrNone
<1>2. ext \in ExtType
  <2>1. MaxEvents \in Int
    BY PiAssumption
  <2>2. [m \in Msgs |-> 0] \in [Msgs -> Nat]
    OBVIOUS
  <2>3. /\ 0 \in Int /\ "off" \in Acts /\ {} \in SUBSET Msgs
        /\ "none" \in Witnesses \cup {"none"}
    BY DEF Acts
  <2>4. ext = [count |-> 0, id |-> NoId, title |-> "", left |-> MaxEvents, act |-> "off",
               branch |-> FALSE, admitted |-> {}, later |-> "none",
               taken |-> [m \in Msgs |-> 0],
               quit |-> FALSE, stopped |-> FALSE, wire |-> TRUE, alive |-> TRUE]
    BY DEF Init
  <2> QED BY <1>1, <2>1, <2>2, <2>3, <2>4, FirstExt
<1>3. call \in [Calls -> CallType]
  BY NoCallType DEF Init
<1>4. own \in OwnType
  <2>1. <<>> \in Seq(Msgs)
    OBVIOUS
  <2> QED BY <1>1, <2>1 DEF Init, OwnType
<1>5. del \in [Msgs -> DelType]
  BY <1>1 DEF Init, DelType, DelPcs, Results
<1>6. lives \in Seq(LifeType) /\ DOMAIN lives = {}
  <2>1. lives = <<>>
    BY DEF Init
  <2>2. <<>> \in Seq(LifeType) /\ Len(<<>>) = 0
    OBVIOUS
  <2> QED BY <2>1, <2>2, LenProperties
<1>7. app \in [Msgs -> Answers] /\ \A m \in Msgs : app[m] # "sent"
  BY DEF Init, Answers
<1>8. /\ \A c \in Calls : call[c].pc = "none"
      /\ \A m \in Msgs : del[m].pc = "none"
  BY DEF Init, NoCall
<1>9. TypeInv
  BY <1>2, <1>3, <1>4, <1>5, <1>6, <1>7 DEF TypeInv
<1>10. GateInv
  BY <1>8 DEF GateInv, Inside, Past
<1>11. LifeInv
  BY <1>6, <1>8, Names DEF LifeInv, OneLifetime, Init
<1>12. QueueInv
  BY <1>7, <1>8, Names DEF QueueInv, QueueStable
<1> QED BY <1>9, <1>10, <1>11, <1>12 DEF IInv

\* Every step keeps the invariant.
LEMMA Inductive == IInv /\ [Next]_vars => IInv'
<1> SUFFICES ASSUME IInv, [Next]_vars PROVE IInv'
  OBVIOUS
<1> USE DEF IInv
<1>1. CASE Extension
  BY <1>1, ExtensionTypes, ExtensionQuiet, QuietStep
<1>2. CASE Response
  BY <1>2, ResponseTypes, ResponseQuiet, QuietStep
<1>3. CASE Supervisor
  BY <1>3, SupervisorTypes, SupervisorStep
<1>4. ASSUME NEW c \in Calls, Handler(c) PROVE IInv'
  <2>1. TypeInv'
    BY <1>4, HandlerTypes
  <2>2. GateInv' /\ LifeInv' /\ QueueInv'
    BY <1>4, PublishStep, WorkStep DEF Handler
  <2> QED BY <2>1, <2>2
<1>5. ASSUME NEW l \in DOMAIN lives, Lifetime(l) PROVE IInv'
  BY <1>5, LifetimeTypes, LifetimeStep
<1>6. ASSUME NEW l \in DOMAIN lives, Bus(l) PROVE IInv'
  BY <1>6, BusTypes, BusStep
<1>7. ASSUME NEW m \in Msgs, Deliver(m) PROVE IInv'
  BY <1>7, DeliverTypes, DeliverStep
<1>8. CASE UNCHANGED vars
  BY <1>8 DEF vars, TypeInv, GateInv, LifeInv, OneLifetime, QueueInv, QueueStable
<1> QED BY <1>1, <1>2, <1>3, <1>4, <1>5, <1>6, <1>7, <1>8 DEF Next

\* The types, the gate, the lifetimes and the queue are as IInv says in every state.
THEOREM Invariant == Spec => []IInv
BY InitTypes, Inductive, PTL DEF Spec

\* What a drain has handed to native stays the head of the queue until native answers
\* (deliverMessage and session_end change the queue only with the gate that drain holds).
THEOREM QueueStableAlways == Spec => []QueueStable
<1>1. IInv => QueueStable
  BY DEF IInv, QueueInv
<1> QED BY <1>1, Invariant, PTL

\* Two public lifetimes never run at the same time: session_end keeps the gate until the
\* lifetime it withdrew has returned.
THEOREM OneLifetimeAlways == Spec => []OneLifetime
<1>1. IInv => OneLifetime
  BY DEF IInv, LifeInv
<1> QED BY <1>1, Invariant, PTL

\* Only native.append gives native a message.
LEMMA TakenStep ==
  ASSUME TypeInv, [Next]_vars
  PROVE  ext'.taken = ext.taken \/ \E m \in Msgs : NativeAppend(m)
<1>1. CASE Extension
  BY <1>1 DEF Extension, SessionStart, Rename, Prompt, TurnBegins, CompactBegins, BeforeTree,
       ToolCall, MessageShown, SessionShutdown, ToolAborted, Stop, TypeInv, ExtType
<1>2. CASE Response
  BY ZenonT(60), <1>2 DEF Response, Settled, Compacted, CompactFailed, TreeAnswered, TreeDone, TreeFails,
       LaterDrain, EndAnswered, NativeExit, CallLost, AppendLost, Stop, TypeInv, ExtType
<1>3. CASE Supervisor
  BY <1>3 DEF Supervisor, SupersedeAcked, HostStops, OwnerCloses, OwnerClosed
<1>4. ASSUME NEW c \in Calls, Handler(c) PROVE ext'.taken = ext.taken
  <2>1. \/ UNCHANGED ext \/ Refuse(c) \/ RefuseReady(c) \/ \E r \in {"ok", "err"} : Reply(c, r)
    BY <1>4 DEF Handler, AcquireRefused, Describe, PublishFirst, PublishAgain, PublishRefused,
         Admitted, NotAdmitted, Rehello, Rehelloed, RehelloLost, RehelloCut, EndBegins, EndJoined,
         TreeBegins, DrainBegins, DrainSends, DrainEnds, DrainAppended, ToolBegins, ToolPublic,
         ToolResult, ToolReturns
  <2> QED BY <2>1, ReplyTypes, RefuseTypes
<1>5. ASSUME NEW l \in DOMAIN lives, Lifetime(l) \/ Bus(l) PROVE ext'.taken = ext.taken
  BY <1>5 DEF Lifetime, DialEnds, Dialled, HelloSent, HelloObserved, HelloFails, ServeEnds,
       Detached, Bus, LinkLoss, Supersede, Arrive
<1>6. ASSUME NEW m \in Msgs, Deliver(m) PROVE ext'.taken = ext.taken
  BY <1>6 DEF Deliver, DeliverRefused, DeliverBegins, DeliverChecks, DeliverAppended,
       DeliverQueues, DeliverQueued
<1>7. CASE UNCHANGED vars
  BY <1>7 DEF vars
<1> QED BY <1>1, <1>2, <1>3, <1>4, <1>5, <1>6, <1>7 DEF Next

\* While messages are queued for the next turn, native takes only the first of them: a
\* delivery is sent to native with the gate and an empty queue, and a drain sends the head.
THEOREM NoOvertakingAlways == Spec => NoOvertaking
<1> DEFINE Step == \A m \in Msgs : ext'.taken[m] > ext.taken[m] =>
                     own.queue = <<>> \/ Head(own.queue) = m \/ own.down
<1>1. IInv /\ [Next]_vars => [Step]_vars
  <2> SUFFICES ASSUME IInv, [Next]_vars PROVE Step
    OBVIOUS
  <2> USE DEF IInv
  <2>1. CASE ext'.taken = ext.taken
    BY <2>1 DEF TypeInv, ExtType
  <2>2. ASSUME NEW m \in Msgs, NativeAppend(m) PROVE Step
    <3>1. \A n \in Msgs \ {m} : ext'.taken[n] = ext.taken[n]
      <4> DEFINE e == IF ext.act = "idle" THEN [ext EXCEPT !.branch = FALSE] ELSE ext
      <4>1. e \in ExtType /\ e.taken = ext.taken
        BY DEF TypeInv, ExtType
      <4>2. \/ ext' = ext
            \/ ext' = [e EXCEPT !.act = "turn", !.admitted = @ \cup {m}, !.taken[m] = @ + 1]
        BY <2>2 DEF NativeAppend
      <4> HIDE DEF e
      <4>3. ext'.taken = ext.taken \/ ext'.taken = [e.taken EXCEPT ![m] = @ + 1]
        BY <4>1, <4>2 DEF ExtType
      <4> QED BY <4>1, <4>3 DEF ExtType
    <3>2. own.queue = <<>> \/ Head(own.queue) = m \/ own.down
      BY <2>2 DEF NativeAppend, QueueInv, QueueStable
    <3> QED BY <3>1, <3>2 DEF TypeInv, ExtType
  <2> QED BY <2>1, <2>2, TakenStep
<1> QED BY <1>1, Invariant, PTL DEF Spec, NoOvertaking

-----------------------------------------------------------------------------
(* After session.superseded the owner is ending, and an ending owner opens  *)
(* and installs nothing.                                                    *)

OwnStays == /\ own'.ending /\ own'.gen = own.gen /\ own'.conn \in {own.conn, 0}
            /\ own'.ever = own.ever /\ own'.last = own.last
LivesStay == /\ Len(lives') = Len(lives)
             /\ \A l \in DOMAIN lives :
                  lives'[l].ask.st # "none" => lives[l].ask.st # "none"

\* Failing keeps an ending owner's connections.
LEMMA FailStays ==
  ASSUME TypeInv, own.ending, own' = Fail(own) \/ UNCHANGED own
  PROVE  OwnStays
BY OwnTypes DEF Fail, OwnType, OwnStays

\* So does refusing a call.
LEMMA RefuseStays ==
  ASSUME TypeInv, own.ending, NEW c \in Calls, Refuse(c) \/ RefuseReady(c)
  PROVE  OwnStays
BY FailStays DEF Refuse, RefuseReady

\* So does the end of a delivery.
LEMMA SettleStays ==
  ASSUME TypeInv, own.ending, NEW m \in Msgs, NEW res,
         NEW o \in {own, [own EXCEPT !.tree = FALSE]}, Settle(m, res, o)
  PROVE  OwnStays
BY OwnTypes DEF Settle, Fail, OwnType, OwnStays

\* No lifetime asks again when one changes without asking.
LEMMA LifeStays ==
  ASSUME TypeInv, NEW l, NEW e, lives' = [lives EXCEPT ![l] = e],
         l \in DOMAIN lives => e \in LifeType /\ (e.ask = lives[l].ask \/ e.ask.st = "none")
  PROVE  LivesStay
<1>1. /\ Len(lives') = Len(lives)
      /\ \A j \in DOMAIN lives : lives'[j] = IF j = l THEN e ELSE lives[j]
  BY SetLife DEF TypeInv
<1> QED BY <1>1 DEF LivesStay

\* The changes to a lifetime that ask the bus for nothing.
LEMMA UnaskedStays ==
  ASSUME TypeInv, NEW l,
         \/ lives' = [lives EXCEPT ![l].ask = NoAsk]
         \/ lives' = [lives EXCEPT ![l].up = FALSE]
         \/ lives' = [lives EXCEPT ![l].pc = "done"]
         \/ UNCHANGED lives
  PROVE  LivesStay
<1>1. CASE lives' = [lives EXCEPT ![l].ask = NoAsk]
  <2>1. l \in DOMAIN lives => /\ [lives[l] EXCEPT !.ask = NoAsk] \in LifeType
                             /\ \/ [lives[l] EXCEPT !.ask = NoAsk].ask = lives[l].ask
                                \/ [lives[l] EXCEPT !.ask = NoAsk].ask.st = "none"
    BY LivesTypes, AskTypes DEF LifeType, LifePcs, NoAsk
  <2>2. lives' = [lives EXCEPT ![l] = [lives[l] EXCEPT !.ask = NoAsk]]
    BY <1>1
  <2> QED BY <2>1, <2>2, LifeStays
<1>2. CASE lives' = [lives EXCEPT ![l].up = FALSE]
  <2>1. l \in DOMAIN lives => /\ [lives[l] EXCEPT !.up = FALSE] \in LifeType
                             /\ \/ [lives[l] EXCEPT !.up = FALSE].ask = lives[l].ask
                                \/ [lives[l] EXCEPT !.up = FALSE].ask.st = "none"
    BY LivesTypes, AskTypes DEF LifeType, LifePcs, NoAsk
  <2>2. lives' = [lives EXCEPT ![l] = [lives[l] EXCEPT !.up = FALSE]]
    BY <1>2
  <2> QED BY <2>1, <2>2, LifeStays
<1>3. CASE lives' = [lives EXCEPT ![l].pc = "done"]
  <2>1. l \in DOMAIN lives => /\ [lives[l] EXCEPT !.pc = "done"] \in LifeType
                             /\ \/ [lives[l] EXCEPT !.pc = "done"].ask = lives[l].ask
                                \/ [lives[l] EXCEPT !.pc = "done"].ask.st = "none"
    BY LivesTypes, AskTypes DEF LifeType, LifePcs, NoAsk
  <2>2. lives' = [lives EXCEPT ![l] = [lives[l] EXCEPT !.pc = "done"]]
    BY <1>3
  <2> QED BY <2>1, <2>2, LifeStays
<1>4. CASE UNCHANGED lives
  BY <1>4 DEF LivesStay
<1> QED BY <1>1, <1>2, <1>3, <1>4

\* Nor when one is detached.
LEMMA DetachedStays ==
  ASSUME TypeInv, own.ending, NEW l \in DOMAIN lives, NEW bad \in BOOLEAN, Detached(l, bad)
  PROVE  OwnStays /\ LivesStay
<1>1. PICK p \in {"dial", "done"} :
        lives' = [lives EXCEPT ![l].pc = p, ![l].up = FALSE, ![l].ask = NoAsk]
  BY DEF Detached, RetryOrEnd
<1>2. PICK e \in LifeType : /\ e = [lives[l] EXCEPT !.pc = p, !.up = FALSE, !.ask = NoAsk]
                           /\ e.ask.st = "none"
  <2>1. PICK r \in LifeType : r = lives[l]
    BY LivesTypes
  <2>2. [r EXCEPT !.pc = p, !.up = FALSE, !.ask = NoAsk] \in LifeType
    BY AskTypes DEF LifeType, LifePcs
  <2>3. [r EXCEPT !.pc = p, !.up = FALSE, !.ask = NoAsk].ask = NoAsk
    BY DEF LifeType
  <2>4. NoAsk.st = "none"
    BY DEF NoAsk
  <2> QED BY <2>1, <2>2, <2>3, <2>4
<1>3. LivesStay
  <2>1. lives' = [lives EXCEPT ![l] = e]
    BY <1>1, <1>2
  <2> QED BY <1>2, <2>1, LifeStays
<1> DEFINE g == lives[l].gen
           o == [own EXCEPT !.conn = IF @ = g THEN 0 ELSE @,
                            !.connecting = IF @ = g THEN 0 ELSE @]
<1>4. /\ o \in OwnType /\ o.ending /\ o.gen = own.gen /\ o.conn \in {own.conn, 0}
      /\ o.ever = own.ever /\ o.last = own.last
  BY OwnTypes DEF OwnType
<1>5. own' \in {o, Fail(o)}
  BY DEF Detached
<1> HIDE DEF o
<1>6. OwnStays
  BY <1>4, <1>5 DEF Fail, OwnType, OwnStays
<1> QED BY <1>3, <1>6

\* The handlers of an ending owner open nothing.
LEMMA HandlerStays ==
  ASSUME IInv, own.ending, NEW c \in Calls, Handler(c)
  PROVE  OwnStays /\ LivesStay
<1> USE DEF IInv
<1>1. CASE AcquireRefused(c)
  BY <1>1, UnaskedStays, RefuseStays, FailStays DEF AcquireRefused
<1>2. CASE Describe(c)
  BY <1>2, UnaskedStays, RefuseStays, FailStays DEF Describe
<1>3. CASE PublishFirst(c) \/ PublishAgain(c)
  BY <1>3, UnaskedStays, RefuseStays, FailStays DEF PublishFirst, PublishAgain
<1>4. CASE PublishRefused(c)
  BY <1>4, UnaskedStays, RefuseStays, FailStays DEF PublishRefused
<1>5. CASE Admitted(c)
  BY <1>5, UnaskedStays, RefuseStays, FailStays DEF Admitted
<1>6. CASE NotAdmitted(c)
  BY <1>6, UnaskedStays, RefuseStays, FailStays DEF NotAdmitted
<1>7. CASE Rehelloed(c)
  BY <1>7, RefuseStays, UnaskedStays DEF Rehelloed, Current
<1>16. CASE Rehello(c)
  <2>1. OwnStays
    BY <1>16, FailStays DEF Rehello
  <2>2. \A l \in DOMAIN lives : lives'[l].ask.st # "none" => lives[l].ask.st # "none"
    BY <1>16, LivesTypes DEF Rehello, Hello, LifeType
  <2> QED BY <1>16, <2>1, <2>2, RehelloSame DEF SameLives, LivesStay
<1>8. CASE RehelloLost(c)
  BY <1>8, UnaskedStays, RefuseStays, FailStays DEF RehelloLost
<1>9. CASE RehelloCut(c)
  BY <1>9, UnaskedStays, RefuseStays, FailStays DEF RehelloCut
<1>10. CASE c = "end" /\ (EndBegins \/ EndJoined)
  BY <1>10, UnaskedStays, RefuseStays, FailStays DEF EndBegins, EndJoined, Owns
<1>11. CASE c = "tree" /\ TreeBegins
  BY <1>11, UnaskedStays, RefuseStays, FailStays DEF TreeBegins, Owns
<1>12. CASE c = "drain" /\ DrainBegins
  <2>1. OwnStays
    BY <1>12, OwnTypes DEF DrainBegins, OwnType, OwnStays
  <2> QED BY <1>12, <2>1, UnaskedStays DEF DrainBegins
<1>13. CASE c = "drain" /\ (DrainSends \/ DrainEnds)
  BY <1>13, UnaskedStays, RefuseStays, FailStays DEF DrainSends, DrainEnds, Owns
<1>14. CASE c = "drain" /\ DrainAppended
  <2>1. CASE own' = [own EXCEPT !.queue = Tail(own.queue)]
    BY <1>14, <2>1, OwnTypes, UnaskedStays DEF DrainAppended, OwnType, OwnStays
  <2>2. CASE Refuse("drain") \/ UNCHANGED own
    BY <1>14, <2>2, RefuseStays, FailStays, UnaskedStays DEF DrainAppended
  <2> QED BY <1>14, <2>1, <2>2 DEF DrainAppended
<1>15. CASE c = "tool" /\ (ToolBegins \/ ToolPublic \/ ToolResult \/ ToolReturns)
  BY <1>15, UnaskedStays, RefuseStays, FailStays DEF ToolBegins, ToolPublic, ToolResult,
    ToolReturns
<1> QED BY <1>1, <1>2, <1>3, <1>4, <1>5, <1>6, <1>7, <1>8, <1>9, <1>10, <1>11, <1>12, <1>13,
  <1>14, <1>15, <1>16 DEF Handler

\* Nor do its lifetimes.
LEMMA EndedStays ==
  ASSUME IInv, own.ending, [Next]_vars
  PROVE  OwnStays /\ LivesStay
<1> USE DEF IInv
<1>1. CASE Extension
  BY <1>1, FailStays, UnaskedStays DEF Extension, SessionStart, Rename, Prompt, TurnBegins,
       CompactBegins, BeforeTree, ToolCall, MessageShown, SessionShutdown, ToolAborted
<1>2. CASE Response
  BY <1>2, FailStays, UnaskedStays DEF Response, Settled, Compacted, CompactFailed,
       TreeAnswered, TreeDone, TreeFails, LaterDrain, EndAnswered, NativeExit, CallLost,
       NativeAppend, AppendLost
<1>3. CASE Supervisor
  <2>1. CASE SupersedeAcked
    BY <2>1, OwnTypes, UnaskedStays DEF SupersedeAcked, OwnType, OwnStays
  <2>2. CASE HostStops \/ OwnerClosed
    BY <2>2, FailStays, UnaskedStays DEF HostStops, OwnerClosed
  <2>3. CASE OwnerCloses
    <3>1. OwnStays
      BY <2>3, OwnTypes DEF OwnerCloses, OwnType, OwnStays
    <3>2. /\ DOMAIN lives' = DOMAIN lives
          /\ \A l \in DOMAIN lives : lives'[l].ask = lives[l].ask
      BY <2>3, LivesTypes DEF OwnerCloses, LifeType
    <3>3. Len(lives') = Len(lives)
      BY <2>3, <3>2, SupervisorTypes, LenProperties DEF Supervisor, TypeInv
    <3> QED BY <3>1, <3>2, <3>3 DEF LivesStay
  <2> QED BY <1>3, <2>1, <2>2, <2>3 DEF Supervisor
<1>4. ASSUME NEW c \in Calls, Handler(c) PROVE OwnStays /\ LivesStay
  BY <1>4, HandlerStays
<1>5. ASSUME NEW l \in DOMAIN lives, Lifetime(l) PROVE OwnStays /\ LivesStay
  <2>1. CASE HelloFails(l) \/ ServeEnds(l)
    BY <2>1, DetachedStays DEF HelloFails, ServeEnds
  <2>2. CASE DialEnds(l) \/ Dialled(l)
    BY <2>2, FailStays, UnaskedStays DEF DialEnds, Dialled, Current
  <2>3. CASE HelloSent(l) \/ HelloObserved(l)
    BY <2>3 DEF HelloSent, HelloObserved, Admitting, Current
  <2> QED BY <1>5, <2>1, <2>2, <2>3 DEF Lifetime
<1>6. ASSUME NEW l \in DOMAIN lives, Bus(l) PROVE OwnStays /\ LivesStay
  BY <1>6, FailStays, UnaskedStays DEF Bus, LinkLoss, Supersede, Arrive, Served, Hangup
<1>7. ASSUME NEW m \in Msgs, Deliver(m) PROVE OwnStays /\ LivesStay
  <2>1. UNCHANGED lives
    BY <1>7 DEF Deliver, DeliverRefused, DeliverBegins, DeliverChecks, DeliverAppended,
         DeliverQueues, DeliverQueued
  <2>2. \/ UNCHANGED own
        \/ \E res, o : Settle(m, res, o) /\ o \in {own, [own EXCEPT !.tree = FALSE]}
    BY <1>7 DEF Deliver, DeliverRefused, DeliverBegins, DeliverChecks, DeliverAppended,
         DeliverQueues, DeliverQueued
  <2> QED BY <2>1, <2>2, SettleStays, FailStays, UnaskedStays
<1>8. CASE UNCHANGED vars
  BY <1>8, FailStays, UnaskedStays DEF vars
<1> QED BY <1>1, <1>2, <1>3, <1>4, <1>5, <1>6, <1>7, <1>8 DEF Next

SupInv == sup # "none" => own.ending

\* Once superseded, always ending.
LEMMA SupStep == IInv /\ SupInv /\ [Next]_vars => SupInv'
<1> SUFFICES ASSUME IInv, SupInv, [Next]_vars PROVE SupInv'
  OBVIOUS
<1>1. CASE sup # "none"
  BY <1>1, EndedStays DEF SupInv, OwnStays
<1>2. CASE UNCHANGED sup
  <2> QED BY <1>1, <1>2 DEF SupInv
<1>3. ASSUME NEW l \in DOMAIN lives, Supersede(l) PROVE SupInv'
  BY <1>3, OwnTypes DEF Supersede, SupInv, IInv, OwnType
<1>4. CASE SupersedeAcked
  BY <1>1, <1>4 DEF SupersedeAcked
<1>5. \/ UNCHANGED sup \/ SupersedeAcked \/ \E l \in DOMAIN lives : Supersede(l)
  <2>1. CASE Extension
    BY <2>1 DEF Extension, SessionStart, Rename, Prompt, TurnBegins,
       CompactBegins, BeforeTree, ToolCall, MessageShown, SessionShutdown, ToolAborted
  <2>2. CASE Response
    BY <2>2 DEF Response, Settled, Compacted, CompactFailed,
       TreeAnswered, TreeDone, TreeFails, LaterDrain, EndAnswered, NativeExit, CallLost,
       NativeAppend, AppendLost
  <2>3. CASE Supervisor
    BY <2>3 DEF Supervisor, HostStops, OwnerCloses, OwnerClosed
  <2>4. ASSUME NEW c \in Calls, Handler(c) PROVE UNCHANGED sup
    BY <2>4 DEF Handler, AcquireRefused, Describe, PublishFirst, PublishAgain, PublishRefused,
         Admitted, NotAdmitted, Rehello, Rehelloed, RehelloLost, RehelloCut, EndBegins, EndJoined,
         TreeBegins, DrainBegins, DrainSends, DrainEnds, DrainAppended, ToolBegins, ToolPublic,
         ToolResult, ToolReturns
  <2>5. ASSUME NEW l \in DOMAIN lives, Lifetime(l) \/ Bus(l) PROVE UNCHANGED sup \/ Supersede(l)
    BY <2>5 DEF Lifetime, DialEnds, Dialled, HelloSent, HelloObserved, HelloFails, ServeEnds,
       Detached, Bus, LinkLoss, Arrive
  <2>6. ASSUME NEW m \in Msgs, Deliver(m) PROVE UNCHANGED sup
    BY <2>6 DEF Deliver, DeliverRefused, DeliverBegins, DeliverChecks, DeliverAppended,
       DeliverQueues, DeliverQueued
  <2>7. CASE UNCHANGED vars
    BY <2>7 DEF vars
  <2> QED BY <2>1, <2>2, <2>3, <2>4, <2>5, <2>6, <2>7 DEF Next
<1> QED BY <1>2, <1>3, <1>4, <1>5

\* From session.superseded on, whatever was under way, the owner opens no connection,
\* installs none, begins no lifetime, admits the answer to no hello and decides on no further
\* one: every one of those steps looks at the ending flag that the classification set.  A
\* second hello decided on before it may still be said: that step looks at no flag.
THEOREM SupersededIsFinalAlways == Spec => SupersededIsFinal
<1> DEFINE Step == sup # "none" =>
                     /\ own'.gen = own.gen /\ Len(lives') = Len(lives)
                     /\ own'.conn \in {own.conn, 0}
                     /\ own'.ever = own.ever /\ own'.last = own.last
                     /\ \A l \in DOMAIN lives :
                          lives'[l].ask.st # "none" => lives[l].ask.st # "none"
<1>1. Init => SupInv
  BY DEF Init, SupInv
<1>2. IInv /\ SupInv /\ [Next]_vars => [Step]_vars
  BY EndedStays DEF SupInv, OwnStays, LivesStay
<1> QED BY <1>1, <1>2, SupStep, Invariant, PTL DEF Spec, SupersededIsFinal
=============================================================================
