--------------------------- MODULE PiDeliveryProofs ---------------------------
(***************************************************************************)
(* Machine-checked proofs about the deliveries of PiOwner: what a receipt  *)
(* says is what happened to the message, the name on the bus is the        *)
(* latest one, and the queue, the slots of the deliveries and the          *)
(* connections a launch dials keep their limits.                           *)
(*                                                                         *)
(* They add to the invariant of PiOwnerProofs how connections are numbered *)
(* (LinkInv), where every message is (MessageInv) and what the bus knows   *)
(* of the session (NameInv); and, for the limits, what the calls and the   *)
(* queue are bounded by (RangeInv), when a lifetime may dial again         *)
(* (DialInv) and who has a slot (SlotInv).                                 *)
(***************************************************************************)
EXTENDS PiOwnerProofs, FiniteSetTheorems

Over == {"none", "done"}

\* The owner's installed connection is the latest, of the lifetime it publishes; no two
\* lifetimes have had the same one; a delivery is of a connection its lifetime has had.
LinkInv ==
  /\ own.public \in {0, Len(lives)}
  /\ own.conn # 0 => /\ own.public # 0 /\ lives[own.public].pc = "serve"
                     /\ lives[own.public].gen = own.conn /\ own.conn = own.gen
  /\ \A l \in DOMAIN lives :
       /\ lives[l].gen <= own.gen
       /\ lives[l].pc \in {"hello", "serve"} => lives[l].gen # 0
       /\ lives[l].pc = "serve" /\ own.public = l => own.conn = lives[l].gen
  /\ \A k, l \in DOMAIN lives : k # l /\ lives[k].gen = lives[l].gen => lives[k].gen = 0
  /\ \A m \in Msgs : del[m].pc \notin Over =>
       del[m].life \in DOMAIN lives /\ del[m].gen <= lives[del[m].life].gen

-----------------------------------------------------------------------------
(* What most steps keep.                                                   *)

OwnSame == /\ own'.public = own.public /\ own'.conn = own.conn
           /\ own'.gen = own.gen /\ own'.id = own.id
Stays(r, e) == /\ e.gen = r.gen /\ e.pc = r.pc /\ e.id = r.id
               /\ r.gone => e.gone
LivesSame == /\ Len(lives') = Len(lives) /\ DOMAIN lives' = DOMAIN lives
             /\ \A l \in DOMAIN lives : Stays(lives[l], lives'[l])
DelSame == \A m \in Msgs : del'[m].pc \notin Over =>
             /\ del[m].pc \notin Over
             /\ del'[m].life = del[m].life /\ del'[m].gen = del[m].gen

\* Such a step keeps the connections' invariant; a dial may also end.
LEMMA LinkSame ==
  ASSUME LinkInv, OwnSame, DelSame, Len(lives') = Len(lives), DOMAIN lives' = DOMAIN lives,
         \A l \in DOMAIN lives : /\ lives'[l].gen = lives[l].gen
                                 /\ \/ lives'[l].pc = lives[l].pc
                                    \/ lives[l].pc = "dial" /\ lives'[l].pc = "done",
         lives \in Seq(LifeType)
  PROVE  LinkInv'
<1>1. own.public # 0 => own.public \in DOMAIN lives
  BY LenProperties DEF LinkInv
<1> QED BY <1>1 DEF LinkInv, OwnSame, DelSame

\* Failing, and the changes of flags, keep the session and its connection.
LEMMA OwnChange ==
  ASSUME TypeInv,
         \/ own' = own \/ own' = Fail(own)
         \/ own' = [own EXCEPT !.tree = TRUE] \/ own' = [own EXCEPT !.tree = FALSE]
         \/ own' = [own EXCEPT !.ever = TRUE, !.last = ""]
         \/ own' = [own EXCEPT !.ending = TRUE] \/ own' = [own EXCEPT !.down = TRUE]
         \/ own' = [own EXCEPT !.ending = TRUE, !.down = TRUE]
  PROVE  /\ OwnSame
         /\ own'.queue = own.queue /\ own'.name = own.name /\ own'.ver = own.ver
         /\ own.ending => own'.ending
         /\ own.down => own'.down
         /\ own'.connecting = own.connecting
BY OwnTypes DEF OwnType, OwnSame, Fail

\* One lifetime changes where it is.
LEMMA SetSame ==
  ASSUME TypeInv, NEW l, NEW e, lives' = [lives EXCEPT ![l] = e],
         l \in DOMAIN lives => e \in LifeType /\ Stays(lives[l], e)
  PROVE  LivesSame
<1>1. /\ Len(lives') = Len(lives) /\ DOMAIN lives' = DOMAIN lives
      /\ \A j \in DOMAIN lives : lives'[j] = IF j = l THEN e ELSE lives[j]
  BY SetLife DEF TypeInv
<1>2. ASSUME NEW j \in DOMAIN lives PROVE Stays(lives[j], lives'[j])
  BY <1>1 DEF Stays
<1> QED BY <1>1, <1>2 DEF LivesSame

\* What happens to a lifetime where it is: a hello is answered, or its answer read, the
\* transport ends, the bus drops the name, the session is withdrawn.
LEMMA LivesChange ==
  ASSUME TypeInv, NEW l, NEW a \in AskType, NEW b \in Values,
         \/ lives' = lives
         \/ lives' = [lives EXCEPT ![l].ask = a]
         \/ lives' = [lives EXCEPT ![l].ask = a, ![l].bus = b]
         \/ lives' = [lives EXCEPT ![l].up = FALSE]
         \/ lives' = [lives EXCEPT ![l].bus = b]
         \/ lives' = [lives EXCEPT ![l].gone = TRUE, ![l].up = FALSE]
  PROVE  LivesSame
<1>1. CASE lives' = lives
  BY <1>1 DEF LivesSame, Stays
<1>2. ASSUME NEW r \in LifeType
      PROVE  /\ [r EXCEPT !.ask = a] \in LifeType /\ Stays(r, [r EXCEPT !.ask = a])
             /\ [r EXCEPT !.ask = a, !.bus = b] \in LifeType
             /\ Stays(r, [r EXCEPT !.ask = a, !.bus = b])
             /\ [r EXCEPT !.up = FALSE] \in LifeType /\ Stays(r, [r EXCEPT !.up = FALSE])
             /\ [r EXCEPT !.bus = b] \in LifeType /\ Stays(r, [r EXCEPT !.bus = b])
             /\ [r EXCEPT !.gone = TRUE, !.up = FALSE] \in LifeType
             /\ Stays(r, [r EXCEPT !.gone = TRUE, !.up = FALSE])
  BY DEF LifeType, Stays
<1>3. CASE lives' = [lives EXCEPT ![l].ask = a]
  <2>1. lives' = [lives EXCEPT ![l] = [lives[l] EXCEPT !.ask = a]]
    BY <1>3
  <2> QED BY <2>1, <1>2, LivesTypes, SetSame
<1>4. CASE lives' = [lives EXCEPT ![l].ask = a, ![l].bus = b]
  <2>1. lives' = [lives EXCEPT ![l] = [lives[l] EXCEPT !.ask = a, !.bus = b]]
    BY <1>4
  <2> QED BY <2>1, <1>2, LivesTypes, SetSame
<1>5. CASE lives' = [lives EXCEPT ![l].up = FALSE]
  <2>1. lives' = [lives EXCEPT ![l] = [lives[l] EXCEPT !.up = FALSE]]
    BY <1>5
  <2> QED BY <2>1, <1>2, LivesTypes, SetSame
<1>6. CASE lives' = [lives EXCEPT ![l].bus = b]
  <2>1. lives' = [lives EXCEPT ![l] = [lives[l] EXCEPT !.bus = b]]
    BY <1>6
  <2> QED BY <2>1, <1>2, LivesTypes, SetSame
<1>7. CASE lives' = [lives EXCEPT ![l].gone = TRUE, ![l].up = FALSE]
  <2>1. lives' = [lives EXCEPT ![l] = [lives[l] EXCEPT !.gone = TRUE, !.up = FALSE]]
    BY <1>7
  <2> QED BY <2>1, <1>2, LivesTypes, SetSame
<1> QED BY <1>1, <1>3, <1>4, <1>5, <1>6, <1>7

\* The bus answers a hello.
LEMMA HelloSame ==
  ASSUME TypeInv, NEW l, NEW name \in Values, NEW ver \in Nat, Hello(l, name, ver)
  PROVE  LivesSame
BY AskTypes, LivesChange DEF Hello

-----------------------------------------------------------------------------
(* The connections.                                                        *)

\* owner.ready's first publication, and session_end's withdrawal.
Publishes(c) ==
  /\ gate = Free /\ own.public = 0 /\ own.conn = 0 /\ own.connecting = 0 /\ own.id = NoId
  /\ lives' = Append(lives, [id |-> call[c].id, pc |-> "dial", gone |-> FALSE,
                             ready |-> FALSE, gen |-> 0, up |-> FALSE,
                             bus |-> "", ask |-> NoAsk])
  /\ own' = [own EXCEPT !.public = Len(lives) + 1, !.id = call[c].id,
                        !.name = call[c].arg, !.ver = @ + 1]
Withdraws ==
  /\ gate = Free /\ own.public # 0
  /\ own' = [own EXCEPT !.public = 0, !.conn = 0, !.connecting = 0, !.id = NoId,
                        !.name = "", !.last = call["end"].arg, !.queue = <<>>, !.tree = FALSE]
  /\ lives' = [lives EXCEPT ![own.public].gone = TRUE, ![own.public].up = FALSE]

\* Refusing changes flags only.
LEMMA RefuseSame ==
  ASSUME TypeInv, NEW c \in Calls, Refuse(c) \/ RefuseReady(c)
  PROVE  /\ own' = own \/ own' = Fail(own)
         /\ OwnSame
         /\ own'.queue = own.queue /\ own'.name = own.name /\ own'.ver = own.ver
         /\ own.ending => own'.ending
         /\ own.down => own'.down
<1>1. own' = own \/ own' = Fail(own)
  BY DEF Refuse, RefuseReady
<1> QED BY <1>1, OwnChange

\* What the second hello of a session changes.
LEMMA RehelloIs ==
  ASSUME TypeInv, NEW c \in Calls, Rehello(c)
  PROVE  /\ UNCHANGED <<call, own>>
         /\ \E a \in AskType, b \in Values :
              \/ lives' = lives
              \/ lives' = [lives EXCEPT ![call[c].life].ask = a]
              \/ lives' = [lives EXCEPT ![call[c].life].ask = a, ![call[c].life].bus = b]
<1>1. call[c].arg \in Values /\ UNCHANGED <<call, own>>
  BY DEF TypeInv, CallType, Rehello
<1>2. CASE call[c].life \in DOMAIN lives
  <2>1. lives[call[c].life].ask.ver \in Nat
    BY <1>2, LivesTypes DEF LifeType, AskType
  <2>2. PICK v \in Nat : Hello(call[c].life, call[c].arg, v)
    BY <2>1 DEF Rehello
  <2>3. [st |-> "yes", ver |-> v] \in AskType /\ [st |-> "no", ver |-> v] \in AskType
    BY DEF AskType
  <2> QED BY <1>1, <2>2, <2>3 DEF Hello
<1>3. CASE call[c].life \notin DOMAIN lives
  <2>1. \A x, y : /\ [lives EXCEPT ![call[c].life].ask = x] = lives
                  /\ [lives EXCEPT ![call[c].life].ask = x, ![call[c].life].bus = y] = lives
    BY <1>3, LenProperties DEF TypeInv
  <2>2. UNCHANGED lives
    BY <2>1 DEF Rehello, Hello
  <2> QED BY <1>1, <2>2, AskTypes
<1> QED BY <1>2, <1>3

\* It leaves the lifetimes in place.
LEMMA RehelloLives ==
  ASSUME TypeInv, NEW c \in Calls, Rehello(c)
  PROVE  LivesSame /\ UNCHANGED own
<1>1. PICK a \in AskType, b \in Values :
         \/ lives' = lives
         \/ lives' = [lives EXCEPT ![call[c].life].ask = a]
         \/ lives' = [lives EXCEPT ![call[c].life].ask = a, ![call[c].life].bus = b]
  BY RehelloIs
<1> DEFINE l == call[c].life
<1>2. \/ lives' = lives
      \/ lives' = [lives EXCEPT ![l].ask = a]
      \/ lives' = [lives EXCEPT ![l].ask = a, ![l].bus = b]
  BY <1>1
<1> HIDE DEF l
<1>3. LivesSame
  BY <1>2, LivesChange
<1> QED BY <1>3, RehelloIs

\* All the other handlers leave the session, its connection and the lifetimes in place.
LEMMA HandlerSame ==
  ASSUME TypeInv, NEW c \in Calls, Handler(c)
  PROVE  (OwnSame /\ LivesSame) \/ Publishes(c) \/ Withdraws
<1>0. NoAsk \in AskType /\ "" \in Values /\ (UNCHANGED lives => LivesSame)
  BY AskTypes, ValueTypes, LivesChange
<1>1. CASE AcquireRefused(c) \/ Admitted(c) \/ RehelloLost(c)
  BY <1>0, <1>1, OwnChange DEF AcquireRefused, Admitted, RehelloLost
<1>2. CASE Describe(c) \/ PublishRefused(c) \/ NotAdmitted(c)
  BY <1>0, <1>2, RefuseSame, OwnChange DEF Describe, PublishRefused, NotAdmitted
<1>3. CASE PublishFirst(c)
  BY <1>0, <1>3, RefuseSame, OwnChange DEF PublishFirst, Publishes
<1>4. CASE PublishAgain(c)
  <2>1. PICK v \in Nat : own' = [own EXCEPT !.name = call[c].arg, !.ver = v] /\ own'.ver = v
    BY <1>4, NumberTypes, OwnTypes DEF PublishAgain, OwnType, TypeInv
  <2>2. call[c].arg \in Values
    BY DEF TypeInv, CallType
  <2>3. OwnSame /\ own'.name \in Values
    BY <2>1, <2>2, OwnTypes DEF OwnType, OwnSame
  <2>5. [st |-> "due", ver |-> v] \in AskType
    BY DEF AskType
  <2>6. \/ UNCHANGED lives
        \/ lives' = [lives EXCEPT ![own.public].ask = [st |-> "due", ver |-> v]]
    BY <1>4, <2>1 DEF PublishAgain
  <2>4. LivesSame
    BY <1>0, <2>5, <2>6, LivesChange
  <2> QED BY <2>3, <2>4
<1>10. CASE Rehello(c)
  BY <1>0, <1>10, OwnChange, RehelloLives
<1>5. CASE Rehelloed(c) \/ RehelloCut(c)
  <2>1. OwnSame
    BY <1>5, RefuseSame, OwnChange DEF Rehelloed, RehelloCut
  <2>2. LivesSame
    BY <1>0, <1>5, LivesChange DEF Rehelloed, RehelloCut
  <2> QED BY <2>1, <2>2
<1>6. CASE c = "end" /\ EndBegins
  <2>1. CASE Refuse("end") /\ UNCHANGED lives
    BY <1>0, <1>6, <2>1, RefuseSame
  <2> QED BY <1>6, <2>1 DEF EndBegins, Owns, Withdraws
<1>7. CASE EndJoined \/ DrainSends \/ ToolBegins \/ ToolPublic \/ ToolResult \/ ToolReturns
  BY <1>0, <1>7, OwnChange DEF EndJoined, DrainSends, ToolBegins, ToolPublic, ToolResult,
       ToolReturns
<1>8. CASE \/ c = "tree" /\ TreeBegins
           \/ c = "drain" /\ (DrainBegins \/ DrainEnds)
  <2>1. CASE Refuse(c)
    BY <1>0, <1>8, <2>1, RefuseSame DEF TreeBegins, DrainBegins, DrainEnds
  <2> QED BY <1>0, <1>8, <2>1, OwnChange DEF TreeBegins, DrainBegins, DrainEnds
<1>9. CASE c = "drain" /\ DrainAppended
  <2>1. CASE Refuse(c)
    BY <1>0, <1>9, <2>1, RefuseSame DEF DrainAppended
  <2>2. CASE UNCHANGED own
    BY <1>0, <1>9, <2>2, OwnChange DEF DrainAppended
  <2>3. CASE own' = [own EXCEPT !.queue = Tail(own.queue)]
    <3>1. OwnSame
      BY <2>3, OwnTypes DEF OwnType, OwnSame
    <3> QED BY <1>0, <1>9, <3>1 DEF DrainAppended
  <2> QED BY <1>9, <2>1, <2>2, <2>3 DEF DrainAppended
<1> QED BY <1>1, <1>2, <1>3, <1>4, <1>5, <1>6, <1>7, <1>8, <1>9, <1>10 DEF Handler, Rehello

\* The handlers leave the deliveries to themselves.
LEMMA HandlerApart ==
  ASSUME NEW c \in Calls, Handler(c)
  PROVE  UNCHANGED <<del, sup, host>>
BY DEF Handler, AcquireRefused, Describe, PublishFirst, PublishAgain, PublishRefused,
     Admitted, NotAdmitted, Rehello, Rehelloed, RehelloLost, RehelloCut, EndBegins, EndJoined,
     TreeBegins, DrainBegins, DrainSends, DrainEnds, DrainAppended, ToolBegins, ToolPublic,
     ToolResult, ToolReturns

\* A new lifetime is the last one.
LEMMA PublishLink ==
  ASSUME TypeInv, LinkInv, NEW c \in Calls, Publishes(c), UNCHANGED del
  PROVE  LinkInv'
<1> DEFINE r == [id |-> call[c].id, pc |-> "dial", gone |-> FALSE, ready |-> FALSE,
                 gen |-> 0, up |-> FALSE, bus |-> "", ask |-> NoAsk]
<1>1. lives' = Append(lives, r) /\ r.gen = 0 /\ r.pc = "dial"
  BY DEF Publishes
<1> HIDE DEF r
<1>2. /\ Len(lives') = Len(lives) + 1 /\ DOMAIN lives' = 1..(Len(lives) + 1)
      /\ DOMAIN lives = 1..Len(lives) /\ Len(lives) \in Nat
      /\ \A l \in DOMAIN lives : lives'[l] = lives[l]
      /\ lives'[Len(lives) + 1] = r
  BY <1>1, AppendProperties, LenProperties DEF TypeInv
<1>3. own'.public = Len(lives) + 1 /\ own'.conn = 0 /\ own'.gen = own.gen /\ own.gen \in Nat
  BY OwnTypes DEF Publishes, OwnType
<1>4. /\ own'.public \in {0, Len(lives')} /\ own'.conn = 0
  BY <1>2, <1>3
<1>5. ASSUME NEW l \in DOMAIN lives'
      PROVE  /\ lives'[l].gen <= own'.gen
             /\ lives'[l].pc \in {"hello", "serve"} => lives'[l].gen # 0
             /\ ~(lives'[l].pc = "serve" /\ own'.public = l)
  BY <1>1, <1>2, <1>3 DEF LinkInv
<1>6. ASSUME NEW k \in DOMAIN lives', NEW l \in DOMAIN lives', k # l,
             lives'[k].gen = lives'[l].gen
      PROVE  lives'[k].gen = 0
  BY <1>1, <1>2, <1>6 DEF LinkInv
<1>7. ASSUME NEW m \in Msgs, del'[m].pc \notin Over
      PROVE  del'[m].life \in DOMAIN lives' /\ del'[m].gen <= lives'[del'[m].life].gen
  BY <1>2, <1>7 DEF LinkInv
<1> QED BY <1>4, <1>5, <1>6, <1>7 DEF LinkInv

\* A withdrawn session has no connection.
LEMMA WithdrawLink ==
  ASSUME TypeInv, LinkInv, Withdraws, UNCHANGED del
  PROVE  LinkInv'
<1>1. LivesSame
  BY AskTypes, ValueTypes, LivesChange DEF Withdraws
<1>2. own'.public = 0 /\ own'.conn = 0 /\ own'.gen = own.gen
  BY OwnTypes DEF Withdraws, OwnType
<1>3. DOMAIN lives = 1..Len(lives)
  BY LenProperties DEF TypeInv
<1> QED BY <1>1, <1>2, <1>3 DEF LinkInv, LivesSame, Stays

\* The handlers keep the connections.
LEMMA HandlerLink ==
  ASSUME TypeInv, LinkInv, NEW c \in Calls, Handler(c)
  PROVE  LinkInv'
<1>1. UNCHANGED del
  BY HandlerApart
<1>2. DelSame
  BY <1>1 DEF DelSame
<1>3. CASE OwnSame /\ LivesSame
  BY <1>2, <1>3, LinkSame DEF LivesSame, Stays, TypeInv
<1> QED BY <1>1, <1>3, HandlerSame, PublishLink, WithdrawLink

\* A lifetime dials: the owner had no connection.
LEMMA DialLink ==
  ASSUME TypeInv, LinkInv, NEW l \in DOMAIN lives, Dialled(l) \/ DialEnds(l)
  PROVE  LinkInv'
<1>1. lives[l] \in LifeType /\ lives[l].pc = "dial" /\ own.gen \in Nat /\ UNCHANGED del
  BY LivesTypes, OwnTypes DEF Dialled, DialEnds, OwnType
<1>2. CASE UNCHANGED own /\ lives' = [lives EXCEPT ![l].pc = "done"]
  <2>1. PICK e \in LifeType : /\ e = [lives[l] EXCEPT !.pc = "done"]
                              /\ e.pc = "done" /\ e.gen = lives[l].gen
    <3>1. PICK r \in LifeType : r = lives[l]
      BY <1>1
    <3>2. /\ [r EXCEPT !.pc = "done"] \in LifeType
          /\ [r EXCEPT !.pc = "done"].pc = "done" /\ [r EXCEPT !.pc = "done"].gen = r.gen
      BY DEF LifeType, LifePcs
    <3> QED BY <3>1, <3>2
  <2>2. lives' = [lives EXCEPT ![l] = e]
    BY <1>2, <2>1
  <2>3. /\ Len(lives') = Len(lives) /\ DOMAIN lives' = DOMAIN lives
        /\ \A j \in DOMAIN lives : lives'[j] = IF j = l THEN e ELSE lives[j]
    BY <2>2, SetLife DEF TypeInv
  <2> QED BY <1>1, <1>2, <2>1, <2>3, LinkSame DEF OwnSame, DelSame, TypeInv
<1>3. CASE Dialled(l) /\ Current(l)
  <2>1. PICK g \in Nat : g = own.gen + 1
    BY <1>1
  <2>2. PICK e \in LifeType : /\ e = [lives[l] EXCEPT !.pc = "hello", !.gen = g, !.up = TRUE,
                                                    !.bus = "", !.ask = NoAsk]
                              /\ e.pc = "hello" /\ e.gen = g
    <3>1. PICK r \in LifeType : r = lives[l]
      BY <1>1
    <3>2. [r EXCEPT !.pc = "hello", !.gen = g, !.up = TRUE, !.bus = "", !.ask = NoAsk]
            \in LifeType
      BY AskTypes, ValueTypes DEF LifeType, LifePcs
    <3>3. [r EXCEPT !.pc = "hello", !.gen = g, !.up = TRUE, !.bus = "", !.ask = NoAsk].gen = g
      BY DEF LifeType
    <3>4. [r EXCEPT !.pc = "hello", !.gen = g, !.up = TRUE, !.bus = "", !.ask = NoAsk].pc
             = "hello"
      BY DEF LifeType
    <3> QED BY <3>1, <3>2, <3>3, <3>4
  <2>3. lives' = [lives EXCEPT ![l] = e]
    BY <1>3, <2>1, <2>2 DEF Dialled
  <2>4. /\ Len(lives') = Len(lives) /\ DOMAIN lives' = DOMAIN lives
        /\ \A j \in DOMAIN lives : lives'[j] = IF j = l THEN e ELSE lives[j]
    BY <2>3, SetLife DEF TypeInv
  <2>5. own'.gen = g /\ own'.public = own.public /\ own'.conn = own.conn /\ own.public = l
    BY <1>3, <2>1, OwnTypes DEF Dialled, Current, OwnType
  <2>6. own.conn = 0
    BY <1>1, <2>5 DEF LinkInv
  <2>7. ASSUME NEW j \in DOMAIN lives
        PROVE  lives[j].gen \in Nat /\ lives[j].gen <= own.gen /\ lives[j].gen < g
    BY <1>1, <2>1, LivesTypes DEF LifeType, LinkInv
  <2>8. /\ lives'[l].gen = g /\ lives'[l].pc = "hello" /\ g # 0
        /\ \A j \in DOMAIN lives \ {l} : lives'[j] = lives[j]
    <3>1. g # 0
      BY <1>1, <2>1
    <3>2. lives'[l] = e
      BY <2>4
    <3>3. \A j \in DOMAIN lives \ {l} : lives'[j] = lives[j]
      BY <2>4
    <3> QED BY <2>2, <3>1, <3>2, <3>3
  <2>9. ASSUME NEW j \in DOMAIN lives
        PROVE  /\ lives'[j].gen <= own'.gen
               /\ lives'[j].pc \in {"hello", "serve"} => lives'[j].gen # 0
               /\ lives'[j].pc = "serve" => own'.public # j
    <3>1. CASE j = l
      BY <2>1, <2>5, <2>8, <3>1
    <3>2. CASE j # l
      BY <2>1, <2>5, <2>7, <2>8, <3>2 DEF LinkInv
    <3> QED BY <3>1, <3>2
  <2>10. ASSUME NEW k \in DOMAIN lives, NEW j \in DOMAIN lives, k # j,
                lives'[k].gen = lives'[j].gen
         PROVE  lives'[k].gen = 0
    <3>1. k # l /\ j # l
      BY <2>7, <2>8, <2>10
    <3> QED BY <2>8, <2>10, <3>1 DEF LinkInv
  <2>11. ASSUME NEW m \in Msgs, del'[m].pc \notin Over
         PROVE  del'[m].life \in DOMAIN lives' /\ del'[m].gen <= lives'[del'[m].life].gen
    <3>1. del[m].life \in DOMAIN lives /\ del[m].gen <= lives[del[m].life].gen
          /\ del'[m] = del[m] /\ del[m].gen \in Nat
      BY <1>1, <2>11 DEF LinkInv, TypeInv, DelType
    <3>2. CASE del[m].life = l
      BY <2>1, <2>4, <2>7, <2>8, <3>1, <3>2
    <3>3. CASE del[m].life # l
      BY <2>4, <2>8, <3>1, <3>3
    <3> QED BY <3>2, <3>3
  <2>12. own'.public \in {0, Len(lives')} /\ own'.conn = 0
    BY <2>4, <2>5, <2>6 DEF LinkInv
  <2> QED BY <2>4, <2>9, <2>10, <2>11, <2>12 DEF LinkInv
<1> QED BY <1>2, <1>3 DEF Dialled, DialEnds

\* The lifetime that dialled last installs its connection.
LEMMA ObserveLink ==
  ASSUME TypeInv, LinkInv, NEW l \in DOMAIN lives, HelloObserved(l)
  PROVE  LinkInv'
<1>0. UNCHANGED del /\ DelSame
  BY DEF HelloObserved, DelSame
<1>1. CASE UNCHANGED own /\ lives' = [lives EXCEPT ![l].ask = NoAsk]
  <2>1. OwnSame /\ LivesSame
    BY <1>1, AskTypes, ValueTypes, LivesChange DEF OwnSame
  <2> QED BY <1>0, <2>1, LinkSame DEF LivesSame, Stays, TypeInv
<1>2. CASE /\ own' = [own EXCEPT !.conn = lives[l].gen, !.connecting = 0,
                                 !.ever = TRUE, !.last = ""]
           /\ lives' = [lives EXCEPT ![l].pc = "serve", ![l].ready = TRUE, ![l].ask = NoAsk]
  <2>1. PICK e \in LifeType : /\ e = [lives[l] EXCEPT !.pc = "serve", !.ready = TRUE,
                                                    !.ask = NoAsk]
                              /\ e.pc = "serve" /\ e.gen = lives[l].gen
    <3>1. PICK r \in LifeType : r = lives[l]
      BY LivesTypes
    <3>2. /\ [r EXCEPT !.pc = "serve", !.ready = TRUE, !.ask = NoAsk] \in LifeType
          /\ [r EXCEPT !.pc = "serve", !.ready = TRUE, !.ask = NoAsk].gen = r.gen
          /\ [r EXCEPT !.pc = "serve", !.ready = TRUE, !.ask = NoAsk].pc = "serve"
      BY AskTypes DEF LifeType, LifePcs
    <3> QED BY <3>1, <3>2
  <2>2. lives' = [lives EXCEPT ![l] = e]
    BY <1>2, <2>1
  <2>3. /\ Len(lives') = Len(lives) /\ DOMAIN lives' = DOMAIN lives
        /\ \A j \in DOMAIN lives : lives'[j] = IF j = l THEN e ELSE lives[j]
    BY <2>2, SetLife DEF TypeInv
  <2>4. own'.conn = lives[l].gen /\ own'.gen = own.gen /\ own'.public = own.public
    BY <1>2, OwnTypes DEF OwnType
  <2>5. own.public = l /\ own.gen = lives[l].gen /\ lives[l].gen # 0 /\ l # 0
    <3>1. DOMAIN lives = 1..Len(lives)
      BY DEF TypeInv
    <3> QED BY <3>1 DEF HelloObserved, Admitting, Current, LinkInv
  <2>6. /\ lives'[l].pc = "serve" /\ lives'[l].gen = lives[l].gen
        /\ \A j \in DOMAIN lives : lives'[j].gen = lives[j].gen
        /\ \A j \in DOMAIN lives \ {l} : lives'[j] = lives[j]
    BY <2>1, <2>3
  <2>7. /\ own'.public \in {0, Len(lives')} /\ own'.public = l
        /\ own'.conn = own'.gen /\ own'.conn = lives'[l].gen
    BY <2>3, <2>4, <2>5, <2>6 DEF LinkInv
  <2>8. \A j \in DOMAIN lives : lives'[j].pc \in {"hello", "serve"} => lives'[j].gen # 0
    BY <2>5, <2>6 DEF LinkInv
  <2>9. \A m \in Msgs : del'[m].pc \notin Over =>
          del'[m].life \in DOMAIN lives' /\ del'[m].gen <= lives'[del'[m].life].gen
    BY <1>0, <2>3, <2>6 DEF LinkInv
  <2> QED BY <2>3, <2>4, <2>5, <2>6, <2>7, <2>8, <2>9 DEF LinkInv
<1> QED BY <1>1, <1>2 DEF HelloObserved

\* A lifetime that leaves its connection leaves the owner with another, or with none.
LEMMA DetachedLink ==
  ASSUME TypeInv, LinkInv, NEW l \in DOMAIN lives, NEW bad \in BOOLEAN, Detached(l, bad),
         lives[l].pc \in {"hello", "serve"}
  PROVE  LinkInv'
<1>0. UNCHANGED del
  BY DEF Detached
<1>1. PICK p \in {"dial", "done"} :
        lives' = [lives EXCEPT ![l].pc = p, ![l].up = FALSE, ![l].ask = NoAsk]
  BY DEF Detached, RetryOrEnd
<1>2. PICK e \in LifeType : /\ e = [lives[l] EXCEPT !.pc = p, !.up = FALSE, !.ask = NoAsk]
                            /\ e.pc = p /\ e.gen = lives[l].gen
  <2>1. PICK r \in LifeType : r = lives[l]
    BY LivesTypes
  <2>2. /\ [r EXCEPT !.pc = p, !.up = FALSE, !.ask = NoAsk] \in LifeType
        /\ [r EXCEPT !.pc = p, !.up = FALSE, !.ask = NoAsk].pc = p
        /\ [r EXCEPT !.pc = p, !.up = FALSE, !.ask = NoAsk].gen = r.gen
    BY AskTypes DEF LifeType, LifePcs
  <2> QED BY <2>1, <2>2
<1>3. lives' = [lives EXCEPT ![l] = e]
  BY <1>1, <1>2
<1>4. /\ Len(lives') = Len(lives) /\ DOMAIN lives' = DOMAIN lives
      /\ \A j \in DOMAIN lives : lives'[j] = IF j = l THEN e ELSE lives[j]
  BY <1>3, SetLife DEF TypeInv
<1> DEFINE g == lives[l].gen
           o == [own EXCEPT !.conn = IF @ = g THEN 0 ELSE @,
                            !.connecting = IF @ = g THEN 0 ELSE @]
<1>5. /\ o \in OwnType /\ o.public = own.public /\ o.gen = own.gen
      /\ o.conn = IF own.conn = g THEN 0 ELSE own.conn
  BY OwnTypes DEF OwnType
<1>6. own' \in {o, Fail(o)}
  BY DEF Detached
<1> HIDE DEF o
<1>7. /\ own'.public = own.public /\ own'.gen = own.gen
      /\ own'.conn = IF own.conn = g THEN 0 ELSE own.conn
  BY <1>5, <1>6 DEF Fail, OwnType
<1>8. g # 0
  BY DEF LinkInv
<1>9. own'.conn # 0 => own.public # l
  BY <1>7 DEF LinkInv
<1>10. own.public # 0 => own.public \in DOMAIN lives
  BY LenProperties DEF LinkInv, TypeInv
<1>11. own'.conn # 0 => /\ own'.public # 0 /\ lives'[own'.public].pc = "serve"
                        /\ lives'[own'.public].gen = own'.conn /\ own'.conn = own'.gen
  BY <1>4, <1>7, <1>9, <1>10 DEF LinkInv
<1>12. ASSUME NEW j \in DOMAIN lives, lives'[j].pc = "serve", own'.public = j
       PROVE  own'.conn = lives'[j].gen
  BY ZenonT(60), <1>2, <1>4, <1>7, <1>8, <1>12 DEF LinkInv
<1>13. /\ \A j \in DOMAIN lives : lives'[j].gen = lives[j].gen
       /\ \A j \in DOMAIN lives : lives'[j].pc \in {"hello", "serve"} => lives'[j].pc = lives[j].pc
  BY <1>2, <1>4
<1>14. \A m \in Msgs : del'[m].pc \notin Over =>
          del'[m].life \in DOMAIN lives' /\ del'[m].gen <= lives'[del'[m].life].gen
  BY <1>0, <1>4, <1>13 DEF LinkInv
<1> QED BY <1>4, <1>7, <1>11, <1>12, <1>13, <1>14 DEF LinkInv

\* The public lifetimes keep the connections.
LEMMA LifetimeLink ==
  ASSUME TypeInv, LinkInv, NEW l \in DOMAIN lives, Lifetime(l)
  PROVE  LinkInv'
<1>1. CASE HelloSent(l)
  <2>1. own.name \in Values /\ own.ver \in Nat
    BY OwnTypes DEF OwnType
  <2>2. LivesSame /\ OwnSame /\ DelSame
    BY <1>1, <2>1, HelloSame DEF HelloSent, OwnSame, DelSame
  <2> QED BY <2>2, LinkSame DEF LivesSame, Stays, TypeInv
<1>2. CASE HelloFails(l) \/ ServeEnds(l)
  BY <1>2, DetachedLink DEF HelloFails, ServeEnds
<1> QED BY <1>1, <1>2, DialLink, ObserveLink DEF Lifetime

\* Requests of the bus come over connections.
LEMMA BusLink ==
  ASSUME TypeInv, LinkInv, NEW l \in DOMAIN lives, Bus(l)
  PROVE  LinkInv'
<1>0. /\ UNCHANGED lives \/ Hangup(l) => LivesSame
      /\ lives' = [lives EXCEPT ![l].bus = ""] => LivesSame
  BY AskTypes, ValueTypes, LivesChange DEF Hangup
<1>1. CASE LinkLoss(l) \/ Supersede(l)
  <2>1. LivesSame /\ OwnSame /\ DelSame
    BY <1>0, <1>1, OwnChange DEF LinkLoss, Supersede, Hangup, DelSame
  <2> QED BY <2>1, LinkSame DEF LivesSame, Stays, TypeInv
<1>2. ASSUME NEW m \in Msgs, Arrive(l, m) PROVE LinkInv'
  <2>1. LivesSame /\ OwnSame
    BY <1>0, <1>2, OwnChange DEF Arrive
  <2>2. ASSUME NEW n \in Msgs, del'[n].pc \notin Over
        PROVE  /\ del'[n].life \in DOMAIN lives'
               /\ del'[n].gen <= lives'[del'[n].life].gen
    <3>1. CASE n # m
      <4>1. del'[n] = del[n]
        BY <1>2, <3>1 DEF Arrive, TypeInv
      <4> QED BY <2>1, <2>2, <4>1 DEF LinkInv, LivesSame, Stays
    <3>2. CASE n = m
      <4>1. CASE del' = [del EXCEPT ![m].pc = "done"]
        BY <2>2, <3>2, <4>1 DEF TypeInv, DelType, Over
      <4>2. CASE del' = [del EXCEPT ![m].pc = "slot", ![m].gen = lives[l].gen, ![m].life = l]
        <5>1. del'[m].gen = lives[l].gen /\ del'[m].life = l /\ lives[l].gen \in Nat
          BY <4>2, LivesTypes DEF TypeInv, DelType, LifeType
        <5> QED BY <2>1, <3>2, <5>1 DEF LivesSame, Stays
      <4> QED BY <1>2, <4>1, <4>2 DEF Arrive
    <3> QED BY <3>1, <3>2
  <2>3. own.public # 0 => own.public \in DOMAIN lives
    BY LenProperties DEF LinkInv, TypeInv
  <2> QED BY SMTT(30), <2>1, <2>2, <2>3 DEF LinkInv, LivesSame, Stays, OwnSame
<1> QED BY <1>1, <1>2 DEF Bus

\* A delivery stays with its connection.
LEMMA DeliverSame ==
  ASSUME TypeInv, NEW m \in Msgs, Deliver(m)
  PROVE  /\ DelSame /\ OwnSame /\ LivesSame /\ UNCHANGED <<ext, call, lives, sup, host>>
         /\ \A n \in Msgs \ {m} : del'[n] = del[n]
         /\ del'[m].life = del[m].life
         /\ own'.name = own.name /\ own'.ver = own.ver
         /\ own.ending => own'.ending
         /\ own.down => own'.down
<1>1. UNCHANGED <<ext, call, lives, sup, host>>
  BY DEF Deliver, DeliverRefused, DeliverBegins, DeliverChecks, DeliverAppended,
       DeliverQueues, DeliverQueued
<1>2. ASSUME NEW res, NEW o, Settle(m, res, o) PROVE
        /\ \A n \in Msgs \ {m} : del'[n] = del[n]
        /\ del'[m].pc = "done" /\ del'[m].life = del[m].life
        /\ own' = o \/ own' = Fail(o)
  BY <1>2 DEF Settle, TypeInv, DelType
<1>3. ASSUME NEW p, NEW i, NEW t,
             \/ del' = [del EXCEPT ![m].pc = p]
             \/ del' = [del EXCEPT ![m].pc = p, ![m].id = i, ![m].tree = t]
      PROVE  /\ \A n \in Msgs \ {m} : del'[n] = del[n]
             /\ del'[m].life = del[m].life /\ del'[m].gen = del[m].gen
  BY <1>3 DEF TypeInv, DelType
<1> DEFINE Ended == \E res, o : /\ Settle(m, res, o)
                                /\ o \in {own, [own EXCEPT !.tree = FALSE],
                                          [own EXCEPT !.queue = Append(own.queue, m)]}
           Moved == /\ UNCHANGED own /\ del[m].pc \notin Over
                    /\ \/ \E p : del' = [del EXCEPT ![m].pc = p]
                       \/ \E p, i, t :
                            del' = [del EXCEPT ![m].pc = p, ![m].id = i, ![m].tree = t]
<1>4. Ended \/ Moved
  <2>1. CASE DeliverRefused(m) \/ DeliverQueued(m)
    BY <2>1 DEF DeliverRefused, DeliverQueued
  <2>2. CASE DeliverBegins(m) \/ DeliverQueues(m)
    BY <2>2 DEF DeliverBegins, DeliverQueues, Over
  <2>3. CASE DeliverChecks(m)
    <3>1. CASE \E res : Settle(m, res, own)
      BY <3>1
    <3>2. CASE /\ UNCHANGED own
               /\ \E p : del' = [del EXCEPT ![m].pc = p, ![m].id = own.id, ![m].tree = own.tree]
      <4>1. del[m].pc = "check"
        BY <2>3 DEF DeliverChecks
      <4>2. del[m].pc \notin Over
        BY <4>1 DEF Over
      <4>3. \E p, i, t : del' = [del EXCEPT ![m].pc = p, ![m].id = i, ![m].tree = t]
        BY <3>2
      <4> QED BY <3>2, <4>2, <4>3
    <3> QED BY <2>3, <3>1, <3>2 DEF DeliverChecks
  <2>4. CASE DeliverAppended(m)
    BY <2>4 DEF DeliverAppended, Over
  <2> QED BY <2>1, <2>2, <2>3, <2>4 DEF Deliver
<1>5. CASE Moved
  BY <1>1, <1>3, <1>5, AskTypes, ValueTypes, LivesChange DEF DelSame, OwnSame
<1>6. CASE Ended
  <2>1. PICK res, o : /\ Settle(m, res, o)
                      /\ o \in {own, [own EXCEPT !.tree = FALSE],
                                [own EXCEPT !.queue = Append(own.queue, m)]}
    BY <1>6
  <2>2. own' = o \/ own' = [o EXCEPT !.down = @ \/ ~o.ending]
    BY <1>2, <2>1 DEF Fail
  <2>3. /\ OwnSame /\ own'.name = own.name /\ own'.ver = own.ver
        /\ own.ending => own'.ending
        /\ own.down => own'.down
    BY SMTT(30), <2>1, <2>2, OwnTypes DEF OwnType, OwnSame
  <2> QED BY <1>1, <1>2, <2>1, <2>3, AskTypes, ValueTypes, LivesChange DEF DelSame, Over
<1> QED BY <1>4, <1>5, <1>6

\* The supervisor's close leaves no connection.
LEMMA SupervisorLink ==
  ASSUME TypeInv, LinkInv, Supervisor
  PROVE  LinkInv'
<1>1. CASE SupersedeAcked \/ HostStops \/ OwnerClosed
  <2>1. LivesSame /\ OwnSame /\ DelSame
    BY <1>1, OwnChange, AskTypes, ValueTypes, LivesChange
      DEF SupersedeAcked, HostStops, OwnerClosed, DelSame
  <2> QED BY <2>1, LinkSame DEF LivesSame, Stays, TypeInv
<1>2. CASE OwnerCloses
  <2>1. own'.public = 0 /\ own'.conn = 0 /\ own'.gen = own.gen /\ UNCHANGED del
    BY <1>2, OwnTypes DEF OwnerCloses, OwnType
  <2>2. DOMAIN lives' = DOMAIN lives
    BY <1>2 DEF OwnerCloses
  <2>3. \A l \in DOMAIN lives : lives'[l].pc = lives[l].pc /\ lives'[l].gen = lives[l].gen
    BY <1>2, LivesTypes DEF OwnerCloses, LifeType
  <2>4. DOMAIN lives = 1..Len(lives)
    BY DEF TypeInv
  <2> QED BY <2>1, <2>2, <2>3, <2>4 DEF LinkInv
<1> QED BY <1>1, <1>2 DEF Supervisor

\* The extension's steps are its own.
LEMMA ExtensionApart ==
  ASSUME Extension \/ Response
  PROVE  UNCHANGED <<own, gate, lives, del, sup, host>>
BY DEF Extension, SessionStart, Rename, Prompt, TurnBegins, CompactBegins, BeforeTree,
     ToolCall, MessageShown, SessionShutdown, ToolAborted, Response, Settled, Compacted,
     CompactFailed, TreeAnswered, TreeDone, TreeFails, LaterDrain, EndAnswered, NativeExit,
     CallLost, NativeAppend, AppendLost

\* Every step keeps the connections.
LEMMA LinkStep ==
  ASSUME TypeInv, LinkInv, [Next]_vars
  PROVE  LinkInv'
<1>1. CASE Extension \/ Response
  BY <1>1, ExtensionApart DEF LinkInv
<1>2. ASSUME NEW c \in Calls, Handler(c) PROVE LinkInv'
  BY <1>2, HandlerLink
<1>3. ASSUME NEW l \in DOMAIN lives, Lifetime(l) \/ Bus(l) PROVE LinkInv'
  BY <1>3, LifetimeLink, BusLink
<1>4. ASSUME NEW m \in Msgs, Deliver(m) PROVE LinkInv'
  BY <1>4, DeliverSame, LinkSame DEF LivesSame, Stays, TypeInv
<1>5. CASE UNCHANGED vars
  BY <1>5 DEF vars, LinkInv
<1> QED BY <1>1, <1>2, <1>3, <1>4, <1>5, SupervisorLink DEF Next

\* A bridge that has ended does not come back.
LEMMA WireStays ==
  ASSUME TypeInv, [Next]_vars
  PROVE  ext'.wire => ext.wire
<1>0. ext \in ExtType
  BY DEF TypeInv
<1>1. CASE UNCHANGED ext
  BY <1>1
<1>2. ASSUME NEW c \in Calls, NEW r \in {"ok", "err"}, Reply(c, r) PROVE ext'.wire => ext.wire
  BY <1>0, <1>2 DEF Reply, Stop, ExtType
<1>3. ASSUME NEW c \in Calls, Handler(c) PROVE ext'.wire => ext.wire
  <2>1. \/ UNCHANGED ext \/ \E r \in {"ok", "err"}, d \in Calls : Reply(d, r)
    BY <1>3 DEF Handler, AcquireRefused, Describe, PublishFirst, PublishAgain, PublishRefused,
         Admitted, NotAdmitted, Rehello, Rehelloed, RehelloLost, RehelloCut, EndBegins, EndJoined,
         TreeBegins, DrainBegins, DrainSends, DrainEnds, DrainAppended, ToolBegins, ToolPublic,
         ToolResult, ToolReturns, Refuse, RefuseReady, Calls
  <2> QED BY <1>1, <1>2, <2>1
<1>4. CASE Extension
  <2>1. CASE \/ \E id \in Ids, t \in Titles : SessionStart(id, t)
             \/ \E t \in Titles : Rename(t)
    BY <1>0, <2>1 DEF SessionStart, Rename, Bound, Event
  <2>2. CASE Prompt \/ TurnBegins \/ CompactBegins \/ BeforeTree \/ ToolCall \/ ToolAborted
    BY <1>0, <2>2 DEF Prompt, TurnBegins, CompactBegins, BeforeTree, ToolCall, ToolAborted,
         Bound, Event
  <2>3. CASE \/ \E m \in Msgs : MessageShown(m)
             \/ \E r \in {"quit", "new"} : SessionShutdown(r)
    BY <1>0, <2>3 DEF MessageShown, SessionShutdown, Bound
  <2> QED BY <1>4, <2>1, <2>2, <2>3 DEF Extension
<1>5. CASE Response
  <2>1. CASE Settled \/ Compacted \/ CompactFailed \/ TreeAnswered \/ TreeDone \/ TreeFails
               \/ LaterDrain
    BY <1>0, <2>1 DEF Settled, Compacted, CompactFailed, TreeAnswered, TreeDone, TreeFails,
         LaterDrain, Bound
  <2>2. CASE EndAnswered
    BY <1>0, <2>2 DEF EndAnswered
  <2>3. CASE NativeExit
    BY <1>0, <2>3 DEF NativeExit, ExtType
  <2>4. ASSUME NEW m \in Msgs, NativeAppend(m) PROVE ext'.wire => ext.wire
    BY <2>4 DEF NativeAppend
  <2> QED BY <1>1, <1>5, <2>1, <2>2, <2>3, <2>4 DEF Response, CallLost, AppendLost
<1>6. CASE \/ Supervisor \/ UNCHANGED vars
           \/ \E l \in DOMAIN lives : Lifetime(l) \/ Bus(l)
  BY ZenonT(60), <1>1, <1>6 DEF vars, Supervisor, SupersedeAcked, HostStops, OwnerCloses, OwnerClosed,
       Lifetime, DialEnds, Dialled, HelloSent, HelloObserved, HelloFails, ServeEnds, Detached,
       Bus, LinkLoss, Supersede, Arrive
<1>7. ASSUME NEW m \in Msgs, Deliver(m) PROVE ext'.wire => ext.wire
  BY <1>1, <1>7, DeliverSame
<1> QED BY <1>3, <1>4, <1>5, <1>6, <1>7 DEF Next

-----------------------------------------------------------------------------
(* The messages.                                                           *)

Held(m) == \E i \in DOMAIN own.queue : own.queue[i] = m
Drained(m) == call["drain"].pc = "append" /\ call["drain"].arg = m

\* Where a message is: not yet given to native, given to it and unanswered, or settled by
\* a receipt that is true.  A drain whose answer the end of the bridge has lost leaves in
\* the queue what native has.
Honest(m) ==
  /\ ext.taken[m] <= 1
  /\ app[m] = "sent" /\ ext.wire => ext.taken[m] = 0
  /\ del[m].pc \in {"none", "slot", "check", "queue", "lock"} =>
       ext.taken[m] = 0 /\ app[m] = "none"
  /\ del[m].pc = "append" => app[m] # "none" /\ (ext.taken[m] = 1 <=> app[m] = "yes")
  /\ del[m].pc # "done" => del[m].res = "none"
  /\ del[m].res = "written" => ext.taken[m] = 1
  /\ del[m].res \in {"rejected", "canceled"} => ext.taken[m] = 0 /\ app[m] # "sent"
  /\ Held(m) => /\ del[m].res = "queued" /\ del[m].life = own.public /\ own.public # 0
                /\ Drained(m) \/ app[m] = "none"
                /\ ext.wire => (ext.taken[m] = 1 <=> Drained(m) /\ app[m] = "yes")
                /\ Drained(m) /\ app[m] = "yes" => ext.taken[m] = 1
  /\ del[m].res = "queued" =>
       /\ del[m].life \in DOMAIN lives
       /\ Held(m) \/ ext.taken[m] = 1 \/ SessionOver(m)

\* A drain in native is of the owner's session, and the queue has every message once.
MessageInv ==
  /\ call["drain"].pc = "append" => own.id = call["drain"].id
  /\ \A i, j \in DOMAIN own.queue : own.queue[i] = own.queue[j] => i = j
  /\ \A m \in Msgs : Honest(m)

\* What is left when the head of a queue goes.
LEMMA TailHeld ==
  ASSUME NEW S, NEW q \in Seq(S), q # <<>>, \A i, j \in DOMAIN q : q[i] = q[j] => i = j
  PROVE  /\ \A i, j \in DOMAIN Tail(q) : Tail(q)[i] = Tail(q)[j] => i = j
         /\ \A n : (\E i \in DOMAIN Tail(q) : Tail(q)[i] = n)
                     <=> n # Head(q) /\ (\E i \in DOMAIN q : q[i] = n)
<1>1. /\ Len(q) \in Nat /\ Len(q) > 0 /\ DOMAIN q = 1..Len(q) /\ Head(q) = q[1]
      /\ DOMAIN Tail(q) = 1..(Len(q) - 1)
      /\ \A i \in 1..(Len(q) - 1) : Tail(q)[i] = q[i + 1]
  BY HeadTailProperties, EmptySeq, LenProperties
<1>2. ASSUME NEW i \in DOMAIN Tail(q), NEW j \in DOMAIN Tail(q), Tail(q)[i] = Tail(q)[j]
      PROVE  i = j
  <2>1. i + 1 \in DOMAIN q /\ j + 1 \in DOMAIN q /\ q[i + 1] = q[j + 1]
    BY <1>1, <1>2
  <2> QED BY <1>1, <2>1
<1>3. ASSUME NEW i \in DOMAIN Tail(q)
      PROVE  Tail(q)[i] # Head(q) /\ \E j \in DOMAIN q : q[j] = Tail(q)[i]
  <2>1. i + 1 \in DOMAIN q /\ i + 1 # 1 /\ 1 \in DOMAIN q /\ q[i + 1] = Tail(q)[i]
    BY <1>1
  <2> QED BY <1>1, <2>1
<1>4. ASSUME NEW j \in DOMAIN q, q[j] # Head(q)
      PROVE  \E i \in DOMAIN Tail(q) : Tail(q)[i] = q[j]
  <2>1. j # 1 /\ j - 1 \in DOMAIN Tail(q) /\ Tail(q)[j - 1] = q[j]
    BY <1>1, <1>4
  <2> QED BY <2>1
<1> QED BY <1>2, <1>3, <1>4

\* What is there when a new message joins a queue.
LEMMA AppendHeld ==
  ASSUME NEW S, NEW q \in Seq(S), NEW m \in S, \A i, j \in DOMAIN q : q[i] = q[j] => i = j,
         \A i \in DOMAIN q : q[i] # m
  PROVE  /\ \A i, j \in DOMAIN Append(q, m) : Append(q, m)[i] = Append(q, m)[j] => i = j
         /\ \A n : (\E i \in DOMAIN Append(q, m) : Append(q, m)[i] = n)
                     <=> n = m \/ (\E i \in DOMAIN q : q[i] = n)
<1>1. /\ Len(q) \in Nat /\ DOMAIN q = 1..Len(q)
      /\ DOMAIN Append(q, m) = 1..(Len(q) + 1)
      /\ \A i \in 1..Len(q) : Append(q, m)[i] = q[i]
      /\ Append(q, m)[Len(q) + 1] = m
  BY AppendProperties, LenProperties
<1>2. \A i \in DOMAIN Append(q, m) : i \in DOMAIN q \/ i = Len(q) + 1
  BY <1>1
<1>3. \A i \in DOMAIN q : i \in DOMAIN Append(q, m) /\ i # Len(q) + 1
  BY <1>1
<1> QED BY <1>1, <1>2, <1>3

\* The lifetimes go on, and what is over stays so.
LivesGoOn == /\ DOMAIN lives \subseteq DOMAIN lives'
             /\ \A l \in DOMAIN lives : lives[l].gone => lives'[l].gone

\* A message that a step leaves alone.
LEMMA Elsewhere ==
  ASSUME ext'.wire => ext.wire, NEW n \in Msgs, Honest(n), LivesGoOn,
         del'[n] = del[n], app'[n] = app[n], ext'.taken[n] = ext.taken[n],
         Held(n)' => /\ Held(n) /\ own'.public = own.public
                     /\ Drained(n)' <=> Drained(n),
         Held(n) => Held(n)' \/ ext.taken[n] = 1 \/ SessionOver(n)'
  PROVE  Honest(n)'
<1>1. SessionOver(n) /\ del[n].life \in DOMAIN lives => SessionOver(n)'
  BY DEF SessionOver, LivesGoOn
<1> QED BY <1>1 DEF Honest, LivesGoOn

\* The drain's call, where no message is in native's hands on its account.
DrainSame == \/ call'["drain"] = call["drain"]
             \/ call["drain"].pc # "append" /\ call'["drain"].pc # "append"

\* Steps that give, settle and queue nothing.
LEMMA MessageQuiet ==
  ASSUME ext'.wire => ext.wire, MessageInv, LivesGoOn, DrainSame, UNCHANGED <<del, app>>, ext'.taken = ext.taken,
         own'.queue = own.queue, own'.public = own.public, own'.id = own.id
  PROVE  MessageInv'
<1>1. \A n \in Msgs : /\ Held(n)' <=> Held(n)
                      /\ Drained(n)' <=> Drained(n)
  BY DEF Held, Drained, DrainSame
<1>2. ASSUME NEW n \in Msgs PROVE Honest(n)'
  BY <1>1, Elsewhere DEF MessageInv
<1> QED BY <1>2 DEF MessageInv, DrainSame

\* Lifetimes that stay where they are go on.
LEMMA SameGoOn ==
  ASSUME LivesSame
  PROVE  LivesGoOn
BY DEF LivesSame, Stays, LivesGoOn

\* What the extension and Pi do, except for native.append, gives native nothing.
LEMMA ResponseMessage ==
  ASSUME ext'.wire => ext.wire, TypeInv, MessageInv, Extension \/ Response,
         ~ \E m \in Msgs : NativeAppend(m) \/ AppendLost(m)
  PROVE  MessageInv'
<1>1. UNCHANGED <<own, lives, del>> /\ LivesGoOn
  BY ExtensionApart DEF LivesGoOn
<1>2. CallsQuiet
  BY ExtensionQuiet, ResponseQuiet DEF Quiet
<1>3. DrainSame
  BY <1>2, Names DEF CallsQuiet, DrainSame
<1>4. UNCHANGED app
  BY DEF Extension, SessionStart, Rename, Prompt, TurnBegins, CompactBegins, BeforeTree,
     ToolCall, MessageShown, SessionShutdown, ToolAborted, Response, Settled, Compacted,
     CompactFailed, TreeAnswered, TreeDone, TreeFails, LaterDrain, EndAnswered, NativeExit,
     CallLost
<1>5. ext'.taken = ext.taken
  BY TakenStep DEF Next
<1> QED BY <1>1, <1>3, <1>4, <1>5, MessageQuiet

\* native.append takes the message, or does not; or its answer is lost.
LEMMA AppendMessage ==
  ASSUME ext'.wire => ext.wire, TypeInv, QueueInv, MessageInv, NEW m \in Msgs, NativeAppend(m) \/ AppendLost(m)
  PROVE  MessageInv'
<1>1. /\ app[m] = "sent" /\ UNCHANGED <<call, own, lives, del>> /\ LivesGoOn
      /\ \A n \in Msgs \ {m} : app'[n] = app[n]
  BY DEF NativeAppend, AppendLost, LivesGoOn, TypeInv
<1>2. /\ \A n \in Msgs \ {m} : ext'.taken[n] = ext.taken[n]
      /\ \/ app'[m] = "yes" /\ ext'.taken[m] = ext.taken[m] + 1 /\ ext.wire
         \/ app'[m] \in {"fail", "branch", "busy"} /\ ext'.taken[m] = ext.taken[m]
  <2> DEFINE e == IF ext.act = "idle" THEN [ext EXCEPT !.branch = FALSE] ELSE ext
  <2>1. e \in ExtType /\ e.taken = ext.taken
    BY DEF TypeInv, ExtType
  <2>2. app \in [Msgs -> Answers] /\ ext.taken \in [Msgs -> Nat]
    BY DEF TypeInv, ExtType
  <2>3. \/ app' = [app EXCEPT ![m] = "fail"] /\ ext' = ext
        \/ app' = [app EXCEPT ![m] = "branch"] /\ ext' = ext
        \/ app' = [app EXCEPT ![m] = "busy"] /\ ext' = ext
        \/ /\ app' = [app EXCEPT ![m] = "yes"] /\ ext.wire
           /\ ext' = [e EXCEPT !.act = "turn", !.admitted = @ \cup {m}, !.taken[m] = @ + 1]
    BY DEF NativeAppend, AppendLost
  <2> HIDE DEF e
  <2>4. \/ app'[m] \in {"fail", "branch", "busy"} /\ ext' = ext
        \/ app'[m] = "yes" /\ ext.wire /\ ext'.taken = [e.taken EXCEPT ![m] = @ + 1]
    BY <2>1, <2>2, <2>3 DEF ExtType
  <2> QED BY <2>1, <2>2, <2>4
<1>3. \A n \in Msgs : /\ Held(n)' <=> Held(n)
                      /\ Drained(n)' <=> Drained(n)
  BY <1>1 DEF Held, Drained
<1>4. ASSUME NEW n \in Msgs PROVE Honest(n)'
  <2>1. CASE n # m
    BY <1>1, <1>2, <1>3, <2>1, Elsewhere DEF MessageInv
  <2>2. CASE n = m
    <3>1. SessionOver(m)' <=> SessionOver(m)
      BY <1>1 DEF SessionOver
    <3>2. Honest(m) /\ ext.taken[m] \in Nat
      BY DEF MessageInv, TypeInv, ExtType
    <3> QED BY <1>1, <1>2, <1>3, <2>2, <3>1, <3>2 DEF Honest
  <2> QED BY <2>1, <2>2
<1> QED BY <1>1, <1>4 DEF MessageInv

\* Only owner.drain sends queued messages, and only behind the gate.
LEMMA HandlerDrain ==
  ASSUME TypeInv, GateInv, NEW c \in Calls, Handler(c),
         ~(c = "drain" /\ (DrainSends \/ DrainAppended))
  PROVE  /\ DrainSame /\ UNCHANGED app
         /\ Publishes(c) \/ Withdraws \/ own'.queue = own.queue
<1> DEFINE Answered == Refuse(c) \/ RefuseReady(c) \/ Reply(c, "ok") \/ Reply(c, "err")
           Queue == Publishes(c) \/ Withdraws \/ own'.queue = own.queue
<1>1. c # "drain" => call'["drain"] = call["drain"]
  <2>1. CASE Answered
    BY <2>1, ReplyTypes, RefuseTypes, Names
  <2>2. CASE ~Answered /\ c # "drain"
    <3>1. \/ UNCHANGED call
          \/ \E p, x : call' = [call EXCEPT ![c].pc = p, ![c].arg = x]
          \/ \E p, x : call' = [call EXCEPT ![c].pc = p, ![c].life = x]
          \/ \E p, x : call' = [call EXCEPT ![c].pc = p, ![c].gen = x]
          \/ \E p, x, y : call' = [call EXCEPT ![c].pc = p, ![c].life = x, ![c].gen = y]
          \/ \E p : call' = [call EXCEPT ![c].pc = p]
          \/ \E x : call' = [call EXCEPT ![c] = x]
      <4>1. CASE AcquireRefused(c) \/ Describe(c)
        BY ZenonT(60), <2>2, <4>1 DEF AcquireRefused, Describe
      <4>2. CASE PublishFirst(c)
        BY <2>2, <4>2 DEF PublishFirst
      <4>6. CASE PublishAgain(c)
        <5>1. call' = [call EXCEPT ![c].pc = "rehello", ![c].life = own.public,
                                   ![c].gen = own.conn]
          BY <2>2, <4>6 DEF PublishAgain
        <5> QED BY <5>1
      <4>3. CASE PublishRefused(c) \/ Admitted(c) \/ NotAdmitted(c) \/ Rehello(c) \/ Rehelloed(c)
                 \/ RehelloLost(c) \/ RehelloCut(c)
        BY <2>2, <4>3 DEF PublishRefused, Admitted, NotAdmitted, Rehello, Rehelloed, RehelloLost,
             RehelloCut
      <4>4. CASE c = "end" /\ (EndBegins \/ EndJoined)
        <5>1. call' = [call EXCEPT ![c].pc = "join", ![c].life = own.public]
          BY <2>2, <4>4 DEF EndBegins, EndJoined
        <5> QED BY <5>1
      <4>7. CASE c = "tree" /\ TreeBegins
        BY <2>2, <4>7 DEF TreeBegins
      <4>5. CASE c = "tool" /\ (ToolBegins \/ ToolPublic \/ ToolResult \/ ToolReturns)
        <5>1. CASE ToolBegins
          BY <2>2, <4>5, <5>1 DEF ToolBegins
        <5>2. CASE ToolPublic
          <6>1. call' = [call EXCEPT ![c].pc = "public", ![c].gen = own.conn]
            BY <2>2, <4>5, <5>2 DEF ToolPublic
          <6> QED BY <6>1
        <5>3. CASE ToolResult \/ ToolReturns
          BY <2>2, <4>5, <5>3 DEF ToolResult, ToolReturns
        <5> QED BY <4>5, <5>1, <5>2, <5>3
      <4>8. CASE c = "drain"
        BY <2>2, <4>8
      <4> QED BY <4>1, <4>2, <4>3, <4>4, <4>5, <4>6, <4>7, <4>8 DEF Handler
    <3> QED BY <2>2, <3>1, OwnTypes, Names
  <2> QED BY <2>1, <2>2
<1>2. c = "drain" => call["drain"].pc # "append" /\ call'["drain"].pc # "append"
  <2>1. CASE Answered
    <3>1. call'[c].pc \in {"none", "ok", "err"}
      BY <2>1, ReplyTypes, RefuseTypes
    <3>2. c = "drain" => call[c].pc # "append"
      BY DEF Handler, AcquireRefused, Describe, PublishFirst, PublishAgain, PublishRefused,
           Admitted, NotAdmitted, Rehello, Rehelloed, RehelloLost, RehelloCut, DrainBegins, DrainEnds
    <3> QED BY <3>1, <3>2
  <2>2. CASE ~Answered /\ c = "drain"
    <3>1. call[c] \in CallType /\ call \in [Calls -> CallType]
      BY OwnTypes
    <3>2. CASE Describe(c)
      BY <2>2, <3>1, <3>2 DEF Describe, CallType
    <3>3. CASE PublishFirst(c)
      <4>1. /\ call[c].pc = "described"
            /\ call' = [call EXCEPT ![c].pc = "admit", ![c].life = Len(lives) + 1]
        BY <2>2, <3>3 DEF PublishFirst
      <4>2. [call[c] EXCEPT !.pc = "admit", !.life = Len(lives) + 1].pc = "admit"
        BY <3>1 DEF CallType
      <4> QED BY <2>2, <3>1, <4>1, <4>2
    <3>5. CASE PublishAgain(c)
      BY <2>2, <3>1, <3>5 DEF PublishAgain, CallType
    <3>4. CASE DrainBegins
      BY <2>2, <3>1, <3>4 DEF DrainBegins, CallType
    <3> QED BY <2>2, <3>2, <3>3, <3>4, <3>5 DEF Handler, AcquireRefused, PublishRefused, Admitted,
         NotAdmitted, Rehello, Rehelloed, RehelloLost, RehelloCut, DrainEnds
  <2> QED BY <2>1, <2>2
<1>3. UNCHANGED app
  BY DEF Handler, AcquireRefused, Describe, PublishFirst, PublishAgain, PublishRefused,
     Admitted, NotAdmitted, Rehello, Rehelloed, RehelloLost, RehelloCut, EndBegins, EndJoined,
     TreeBegins, DrainBegins, DrainEnds, ToolBegins, ToolPublic, ToolResult, ToolReturns
<1>4. Queue
  <2>1. CASE Refuse(c) \/ RefuseReady(c)
    BY <2>1, RefuseSame
  <2>2. CASE UNCHANGED own
    BY <2>2
  <2>3. CASE PublishFirst(c)
    BY <2>1, <2>3 DEF PublishFirst, Publishes
  <2>4. CASE PublishAgain(c)
    BY <2>4, OwnTypes DEF PublishAgain, OwnType
  <2>5. CASE Rehelloed(c)
    BY <2>1, <2>5, OwnTypes DEF Rehelloed, OwnType
  <2>6. CASE c = "end" /\ EndBegins
    BY <2>1, <2>6 DEF EndBegins, Withdraws, Owns
  <2>7. CASE \/ c = "tree" /\ TreeBegins
             \/ c = "drain" /\ DrainBegins
    BY <2>1, <2>2, <2>7, OwnChange DEF TreeBegins, DrainBegins
  <2> QED BY <2>1, <2>2, <2>3, <2>4, <2>5, <2>6, <2>7 DEF Handler, AcquireRefused, Describe,
       PublishRefused, Admitted, NotAdmitted, Rehello, RehelloLost, RehelloCut, EndJoined,
       DrainEnds, ToolBegins, ToolPublic, ToolResult, ToolReturns
<1> QED BY <1>1, <1>2, <1>3, <1>4 DEF DrainSame

\* Handlers give native nothing.
LEMMA HandlerTaken ==
  ASSUME TypeInv, NEW c \in Calls, Handler(c)
  PROVE  ext'.taken = ext.taken
<1>1. \/ UNCHANGED ext \/ Refuse(c) \/ RefuseReady(c) \/ \E r \in {"ok", "err"} : Reply(c, r)
  BY DEF Handler, AcquireRefused, Describe, PublishFirst, PublishAgain, PublishRefused,
       Admitted, NotAdmitted, Rehello, Rehelloed, RehelloLost, RehelloCut, EndBegins, EndJoined,
       TreeBegins, DrainBegins, DrainSends, DrainEnds, DrainAppended, ToolBegins, ToolPublic,
       ToolResult, ToolReturns
<1> QED BY <1>1, ReplyTypes, RefuseTypes

\* A first publication finds nothing queued.
LEMMA PublishMessage ==
  ASSUME ext'.wire => ext.wire, TypeInv, GateInv, MessageInv, NEW c \in Calls, Publishes(c), UNCHANGED <<del, app>>,
         ext'.taken = ext.taken, DrainSame
  PROVE  MessageInv'
<1>1. LivesGoOn
  <2> DEFINE r == [id |-> call[c].id, pc |-> "dial", gone |-> FALSE, ready |-> FALSE,
                   gen |-> 0, up |-> FALSE, bus |-> "", ask |-> NoAsk]
  <2>1. lives' = Append(lives, r)
    BY DEF Publishes
  <2> HIDE DEF r
  <2>2. /\ DOMAIN lives' = 1..(Len(lives) + 1) /\ DOMAIN lives = 1..Len(lives)
        /\ Len(lives) \in Nat /\ \A l \in DOMAIN lives : lives'[l] = lives[l]
    BY <2>1, AppendProperties, LenProperties DEF TypeInv
  <2> QED BY <2>2 DEF LivesGoOn
<1>2. own'.queue = own.queue /\ own.public = 0
  BY OwnTypes DEF Publishes, OwnType
<1>3. \A n \in Msgs : ~Held(n) /\ ~Held(n)'
  BY <1>2 DEF Held, MessageInv, Honest
<1>4. ASSUME NEW n \in Msgs PROVE Honest(n)'
  BY <1>1, <1>3, Elsewhere DEF MessageInv
<1>5. call'["drain"].pc # "append"
  <2>1. call["drain"].pc # "append"
    BY GateFree, Names DEF Publishes
  <2> QED BY <2>1 DEF DrainSame
<1> QED BY <1>2, <1>4, <1>5 DEF MessageInv

\* A withdrawal, or the close, ends the session of all that is queued.
LEMMA DropMessage ==
  ASSUME ext'.wire => ext.wire, TypeInv, MessageInv, DrainSame, call["drain"].pc # "append", LivesGoOn,
         own'.queue = <<>>, UNCHANGED <<del, app>>, ext'.taken = ext.taken,
         own.public \in DOMAIN lives => lives'[own.public].gone
  PROVE  MessageInv'
<1>1. \A n \in Msgs : ~Held(n)'
  BY DEF Held
<1>2. ASSUME NEW n \in Msgs, Held(n) PROVE SessionOver(n)'
  BY <1>2 DEF MessageInv, Honest, SessionOver
<1>3. ASSUME NEW n \in Msgs PROVE Honest(n)'
  BY <1>1, <1>2, Elsewhere DEF MessageInv
<1> QED BY <1>3 DEF MessageInv, DrainSame

\* A drain gives native the head of the queue.
LEMMA DrainSendsMessage ==
  ASSUME ext'.wire => ext.wire, TypeInv, MessageInv, DrainSends
  PROVE  MessageInv'
<1>1. /\ call["drain"].pc = "pump" /\ own.id = call["drain"].id
      /\ UNCHANGED <<ext, own, lives, del>> /\ LivesGoOn /\ own.queue # <<>>
  BY DEF DrainSends, Owns, LivesGoOn
<1>2. PICK m \in Msgs : m = Head(own.queue) /\ Held(m)
  <2>1. /\ Head(own.queue) \in Msgs /\ 1 \in DOMAIN own.queue
        /\ own.queue[1] = Head(own.queue)
    BY <1>1, OwnTypes, HeadTailProperties, EmptySeq, LenProperties
  <2> QED BY <2>1 DEF Held
<1>3. /\ app'[m] = "sent" /\ \A n \in Msgs \ {m} : app'[n] = app[n]
      /\ call'["drain"].pc = "append" /\ call'["drain"].arg = m
      /\ call'["drain"].id = call["drain"].id
  BY <1>2, OwnTypes, Names DEF DrainSends, TypeInv, CallType
<1>4. \A n \in Msgs : Held(n)' <=> Held(n)
  BY <1>1 DEF Held
<1>5. ASSUME NEW n \in Msgs PROVE Honest(n)'
  <2>1. CASE n # m
    BY <1>1, <1>3, <1>4, <2>1, Elsewhere DEF MessageInv, Drained
  <2>2. CASE n = m
    <3>1. Honest(m) /\ ext.taken[m] \in Nat /\ (ext.wire => ext.taken[m] # 1)
      BY <1>1, <1>2 DEF MessageInv, Honest, Drained, TypeInv, ExtType
    <3>2. ext'.taken = ext.taken /\ ext'.wire = ext.wire /\ (ext.wire => ext.taken[m] = 0)
      BY <1>1, <3>1 DEF Honest
    <3>3. SessionOver(m)' <=> SessionOver(m)
      BY <1>1 DEF SessionOver
    <3> QED BY <1>1, <1>2, <1>3, <1>4, <2>2, <3>1, <3>2, <3>3 DEF Honest, Drained
  <2> QED BY <2>1, <2>2
<1> QED BY <1>1, <1>3, <1>5 DEF MessageInv

\* A drain takes native's answer: the message native has leaves the queue.
LEMMA DrainAppendedMessage ==
  ASSUME ext'.wire => ext.wire, IInv, MessageInv, DrainAppended
  PROVE  MessageInv'
<1> USE DEF IInv
<1>1. /\ call["drain"].pc = "append" /\ own.queue # <<>> /\ Head(own.queue) = call["drain"].arg
      /\ own.id = call["drain"].id /\ UNCHANGED <<lives, del>> /\ LivesGoOn
  BY DEF DrainAppended, QueueInv, QueueStable, MessageInv, LivesGoOn
<1>2. PICK m \in Msgs : m = call["drain"].arg /\ Held(m)
  <2>1. /\ Head(own.queue) \in Msgs /\ 1 \in DOMAIN own.queue
        /\ own.queue[1] = Head(own.queue)
    BY <1>1, OwnTypes, HeadTailProperties, EmptySeq, LenProperties
  <2> QED BY <1>1, <2>1 DEF Held
<1>3. /\ app'[m] = "none" /\ \A n \in Msgs \ {m} : app'[n] = app[n]
      /\ app[m] # "sent"
  BY <1>2 DEF DrainAppended, TypeInv
<1>4. /\ call'["drain"].pc # "append" /\ ext'.taken = ext.taken
      /\ own'.public = own.public
      /\ \/ own'.queue = Tail(own.queue) /\ app[m] = "yes"
         \/ own'.queue = own.queue /\ (app[m] # "yes" \/ ~ext.wire)
  <2>1. CASE /\ own' = [own EXCEPT !.queue = Tail(own.queue)] /\ app[m] = "yes"
             /\ call' = [call EXCEPT !["drain"] = [call["drain"] EXCEPT !.pc = "pump", !.arg = ""]]
             /\ UNCHANGED ext
    BY <2>1, OwnTypes, Names DEF OwnType, CallType
  <2>2. CASE Refuse("drain") /\ (app[m] # "yes" \/ ~ext.wire)
    BY <2>2, RefuseTypes, Names
  <2>3. CASE UNCHANGED own /\ Reply("drain", "ok") /\ app[m] # "yes"
    BY <2>3, ReplyTypes, Names
  <2> QED BY <1>1, <1>2, <2>1, <2>2, <2>3 DEF DrainAppended
<1>5. \A n \in Msgs \ {m} : ~Drained(n) /\ ~Drained(n)'
  BY <1>2, <1>4 DEF Drained
<1>6. Drained(m) /\ ~Drained(m)'
  BY <1>1, <1>2, <1>4 DEF Drained
<1>7. CASE own'.queue = Tail(own.queue) /\ app[m] = "yes"
  <2>1. /\ \A n \in Msgs : Held(n)' <=> n # m /\ Held(n)
        /\ \A i, j \in DOMAIN own'.queue : own'.queue[i] = own'.queue[j] => i = j
    <3>1. /\ own.queue \in Seq(Msgs) /\ own.queue # <<>> /\ Head(own.queue) = m
          /\ \A i, j \in DOMAIN own.queue : own.queue[i] = own.queue[j] => i = j
      BY <1>1, <1>2, OwnTypes DEF MessageInv
    <3>2. /\ \A i, j \in DOMAIN Tail(own.queue) :
               Tail(own.queue)[i] = Tail(own.queue)[j] => i = j
          /\ \A n : (\E i \in DOMAIN Tail(own.queue) : Tail(own.queue)[i] = n)
                      <=> n # Head(own.queue) /\ (\E i \in DOMAIN own.queue : own.queue[i] = n)
      BY <3>1, TailHeld
    <3>3. own'.queue = Tail(own.queue)
      BY <1>7
    <3>4. /\ DOMAIN own'.queue = DOMAIN Tail(own.queue)
          /\ \A i \in DOMAIN own'.queue : own'.queue[i] = Tail(own.queue)[i]
      BY <3>3
    <3>5. \A n \in Msgs : Held(n)' <=> \E i \in DOMAIN Tail(own.queue) : Tail(own.queue)[i] = n
      BY <3>4 DEF Held
    <3>6. \A n \in Msgs : Held(n)' <=> n # m /\ Held(n)
      BY <3>1, <3>2, <3>5 DEF Held
    <3> QED BY <3>2, <3>4, <3>6
  <2>2. ASSUME NEW n \in Msgs PROVE Honest(n)'
    <3>1. CASE n # m
      BY <1>1, <1>3, <1>4, <1>5, <2>1, <3>1, Elsewhere DEF MessageInv
    <3>2. CASE n = m
      <4>1. Honest(m) /\ ext.taken[m] = 1
        BY <1>2, <1>6, <1>7 DEF MessageInv, Honest
      <4> QED BY <1>1, <1>2, <1>3, <1>4, <2>1, <3>2, <4>1 DEF Honest
    <3> QED BY <3>1, <3>2
  <2> QED BY <1>4, <2>1, <2>2 DEF MessageInv
<1>8. CASE own'.queue = own.queue /\ (app[m] # "yes" \/ ~ext.wire)
  <2>1. \A n \in Msgs : Held(n)' <=> Held(n)
    BY <1>8 DEF Held
  <2>2. ASSUME NEW n \in Msgs PROVE Honest(n)'
    <3>1. CASE n # m
      BY <1>1, <1>3, <1>4, <1>5, <2>1, <3>1, Elsewhere DEF MessageInv
    <3>2. CASE n = m
      <4>1. /\ Honest(m) /\ ext.taken[m] \in Nat
            /\ ext.wire => ext.taken[m] # 1 /\ app[m] # "yes"
        BY <1>2, <1>8 DEF MessageInv, Honest, TypeInv, ExtType
      <4> QED BY <1>1, <1>2, <1>3, <1>4, <1>6, <2>1, <3>2, <4>1 DEF Honest
    <3> QED BY <3>1, <3>2
  <2> QED BY <1>4, <1>8, <2>2 DEF MessageInv
<1> QED BY <1>4, <1>7, <1>8

\* The handlers keep the messages.
LEMMA HandlerMessage ==
  ASSUME ext'.wire => ext.wire, IInv, LinkInv, MessageInv, NEW c \in Calls, Handler(c)
  PROVE  MessageInv'
<1> USE DEF IInv
<1>1. CASE c = "drain" /\ DrainSends
  BY <1>1, DrainSendsMessage
<1>2. CASE c = "drain" /\ DrainAppended
  BY <1>2, DrainAppendedMessage
<1>3. CASE ~(c = "drain" /\ (DrainSends \/ DrainAppended))
  <2>1. /\ DrainSame /\ UNCHANGED <<del, app>> /\ ext'.taken = ext.taken
    BY <1>3, HandlerDrain, HandlerApart, HandlerTaken
  <2>2. CASE Publishes(c)
    BY <2>1, <2>2, PublishMessage
  <2>3. CASE Withdraws
    <3>1. LivesGoOn
      BY <2>3, AskTypes, ValueTypes, LivesChange, SameGoOn DEF Withdraws
    <3>2. own'.queue = <<>>
      BY <2>3, OwnTypes DEF Withdraws, OwnType
    <3>3. own.public \in DOMAIN lives => lives'[own.public].gone
      BY <2>3, LivesTypes DEF Withdraws, LifeType
    <3>4. call["drain"].pc # "append"
      BY <2>3, GateFree, Names DEF Withdraws
    <3> QED BY <2>1, <3>1, <3>2, <3>3, <3>4, DropMessage
  <2>4. CASE ~Publishes(c) /\ ~Withdraws
    <3>1. OwnSame /\ LivesGoOn /\ own'.queue = own.queue
      BY <1>3, <2>4, HandlerSame, HandlerDrain, SameGoOn
    <3> QED BY <2>1, <3>1, MessageQuiet DEF OwnSame
  <2> QED BY <2>2, <2>3, <2>4
<1> QED BY <1>1, <1>2, <1>3

\* A delivery under way is not queued.
LEMMA NotHeld ==
  ASSUME MessageInv, NEW m \in Msgs, del[m].pc # "done"
  PROVE  ~Held(m) /\ del[m].res = "none"
BY DEF MessageInv, Honest

\* A delivery's step leaves the other messages alone, unless it queues its own.
LEMMA DeliverOthers ==
  ASSUME ext'.wire => ext.wire, TypeInv, MessageInv, NEW m \in Msgs, Deliver(m) \/ (\E l \in DOMAIN lives : Arrive(l, m)),
         \A n \in Msgs \ {m} : app'[n] = app[n] /\ (Held(n)' <=> Held(n))
  PROVE  /\ \A n \in Msgs \ {m} : Honest(n)'
         /\ UNCHANGED <<ext, call>> /\ LivesGoOn /\ own'.public = own.public /\ own'.id = own.id
<1>1. /\ UNCHANGED <<ext, call>> /\ LivesGoOn /\ own'.public = own.public /\ own'.id = own.id
      /\ \A n \in Msgs \ {m} : del'[n] = del[n]
  <2>1. CASE Deliver(m)
    BY <2>1, DeliverSame, SameGoOn DEF OwnSame
  <2>2. ASSUME NEW l \in DOMAIN lives, Arrive(l, m)
        PROVE  /\ UNCHANGED <<ext, call>> /\ LivesGoOn /\ OwnSame
               /\ \A n \in Msgs \ {m} : del'[n] = del[n]
    <3>1. LivesGoOn
      BY <2>2, AskTypes, ValueTypes, LivesChange, SameGoOn DEF Arrive, Hangup
    <3>2. OwnSame
      BY <2>2, OwnChange DEF Arrive
    <3> QED BY <2>2, <3>1, <3>2 DEF Arrive, TypeInv
  <2> QED BY <2>1, <2>2 DEF OwnSame
<1>2. \A n \in Msgs : Drained(n)' <=> Drained(n)
  BY <1>1 DEF Drained
<1>3. ASSUME NEW n \in Msgs \ {m} PROVE Honest(n)'
  BY <1>1, <1>2, Elsewhere DEF MessageInv
<1> QED BY <1>1, <1>3

\* A delivery that is not over moves on, or ends without being queued.
LEMMA MoveMessage ==
  ASSUME ext'.wire => ext.wire, TypeInv, MessageInv, NEW m \in Msgs, Deliver(m) \/ (\E l \in DOMAIN lives : Arrive(l, m)),
         del[m].pc # "done", own'.queue = own.queue,
         \A n \in Msgs \ {m} : app'[n] = app[n],
         app'[m] = "sent" => ext.taken[m] = 0,
         del'[m].pc \in {"none", "slot", "check", "queue", "lock"} =>
           ext.taken[m] = 0 /\ app'[m] = "none",
         del'[m].pc = "append" => app'[m] # "none" /\ (ext.taken[m] = 1 <=> app'[m] = "yes"),
         del'[m].pc # "done" => del'[m].res = "none",
         del'[m].res # "queued",
         del'[m].res = "written" => ext.taken[m] = 1,
         del'[m].res \in {"rejected", "canceled"} => ext.taken[m] = 0 /\ app'[m] # "sent"
  PROVE  MessageInv'
<1>1. \A n \in Msgs : Held(n)' <=> Held(n)
  BY DEF Held
<1>2. /\ \A n \in Msgs \ {m} : Honest(n)'
      /\ UNCHANGED <<ext, call>> /\ LivesGoOn /\ own'.public = own.public /\ own'.id = own.id
  BY <1>1, DeliverOthers
<1>3. Honest(m)'
  BY <1>1, <1>2, NotHeld DEF Honest, MessageInv
<1> QED BY <1>2, <1>3 DEF MessageInv

\* A request arrives.
LEMMA ArriveMessage ==
  ASSUME ext'.wire => ext.wire, TypeInv, MessageInv, NEW l \in DOMAIN lives, NEW m \in Msgs, Arrive(l, m)
  PROVE  MessageInv'
<1>1. del[m] \in DelType /\ del[m].pc = "none" /\ UNCHANGED app
  BY DEF Arrive, TypeInv
<1>2. own'.queue = own.queue
  BY OwnChange DEF Arrive
<1>3. del'[m].pc \in {"done", "slot"} /\ del'[m].res = del[m].res
  <2>1. CASE del' = [del EXCEPT ![m].pc = "done"]
    BY <1>1, <2>1 DEF TypeInv, DelType
  <2>2. CASE del' = [del EXCEPT ![m].pc = "slot", ![m].gen = lives[l].gen, ![m].life = l]
    BY <1>1, <2>2 DEF TypeInv, DelType
  <2> QED BY <2>1, <2>2 DEF Arrive
<1>4. ext.taken[m] = 0 /\ app[m] = "none" /\ del[m].res = "none"
  BY <1>1 DEF MessageInv, Honest
<1> QED BY <1>1, <1>2, <1>3, <1>4, MoveMessage

\* What a settled delivery is.
LEMMA SettleIs ==
  ASSUME TypeInv, NEW m \in Msgs, NEW res, NEW o, Settle(m, res, o)
  PROVE  del'[m].pc = "done" /\ del'[m].res = res /\ del'[m].life = del[m].life
BY DEF Settle, TypeInv, DelType

\* The end of a delivery leaves the queue to its owner.
LEMMA SettleQueue ==
  ASSUME TypeInv, NEW m \in Msgs, NEW res, NEW o \in {own, [own EXCEPT !.tree = FALSE]},
         Settle(m, res, o)
  PROVE  own'.queue = own.queue
BY OwnTypes DEF Settle, Fail, OwnType

\* The deliveries keep the messages.
LEMMA DeliverMessage ==
  ASSUME ext'.wire => ext.wire, IInv, LinkInv, MessageInv, NEW m \in Msgs, Deliver(m)
  PROVE  MessageInv'
<1> USE DEF IInv
<1>0. Honest(m)
  BY DEF MessageInv
<1>1. CASE DeliverRefused(m)
  <2>1. PICK res \in {"canceled", "error"} : Settle(m, res, own)
    BY <1>1 DEF DeliverRefused
  <2>2. /\ ext.taken[m] = 0 /\ app[m] = "none" /\ UNCHANGED app /\ del[m].pc = "slot"
    BY <1>0, <1>1 DEF DeliverRefused, Honest
  <2> QED BY <2>1, <2>2, SettleIs, SettleQueue, MoveMessage
<1>2. CASE DeliverBegins(m)
  <2>1. /\ ext.taken[m] = 0 /\ app[m] = "none" /\ UNCHANGED app /\ del[m].pc = "slot"
        /\ del[m].res = "none"
    BY <1>0, <1>2 DEF DeliverBegins, Honest
  <2>2. CASE Settle(m, "canceled", own)
    BY <2>1, <2>2, SettleIs, SettleQueue, MoveMessage
  <2>3. CASE del' = [del EXCEPT ![m].pc = "check"] /\ UNCHANGED own
    <3>1. del'[m].pc = "check" /\ del'[m].res = "none"
      BY <2>1, <2>3 DEF TypeInv, DelType
    <3> QED BY <2>1, <2>3, <3>1, MoveMessage
  <2> QED BY <1>2, <2>2, <2>3 DEF DeliverBegins
<1>3. CASE DeliverChecks(m)
  <2>1. /\ ext.taken[m] = 0 /\ app[m] = "none" /\ del[m].pc = "check" /\ del[m].res = "none"
    BY <1>0, <1>3 DEF DeliverChecks, Honest
  <2>2. ASSUME NEW res \in {"error", "rejected"}, Settle(m, res, own), UNCHANGED app
        PROVE  MessageInv'
    BY <2>1, <2>2, SettleIs, SettleQueue, MoveMessage
  <2>3. ASSUME NEW p \in {"queue", "append"}, UNCHANGED own,
               del' = [del EXCEPT ![m].pc = p, ![m].id = own.id, ![m].tree = own.tree],
               app' = IF p = "queue" THEN app ELSE [app EXCEPT ![m] = "sent"]
        PROVE  MessageInv'
    <3>1. del'[m].pc = p /\ del'[m].res = "none"
      BY <2>1, <2>3 DEF TypeInv, DelType
    <3>2. /\ \A n \in Msgs \ {m} : app'[n] = app[n]
          /\ p = "queue" => app'[m] = "none"
          /\ p = "append" => app'[m] = "sent"
      BY <2>1, <2>3 DEF TypeInv
    <3>3. own'.queue = own.queue
      BY <2>3
    <3>4. CASE p = "queue"
      BY <2>1, <3>1, <3>2, <3>3, <3>4, MoveMessage
    <3>5. CASE p = "append"
      <4>1. ext.taken[m] = 1 <=> app'[m] = "yes"
        BY <2>1, <3>2, <3>5
      <4> QED BY <2>1, <3>1, <3>2, <3>3, <3>5, <4>1, MoveMessage
    <3> QED BY <3>4, <3>5
  <2> QED BY <1>3, <2>2, <2>3 DEF DeliverChecks
<1>4. CASE DeliverAppended(m)
  <2>1. /\ del[m].pc = "append" /\ app[m] # "none" /\ (ext.taken[m] = 1 <=> app[m] = "yes")
        /\ del[m].res = "none" /\ ext.taken[m] \in Nat /\ ext.taken[m] <= 1
        /\ app[m] = "sent" => ext.taken[m] = 0
    BY <1>0, <1>4 DEF DeliverAppended, Honest, TypeInv, ExtType
  <2>2. /\ \A n \in Msgs \ {m} : app'[n] = app[n]
        /\ app'[m] = IF app[m] = "sent" THEN "sent" ELSE "none"
    BY <1>4 DEF DeliverAppended, TypeInv
  <2>3. ASSUME NEW res \in {"written", "rejected", "error"},
               NEW o \in {own, [own EXCEPT !.tree = FALSE]}, Settle(m, res, o),
               res = "written" => app[m] = "yes",
               res = "rejected" => app[m] = "branch"
        PROVE  MessageInv'
    <3>1. del'[m].pc = "done" /\ del'[m].res = res
      BY <2>3, SettleIs
    <3>2. own'.queue = own.queue
      BY <2>3, SettleQueue
    <3>3. res = "written" => ext.taken[m] = 1
      BY <2>1, <2>3
    <3>4. res = "rejected" => ext.taken[m] = 0 /\ app'[m] # "sent"
      BY <2>1, <2>2, <2>3
    <3>5. app'[m] = "sent" => ext.taken[m] = 0
      BY <2>1, <2>2
    <3> QED BY <2>1, <2>2, <2>3, <3>1, <3>2, <3>3, <3>4, <3>5, MoveMessage
  <2>4. CASE app[m] = "busy" /\ del' = [del EXCEPT ![m].pc = "queue"] /\ UNCHANGED own
    <3>1. del'[m].pc = "queue" /\ del'[m].res = "none"
      BY <2>1, <2>4 DEF TypeInv, DelType
    <3>2. ext.taken[m] = 0
      BY <2>1, <2>4
    <3> QED BY <2>1, <2>2, <2>4, <3>1, <3>2, MoveMessage
  <2> QED BY <1>4, <2>3, <2>4 DEF DeliverAppended
<1>5. CASE DeliverQueues(m)
  <2>1. /\ ext.taken[m] = 0 /\ app[m] = "none" /\ UNCHANGED app /\ del[m].pc = "queue"
        /\ del[m].res = "none"
    BY <1>0, <1>5 DEF DeliverQueues, Honest
  <2>2. CASE Settle(m, "canceled", own)
    BY <2>1, <2>2, SettleIs, SettleQueue, MoveMessage
  <2>3. CASE del' = [del EXCEPT ![m].pc = "lock"] /\ UNCHANGED own
    <3>1. del'[m].pc = "lock" /\ del'[m].res = "none"
      BY <2>1, <2>3 DEF TypeInv, DelType
    <3> QED BY <2>1, <2>3, <3>1, MoveMessage
  <2> QED BY <1>5, <2>2, <2>3 DEF DeliverQueues
<1>6. CASE DeliverQueued(m)
  <2>1. /\ ext.taken[m] = 0 /\ app[m] = "none" /\ UNCHANGED app /\ del[m].pc = "lock"
        /\ del[m].res = "none" /\ ~Held(m)
    BY <1>0, <1>6, NotHeld DEF DeliverQueued, Honest
  <2>2. CASE Settle(m, "error", own)
    BY <2>1, <2>2, SettleIs, SettleQueue, MoveMessage
  <2>3. CASE /\ Settle(m, "queued", [own EXCEPT !.queue = Append(own.queue, m)])
             /\ own.gen = del[m].gen /\ own.conn # 0
    <3>1. own'.queue = Append(own.queue, m) /\ own'.public = own.public
      <4> DEFINE o == [own EXCEPT !.queue = Append(own.queue, m)]
      <4>1. o \in [DOMAIN own -> {o[k] : k \in DOMAIN own}] /\ "down" \in DOMAIN own
        BY OwnTypes DEF OwnType
      <4>2. o.queue = Append(own.queue, m) /\ o.public = own.public
        BY OwnTypes DEF OwnType
      <4>3. own' = o \/ own' = Fail(o)
        BY <2>3 DEF Settle
      <4> HIDE DEF o
      <4>4. Fail(o).queue = o.queue /\ Fail(o).public = o.public
        BY DEF Fail
      <4> QED BY <4>2, <4>3, <4>4
    <3>2. del[m].life = own.public /\ own.public # 0 /\ own.public \in DOMAIN lives
      <4>1. del[m].life \in DOMAIN lives /\ del[m].gen <= lives[del[m].life].gen
        BY <2>1 DEF LinkInv, Over
      <4>2. own.public # 0 /\ lives[own.public].gen = own.gen /\ own.gen # 0
        BY <2>3 DEF LinkInv
      <4>3. own.public \in DOMAIN lives
        BY <4>2, LenProperties DEF LinkInv, TypeInv
      <4>4. /\ own.gen \in Nat /\ lives[del[m].life].gen \in Nat
            /\ lives[del[m].life].gen <= own.gen
        BY <4>1, OwnTypes, LivesTypes DEF OwnType, LifeType, LinkInv
      <4>5. lives[del[m].life].gen = own.gen
        BY <2>3, <4>1, <4>4
      <4> QED BY <4>1, <4>2, <4>3, <4>5 DEF LinkInv
    <3>3. /\ \A i, j \in DOMAIN own'.queue : own'.queue[i] = own'.queue[j] => i = j
          /\ \A n \in Msgs : Held(n)' <=> n = m \/ Held(n)
      <4>1. /\ own.queue \in Seq(Msgs) /\ \A i \in DOMAIN own.queue : own.queue[i] # m
            /\ \A i, j \in DOMAIN own.queue : own.queue[i] = own.queue[j] => i = j
        BY <2>1, OwnTypes DEF MessageInv, Held
      <4>2. /\ \A i, j \in DOMAIN Append(own.queue, m) :
                 Append(own.queue, m)[i] = Append(own.queue, m)[j] => i = j
            /\ \A n : (\E i \in DOMAIN Append(own.queue, m) : Append(own.queue, m)[i] = n)
                        <=> n = m \/ (\E i \in DOMAIN own.queue : own.queue[i] = n)
        BY <4>1, AppendHeld
      <4> QED BY <3>1, <4>2 DEF Held
    <3>4. /\ \A n \in Msgs \ {m} : Honest(n)'
          /\ UNCHANGED <<ext, call>> /\ LivesGoOn /\ own'.id = own.id
      BY <2>1, <3>3, DeliverOthers
    <3>5. del'[m].pc = "done" /\ del'[m].res = "queued" /\ del'[m].life = del[m].life
      BY <2>3, SettleIs
    <3>6. Honest(m)'
      BY <2>1, <3>1, <3>2, <3>3, <3>4, <3>5 DEF Honest, LivesGoOn
    <3> QED BY <3>3, <3>4, <3>6 DEF MessageInv
  <2> QED BY <1>6, <2>2, <2>3 DEF DeliverQueued
<1> QED BY <1>1, <1>2, <1>3, <1>4, <1>5, <1>6 DEF Deliver

\* The lifetimes and the bus change no message but the one that arrives.
LEMMA LifetimeMessage ==
  ASSUME ext'.wire => ext.wire, IInv, MessageInv, NEW l \in DOMAIN lives, Lifetime(l) \/ Bus(l)
  PROVE  MessageInv'
<1> USE DEF IInv
<1>1. CASE \E m \in Msgs : Arrive(l, m)
  BY <1>1, ArriveMessage
<1>2. CASE ~ \E m \in Msgs : Arrive(l, m)
  <2>1. UNCHANGED <<ext, call, del, app>> /\ DrainSame
    BY <1>2 DEF Lifetime, DialEnds, Dialled, HelloSent, HelloObserved, HelloFails, ServeEnds,
         Detached, Bus, LinkLoss, Supersede, DrainSame
  <2>2. own'.queue = own.queue /\ own'.public = own.public /\ own'.id = own.id
    <3>1. CASE UNCHANGED own
      BY <3>1
    <3>2. CASE Dialled(l) \/ HelloObserved(l) \/ Supersede(l)
      BY <3>2, OwnTypes DEF Dialled, HelloObserved, Supersede, OwnType
    <3>3. ASSUME NEW bad, Detached(l, bad) PROVE own'.queue = own.queue /\ own'.public = own.public /\ own'.id = own.id
      BY <3>3, OwnTypes DEF Detached, Fail, OwnType
    <3> QED BY <1>2, <3>1, <3>2, <3>3 DEF Lifetime, DialEnds, HelloSent, HelloFails, ServeEnds,
         Bus, LinkLoss
  <2>3. LivesGoOn
    <3>1. ASSUME NEW p, lives' = [lives EXCEPT ![l].pc = p, ![l].up = FALSE, ![l].ask = NoAsk]
          PROVE LivesGoOn
      BY <3>1, LivesTypes DEF LivesGoOn, LifeType, TypeInv
    <3>2. CASE HelloFails(l) \/ ServeEnds(l)
      BY <3>1, <3>2 DEF HelloFails, ServeEnds, Detached
    <3>7. ASSUME NEW e, lives' = [lives EXCEPT ![l] = e], lives[l].gone => e.gone
          PROVE LivesGoOn
      BY <3>7, LivesTypes DEF LivesGoOn, TypeInv
    <3>8. lives[l] \in LifeType
      BY LivesTypes
    <3>9. CASE lives' = [lives EXCEPT ![l].pc = "done"]
      <4>1. lives' = [lives EXCEPT ![l] = [lives[l] EXCEPT !.pc = "done"]]
        BY <3>9
      <4>2. [lives[l] EXCEPT !.pc = "done"].gone = lives[l].gone
        BY <3>8 DEF LifeType
      <4> QED BY <3>7, <4>1, <4>2
    <3>3. CASE Dialled(l) /\ Current(l)
      <4>1. lives' = [lives EXCEPT ![l] = [lives[l] EXCEPT !.pc = "hello", !.gen = own.gen + 1,
                                             !.up = TRUE, !.bus = "", !.ask = NoAsk]]
        BY <3>3 DEF Dialled
      <4>2. [lives[l] EXCEPT !.pc = "hello", !.gen = own.gen + 1, !.up = TRUE, !.bus = "",
                             !.ask = NoAsk].gone = lives[l].gone
        BY <3>8 DEF LifeType
      <4> QED BY <3>7, <4>1, <4>2
    <3>4. CASE HelloObserved(l)
      <4>1. CASE lives' = [lives EXCEPT ![l].ask = NoAsk]
        BY <4>1, AskTypes, ValueTypes, LivesChange, SameGoOn
      <4>2. CASE lives' = [lives EXCEPT ![l].pc = "serve", ![l].ready = TRUE, ![l].ask = NoAsk]
        <5>1. lives' = [lives EXCEPT ![l] = [lives[l] EXCEPT !.pc = "serve", !.ready = TRUE,
                                                             !.ask = NoAsk]]
          BY <4>2
        <5>2. [lives[l] EXCEPT !.pc = "serve", !.ready = TRUE, !.ask = NoAsk].gone = lives[l].gone
          BY <3>8 DEF LifeType
        <5> QED BY <3>7, <5>1, <5>2
      <4> QED BY <3>4, <4>1, <4>2 DEF HelloObserved
    <3>5. CASE HelloSent(l)
      BY <3>5, HelloSame, SameGoOn, OwnTypes DEF HelloSent, OwnType
    <3>6. CASE Bus(l)
      BY <1>2, <3>6, LivesTypes DEF Bus, LinkLoss, Supersede, Hangup, LivesGoOn, LifeType, TypeInv
    <3> QED BY <3>2, <3>3, <3>4, <3>5, <3>6, <3>9 DEF Lifetime, DialEnds, Dialled
  <2> QED BY <2>1, <2>2, <2>3, MessageQuiet
<1> QED BY <1>1, <1>2

\* The supervisor's close drops the queue and ends the session.
LEMMA SupervisorMessage ==
  ASSUME ext'.wire => ext.wire, TypeInv, LinkInv, MessageInv, Supervisor
  PROVE  MessageInv'
<1>1. CASE SupersedeAcked \/ HostStops \/ OwnerClosed
  <2>1. OwnSame /\ LivesGoOn /\ own'.queue = own.queue /\ UNCHANGED <<ext, call, del, app>>
    BY <1>1, OwnChange DEF SupersedeAcked, HostStops, OwnerClosed, LivesGoOn
  <2> QED BY <2>1, MessageQuiet DEF OwnSame, DrainSame
<1>2. CASE OwnerCloses
  <2>1. own'.queue = <<>>
    BY <1>2, OwnTypes DEF OwnerCloses, OwnType
  <2>2. /\ LivesGoOn
        /\ own.public \in DOMAIN lives => lives'[own.public].gone
    BY <1>2, LivesTypes DEF OwnerCloses, LivesGoOn, LifeType
  <2>3. call["drain"].pc # "append" /\ UNCHANGED <<ext, call, del, app>>
    BY <1>2, Names DEF OwnerCloses
  <2> QED BY <2>1, <2>2, <2>3, DropMessage DEF DrainSame
<1> QED BY <1>1, <1>2 DEF Supervisor

\* Every step keeps the messages.
LEMMA MessageStep ==
  ASSUME IInv, LinkInv, MessageInv, [Next]_vars
  PROVE  MessageInv'
<1> USE DEF IInv
<1>0. ext'.wire => ext.wire
  BY WireStays
<1>1. CASE Extension \/ Response
  BY <1>0, <1>1, ResponseMessage, AppendMessage
<1>2. ASSUME NEW c \in Calls, Handler(c) PROVE MessageInv'
  BY <1>0, <1>2, HandlerMessage
<1>3. ASSUME NEW l \in DOMAIN lives, Lifetime(l) \/ Bus(l) PROVE MessageInv'
  BY <1>0, <1>3, LifetimeMessage
<1>4. ASSUME NEW m \in Msgs, Deliver(m) PROVE MessageInv'
  BY <1>0, <1>4, DeliverMessage
<1>5. CASE UNCHANGED vars
  BY <1>0, <1>5, MessageQuiet DEF vars, LivesGoOn, DrainSame
<1> QED BY <1>0, <1>1, <1>2, <1>3, <1>4, <1>5, SupervisorMessage DEF Next

DeliveryInv == LinkInv /\ MessageInv

\* There are no lifetimes at first.
LEMMA NoLives ==
  ASSUME Init
  PROVE  lives = <<>> /\ Len(lives) = 0 /\ DOMAIN lives = {}
<1>1. <<>> \in Seq(LifeType) /\ Len(<<>>) = 0
  OBVIOUS
<1>2. DOMAIN <<>> = 1..0
  BY <1>1, LenProperties
<1>3. \A i \in 1..0 : FALSE
  OBVIOUS
<1> QED BY <1>1, <1>2, <1>3 DEF Init

\* Nothing is connected, queued or delivered at first.
LEMMA InitDelivery == Init => DeliveryInv
<1> SUFFICES ASSUME Init PROVE DeliveryInv
  OBVIOUS
<1>1. lives = <<>> /\ Len(lives) = 0 /\ DOMAIN lives = {}
  BY NoLives
<1>2. LinkInv
  BY <1>1 DEF Init, LinkInv, Over
<1>3. DOMAIN own.queue = {} /\ \A m \in Msgs : ~Held(m)
  <2>1. own.queue = lives
    BY DEF Init
  <2> QED BY <1>1, <2>1 DEF Held
<1>4. call["drain"].pc = "none"
  BY Names DEF Init, NoCall
<1>5. ASSUME NEW m \in Msgs PROVE Honest(m)
  <2>1. ext.taken[m] = 0 /\ app[m] = "none"
    BY DEF Init
  <2>2. del[m].pc = "none" /\ del[m].res = "none"
    BY DEF Init
  <2> QED BY <1>3, <2>1, <2>2 DEF Honest
<1>6. MessageInv
  BY <1>3, <1>4, <1>5 DEF MessageInv
<1> QED BY <1>2, <1>6 DEF DeliveryInv

\* In every state the connections and the messages are as DeliveryInv says.
THEOREM DeliveryInvariant == Spec => []DeliveryInv
<1>1. IInv /\ DeliveryInv /\ [Next]_vars => DeliveryInv'
  BY LinkStep, MessageStep DEF DeliveryInv, IInv
<1> QED BY <1>1, InitDelivery, Invariant, PTL DEF Spec

\* A receipt is true: what the bus is told was written is native's, what it is told was
\* queued is queued or native's until its session ends, what was rejected or canceled never
\* gets there, and native gets no message twice.
THEOREM ReceiptHonestAlways == Spec => []ReceiptHonest
<1>1. DeliveryInv => ReceiptHonest
  BY DEF DeliveryInv, MessageInv, Honest, Held, ReceiptHonest
<1> QED BY <1>1, DeliveryInvariant, PTL

-----------------------------------------------------------------------------
(* The name on the bus.                                                    *)

\* A hello on its way carries no version later than the owner's; one that carries the
\* owner's has registered the owner's name, and after it the bus has that name.
Known(l) ==
  /\ lives[l].ask.ver <= own.ver
  /\ own.public = l /\ ~own.ending /\ lives[l].ask.st = "yes" /\ lives[l].ask.ver = own.ver
       => lives[l].bus = own.name
  /\ (/\ lives[l].pc = "serve" /\ lives[l].up /\ lives[l].ask.st = "none"
      /\ own.public = l /\ ext.wire /\ ~own.ending /\ ~own.down)
       => lives[l].bus = own.name
NameInv == \A l \in DOMAIN lives : Known(l)

\* A hello that is due at the owner's version is for the owner's name.
DueInv ==
  \A c \in Calls : LET l == call[c].life IN
    /\ call[c].pc = "rehello" /\ l \in DOMAIN lives /\ own.public = l
    /\ lives[l].ask.st = "due" /\ lives[l].ask.ver = own.ver
    => own.name = call[c].arg

\* Ends are final: of the bridge, of the session, of the owner.
Closes == /\ ext'.wire => ext.wire
          /\ own.ending => own'.ending
          /\ own.down => own'.down
NameStays == /\ own'.name = own.name /\ own'.ver = own.ver /\ own'.public = own.public
             /\ Closes

\* A lifetime changes nothing the name depends on, or loses its connection or hello, or
\* the owner is ending.
Renews(r, e) ==
  \/ /\ e.ask = r.ask /\ e.bus = r.bus
     /\ e.up => r.up
     /\ e.pc = "serve" => r.pc = "serve"
  \/ e.ask = NoAsk /\ (e.pc # "serve" \/ ~e.up)
  \/ own'.ending /\ e.ask = r.ask

\* Such steps keep the name.
LEMMA NameQuiet ==
  ASSUME TypeInv, NameInv, NameStays, DOMAIN lives' = DOMAIN lives,
         \A l \in DOMAIN lives : Renews(lives[l], lives'[l])
  PROVE  NameInv'
<1>1. own.ver \in Nat
  BY OwnTypes DEF OwnType
<1>2. NoAsk.ver = 0 /\ NoAsk.st = "none"
  BY DEF NoAsk
<1>3. ASSUME NEW l \in DOMAIN lives PROVE Known(l)'
  <2>1. Known(l) /\ Renews(lives[l], lives'[l])
    BY DEF NameInv
  <2> QED BY <1>1, <1>2, <2>1 DEF Known, Renews, NameStays, Closes
<1> QED BY <1>3 DEF NameInv

\* The same when one lifetime changes.
LEMMA NameSet ==
  ASSUME TypeInv, NameInv, NameStays, NEW l \in DOMAIN lives, NEW e \in LifeType,
         lives' = [lives EXCEPT ![l] = e], Renews(lives[l], e)
  PROVE  NameInv'
<1>1. /\ DOMAIN lives' = DOMAIN lives
      /\ \A j \in DOMAIN lives : lives'[j] = IF j = l THEN e ELSE lives[j]
  BY SetLife DEF TypeInv
<1>2. ASSUME NEW j \in DOMAIN lives PROVE Renews(lives[j], lives'[j])
  BY <1>1 DEF Renews
<1> QED BY <1>1, <1>2, NameQuiet

\* The same when none does.
LEMMA NameSame ==
  ASSUME TypeInv, NameInv, NameStays, UNCHANGED lives
  PROVE  NameInv'
BY NameQuiet DEF Renews

\* An answer ends nothing but the owner.
LEMMA AnswerCloses ==
  ASSUME TypeInv, [Next]_vars,
         \/ own' = own \/ own' = Fail(own)
         \/ own' = [own EXCEPT !.tree = TRUE] \/ own' = [own EXCEPT !.tree = FALSE]
         \/ own' = [own EXCEPT !.ever = TRUE, !.last = ""]
         \/ own' = [own EXCEPT !.ending = TRUE] \/ own' = [own EXCEPT !.down = TRUE]
         \/ own' = [own EXCEPT !.ending = TRUE, !.down = TRUE]
  PROVE  NameStays
BY OwnChange, WireStays DEF NameStays, Closes, OwnSame

\* What an answered hello says.
LEMMA AskIs ==
  \A k \in {"yes", "no"}, v \in Nat : /\ [st |-> k, ver |-> v].st = k
                                     /\ [st |-> k, ver |-> v].ver = v
OBVIOUS

\* owner.ready's first publication: a lifetime that has said no hello.
LEMMA PublishName ==
  ASSUME TypeInv, NameInv, LinkInv, [Next]_vars, NEW c \in Calls, Publishes(c)
  PROVE  NameInv'
<1> DEFINE r == [id |-> call[c].id, pc |-> "dial", gone |-> FALSE, ready |-> FALSE,
                 gen |-> 0, up |-> FALSE, bus |-> "", ask |-> NoAsk]
<1>1. lives' = Append(lives, r) /\ r.ask = NoAsk /\ r.pc = "dial"
  BY DEF Publishes
<1> HIDE DEF r
<1>2. /\ DOMAIN lives' = 1..(Len(lives) + 1)
      /\ DOMAIN lives = 1..Len(lives) /\ Len(lives) \in Nat
      /\ \A l \in DOMAIN lives : lives'[l] = lives[l]
      /\ lives'[Len(lives) + 1] = r
  BY <1>1, AppendProperties, LenProperties DEF TypeInv
<1>3. own'.public = Len(lives) + 1 /\ own'.ver = own.ver + 1 /\ own.ver \in Nat
  BY OwnTypes DEF Publishes, OwnType
<1>4. ASSUME NEW l \in DOMAIN lives PROVE Known(l)'
  <2>1. lives[l].ask.ver <= own.ver /\ lives[l].ask.ver \in Nat
    BY LivesTypes DEF NameInv, Known, LifeType, AskType
  <2>2. l # Len(lives) + 1
    BY <1>2
  <2> QED BY <1>2, <1>3, <2>1, <2>2 DEF Known
<1>5. ASSUME NEW l, l = Len(lives) + 1 PROVE Known(l)'
  <2>1. lives'[l].ask.ver = 0 /\ lives'[l].ask.st = "none" /\ lives'[l].pc = "dial"
    BY <1>1, <1>2, <1>5 DEF NoAsk
  <2> QED BY <1>3, <2>1 DEF Known
<1> QED BY <1>2, <1>4, <1>5 DEF NameInv

\* owner.ready's second publication: the name is to go out with the owner's new version, or
\* there is no connection it could be wrong on.
LEMMA RenameName ==
  ASSUME TypeInv, NameInv, LinkInv, [Next]_vars, NEW c \in Calls, PublishAgain(c)
  PROVE  NameInv'
<1>1. /\ own'.public = own.public /\ own'.ver = own.ver + 1 /\ own.ver \in Nat
      /\ own'.name = call[c].arg /\ call[c].arg \in Values /\ own'.ver \in Nat
      /\ own.public \in DOMAIN lives
  BY OwnTypes, LenProperties DEF PublishAgain, OwnType, LinkInv, TypeInv
<1>2. ASSUME NEW l \in DOMAIN lives
      PROVE  /\ lives[l].ask.ver <= own.ver /\ lives[l].ask.ver \in Nat
             /\ lives[l].ask.ver < own'.ver
  BY <1>1, LivesTypes DEF NameInv, Known, LifeType, AskType
<1>3. CASE own.conn = 0 /\ UNCHANGED lives
  <2>1. ASSUME NEW l \in DOMAIN lives PROVE Known(l)'
    <3>1. ~(own.public = l /\ lives[l].pc = "serve")
      BY <1>3 DEF LinkInv
    <3> QED BY <1>1, <1>2, <1>3, <3>1 DEF Known
  <2> QED BY <1>3, <2>1 DEF NameInv
<1>4. CASE own.conn # 0
  <2>1. PICK v \in Nat : own'.ver = v
    BY <1>1
  <2>2. PICK a \in AskType : a = [st |-> "due", ver |-> v] /\ a.st = "due" /\ a.ver = v
    BY AskTypes
  <2>3. lives' = [lives EXCEPT ![own.public].ask = a]
    BY <1>4, <2>1, <2>2 DEF PublishAgain
  <2>4. /\ DOMAIN lives' = DOMAIN lives
        /\ \A j \in DOMAIN lives : j # own.public => lives'[j] = lives[j]
        /\ lives'[own.public].ask = a
    BY <1>1, <2>3, LivesTypes DEF LifeType
  <2>5. ASSUME NEW l \in DOMAIN lives PROVE Known(l)'
    <3>1. CASE l = own.public
      BY <1>1, <2>1, <2>2, <2>4, <3>1 DEF Known
    <3>2. CASE l # own.public
      BY <1>1, <1>2, <2>4, <3>2 DEF Known
    <3> QED BY <3>1, <3>2
  <2> QED BY <2>4, <2>5 DEF NameInv
<1> QED BY <1>3, <1>4 DEF PublishAgain

\* What a lifetime is once its hello has been answered.
Said(l, name, v) ==
  \E e \in LifeType : /\ lives' = [lives EXCEPT ![l] = e]
                      /\ e.ask.ver = v /\ e.ask.st \in {"yes", "no"} /\ e.pc = lives[l].pc
                      /\ e.ask.st = "yes" => e.bus = name

\* A hello carries its name and its version.
LEMMA HelloSaid ==
  ASSUME TypeInv, NEW l \in DOMAIN lives, NEW name \in Values, NEW v \in Nat, Hello(l, name, v)
  PROVE  Said(l, name, v)
<1>1. PICK r \in LifeType : r = lives[l]
  BY LivesTypes
<1>2. CASE lives' = [lives EXCEPT ![l].ask = [st |-> "yes", ver |-> v], ![l].bus = name]
  <2>1. lives' = [lives EXCEPT ![l] = [r EXCEPT
                    !.ask = [st |-> "yes", ver |-> v], !.bus = name]]
    BY <1>1, <1>2
  <2>2. ASSUME NEW a \in AskType, NEW b \in Values
        PROVE  /\ [r EXCEPT !.ask = a, !.bus = b] \in LifeType
               /\ [r EXCEPT !.ask = a, !.bus = b].ask = a
               /\ [r EXCEPT !.ask = a, !.bus = b].bus = b
               /\ [r EXCEPT !.ask = a, !.bus = b].pc = r.pc
    BY DEF LifeType
  <2>3. PICK a \in AskType : /\ a = [st |-> "yes", ver |-> v]
                             /\ a.st = "yes" /\ a.ver = v
    BY AskTypes, AskIs
  <2>4. lives' = [lives EXCEPT ![l] = [r EXCEPT !.ask = a, !.bus = name]]
    BY <2>1, <2>3
  <2>5. PICK e : e = [r EXCEPT !.ask = a, !.bus = name]
    OBVIOUS
  <2>6. e \in LifeType /\ e.ask = a /\ e.bus = name /\ e.pc = r.pc
    BY <2>2, <2>5
  <2>7. lives' = [lives EXCEPT ![l] = e]
    BY <2>4, <2>5
  <2> QED BY <1>1, <2>3, <2>6, <2>7 DEF Said
<1>3. CASE lives' = [lives EXCEPT ![l].ask = [st |-> "no", ver |-> v]]
  <2>1. lives' = [lives EXCEPT ![l] = [r EXCEPT !.ask = [st |-> "no", ver |-> v]]]
    BY <1>1, <1>3
  <2>2. ASSUME NEW a \in AskType
        PROVE  /\ [r EXCEPT !.ask = a] \in LifeType
               /\ [r EXCEPT !.ask = a].ask = a
               /\ [r EXCEPT !.ask = a].pc = r.pc
    BY DEF LifeType
  <2>3. PICK a \in AskType : /\ a = [st |-> "no", ver |-> v]
                             /\ a.st = "no" /\ a.ver = v
    BY AskTypes, AskIs
  <2> QED BY <1>1, <2>1, <2>2, <2>3 DEF Said
<1> QED BY <1>2, <1>3 DEF Hello

\* owner.ready's second hello carries the owner's name, if its version is the owner's.
LEMMA RehelloSays ==
  ASSUME TypeInv, NameInv, DueInv, [Next]_vars, NEW c \in Calls, Rehello(c)
  PROVE  NameInv'
<1>1. call[c].arg \in Values
  BY DEF TypeInv, CallType
<1>2. UNCHANGED own /\ ext' = ext
  BY DEF Rehello
<1>3. CASE call[c].life \notin DOMAIN lives
  <2>1. \A x, y : /\ [lives EXCEPT ![call[c].life].ask = x] = lives
                  /\ [lives EXCEPT ![call[c].life].ask = x, ![call[c].life].bus = y] = lives
    BY <1>3, LenProperties DEF TypeInv
  <2>2. lives' = lives
    BY <2>1 DEF Rehello, Hello
  <2> QED BY <1>2, <2>2, AnswerCloses, NameSame
<1>4. CASE call[c].life \in DOMAIN lives
  <2>1. PICK l \in DOMAIN lives : l = call[c].life
    BY <1>4
  <2>2. PICK v \in Nat : v = lives[l].ask.ver
    BY LivesTypes DEF LifeType, AskType
  <2>3. Said(l, call[c].arg, v)
    BY <1>1, <2>1, <2>2, HelloSaid DEF Rehello
  <2>4. PICK e \in LifeType : /\ lives' = [lives EXCEPT ![l] = e]
                              /\ e.ask.ver = v /\ e.ask.st \in {"yes", "no"}
                              /\ e.ask.st = "yes" => e.bus = call[c].arg
    BY <2>3 DEF Said
  <2>5. /\ DOMAIN lives' = DOMAIN lives
        /\ \A j \in DOMAIN lives : lives'[j] = IF j = l THEN e ELSE lives[j]
    BY <2>4, SetLife DEF TypeInv
  <2>6. own.public = l /\ v = own.ver => own.name = call[c].arg
    BY <2>1, <2>2 DEF DueInv, Rehello
  <2>7. ASSUME NEW j \in DOMAIN lives PROVE Known(j)'
    <3>1. Known(j) /\ Known(l)
      BY DEF NameInv
    <3> QED BY <1>2, <2>2, <2>4, <2>5, <2>6, <3>1 DEF Known
  <2> QED BY <2>5, <2>7 DEF NameInv
<1> QED BY <1>3, <1>4

\* owner.ready's second hello: what its answer vouches for is the latest name, or the owner
\* fails.
LEMMA RehelloName ==
  ASSUME TypeInv, NameInv, LinkInv, [Next]_vars, NEW c \in Calls, Rehelloed(c) \/ RehelloCut(c)
  PROVE  NameInv'
<1> DEFINE l == call[c].life
<1>1. lives' = [lives EXCEPT ![l] = [lives[l] EXCEPT !.ask = NoAsk]]
  BY DEF Rehelloed, RehelloCut
<1>2. NameStays
  BY AnswerCloses DEF Rehelloed, RehelloCut, RefuseReady
<1>3. CASE l \notin DOMAIN lives
  <2>1. lives' = lives
    BY <1>1, <1>3 DEF TypeInv
  <2> QED BY <1>2, <2>1, NameSame
<1>4. CASE l \in DOMAIN lives
  <2>1. PICK e \in LifeType : /\ lives' = [lives EXCEPT ![l] = e] /\ e.ask = NoAsk
                              /\ e.bus = lives[l].bus
    <3>1. ASSUME NEW r \in LifeType
          PROVE  /\ [r EXCEPT !.ask = NoAsk] \in LifeType
                 /\ [r EXCEPT !.ask = NoAsk].ask = NoAsk
                 /\ [r EXCEPT !.ask = NoAsk].bus = r.bus
      BY AskTypes DEF LifeType
    <3>2. lives[l] \in LifeType
      BY <1>4, LivesTypes
    <3> QED BY <1>1, <3>1, <3>2
  <2>2. /\ DOMAIN lives' = DOMAIN lives
        /\ \A j \in DOMAIN lives : lives'[j] = IF j = l THEN e ELSE lives[j]
    BY <2>1, SetLife DEF TypeInv
  <2>3. own'.public = l /\ ext'.wire /\ ~own'.ending /\ ~own'.down => e.bus = own'.name
    <3>1. CASE RefuseReady(c)
      BY <3>1, RefuseSame, OwnTypes DEF RefuseReady, Fail, OwnType
    <3>2. CASE RehelloCut(c)
      BY <1>2, <3>2 DEF RehelloCut, NameStays, Closes
    <3>3. CASE lives[l].ask.st = "yes" /\ Current(l) /\ own.ver = lives[l].ask.ver
      BY <1>2, <1>4, <2>1, <3>3 DEF NameInv, Known, Current, NameStays
    <3> QED BY <3>1, <3>2, <3>3 DEF Rehelloed
  <2>4. own.ver \in Nat
    BY OwnTypes DEF OwnType
  <2>5. ASSUME NEW j \in DOMAIN lives PROVE Known(j)'
    <3>1. CASE j = l
      BY <1>2, <2>1, <2>2, <2>3, <2>4, <3>1 DEF Known, NoAsk, NameStays
    <3>2. CASE j # l
      <4>1. Known(j)
        BY DEF NameInv
      <4> QED BY <1>2, <2>2, <3>2, <4>1 DEF Known, NameStays, Closes
    <3> QED BY <3>1, <3>2
  <2> QED BY <2>2, <2>5 DEF NameInv
<1> QED BY <1>3, <1>4

\* session_end withdraws the session.
LEMMA WithdrawName ==
  ASSUME TypeInv, NameInv, [Next]_vars, Withdraws
  PROVE  NameInv'
<1>1. own'.public = 0 /\ own'.ver = own.ver
  BY OwnTypes DEF Withdraws, OwnType
<1>2. PICK p : p = own.public
  OBVIOUS
<1>3. lives' = [lives EXCEPT ![p] = [lives[p] EXCEPT !.gone = TRUE, !.up = FALSE]]
  BY <1>2 DEF Withdraws
<1>4. ASSUME NEW r \in LifeType
      PROVE  /\ [r EXCEPT !.gone = TRUE, !.up = FALSE] \in LifeType
             /\ [r EXCEPT !.gone = TRUE, !.up = FALSE].ask = r.ask
  BY DEF LifeType
<1>5. /\ DOMAIN lives' = DOMAIN lives
      /\ \A l \in DOMAIN lives : lives'[l].ask = lives[l].ask
  BY <1>3, <1>4, LivesTypes, SetLife DEF TypeInv
<1>6. \A l \in DOMAIN lives : own'.public # l
  BY <1>1, LenProperties DEF TypeInv
<1> QED BY <1>1, <1>5, <1>6 DEF NameInv, Known

\* The handlers keep the name.
LEMMA HandlerName ==
  ASSUME TypeInv, NameInv, DueInv, LinkInv, [Next]_vars, NEW c \in Calls, Handler(c)
  PROVE  NameInv'
<1>1. CASE AcquireRefused(c) \/ Admitted(c) \/ RehelloLost(c)
  BY <1>1, AnswerCloses, NameSame DEF AcquireRefused, Admitted, RehelloLost
<1>2. CASE Describe(c) \/ PublishRefused(c) \/ NotAdmitted(c)
  <2>1. own' = own \/ own' = Fail(own)
    BY <1>2 DEF Describe, PublishRefused, NotAdmitted, Refuse, RefuseReady
  <2> QED BY <1>2, <2>1, AnswerCloses, NameSame DEF Describe, PublishRefused, NotAdmitted
<1>3. CASE PublishFirst(c)
  <2>1. CASE RefuseReady(c) /\ UNCHANGED lives
    <3>1. own' = own \/ own' = Fail(own)
      BY <2>1 DEF RefuseReady
    <3> QED BY <2>1, <3>1, AnswerCloses, NameSame
  <2> QED BY <1>3, <2>1, PublishName DEF PublishFirst, Publishes
<1>4. CASE PublishAgain(c)
  BY <1>4, RenameName
<1>5. CASE Rehelloed(c) \/ RehelloCut(c)
  BY <1>5, RehelloName
<1>10. CASE Rehello(c)
  BY <1>10, RehelloSays
<1>6. CASE c = "end" /\ EndBegins
  <2>1. CASE Refuse("end") /\ UNCHANGED lives
    BY <2>1, AnswerCloses, NameSame DEF Refuse
  <2> QED BY <1>6, <2>1, WithdrawName DEF EndBegins, Owns, Withdraws
<1>7. CASE EndJoined \/ DrainSends \/ ToolBegins \/ ToolPublic \/ ToolResult \/ ToolReturns
  BY <1>7, AnswerCloses, NameSame
    DEF EndJoined, DrainSends, ToolBegins, ToolPublic, ToolResult, ToolReturns
<1>8. CASE \/ c = "tree" /\ TreeBegins
           \/ c = "drain" /\ (DrainBegins \/ DrainEnds)
  BY <1>8, AnswerCloses, NameSame DEF TreeBegins, DrainBegins, DrainEnds, Refuse
<1>9. CASE c = "drain" /\ DrainAppended
  <2>1. CASE own' = own \/ own' = Fail(own)
    BY <1>9, <2>1, AnswerCloses, NameSame DEF DrainAppended
  <2>2. CASE own' = [own EXCEPT !.queue = Tail(own.queue)]
    <3>1. NameStays
      BY <2>2, OwnTypes, WireStays DEF OwnType, NameStays, Closes
    <3> QED BY <1>9, <3>1, NameSame DEF DrainAppended
  <2> QED BY <1>9, <2>1, <2>2 DEF DrainAppended, Refuse
<1> QED BY <1>1, <1>2, <1>3, <1>4, <1>5, <1>6, <1>7, <1>8, <1>9, <1>10 DEF Handler

\* What happens to a lifetime where it is, but for its hello.
LEMMA ChangeName ==
  ASSUME TypeInv, NameInv, NameStays, NEW l \in DOMAIN lives,
         \/ lives' = [lives EXCEPT ![l].up = FALSE]
         \/ lives' = [lives EXCEPT ![l].pc = "done"]
         \/ lives' = [lives EXCEPT ![l].bus = ""] /\ own'.ending
         \/ lives' = lives
  PROVE  NameInv'
<1>1. ASSUME NEW r \in LifeType
      PROVE  /\ [r EXCEPT !.up = FALSE] \in LifeType /\ Renews(r, [r EXCEPT !.up = FALSE])
             /\ [r EXCEPT !.pc = "done"] \in LifeType /\ Renews(r, [r EXCEPT !.pc = "done"])
  BY DEF LifeType, LifePcs, Renews
<1>2. ASSUME NEW r \in LifeType, NEW b \in Values, own'.ending
      PROVE  [r EXCEPT !.bus = b] \in LifeType /\ Renews(r, [r EXCEPT !.bus = b])
  BY <1>2 DEF LifeType, Renews
<1>3. PICK r \in LifeType : r = lives[l]
  BY LivesTypes
<1>4. CASE lives' = [lives EXCEPT ![l].up = FALSE]
  <2>1. lives' = [lives EXCEPT ![l] = [r EXCEPT !.up = FALSE]]
    BY <1>3, <1>4
  <2> QED BY <1>1, <1>3, <2>1, NameSet
<1>5. CASE lives' = [lives EXCEPT ![l].pc = "done"]
  <2>1. lives' = [lives EXCEPT ![l] = [r EXCEPT !.pc = "done"]]
    BY <1>3, <1>5
  <2> QED BY <1>1, <1>3, <2>1, NameSet
<1>6. CASE lives' = [lives EXCEPT ![l].bus = ""] /\ own'.ending
  <2>1. lives' = [lives EXCEPT ![l] = [r EXCEPT !.bus = ""]]
    BY <1>3, <1>6
  <2> QED BY <1>2, <1>3, <1>6, <2>1, ValueTypes, NameSet
<1> QED BY <1>4, <1>5, <1>6, NameSame

\* A new connection has said no hello.
LEMMA DialName ==
  ASSUME TypeInv, NameInv, [Next]_vars, NEW l \in DOMAIN lives, Dialled(l), Current(l)
  PROVE  NameInv'
<1>1. PICK r \in LifeType : r = lives[l]
  BY LivesTypes
<1>2. PICK g \in Nat : g = own.gen + 1
  BY OwnTypes DEF OwnType
<1>3. NameStays
  BY OwnTypes, WireStays DEF Dialled, NameStays, Closes, OwnType
<1> DEFINE e == [r EXCEPT !.pc = "hello", !.gen = g, !.up = TRUE, !.bus = "", !.ask = NoAsk]
<1>4. lives' = [lives EXCEPT ![l] = e]
  BY <1>1, <1>2 DEF Dialled
<1>5. e \in LifeType
  BY AskTypes, ValueTypes DEF LifeType, LifePcs
<1>6. e.ask = NoAsk
  BY DEF LifeType
<1>7. e.pc = "hello"
  BY DEF LifeType
<1> HIDE DEF e
<1>8. Renews(lives[l], e)
  BY <1>6, <1>7 DEF Renews
<1> QED BY <1>3, <1>4, <1>5, <1>8, NameSet

\* The hello of an admission carries the owner's name and version.
LEMMA HelloName ==
  ASSUME TypeInv, NameInv, [Next]_vars, NEW l \in DOMAIN lives, HelloSent(l)
  PROVE  NameInv'
<1>1. PICK r \in LifeType : r = lives[l]
  BY LivesTypes
<1>2. r.pc = "hello" /\ own.name \in Values /\ own.ver \in Nat /\ UNCHANGED own
  BY <1>1, OwnTypes DEF HelloSent, OwnType
<1>3. PICK e \in LifeType : /\ lives' = [lives EXCEPT ![l] = e]
                            /\ e.ask.ver = own.ver /\ e.ask.st # "none"
                            /\ e.ask.st = "yes" => e.bus = own.name
  <2>1. Said(l, own.name, own.ver)
    BY <1>2, HelloSaid DEF HelloSent
  <2> QED BY <2>1 DEF Said
<1>4. /\ DOMAIN lives' = DOMAIN lives
      /\ \A j \in DOMAIN lives : lives'[j] = IF j = l THEN e ELSE lives[j]
  BY <1>3, SetLife DEF TypeInv
<1>5. ext'.wire => ext.wire
  BY WireStays
<1>6. ASSUME NEW j \in DOMAIN lives PROVE Known(j)'
  <2>1. Known(j)
    BY DEF NameInv
  <2> QED BY <1>2, <1>3, <1>4, <1>5, <2>1 DEF Known
<1> QED BY <1>4, <1>6 DEF NameInv

\* The connection is installed with the name its hello carried, if that is still the latest.
LEMMA ObserveName ==
  ASSUME TypeInv, NameInv, [Next]_vars, NEW l \in DOMAIN lives, HelloObserved(l)
  PROVE  NameInv'
<1>1. PICK r \in LifeType : r = lives[l] /\ r.pc = "hello"
  BY LivesTypes DEF HelloObserved
<1>2. CASE lives' = [lives EXCEPT ![l].ask = NoAsk] /\ UNCHANGED own
  <2> DEFINE e == [r EXCEPT !.ask = NoAsk]
  <2>1. lives' = [lives EXCEPT ![l] = e]
    BY <1>1, <1>2
  <2>2. e \in LifeType /\ e.ask = NoAsk /\ e.pc = "hello"
    BY <1>1, AskTypes DEF LifeType
  <2> HIDE DEF e
  <2>3. NameStays /\ Renews(lives[l], e)
    BY <1>2, <2>2, AnswerCloses DEF Renews
  <2> QED BY <2>1, <2>2, <2>3, NameSet
<1>3. CASE /\ own.ver = lives[l].ask.ver
           /\ own' = [own EXCEPT !.conn = lives[l].gen, !.connecting = 0,
                                 !.ever = TRUE, !.last = ""]
           /\ lives' = [lives EXCEPT ![l].pc = "serve", ![l].ready = TRUE, ![l].ask = NoAsk]
  <2>1. NameStays
    BY <1>3, OwnTypes, WireStays DEF NameStays, Closes, OwnType
  <2> DEFINE e == [r EXCEPT !.pc = "serve", !.ready = TRUE, !.ask = NoAsk]
  <2>2. lives' = [lives EXCEPT ![l] = e]
    BY <1>1, <1>3
  <2>3. e \in LifeType /\ e.ask = NoAsk /\ e.bus = r.bus
    BY AskTypes DEF LifeType, LifePcs
  <2> HIDE DEF e
  <2>4. e.bus = own'.name
    BY <1>1, <1>3, <2>1, <2>3 DEF NameInv, Known, HelloObserved, Admitting, Current, NameStays
  <2>5. /\ DOMAIN lives' = DOMAIN lives
        /\ \A j \in DOMAIN lives : lives'[j] = IF j = l THEN e ELSE lives[j]
    BY <2>2, <2>3, SetLife DEF TypeInv
  <2>6. own.ver \in Nat /\ NoAsk.ver = 0 /\ NoAsk.st = "none"
    BY OwnTypes DEF OwnType, NoAsk
  <2>7. ASSUME NEW j \in DOMAIN lives PROVE Known(j)'
    <3>1. CASE j = l
      BY <2>1, <2>3, <2>4, <2>5, <2>6, <3>1 DEF Known, NameStays
    <3>2. CASE j # l
      <4>1. Known(j)
        BY DEF NameInv
      <4> QED BY <2>1, <2>5, <3>2, <4>1 DEF Known, NameStays, Closes
    <3> QED BY <3>1, <3>2
  <2> QED BY <2>5, <2>7 DEF NameInv
<1> QED BY <1>2, <1>3 DEF HelloObserved

\* A lifetime that leaves its connection takes its hello along.
LEMMA DetachedName ==
  ASSUME TypeInv, NameInv, [Next]_vars, NEW l \in DOMAIN lives, NEW bad \in BOOLEAN,
         Detached(l, bad)
  PROVE  NameInv'
<1>1. PICK p \in {"dial", "done"} :
        lives' = [lives EXCEPT ![l].pc = p, ![l].up = FALSE, ![l].ask = NoAsk]
  BY DEF Detached, RetryOrEnd
<1>2. PICK r \in LifeType : r = lives[l]
  BY LivesTypes
<1> DEFINE e == [r EXCEPT !.pc = p, !.up = FALSE, !.ask = NoAsk]
<1>3. lives' = [lives EXCEPT ![l] = e]
  BY <1>1, <1>2
<1>4. e \in LifeType /\ e.ask = NoAsk /\ e.pc # "serve"
  BY AskTypes DEF LifeType, LifePcs
<1> HIDE DEF e
<1>5. NameStays
  BY OwnTypes, WireStays DEF Detached, Fail, NameStays, Closes, OwnType
<1> QED BY <1>3, <1>4, <1>5, NameSet DEF Renews

\* The public lifetimes and the bus keep the name.
LEMMA LifetimeName ==
  ASSUME TypeInv, NameInv, [Next]_vars, NEW l \in DOMAIN lives, Lifetime(l) \/ Bus(l)
  PROVE  NameInv'
<1>1. CASE DialEnds(l) \/ (Dialled(l) /\ ~Current(l))
  BY <1>1, AnswerCloses, ChangeName DEF DialEnds, Dialled
<1>2. CASE HelloFails(l) \/ ServeEnds(l)
  BY <1>2, DetachedName DEF HelloFails, ServeEnds
<1>3. CASE LinkLoss(l)
  BY <1>3, AnswerCloses, ChangeName DEF LinkLoss
<1>4. CASE Supersede(l)
  <2>1. CASE own' = [own EXCEPT !.ending = TRUE] /\ lives' = [lives EXCEPT ![l].bus = ""]
    <3>1. own'.ending
      BY <2>1, OwnTypes DEF OwnType
    <3> QED BY <2>1, <3>1, AnswerCloses, ChangeName
  <2>2. CASE /\ UNCHANGED own \/ own' = [own EXCEPT !.ending = TRUE, !.down = TRUE]
             /\ Hangup(l)
    BY <2>2, AnswerCloses, ChangeName DEF Hangup
  <2> QED BY <1>4, <2>1, <2>2 DEF Supersede
<1>5. ASSUME NEW m \in Msgs, Arrive(l, m) PROVE NameInv'
  BY <1>5, AnswerCloses, ChangeName DEF Arrive, Hangup
<1> QED BY <1>1, <1>2, <1>3, <1>4, <1>5, DialName, HelloName, ObserveName DEF Lifetime, Bus

\* Every step keeps the name.
LEMMA NameStep ==
  ASSUME TypeInv, NameInv, DueInv, LinkInv, [Next]_vars
  PROVE  NameInv'
<1>1. CASE Extension \/ Response
  BY <1>1, ExtensionApart, AnswerCloses, NameSame
<1>2. ASSUME NEW c \in Calls, Handler(c) PROVE NameInv'
  BY <1>2, HandlerName
<1>3. ASSUME NEW l \in DOMAIN lives, Lifetime(l) \/ Bus(l) PROVE NameInv'
  BY <1>3, LifetimeName
<1>4. ASSUME NEW m \in Msgs, Deliver(m) PROVE NameInv'
  <2>1. NameStays /\ UNCHANGED lives
    BY <1>4, DeliverSame, WireStays DEF NameStays, Closes, OwnSame
  <2> QED BY <2>1, NameSame
<1>5. CASE UNCHANGED vars
  BY <1>5, AnswerCloses, NameSame DEF vars
<1>6. CASE SupersedeAcked \/ HostStops \/ OwnerClosed
  BY <1>6, AnswerCloses, NameSame DEF SupersedeAcked, HostStops, OwnerClosed
<1>7. CASE OwnerCloses
  <2>1. own'.public = 0 /\ own'.ver = own.ver
    BY <1>7, OwnTypes DEF OwnerCloses, OwnType
  <2>2. DOMAIN lives' = DOMAIN lives /\ \A l \in DOMAIN lives : lives'[l].ask = lives[l].ask
    BY <1>7, LivesTypes DEF OwnerCloses, LifeType
  <2>3. \A l \in DOMAIN lives : own'.public # l
    BY <2>1, LenProperties DEF TypeInv
  <2> QED BY <2>1, <2>2, <2>3 DEF NameInv, Known
<1> QED BY <1>1, <1>2, <1>3, <1>4, <1>5, <1>6, <1>7 DEF Next, Supervisor

\* What most steps make of calls and hellos that are due: nothing new.
CallsStay == \A c \in Calls : call'[c].pc = "rehello" => call'[c] = call[c]
AsksStay == \A l \in DOMAIN lives : lives'[l].ask.st = "due" => lives'[l].ask = lives[l].ask

\* Such steps keep what is due, under the same name or under none.
LEMMA DueSame ==
  ASSUME TypeInv, DueInv, CallsStay, AsksStay, DOMAIN lives' = DOMAIN lives,
         NameStays \/ own'.public = 0
  PROVE  DueInv'
<1>1. 0 \notin DOMAIN lives
  BY LenProperties DEF TypeInv
<1> QED BY <1>1 DEF DueInv, CallsStay, AsksStay, NameStays

\* A call that goes on elsewhere is not about a second hello.
LEMMA CallsElsewhere ==
  ASSUME TypeInv, NEW c \in Calls, NEW p \in CallPcs \ {"rehello"}, NEW x, NEW y,
         \/ UNCHANGED call \/ Refuse(c) \/ RefuseReady(c)
         \/ \E s \in {"ok", "err"} : Reply(c, s)
         \/ call' = [call EXCEPT ![c].pc = p]
         \/ call' = [call EXCEPT ![c].pc = p, ![c].arg = x]
         \/ call' = [call EXCEPT ![c].pc = p, ![c].life = x]
         \/ call' = [call EXCEPT ![c].pc = p, ![c].gen = y]
         \/ call' = [call EXCEPT ![c] = [@ EXCEPT !.pc = p, !.arg = x]]
         \/ call' = [call EXCEPT ![c] = [NoCall EXCEPT !.pc = p, !.arg = x]]
  PROVE  CallsStay
<1>1. CASE UNCHANGED call
  BY <1>1 DEF CallsStay
<1>2. CASE Refuse(c) \/ RefuseReady(c) \/ \E s \in {"ok", "err"} : Reply(c, s)
  BY <1>2, ReplyTypes, RefuseTypes DEF CallsStay
<1>3. CASE ~(UNCHANGED call \/ Refuse(c) \/ RefuseReady(c) \/ \E s \in {"ok", "err"} : Reply(c, s))
  <2>1. call \in [Calls -> CallType] /\ NoCall \in CallType
    BY NoCallType DEF TypeInv
  <2>3. ASSUME NEW r, call' = [call EXCEPT ![c] = r], r.pc = p
        PROVE  call'[c].pc = p /\ \A d \in Calls \ {c} : call'[d] = call[d]
    BY <2>1, <2>3
  <2>4. ASSUME NEW r \in CallType
        PROVE  /\ [r EXCEPT !.pc = p].pc = p /\ [r EXCEPT !.pc = p, !.arg = x].pc = p
               /\ [r EXCEPT !.pc = p, !.life = x].pc = p
               /\ [r EXCEPT !.pc = p, !.gen = y].pc = p
    BY <2>4 DEF CallType
  <2>5. call[c] \in CallType
    BY <2>1
  <2>2. call'[c].pc = p /\ \A d \in Calls \ {c} : call'[d] = call[d]
    <3>1. CASE call' = [call EXCEPT ![c] = [call[c] EXCEPT !.pc = p]]
      <4>1. [call[c] EXCEPT !.pc = p].pc = p
        BY <2>1, <2>4, <2>5
      <4> QED BY <2>3, <3>1, <4>1
    <3>2. CASE call' = [call EXCEPT ![c] = [call[c] EXCEPT !.pc = p, !.arg = x]]
      <4>1. [call[c] EXCEPT !.pc = p, !.arg = x].pc = p
        BY <2>1, <2>4, <2>5
      <4> QED BY <2>3, <3>2, <4>1
    <3>3. CASE call' = [call EXCEPT ![c] = [call[c] EXCEPT !.pc = p, !.life = x]]
      <4>1. [call[c] EXCEPT !.pc = p, !.life = x].pc = p
        BY <2>1, <2>4, <2>5
      <4> QED BY <2>3, <3>3, <4>1
    <3>4. CASE call' = [call EXCEPT ![c] = [call[c] EXCEPT !.pc = p, !.gen = y]]
      <4>1. [call[c] EXCEPT !.pc = p, !.gen = y].pc = p
        BY <2>1, <2>4, <2>5
      <4> QED BY <2>3, <3>4, <4>1
    <3>5. CASE call' = [call EXCEPT ![c] = [NoCall EXCEPT !.pc = p, !.arg = x]]
      <4>1. [NoCall EXCEPT !.pc = p, !.arg = x].pc = p
        BY <2>1, <2>4, <2>5
      <4> QED BY <2>3, <3>5, <4>1
    <3> QED BY <1>3, <3>1, <3>2, <3>3, <3>4, <3>5
  <2> QED BY <2>2 DEF CallsStay
<1> QED BY <1>1, <1>2, <1>3

\* The handlers, but for owner.ready's, publish no second name.
LEMMA HandlerDue ==
  ASSUME TypeInv, GateInv, NameInv, DueInv, LinkInv, [Next]_vars, NEW c \in Calls, Handler(c)
  PROVE  DueInv'
<1>0. {"described", "admit", "join", "pump", "append", "lookup", "public", "result",
       "none", "ok", "err"} \subseteq CallPcs \ {"rehello"}
  BY DEF CallPcs
<1>1. CASE PublishAgain(c)
  <2>1. call[c].pc = "described" /\ \A d \in Calls : call[d].pc # "rehello"
    BY <1>1, GateFree DEF PublishAgain, Inside
  <2>2. \A d \in Calls \ {c} : call'[d].pc # "rehello"
    <3>1. CASE own.conn = 0
      BY <1>1, <2>1, <3>1, ReplyTypes DEF PublishAgain
    <3>2. CASE own.conn # 0
      BY <1>1, <2>1, <3>2 DEF PublishAgain, TypeInv
    <3> QED BY <3>1, <3>2
  <2>3. call'[c].pc = "rehello" => own'.name = call'[c].arg
    <3>1. CASE own.conn = 0
      BY <1>1, <3>1, ReplyTypes DEF PublishAgain
    <3>2. CASE own.conn # 0
      BY <1>1, <3>2, OwnTypes DEF PublishAgain, TypeInv, CallType, OwnType
    <3> QED BY <3>1, <3>2
  <2> QED BY <2>2, <2>3 DEF DueInv
<1>2. CASE PublishFirst(c)
  <2>1. CallsStay
    <3>1. CASE RefuseReady(c)
      BY <1>0, <3>1, CallsElsewhere
    <3>2. CASE call' = [call EXCEPT ![c].pc = "admit", ![c].life = Len(lives) + 1]
      BY <1>0, <3>2, CallsElsewhere
    <3> QED BY <1>2, <3>1, <3>2 DEF PublishFirst
  <2>2. CASE RefuseReady(c) /\ UNCHANGED lives
    <3>1. NameStays
      BY <2>2, AnswerCloses DEF RefuseReady
    <3> QED BY <2>1, <2>2, <3>1, DueSame DEF AsksStay
  <2>3. CASE Publishes(c)
    <3>1. \A d \in Calls : call[d].pc # "rehello"
      BY <1>2, GateFree DEF PublishFirst, Inside
    <3> QED BY <2>1, <3>1 DEF DueInv, CallsStay
  <2> QED BY <1>2, <2>2, <2>3 DEF PublishFirst, Publishes
<1>3. CASE Rehello(c)
  <2>1. AsksStay /\ DOMAIN lives' = DOMAIN lives
    BY <1>3, LivesTypes DEF Rehello, Hello, AsksStay, LifeType
  <2> QED BY <1>3, <2>1, DueSame, AnswerCloses DEF Rehello, CallsStay
<1>4. CASE Rehelloed(c) \/ RehelloCut(c)
  <2>1. AsksStay /\ DOMAIN lives' = DOMAIN lives
    BY <1>4, LivesTypes DEF Rehelloed, RehelloCut, AsksStay, LifeType, NoAsk
  <2>2. NameStays
    BY <1>4, AnswerCloses DEF Rehelloed, RehelloCut, RefuseReady
  <2>3. CallsStay
    BY <1>0, <1>4, CallsElsewhere DEF Rehelloed, RehelloCut
  <2> QED BY <2>1, <2>2, <2>3, DueSame
<1>5. CASE c = "end" /\ EndBegins
  <2>1. CallsStay
    BY <1>0, <1>5, CallsElsewhere DEF EndBegins
  <2>2. CASE Refuse("end") /\ UNCHANGED lives
    <3>1. NameStays
      BY <2>2, AnswerCloses DEF Refuse
    <3> QED BY <2>1, <2>2, <3>1, DueSame DEF AsksStay
  <2>3. CASE Withdraws
    <3>1. own'.public = 0
      BY <2>3, OwnTypes DEF Withdraws, OwnType
    <3>2. AsksStay /\ DOMAIN lives' = DOMAIN lives
      BY <2>3, LivesTypes DEF Withdraws, AsksStay, LifeType
    <3> QED BY <2>1, <3>1, <3>2, DueSame
  <2> QED BY <1>5, <2>2, <2>3 DEF EndBegins, Owns, Withdraws
<1>6. CASE \/ AcquireRefused(c) \/ Describe(c) \/ PublishRefused(c) \/ Admitted(c)
           \/ NotAdmitted(c) \/ RehelloLost(c)
  <2>1. UNCHANGED lives /\ (own' = own \/ own' = Fail(own))
    BY <1>6 DEF AcquireRefused, Describe, PublishRefused, Admitted, NotAdmitted, RehelloLost,
         Refuse, RefuseReady
  <2>2. CallsStay
    BY <1>0, <1>6, CallsElsewhere DEF AcquireRefused, Describe, PublishRefused, Admitted,
         NotAdmitted, RehelloLost
  <2> QED BY <2>1, <2>2, AnswerCloses, DueSame DEF AsksStay
<1>7. CASE \/ c = "end" /\ EndJoined
           \/ c = "tool" /\ (ToolBegins \/ ToolPublic \/ ToolResult \/ ToolReturns)
  <2>1. UNCHANGED <<own, lives>>
    BY <1>7 DEF EndJoined, ToolBegins, ToolPublic, ToolResult, ToolReturns
  <2>2. CallsStay
    BY <1>0, <1>7, CallsElsewhere DEF EndJoined, ToolBegins, ToolPublic, ToolResult,
         ToolReturns
  <2> QED BY <2>1, <2>2, AnswerCloses, DueSame DEF AsksStay
<1>8. CASE \/ c = "tree" /\ TreeBegins
           \/ c = "drain" /\ (DrainBegins \/ DrainSends \/ DrainEnds)
  <2>1. UNCHANGED lives /\ NameStays
    BY <1>8, AnswerCloses DEF TreeBegins, DrainBegins, DrainSends, DrainEnds, Refuse
  <2>2. CallsStay
    <3>0. c \in Calls /\ "tree" \in Calls /\ "drain" \in Calls
      BY DEF Calls
    <3>1. CASE \E d \in Calls : Refuse(d) \/ Reply(d, "ok")
      BY <1>0, <3>1, CallsElsewhere
    <3>2. CASE TreeBegins
      <4>1. CASE \E p \in {"ok", "none"} : \E x :
                   call' = [call EXCEPT !["tree"] = [NoCall EXCEPT !.pc = p, !.arg = x]]
        <5>1. PICK p \in {"ok", "none"} : \E x :
                 call' = [call EXCEPT !["tree"] = [NoCall EXCEPT !.pc = p, !.arg = x]]
          BY <4>1
        <5>2. PICK x : call' = [call EXCEPT !["tree"] = [NoCall EXCEPT !.pc = p, !.arg = x]]
          BY <5>1
        <5> QED BY <1>0, <3>0, <5>2, CallsElsewhere
      <4> QED BY <3>0, <3>1, <3>2, <4>1 DEF TreeBegins
    <3>3. CASE DrainBegins
      <4>1. call' = [call EXCEPT !["drain"].pc = "pump"]
        BY <3>3 DEF DrainBegins
      <4> QED BY <1>0, <3>0, <4>1, CallsElsewhere
    <3>4. CASE DrainSends
      <4>1. call' = [call EXCEPT !["drain"].pc = "append", !["drain"].arg = Head(own.queue)]
        BY <3>4 DEF DrainSends
      <4> QED BY <1>0, <3>0, <4>1, CallsElsewhere
    <3>5. CASE DrainEnds
      BY <3>0, <3>1, <3>5 DEF DrainEnds
    <3> QED BY <1>8, <3>2, <3>3, <3>4, <3>5
  <2> QED BY <2>1, <2>2, DueSame DEF AsksStay
<1>9. CASE c = "drain" /\ DrainAppended
  <2>1. ASSUME own' = own \/ own' = Fail(own) PROVE NameStays
    BY <2>1, AnswerCloses
  <2>2. ASSUME own' = [own EXCEPT !.queue = Tail(own.queue)] PROVE NameStays
    BY <2>2, OwnTypes, WireStays DEF OwnType, NameStays, Closes
  <2>3. UNCHANGED lives /\ NameStays
    BY <1>9, <2>1, <2>2 DEF DrainAppended, Refuse
  <2>4. CallsStay
    <3>0. "drain" \in Calls
      BY DEF Calls
    <3>1. CASE Refuse("drain") \/ Reply("drain", "ok")
      BY <1>0, <3>0, <3>1, CallsElsewhere
    <3>2. CASE call' = [call EXCEPT !["drain"] = [@ EXCEPT !.pc = "pump", !.arg = ""]]
      BY <1>0, <3>0, <3>2, CallsElsewhere
    <3> QED BY <1>9, <3>1, <3>2 DEF DrainAppended
  <2> QED BY <2>3, <2>4, DueSame DEF AsksStay
<1> QED BY <1>1, <1>2, <1>3, <1>4, <1>5, <1>6, <1>7, <1>8, <1>9 DEF Handler

\* Every step keeps what is due.
LEMMA DueStep ==
  ASSUME TypeInv, GateInv, NameInv, DueInv, LinkInv, [Next]_vars
  PROVE  DueInv'
<1>1. CASE Extension \/ Response
  <2>1. CallsStay
    BY <1>1, ExtensionQuiet, ResponseQuiet DEF Quiet, CallsQuiet, CallsStay, Inside
  <2> QED BY <1>1, <2>1, ExtensionApart, AnswerCloses, DueSame DEF AsksStay
<1>2. ASSUME NEW c \in Calls, Handler(c) PROVE DueInv'
  BY <1>2, HandlerDue
<1>3. ASSUME NEW l \in DOMAIN lives, Lifetime(l) \/ Bus(l) PROVE DueInv'
  <2>1. UNCHANGED call
    BY <1>3 DEF Lifetime, Bus, DialEnds, Dialled, HelloSent, HelloObserved, HelloFails,
         ServeEnds, Detached, LinkLoss, Supersede, Arrive
  <2>2. AsksStay /\ DOMAIN lives' = DOMAIN lives
    <3>1. lives[l] \in LifeType
      BY LivesTypes
    <3>2. ASSUME NEW e, lives' = [lives EXCEPT ![l] = e],
                 e.ask = lives[l].ask \/ e.ask.st # "due"
          PROVE  AsksStay /\ DOMAIN lives' = DOMAIN lives
      BY <3>2, LivesTypes DEF AsksStay
    <3>3. CASE UNCHANGED lives
      BY <3>3 DEF AsksStay
    <3>4. CASE \E q : lives' = [lives EXCEPT ![l].pc = q]
      <4>1. PICK q : lives' = [lives EXCEPT ![l] = [lives[l] EXCEPT !.pc = q]]
        BY <3>4
      <4>2. [lives[l] EXCEPT !.pc = q].ask = lives[l].ask
        BY <3>1 DEF LifeType
      <4> QED BY <3>2, <4>1, <4>2
    <3>5. CASE \E q : lives' = [lives EXCEPT ![l].pc = q, ![l].up = FALSE, ![l].ask = NoAsk]
      <4>1. PICK q : lives' = [lives EXCEPT ![l] = [lives[l] EXCEPT !.pc = q, !.up = FALSE,
                                                                   !.ask = NoAsk]]
        BY <3>5
      <4>2. [lives[l] EXCEPT !.pc = q, !.up = FALSE, !.ask = NoAsk].ask.st # "due"
        BY <3>1 DEF LifeType, NoAsk
      <4> QED BY <3>2, <4>1, <4>2
    <3>6. CASE Dialled(l)
      <4>1. CASE Current(l)
        <5>2. lives' = [lives EXCEPT ![l] = [lives[l] EXCEPT !.pc = "hello", !.gen = own.gen + 1,
                                               !.up = TRUE, !.bus = "", !.ask = NoAsk]]
          BY <3>6, <4>1 DEF Dialled
        <5>1. [lives[l] EXCEPT !.pc = "hello", !.gen = own.gen + 1, !.up = TRUE, !.bus = "",
                               !.ask = NoAsk].ask.st # "due"
          BY <3>1 DEF LifeType, NoAsk
        <5> QED BY <3>2, <5>1, <5>2
      <4> QED BY <3>3, <3>4, <3>6, <4>1 DEF Dialled
    <3>7. CASE HelloSent(l)
      <4>1. PICK n, v : Hello(l, n, v)
        BY <3>7 DEF HelloSent
      <4>2. CASE lives' = [lives EXCEPT ![l].ask = [st |-> "yes", ver |-> v], ![l].bus = n]
        <5>1. lives' = [lives EXCEPT ![l] = [lives[l] EXCEPT !.ask = [st |-> "yes", ver |-> v],
                                                            !.bus = n]]
          BY <4>2
        <5>2. [lives[l] EXCEPT !.ask = [st |-> "yes", ver |-> v], !.bus = n].ask.st # "due"
          BY <3>1 DEF LifeType
        <5> QED BY <3>2, <5>1, <5>2
      <4>3. CASE lives' = [lives EXCEPT ![l].ask = [st |-> "no", ver |-> v]]
        <5>1. lives' = [lives EXCEPT ![l] = [lives[l] EXCEPT !.ask = [st |-> "no", ver |-> v]]]
          BY <4>3
        <5>2. [lives[l] EXCEPT !.ask = [st |-> "no", ver |-> v]].ask.st # "due"
          BY <3>1 DEF LifeType
        <5> QED BY <3>2, <5>1, <5>2
      <4> QED BY <4>1, <4>2, <4>3 DEF Hello
    <3>8. CASE HelloObserved(l)
      <4>1. CASE lives' = [lives EXCEPT ![l].ask = NoAsk]
        <5>1. lives' = [lives EXCEPT ![l] = [lives[l] EXCEPT !.ask = NoAsk]]
          BY <4>1
        <5>2. [lives[l] EXCEPT !.ask = NoAsk].ask.st # "due"
          BY <3>1 DEF LifeType, NoAsk
        <5> QED BY <3>2, <5>1, <5>2
      <4>2. CASE lives' = [lives EXCEPT ![l].pc = "serve", ![l].ready = TRUE, ![l].ask = NoAsk]
        <5>1. lives' = [lives EXCEPT ![l] = [lives[l] EXCEPT !.pc = "serve", !.ready = TRUE,
                                                             !.ask = NoAsk]]
          BY <4>2
        <5>2. [lives[l] EXCEPT !.pc = "serve", !.ready = TRUE, !.ask = NoAsk].ask.st # "due"
          BY <3>1 DEF LifeType, NoAsk
        <5> QED BY <3>2, <5>1, <5>2
      <4> QED BY <3>5, <3>8, <4>1, <4>2 DEF HelloObserved, Detached
    <3>9. CASE HelloFails(l) \/ ServeEnds(l)
      BY <3>5, <3>9 DEF HelloFails, ServeEnds, Detached
    <3>10. CASE Bus(l)
      <4>1. CASE lives' = [lives EXCEPT ![l].up = FALSE]
        <5>1. lives' = [lives EXCEPT ![l] = [lives[l] EXCEPT !.up = FALSE]]
          BY <4>1
        <5>2. [lives[l] EXCEPT !.up = FALSE].ask = lives[l].ask
          BY <3>1 DEF LifeType
        <5> QED BY <3>2, <5>1, <5>2
      <4>2. CASE lives' = [lives EXCEPT ![l].bus = ""]
        <5>1. lives' = [lives EXCEPT ![l] = [lives[l] EXCEPT !.bus = ""]]
          BY <4>2
        <5>2. [lives[l] EXCEPT !.bus = ""].ask = lives[l].ask
          BY <3>1 DEF LifeType
        <5> QED BY <3>2, <5>1, <5>2
      <4> QED BY <3>3, <3>10, <4>1, <4>2 DEF Bus, LinkLoss, Supersede, Arrive, Hangup
    <3> QED BY <1>3, <3>3, <3>4, <3>6, <3>7, <3>8, <3>9, <3>10 DEF Lifetime, DialEnds
  <2>3. own'.name = own.name /\ own'.ver = own.ver /\ own'.public = own.public
    BY <1>3, OwnTypes DEF Lifetime, Bus, DialEnds, Dialled, HelloSent, HelloObserved,
         HelloFails, ServeEnds, Detached, LinkLoss, Supersede, Arrive, Fail, OwnType
  <2> QED BY <2>1, <2>2, <2>3 DEF DueInv, AsksStay
<1>4. ASSUME NEW m \in Msgs, Deliver(m) PROVE DueInv'
  <2>1. NameStays /\ UNCHANGED <<lives, call>>
    BY <1>4, DeliverSame, WireStays DEF NameStays, Closes, OwnSame
  <2> QED BY <2>1, DueSame DEF AsksStay, CallsStay
<1>5. CASE UNCHANGED vars
  BY <1>5, AnswerCloses, DueSame DEF vars, AsksStay, CallsStay
<1>6. CASE SupersedeAcked \/ HostStops \/ OwnerClosed
  BY <1>6, AnswerCloses, DueSame DEF SupersedeAcked, HostStops, OwnerClosed, AsksStay,
       CallsStay
<1>7. CASE OwnerCloses
  <2>1. own'.public = 0 /\ UNCHANGED call
    BY <1>7, OwnTypes DEF OwnerCloses, OwnType
  <2>2. DOMAIN lives' = DOMAIN lives /\ AsksStay
    BY <1>7, LivesTypes DEF OwnerCloses, LifeType, AsksStay
  <2> QED BY <2>1, <2>2, DueSame DEF CallsStay
<1> QED BY <1>1, <1>2, <1>3, <1>4, <1>5, <1>6, <1>7 DEF Next, Supervisor

\* Between hellos the bus has the latest name, however renames, reconnects, refusals and
\* lost connections fall together.
THEOREM NamePublishedAlways == Spec => []NamePublished
<1>1. Init => NameInv /\ DueInv
  BY NoLives DEF NameInv, DueInv
<1>2. IInv /\ DeliveryInv /\ NameInv /\ DueInv /\ [Next]_vars => NameInv' /\ DueInv'
  BY NameStep, DueStep DEF IInv, DeliveryInv
<1>3. NameInv => NamePublished
  BY DEF NameInv, Known, NamePublished
<1> QED BY <1>1, <1>2, <1>3, Invariant, DeliveryInvariant, PTL DEF Spec

-----------------------------------------------------------------------------
\* The limits.

\* Calls name lifetimes and connections there have been, the queue keeps its limit.
RangeInv ==
  /\ \A c \in Calls : call[c].life <= Len(lives) /\ call[c].gen <= own.gen
  /\ own.connecting <= own.gen
  /\ Len(own.queue) <= QueueLimit
  /\ gate \in {Free} \cup Calls \cup Msgs
  /\ sup \in {"none", "ack", "done"}
  /\ host \in {"run", "kill", "leave", "close", "closed"}

\* A published lifetime dials for the first time, or after a connection that was lost
\* before the last one the bus may drop.
Redials(l) ==
  own.public = l /\ ~own.ending =>
    /\ lives[l].pc = "dial" /\ lives[l].gen # 0 => own.gen < MaxGen
    /\ lives[l].pc \in {"hello", "serve"} /\ ~lives[l].up /\ ~own.down => own.gen < MaxGen
DialInv ==
  /\ \A l \in DOMAIN lives : Redials(l)
  /\ own.gen <= MaxGen + Len(lives)
  /\ Len(lives) # 0 /\ lives[Len(lives)].gen = 0 => own.gen + 1 <= MaxGen + Len(lives)

\* The deliveries that have a slot are finitely many, and with the acknowledgement of a
\* supersession no more than there are slots.
Serving == {m \in Msgs : del[m].pc \notin Over}
SlotInv == IsFiniteSet(Serving) /\ Busy <= SlotLimit

-----------------------------------------------------------------------------
(* The ranges.                                                             *)

\* What a step of the extension or of a handler makes of a call: it keeps what the call
\* names, drops it, or names the published lifetime and its connection.
NamesFew(r, e) ==
  /\ e.life \in {0, r.life, own.public, own'.public}
  /\ e.gen \in {0, r.gen, own.conn}

\* A call that begins, or ends, names nothing.
LEMMA BlankCall ==
  /\ NoCall.life = 0 /\ NoCall.gen = 0
  /\ \A p, i, a : /\ [NoCall EXCEPT !.pc = p, !.id = i, !.arg = a].life = 0
                  /\ [NoCall EXCEPT !.pc = p, !.id = i, !.arg = a].gen = 0
                  /\ [NoCall EXCEPT !.pc = p, !.arg = a].life = 0
                  /\ [NoCall EXCEPT !.pc = p, !.arg = a].gen = 0
BY DEF NoCall

\* An answer, and a request of the extension.
LEMMA SentNames ==
  ASSUME TypeInv, NEW c \in Calls,
         \/ \E r : Reply(c, r)
         \/ \E i, a : Send(c, i, a)
         \/ call' = [call EXCEPT ![c] = NoCall]
  PROVE  \A d \in Calls : NamesFew(call[d], call'[d])
<1>1. \A d \in Calls \ {c} : call'[d] = call[d]
  BY DEF TypeInv, Reply, Send
<1>2. call'[c].life = 0 /\ call'[c].gen = 0
  <2>1. ASSUME NEW r, Reply(c, r) PROVE call'[c].life = 0 /\ call'[c].gen = 0
    <3> DEFINE e == [NoCall EXCEPT !.pc = r, !.arg = call[c].arg]
               x == IF ext.wire /\ (c = "end" \/ (c = "tree" /\ r = "ok")) THEN e ELSE NoCall
    <3>1. e.life = 0 /\ e.gen = 0
      BY BlankCall
    <3>2. call' = [call EXCEPT ![c] = x]
      BY <2>1 DEF Reply
    <3> HIDE DEF e
    <3> QED BY <3>1, <3>2, BlankCall DEF TypeInv
  <2>2. ASSUME NEW i, NEW a, Send(c, i, a) PROVE call'[c].life = 0 /\ call'[c].gen = 0
    <3>1. call'[c] = [NoCall EXCEPT !.pc = "sent", !.id = i, !.arg = a]
      BY <2>2 DEF Send, TypeInv
    <3> QED BY <3>1, BlankCall
  <2> QED BY <2>1, <2>2, BlankCall DEF TypeInv
<1> QED BY <1>1, <1>2 DEF NamesFew

\* The extension's calls.
LEMMA ExtensionNames ==
  ASSUME TypeInv, Extension \/ Response
  PROVE  \A d \in Calls : NamesFew(call[d], call'[d])
<1>1. CASE UNCHANGED call
  BY <1>1 DEF NamesFew
<1>2. CASE \E c \in Calls : \/ \E i, a : Send(c, i, a)
                            \/ call' = [call EXCEPT ![c] = NoCall]
  BY <1>2, SentNames
<1> QED BY <1>1, <1>2 DEF Extension, SessionStart, Rename, Prompt, TurnBegins, CompactBegins,
     BeforeTree, ToolCall, MessageShown, SessionShutdown, ToolAborted, Response, Settled,
     Compacted, CompactFailed, TreeAnswered, TreeDone, TreeFails, LaterDrain, EndAnswered,
     NativeExit, CallLost, NativeAppend, AppendLost, Calls

\* A handler's call goes on.
LEMMA GoneOnNames ==
  ASSUME TypeInv, NEW c \in Calls, NEW p, NEW a, NEW k \in {own.public, own'.public},
         \/ call' = [call EXCEPT ![c].pc = p]
         \/ call' = [call EXCEPT ![c].pc = p, ![c].arg = a]
         \/ call' = [call EXCEPT ![c].pc = p, ![c].life = k]
         \/ call' = [call EXCEPT ![c].pc = p, ![c].life = k, ![c].gen = own.conn]
         \/ call' = [call EXCEPT ![c].pc = p, ![c].gen = own.conn]
         \/ call' = [call EXCEPT ![c] = [NoCall EXCEPT !.pc = p, !.arg = a]]
  PROVE  \A d \in Calls : NamesFew(call[d], call'[d])
<1>1. \A d \in Calls \ {c} : call'[d] = call[d]
  BY DEF TypeInv
<1>2. PICK r \in CallType : r = call[c] /\ call \in [Calls -> CallType]
  BY DEF TypeInv
<1>3. CASE call' = [call EXCEPT ![c] = [NoCall EXCEPT !.pc = p, !.arg = a]]
  BY <1>1, <1>2, <1>3, BlankCall DEF NamesFew
<1>4. CASE call' # [call EXCEPT ![c] = [NoCall EXCEPT !.pc = p, !.arg = a]]
  <2>1. /\ call'[c].life \in {r.life, k}
        /\ call'[c].gen \in {r.gen, own.conn}
    BY <1>2, <1>4 DEF CallType
  <2> QED BY <1>1, <1>2, <2>1 DEF NamesFew
<1> QED BY <1>3, <1>4

\* The handlers' calls.
LEMMA HandlerNames ==
  ASSUME TypeInv, NEW c \in Calls, Handler(c)
  PROVE  \A d \in Calls : NamesFew(call[d], call'[d])
<1>0. own \in OwnType /\ Calls = {"start", "info", "end", "drain", "tree", "tool"}
  BY DEF TypeInv, Calls
<1>1. CASE \E d \in Calls : \E r : Reply(d, r)
  BY <1>1, SentNames
<1>2. CASE AcquireRefused(c) \/ Describe(c) \/ PublishRefused(c) \/ Admitted(c) \/ NotAdmitted(c)
  <2>1. CASE call' = [call EXCEPT ![c].pc = "described", ![c].arg = PublicName(ext.title)]
    BY <2>1, GoneOnNames
  <2> QED BY <1>1, <1>2, <2>1 DEF AcquireRefused, Describe, PublishRefused, Admitted,
       NotAdmitted, Refuse, RefuseReady
<1>3. CASE PublishFirst(c)
  <2>1. CASE RefuseReady(c)
    BY <1>1, <2>1 DEF RefuseReady
  <2>2. CASE /\ call' = [call EXCEPT ![c].pc = "admit", ![c].life = Len(lives) + 1]
             /\ own' = [own EXCEPT !.public = Len(lives) + 1, !.id = call[c].id,
                                   !.name = call[c].arg, !.ver = @ + 1]
    <3>1. own'.public = Len(lives) + 1
      BY <1>0, <2>2 DEF OwnType
    <3> QED BY <2>2, <3>1, GoneOnNames
  <2> QED BY <1>3, <2>1, <2>2 DEF PublishFirst
<1>4. CASE PublishAgain(c)
  BY <1>1, <1>4, GoneOnNames DEF PublishAgain
<1>5. CASE Rehelloed(c) \/ RehelloLost(c) \/ RehelloCut(c)
  BY <1>1, <1>5 DEF Rehelloed, RehelloLost, RehelloCut, RefuseReady
<1>11. CASE Rehello(c)
  BY <1>11 DEF Rehello, NamesFew
<1>6. CASE c = "end" /\ (EndBegins \/ EndJoined)
  BY <1>0, <1>1, <1>6, GoneOnNames DEF EndBegins, EndJoined, Refuse
<1>7. CASE c = "tree" /\ TreeBegins
  <2>1. CASE \E p, a : call' = [call EXCEPT !["tree"] = [NoCall EXCEPT !.pc = p, !.arg = a]]
    <3>1. PICK p, a : call' = [call EXCEPT !["tree"] = [NoCall EXCEPT !.pc = p, !.arg = a]]
      BY <2>1
    <3> QED BY <1>0, <3>1, GoneOnNames
  <2> QED BY <1>0, <1>1, <1>7, <2>1 DEF TreeBegins, Refuse
<1>8. CASE c = "drain" /\ (DrainBegins \/ DrainSends \/ DrainEnds)
  <2>1. CASE call' = [call EXCEPT !["drain"].pc = "pump"]
    BY <1>0, <2>1, GoneOnNames
  <2>2. CASE DrainSends
    <3>1. call' = [call EXCEPT !["drain"].pc = "append", !["drain"].arg = Head(own.queue)]
      BY <2>2 DEF DrainSends
    <3> QED BY <1>0, <3>1, GoneOnNames
  <2> QED BY <1>0, <1>1, <1>8, <2>1, <2>2 DEF DrainBegins, DrainEnds, Refuse
<1>9. CASE c = "drain" /\ DrainAppended
  <2>1. CASE call' = [call EXCEPT !["drain"] = [@ EXCEPT !.pc = "pump", !.arg = ""]]
    <3>1. call' = [call EXCEPT !["drain"].pc = "pump", !["drain"].arg = ""]
      BY <2>1
    <3> QED BY <1>0, <3>1, GoneOnNames
  <2> QED BY <1>0, <1>1, <1>9, <2>1 DEF DrainAppended, Refuse
<1>10. CASE c = "tool" /\ (ToolBegins \/ ToolPublic \/ ToolResult \/ ToolReturns)
  BY <1>0, <1>1, <1>10, GoneOnNames DEF ToolBegins, ToolPublic, ToolResult, ToolReturns
<1> QED BY <1>2, <1>3, <1>4, <1>5, <1>6, <1>7, <1>8, <1>9, <1>10, <1>11 DEF Handler

\* What becomes of the owner's queue and of the connection it waits for.
QueueGoes == \/ own'.queue \in {own.queue, <<>>}
             \/ own.queue # <<>> /\ own'.queue = Tail(own.queue)
LinkGoes == /\ own'.gen = own.gen
            /\ own'.connecting \in {0, own.connecting} /\ own'.conn \in {0, own.conn}

\* The handlers add nothing to the queue and dial nothing.
LEMMA HandlerQueue ==
  ASSUME TypeInv, NEW c \in Calls, Handler(c)
  PROVE  QueueGoes /\ LinkGoes
<1>0. own \in OwnType
  BY DEF TypeInv
<1>1. CASE \/ UNCHANGED own \/ \E d \in Calls : Refuse(d) \/ RefuseReady(d)
           \/ own' = [own EXCEPT !.tree = TRUE] \/ own' = [own EXCEPT !.tree = FALSE]
           \/ own' = [own EXCEPT !.ever = TRUE, !.last = ""]
  <2>1. own' = own \/ (OwnSame /\ own'.queue = own.queue /\ own'.connecting = own.connecting)
    BY <1>1, RefuseSame, OwnChange
  <2> QED BY <2>1 DEF QueueGoes, LinkGoes, OwnSame
<1>2. CASE AcquireRefused(c) \/ Describe(c) \/ PublishRefused(c) \/ Admitted(c) \/ NotAdmitted(c)
  BY <1>1, <1>2 DEF AcquireRefused, Describe, PublishRefused, Admitted, NotAdmitted
<1>3. CASE PublishFirst(c)
  <2>1. ASSUME NEW n, NEW v,
               own' = [own EXCEPT !.public = n, !.id = call[c].id, !.name = call[c].arg, !.ver = v]
        PROVE  QueueGoes /\ LinkGoes
    BY <1>0, <2>1 DEF OwnType, QueueGoes, LinkGoes
  <2> QED BY <1>1, <1>3, <2>1 DEF PublishFirst
<1>4. CASE PublishAgain(c)
  <2>1. ASSUME NEW v, own' = [own EXCEPT !.name = call[c].arg, !.ver = v]
        PROVE  QueueGoes /\ LinkGoes
    BY <1>0, <2>1 DEF OwnType, QueueGoes, LinkGoes
  <2> QED BY <1>4, <2>1 DEF PublishAgain
<1>5. CASE Rehello(c) \/ Rehelloed(c) \/ RehelloLost(c) \/ RehelloCut(c)
  BY <1>1, <1>5 DEF Rehello, Rehelloed, RehelloLost, RehelloCut
<1>6. CASE c = "end" /\ EndBegins
  <2>1. ASSUME own' = [own EXCEPT !.public = 0, !.conn = 0, !.connecting = 0, !.id = NoId,
                                  !.name = "", !.last = call["end"].arg,
                                  !.queue = <<>>, !.tree = FALSE]
        PROVE  QueueGoes /\ LinkGoes
    BY <1>0, <2>1 DEF OwnType, QueueGoes, LinkGoes
  <2> QED BY <1>1, <1>6, <2>1 DEF EndBegins
<1>7. CASE c = "drain" /\ DrainAppended
  <2>1. ASSUME own.queue # <<>>, own' = [own EXCEPT !.queue = Tail(@)]
        PROVE  QueueGoes /\ LinkGoes
    BY <1>0, <2>1 DEF OwnType, QueueGoes, LinkGoes
  <2> QED BY <1>1, <1>7, <2>1 DEF DrainAppended
<1>8. CASE \/ c = "end" /\ EndJoined
           \/ c = "tree" /\ TreeBegins
           \/ c = "drain" /\ (DrainBegins \/ DrainSends \/ DrainEnds)
           \/ c = "tool" /\ (ToolBegins \/ ToolPublic \/ ToolResult \/ ToolReturns)
  BY <1>1, <1>8 DEF EndJoined, TreeBegins, DrainBegins, DrainSends, DrainEnds, ToolBegins,
       ToolPublic, ToolResult, ToolReturns
<1> QED BY <1>2, <1>3, <1>4, <1>5, <1>6, <1>7, <1>8 DEF Handler

\* A queue that does not grow keeps its limit.
LEMMA QueueFits ==
  ASSUME TypeInv, Len(own.queue) <= QueueLimit, QueueGoes
  PROVE  Len(own'.queue) <= QueueLimit
<1>1. QueueLimit \in Nat /\ own.queue \in Seq(Msgs)
  BY PiAssumption DEF TypeInv, OwnType
<1>2. CASE own'.queue = own.queue
  BY <1>2
<1>3. CASE own'.queue = <<>>
  BY <1>1, <1>3
<1>4. CASE own.queue # <<>> /\ own'.queue = Tail(own.queue)
  <2>1. Len(Tail(own.queue)) = Len(own.queue) - 1
    BY <1>1, <1>4, HeadTailProperties
  <2>2. PICK n \in Nat : n = Len(own.queue)
    BY <1>1, LenProperties
  <2> QED BY <1>1, <1>4, <2>1, <2>2
<1> QED BY <1>2, <1>3, <1>4 DEF QueueGoes

\* The gate, the supersession and the supervisor.
LEMMA HolderStep ==
  ASSUME RangeInv, [Next]_vars
  PROVE  /\ gate' \in {Free} \cup Calls \cup Msgs
         /\ sup' \in {"none", "ack", "done"}
         /\ host' \in {"run", "kill", "leave", "close", "closed"}
<1>1. CASE Extension \/ Response
  BY <1>1, ExtensionApart DEF RangeInv
<1>2. ASSUME NEW c \in Calls, Handler(c)
      PROVE  UNCHANGED <<sup, host>> /\ gate' \in {gate, Free} \cup Calls
  BY <1>2, HandlerApart
    DEF Calls, Handler, AcquireRefused, Describe, PublishFirst, PublishAgain, PublishRefused,
       Admitted, NotAdmitted, Rehello, Rehelloed, RehelloLost, RehelloCut, EndBegins, EndJoined,
       TreeBegins, DrainBegins, DrainSends, DrainEnds, DrainAppended, ToolBegins, ToolPublic,
       ToolResult, ToolReturns
<1>3. ASSUME NEW l \in DOMAIN lives, Lifetime(l) \/ Bus(l)
      PROVE  UNCHANGED <<gate, host>> /\ sup' \in {sup, "ack", "done"}
  BY <1>3 DEF Lifetime, DialEnds, Dialled, HelloSent, HelloObserved, HelloFails, ServeEnds,
       Detached, Bus, LinkLoss, Supersede, Arrive
<1>4. ASSUME NEW m \in Msgs, Deliver(m)
      PROVE  UNCHANGED <<sup, host>> /\ gate' \in {gate, Free, m}
  BY <1>4 DEF Deliver, DeliverRefused, DeliverBegins, DeliverChecks, DeliverAppended,
       DeliverQueues, DeliverQueued
<1>5. CASE Supervisor \/ UNCHANGED vars
  BY <1>5 DEF RangeInv, vars, Supervisor, SupersedeAcked, HostStops, OwnerCloses, OwnerClosed
<1> QED BY <1>1, <1>2, <1>3, <1>4, <1>5 DEF Next, RangeInv

\* What a step keeps the ranges by: nothing that is named goes away.
Grows == /\ Len(lives) <= Len(lives') /\ own.gen <= own'.gen
         /\ own'.connecting <= own'.gen /\ Len(own'.queue) <= QueueLimit

\* The numbers of the owner are numbers.
LEMMA OwnNumbers ==
  ASSUME TypeInv
  PROVE  /\ own.gen \in Nat /\ own.connecting \in Nat /\ own.conn \in Nat /\ own.public \in Nat
         /\ Len(lives) \in Nat /\ DOMAIN lives = 1..Len(lives)
         /\ own.queue \in Seq(Msgs) /\ Len(own.queue) \in Nat
BY LenProperties DEF TypeInv, OwnType

\* Steps that dial nothing and add nothing.
LEMMA GoesGrow ==
  ASSUME TypeInv, RangeInv, LinkGoes, QueueGoes, Len(lives') = Len(lives)
  PROVE  Grows
BY OwnNumbers, QueueFits DEF Grows, LinkGoes, RangeInv

\* The same for the changes of flags.
LEMMA FlagsGrow ==
  ASSUME TypeInv, RangeInv, OwnSame, own'.queue = own.queue, own'.connecting = own.connecting,
         Len(lives') = Len(lives)
  PROVE  Grows
BY OwnNumbers, GoesGrow DEF OwnSame, LinkGoes, QueueGoes

\* The handlers.
LEMMA HandlerGrows ==
  ASSUME TypeInv, RangeInv, NEW c \in Calls, Handler(c)
  PROVE  Grows
<1>1. QueueGoes /\ LinkGoes
  BY HandlerQueue
<1>2. CASE LivesSame \/ Withdraws
  <2>1. Len(lives') = Len(lives)
    BY <1>2, LivesChange, AskTypes, ValueTypes DEF LivesSame, Withdraws
  <2> QED BY <1>1, <2>1, GoesGrow
<1>3. CASE Publishes(c)
  <2>1. Len(lives') = Len(lives) + 1
    <3> DEFINE r == [id |-> call[c].id, pc |-> "dial", gone |-> FALSE, ready |-> FALSE,
                     gen |-> 0, up |-> FALSE, bus |-> "", ask |-> NoAsk]
    <3>1. lives' = Append(lives, r)
      BY <1>3 DEF Publishes
    <3> HIDE DEF r
    <3> QED BY <3>1, AppendProperties DEF TypeInv
  <2> QED BY <1>1, <2>1, OwnNumbers, QueueFits DEF Grows, LinkGoes, RangeInv
<1> QED BY <1>2, <1>3, HandlerSame

\* The deliveries: only the queue grows, to its limit.
LEMMA DeliverGrows ==
  ASSUME TypeInv, RangeInv, NEW m \in Msgs, Deliver(m)
  PROVE  Grows
<1>1. UNCHANGED lives /\ own \in OwnType
  BY DeliverSame DEF TypeInv
<1>2. ASSUME NEW res, NEW o \in OwnType, Settle(m, res, o), o.gen = own.gen,
             o.connecting = own.connecting, Len(o.queue) <= QueueLimit
      PROVE  Grows
  <2>1. /\ own'.gen = own.gen /\ own'.connecting = own.connecting
        /\ own'.queue = o.queue
    BY <1>2 DEF Settle, Fail, OwnType
  <2> QED BY <1>1, <1>2, <2>1, OwnNumbers DEF Grows, RangeInv
<1>3. ASSUME NEW res, Settle(m, res, own) PROVE Grows
  BY <1>1, <1>2, <1>3 DEF RangeInv
<1>4. CASE UNCHANGED own
  BY <1>1, <1>4, FlagsGrow DEF OwnSame
<1>5. CASE DeliverRefused(m) \/ DeliverBegins(m) \/ DeliverChecks(m) \/ DeliverQueues(m)
  BY <1>3, <1>4, <1>5 DEF DeliverRefused, DeliverBegins, DeliverChecks, DeliverQueues
<1>6. CASE DeliverAppended(m)
  <2> DEFINE o == [own EXCEPT !.tree = FALSE]
  <2>1. /\ o \in OwnType /\ o.gen = own.gen /\ o.connecting = own.connecting
        /\ o.queue = own.queue
    BY <1>1 DEF OwnType
  <2>2. \/ UNCHANGED own \/ Settle(m, "written", o) \/ \E res : Settle(m, res, own)
    BY <1>6 DEF DeliverAppended
  <2>3. CASE Settle(m, "written", o)
    <3> HIDE DEF o
    <3> QED BY <1>2, <2>1, <2>3 DEF RangeInv
  <2> QED BY <1>3, <1>4, <2>2, <2>3
<1>7. CASE DeliverQueued(m)
  <2> DEFINE o == [own EXCEPT !.queue = Append(own.queue, m)]
  <2>1. /\ own.queue \in Seq(Msgs) /\ Append(own.queue, m) \in Seq(Msgs)
        /\ Len(Append(own.queue, m)) = Len(own.queue) + 1
    BY <1>1, AppendProperties DEF OwnType
  <2>2. /\ o \in OwnType /\ o.gen = own.gen /\ o.connecting = own.connecting
        /\ Len(o.queue) = Len(own.queue) + 1
    BY <1>1, <2>1 DEF OwnType
  <2>3. \/ \E res : Settle(m, res, own)
        \/ Settle(m, "queued", o) /\ Len(own.queue) < QueueLimit
    BY <1>7, OwnNumbers, PiAssumption DEF DeliverQueued
  <2>4. CASE Settle(m, "queued", o) /\ Len(own.queue) < QueueLimit
    <3> HIDE DEF o
    <3>1. Len(o.queue) <= QueueLimit
      BY <2>2, <2>4, OwnNumbers, PiAssumption
    <3> QED BY <1>2, <2>2, <2>4, <3>1
  <2> QED BY <1>3, <2>3, <2>4
<1> QED BY <1>5, <1>6, <1>7 DEF Deliver

\* The lifetimes and the bus: a dial is the next connection.
LEMMA LifetimeGrows ==
  ASSUME TypeInv, RangeInv, NEW l \in DOMAIN lives, Lifetime(l) \/ Bus(l)
  PROVE  Grows
<1>0. own \in OwnType
  BY DEF TypeInv
<1>1. Len(lives') = Len(lives)
  <2>1. DOMAIN lives' = DOMAIN lives
    <3>1. ASSUME NEW bad, Detached(l, bad) PROVE DOMAIN lives' = DOMAIN lives
      BY <3>1 DEF Detached
    <3> QED BY <3>1 DEF Lifetime, DialEnds, Dialled, HelloSent, Hello, HelloObserved,
         HelloFails, ServeEnds, Bus, LinkLoss, Supersede, Arrive, Hangup
  <2>2. lives' \in Seq(LifeType)
    BY LifetimeTypes, BusTypes DEF TypeInv
  <2> QED BY <2>1, <2>2, OwnNumbers, LenProperties
<1>2. CASE \/ UNCHANGED own \/ own' = Fail(own)
           \/ own' = [own EXCEPT !.ending = TRUE] \/ own' = [own EXCEPT !.ending = TRUE, !.down = TRUE]
  BY <1>1, <1>2, OwnChange, FlagsGrow
<1>3. CASE DialEnds(l) \/ HelloSent(l) \/ Bus(l)
  BY <1>2, <1>3 DEF DialEnds, HelloSent, Bus, LinkLoss, Supersede, Arrive
<1>4. CASE Dialled(l)
  <2>1. CASE own' = [own EXCEPT !.gen = @ + 1, !.connecting = own.gen + 1]
    <3>1. PICK g \in Nat : g = own.gen + 1
      BY OwnNumbers
    <3>2. own' = [own EXCEPT !.gen = g, !.connecting = g]
      BY <2>1, <3>1
    <3>3. own'.gen = g /\ own'.connecting = g /\ own'.queue = own.queue
      BY <1>0, <3>2 DEF OwnType
    <3> QED BY <1>1, <3>1, <3>3, OwnNumbers DEF Grows, RangeInv
  <2> QED BY <1>2, <1>4, <2>1 DEF Dialled
<1>5. CASE HelloObserved(l)
  <2>1. CASE own' = [own EXCEPT !.conn = lives[l].gen, !.connecting = 0, !.ever = TRUE, !.last = ""]
    <3>1. own'.gen = own.gen /\ own'.connecting = 0 /\ own'.queue = own.queue
      BY <1>0, <2>1 DEF OwnType
    <3> QED BY <1>1, <3>1, OwnNumbers DEF Grows, RangeInv
  <2> QED BY <1>2, <1>5, <2>1 DEF HelloObserved
<1>6. ASSUME NEW bad, Detached(l, bad) PROVE Grows
  <2>1. PICK a \in {0, own.conn}, b \in {0, own.connecting} :
          own' \in {[own EXCEPT !.conn = a, !.connecting = b],
                    Fail([own EXCEPT !.conn = a, !.connecting = b])}
    BY <1>6 DEF Detached
  <2>2. own'.gen = own.gen /\ own'.connecting = b /\ own'.queue = own.queue
    BY <1>0, <2>1 DEF OwnType, Fail
  <2> QED BY <1>1, <2>2, OwnNumbers DEF Grows, RangeInv
<1> QED BY <1>3, <1>4, <1>5, <1>6 DEF Lifetime, HelloFails, ServeEnds

\* The supervisor.
LEMMA SupervisorGrows ==
  ASSUME TypeInv, RangeInv, Supervisor
  PROVE  Grows
<1>1. CASE SupersedeAcked \/ HostStops \/ OwnerClosed
  BY <1>1, OwnChange, FlagsGrow DEF SupersedeAcked, HostStops, OwnerClosed
<1>2. CASE OwnerCloses
  <2>1. own'.gen = own.gen /\ own'.connecting = 0 /\ own'.queue = <<>>
    BY <1>2, OwnTypes DEF OwnerCloses, OwnType
  <2>2. DOMAIN lives' = DOMAIN lives
    BY <1>2 DEF OwnerCloses
  <2>3. lives' \in Seq(LifeType)
    BY <1>2, SupervisorTypes DEF Supervisor, TypeInv
  <2>4. Len(lives') = Len(lives)
    BY <2>2, <2>3, OwnNumbers, LenProperties
  <2>5. Len(own'.queue) <= QueueLimit
    BY <2>1, PiAssumption
  <2> QED BY <2>1, <2>4, <2>5, OwnNumbers DEF Grows
<1> QED BY <1>1, <1>2 DEF Supervisor

\* Every step grows.
LEMMA GrowsStep ==
  ASSUME TypeInv, RangeInv, [Next]_vars
  PROVE  Grows
<1>1. CASE Extension \/ Response \/ UNCHANGED vars
  <2>1. UNCHANGED <<own, lives>>
    BY <1>1, ExtensionApart DEF vars
  <2> QED BY <2>1, FlagsGrow DEF OwnSame
<1> QED BY <1>1, HandlerGrows, DeliverGrows, LifetimeGrows, SupervisorGrows DEF Next

\* No other step touches the calls.
LEMMA CallStep ==
  ASSUME TypeInv, [Next]_vars
  PROVE  \A d \in Calls : NamesFew(call[d], call'[d])
<1>1. CASE UNCHANGED call
  BY <1>1 DEF NamesFew
<1>2. CASE Supervisor \/ UNCHANGED vars
  BY <1>1, <1>2 DEF vars, Supervisor, SupersedeAcked, HostStops, OwnerCloses, OwnerClosed
<1>3. ASSUME NEW l \in DOMAIN lives, Lifetime(l) \/ Bus(l)
      PROVE  UNCHANGED call
  BY <1>3 DEF Lifetime, DialEnds, Dialled, HelloSent, HelloObserved, HelloFails, ServeEnds,
       Detached, Bus, LinkLoss, Supersede, Arrive
<1>4. ASSUME NEW m \in Msgs, Deliver(m) PROVE UNCHANGED call
  BY <1>4, DeliverSame
<1> QED BY <1>1, <1>2, <1>3, <1>4, ExtensionNames, HandlerNames DEF Next

\* Every step keeps the ranges.
LEMMA RangeStep ==
  ASSUME TypeInv, TypeInv', LinkInv, LinkInv', RangeInv, [Next]_vars
  PROVE  RangeInv'
<1>1. Grows
  BY GrowsStep
<1>2. /\ own'.gen \in Nat /\ own'.public \in Nat /\ Len(lives') \in Nat
      /\ own.gen \in Nat /\ own.conn \in Nat /\ own.public \in Nat /\ Len(lives) \in Nat
  BY LenProperties DEF TypeInv, OwnType
<1>3. own.public <= Len(lives) /\ own.conn <= own.gen /\ own'.public <= Len(lives')
  BY <1>2 DEF LinkInv
<1>4. ASSUME NEW d \in Calls PROVE call'[d].life <= Len(lives') /\ call'[d].gen <= own'.gen
  <2>1. NamesFew(call[d], call'[d])
    BY CallStep
  <2>2. call[d].life <= Len(lives) /\ call[d].gen <= own.gen
    BY DEF RangeInv
  <2>3. call[d].life \in Nat /\ call[d].gen \in Nat
    BY DEF TypeInv, CallType
  <2>4. Len(lives) <= Len(lives') /\ own.gen <= own'.gen
    BY <1>1 DEF Grows
  <2>5. \A x \in {0, call[d].life, own.public, own'.public} : x <= Len(lives')
    BY <1>2, <1>3, <2>2, <2>3, <2>4
  <2>6. \A x \in {0, call[d].gen, own.conn} : x <= own'.gen
    BY <1>2, <1>3, <2>2, <2>3, <2>4
  <2> QED BY <2>1, <2>5, <2>6 DEF NamesFew
<1> QED BY <1>1, <1>4, HolderStep DEF RangeInv, Grows

-----------------------------------------------------------------------------
(* The slots.                                                              *)

\* Who is being served grows by one that finds a slot free.
LEMMA SlotStep ==
  ASSUME TypeInv, RangeInv, SlotInv, [Next]_vars
  PROVE  SlotInv'
<1> DEFINE B == Cardinality(Serving)
<1>1. /\ IsFiniteSet(Serving) /\ B \in Nat /\ SlotLimit \in Nat
      /\ B + (IF sup = "ack" THEN 1 ELSE 0) <= SlotLimit
      /\ Busy = B + (IF sup = "ack" THEN 1 ELSE 0)
      /\ Busy' = B' + (IF sup' = "ack" THEN 1 ELSE 0)
  BY FS_CardinalityType, PiAssumption DEF SlotInv, Busy, Serving, Over
<1>2. CASE Serving' \subseteq Serving /\ (sup' = "ack" => sup = "ack")
  <2>1. IsFiniteSet(Serving') /\ B' <= B /\ B' \in Nat
    BY <1>1, <1>2, FS_Subset, FS_CardinalityType
  <2> QED BY <1>1, <1>2, <2>1 DEF SlotInv
<1>3. CASE UNCHANGED <<del, sup>>
  BY <1>2, <1>3 DEF Serving
<1>4. ASSUME NEW m \in Msgs, Deliver(m) PROVE SlotInv'
  <2>1. DelSame /\ UNCHANGED sup
    BY <1>4, DeliverSame
  <2>2. Serving' \subseteq Serving
    BY <2>1 DEF DelSame, Serving
  <2> QED BY <1>2, <2>1, <2>2
<1>5. ASSUME NEW l \in DOMAIN lives, NEW m \in Msgs, Arrive(l, m) PROVE SlotInv'
  <2>1. UNCHANGED sup
    BY <1>5 DEF Arrive
  <2>2. CASE del' = [del EXCEPT ![m].pc = "done"]
    <3>1. Serving' \subseteq Serving
      BY <2>2 DEF Serving, TypeInv, DelType, Over
    <3> QED BY <1>2, <2>1, <3>1
  <2>3. CASE /\ ~(Busy >= SlotLimit)
             /\ del' = [del EXCEPT ![m].pc = "slot", ![m].gen = lives[l].gen, ![m].life = l]
    <3>1. Serving' \subseteq Serving \cup {m}
      BY <2>3 DEF Serving, TypeInv
    <3>2. IsFiniteSet(Serving \cup {m}) /\ Cardinality(Serving \cup {m}) <= B + 1
      <4>1. /\ IsFiniteSet(Serving \cup {m})
            /\ Cardinality(Serving \cup {m}) = IF m \in Serving THEN B ELSE B + 1
        BY <1>1, FS_AddElement
      <4> HIDE DEF B
      <4> QED BY <1>1, <4>1
    <3>3. /\ IsFiniteSet(Serving') /\ B' <= Cardinality(Serving \cup {m})
          /\ B' \in Nat /\ Cardinality(Serving \cup {m}) \in Nat
      BY <3>1, <3>2, FS_Subset, FS_CardinalityType
    <3>4. B' <= B + 1
      BY <1>1, <3>2, <3>3
    <3> QED BY <1>1, <2>1, <2>3, <3>3, <3>4 DEF SlotInv
  <2> QED BY <1>5, <2>2, <2>3 DEF Arrive
<1>6. ASSUME NEW l \in DOMAIN lives, Supersede(l) PROVE SlotInv'
  <2>1. UNCHANGED del /\ (sup' = "ack" => sup = "ack" \/ (sup = "none" /\ ~(Busy >= SlotLimit)))
    BY <1>6 DEF Supersede
  <2>2. Serving' = Serving /\ B' = B
    BY <2>1 DEF Serving
  <2> QED BY <1>1, <2>1, <2>2 DEF SlotInv
<1>7. ASSUME NEW l \in DOMAIN lives, Lifetime(l) \/ LinkLoss(l) PROVE SlotInv'
  BY <1>3, <1>7 DEF Lifetime, DialEnds, Dialled, HelloSent, HelloObserved, HelloFails, ServeEnds,
       Detached, LinkLoss
<1>8. CASE Supervisor \/ UNCHANGED vars
  <2>1. UNCHANGED del /\ (sup' = "ack" => sup = "ack")
    BY <1>8 DEF vars, Supervisor, SupersedeAcked, HostStops, OwnerCloses, OwnerClosed
  <2> QED BY <1>2, <2>1 DEF Serving
<1>9. CASE Extension \/ Response \/ \E c \in Calls : Handler(c)
  BY <1>3, <1>9, ExtensionApart, HandlerApart
<1> QED BY <1>4, <1>5, <1>6, <1>7, <1>8, <1>9 DEF Next, Bus

-----------------------------------------------------------------------------
(* The dials.                                                              *)

\* Ends of the owner are final.
Ends == /\ own.ending => own'.ending
        /\ own.down => own'.down

\* The handlers end nothing but the owner, and no transport.
LEMMA HandlerEnds ==
  ASSUME TypeInv, NEW c \in Calls, Handler(c)
  PROVE  Ends
<1>0. own \in OwnType
  BY DEF TypeInv
<1>1. CASE \/ UNCHANGED own \/ \E d \in Calls : Refuse(d) \/ RefuseReady(d)
           \/ own' = [own EXCEPT !.tree = TRUE] \/ own' = [own EXCEPT !.tree = FALSE]
           \/ own' = [own EXCEPT !.ever = TRUE, !.last = ""]
  BY <1>1, RefuseSame, OwnChange DEF Ends
<1>2. CASE AcquireRefused(c) \/ Describe(c) \/ PublishRefused(c) \/ Admitted(c) \/ NotAdmitted(c)
  BY <1>1, <1>2 DEF AcquireRefused, Describe, PublishRefused, Admitted, NotAdmitted
<1>3. CASE PublishFirst(c) \/ PublishAgain(c)
  <2>1. ASSUME NEW n, NEW v,
               own' = [own EXCEPT !.public = n, !.id = call[c].id, !.name = call[c].arg, !.ver = v]
        PROVE  Ends
    BY <1>0, <2>1 DEF OwnType, Ends
  <2>2. CASE PublishFirst(c)
    BY <1>1, <2>1, <2>2 DEF PublishFirst
  <2>3. CASE PublishAgain(c)
    <3>1. ASSUME NEW v, own' = [own EXCEPT !.name = call[c].arg, !.ver = v] PROVE Ends
      BY <1>0, <3>1 DEF OwnType, Ends
    <3> QED BY <2>3, <3>1 DEF PublishAgain
  <2> QED BY <1>3, <2>2, <2>3
<1>5. CASE Rehello(c) \/ Rehelloed(c) \/ RehelloLost(c) \/ RehelloCut(c)
  BY <1>1, <1>5 DEF Rehello, Rehelloed, RehelloLost, RehelloCut
<1>6. CASE c = "end" /\ EndBegins
  <2>1. ASSUME own' = [own EXCEPT !.public = 0, !.conn = 0, !.connecting = 0, !.id = NoId,
                                  !.name = "", !.last = call["end"].arg,
                                  !.queue = <<>>, !.tree = FALSE]
        PROVE  Ends
    BY <1>0, <2>1 DEF OwnType, Ends
  <2> QED BY <1>1, <1>6, <2>1 DEF EndBegins
<1>7. CASE c = "drain" /\ DrainAppended
  <2>1. ASSUME own' = [own EXCEPT !.queue = Tail(@)]
        PROVE  Ends
    BY <1>0, <2>1 DEF OwnType, Ends
  <2> QED BY <1>1, <1>7, <2>1 DEF DrainAppended
<1>8. CASE \/ c = "end" /\ EndJoined
           \/ c = "tree" /\ TreeBegins
           \/ c = "drain" /\ (DrainBegins \/ DrainSends \/ DrainEnds)
           \/ c = "tool" /\ (ToolBegins \/ ToolPublic \/ ToolResult \/ ToolReturns)
  BY <1>1, <1>8 DEF EndJoined, TreeBegins, DrainBegins, DrainSends, DrainEnds, ToolBegins,
       ToolPublic, ToolResult, ToolReturns
<1> QED BY <1>2, <1>3, <1>5, <1>6, <1>7, <1>8 DEF Handler

\* What a lifetime may become without another dial: it stays, ends, begins to serve, or
\* loses a transport while the bus may still drop one or the owner has no use for it.
Milder(l) ==
  /\ lives'[l].gen = lives[l].gen
  /\ lives'[l].pc \in {lives[l].pc, "done"} \/ {lives[l].pc, lives'[l].pc} = {"hello", "serve"}
  /\ \/ lives[l].up => lives'[l].up
     \/ own.gen < MaxGen
     \/ own'.public # l \/ own'.ending \/ own'.down

\* Such steps keep the dials.
LEMMA MilderStep ==
  ASSUME TypeInv, DialInv, Ends, own'.gen = own.gen, own'.public \in {0, own.public},
         Len(lives') = Len(lives), DOMAIN lives' = DOMAIN lives,
         \A l \in DOMAIN lives : Milder(l)
  PROVE  DialInv'
<1>1. ASSUME NEW l \in DOMAIN lives PROVE Redials(l)'
  <2>1. Redials(l) /\ Milder(l)
    BY DEF DialInv
  <2>2. l # 0
    BY OwnNumbers
  <2> QED BY <2>1, <2>2 DEF Redials, Milder, Ends
<1>2. Len(lives) # 0 => Len(lives) \in DOMAIN lives
  BY OwnNumbers
<1> QED BY <1>1, <1>2 DEF DialInv, Milder

\* Lifetimes that do not change.
LEMMA StillStep ==
  ASSUME TypeInv, DialInv, Ends, own'.gen = own.gen, own'.public \in {0, own.public},
         UNCHANGED lives
  PROVE  DialInv'
BY MilderStep DEF Milder

\* One lifetime changes.
LEMMA OneMilder ==
  ASSUME TypeInv, DialInv, Ends, own'.gen = own.gen, own'.public \in {0, own.public},
         NEW l \in DOMAIN lives, NEW e \in LifeType, lives' = [lives EXCEPT ![l] = e],
         e.gen = lives[l].gen,
         e.pc \in {lives[l].pc, "done"} \/ {lives[l].pc, e.pc} = {"hello", "serve"},
         \/ lives[l].up => e.up
         \/ own.gen < MaxGen
         \/ own'.public # l \/ own'.ending \/ own'.down
  PROVE  DialInv'
<1>1. /\ Len(lives') = Len(lives) /\ DOMAIN lives' = DOMAIN lives
      /\ \A j \in DOMAIN lives : lives'[j] = IF j = l THEN e ELSE lives[j]
  BY SetLife DEF TypeInv
<1>2. ASSUME NEW j \in DOMAIN lives PROVE Milder(j)
  BY <1>1 DEF Milder
<1> QED BY <1>1, <1>2, MilderStep

\* The changes of a lifetime where it is.
LEMMA ChangeDial ==
  ASSUME TypeInv, DialInv, Ends, own'.gen = own.gen, own'.public \in {0, own.public},
         NEW l, NEW a \in AskType, NEW b \in Values,
         \/ lives' = lives
         \/ lives' = [lives EXCEPT ![l].ask = a]
         \/ lives' = [lives EXCEPT ![l].ask = a, ![l].bus = b]
         \/ lives' = [lives EXCEPT ![l].bus = b]
         \/ lives' = [lives EXCEPT ![l].pc = "done"]
         \/ /\ lives' = [lives EXCEPT ![l].up = FALSE]
            /\ own.gen < MaxGen \/ own'.public # l \/ own'.ending \/ own'.down
         \/ lives' = [lives EXCEPT ![l].gone = TRUE, ![l].up = FALSE] /\ own'.public # l
  PROVE  DialInv'
<1>1. CASE lives' = lives
  BY <1>1, StillStep
<1>2. CASE l \notin DOMAIN lives
  <2>1. lives \in Seq(LifeType) /\ lives = [x \in DOMAIN lives |-> lives[x]]
    BY LenProperties DEF TypeInv
  <2>2. lives' = lives
    BY <1>2, <2>1
  <2> QED BY <2>2, StillStep
<1>3. CASE l \in DOMAIN lives /\ lives' # lives
  <2>1. PICK r \in LifeType : r = lives[l]
    BY <1>3, LivesTypes
  <2>2. PICK e : /\ lives' = [lives EXCEPT ![l] = e]
                 /\ e \in {[r EXCEPT !.ask = a], [r EXCEPT !.ask = a, !.bus = b],
                           [r EXCEPT !.bus = b], [r EXCEPT !.pc = "done"]}
                    \/ /\ e \in {[r EXCEPT !.up = FALSE], [r EXCEPT !.gone = TRUE, !.up = FALSE]}
                       /\ own.gen < MaxGen \/ own'.public # l \/ own'.ending \/ own'.down
    BY <1>3, <2>1
  <2>3. /\ e \in LifeType /\ e.gen = r.gen /\ e.pc \in {r.pc, "done"}
        /\ r.up /\ ~e.up => own.gen < MaxGen \/ own'.public # l \/ own'.ending \/ own'.down
    BY <2>2 DEF LifeType, LifePcs
  <2> QED BY <1>3, <2>1, <2>2, <2>3, OneMilder
<1> QED BY <1>1, <1>2, <1>3

\* The handlers: the first dial of a lifetime is one more than there were.
LEMMA HandlerDials ==
  ASSUME TypeInv, LinkInv, DialInv, NEW c \in Calls, Handler(c)
  PROVE  DialInv'
<1>1. Ends /\ own'.gen = own.gen
  BY HandlerEnds, HandlerQueue DEF LinkGoes
<1>2. CASE Publishes(c)
  <2> DEFINE r == [id |-> call[c].id, pc |-> "dial", gone |-> FALSE, ready |-> FALSE,
                   gen |-> 0, up |-> FALSE, bus |-> "", ask |-> NoAsk]
  <2>1. lives' = Append(lives, r) /\ r.gen = 0 /\ r.pc = "dial"
    BY <1>2 DEF Publishes
  <2> HIDE DEF r
  <2>2. /\ Len(lives') = Len(lives) + 1 /\ DOMAIN lives' = 1..(Len(lives) + 1)
        /\ \A l \in DOMAIN lives : lives'[l] = lives[l]
        /\ lives'[Len(lives) + 1] = r
    BY <2>1, AppendProperties, LenProperties DEF TypeInv
  <2>3. own'.public = Len(lives) + 1
    BY <1>2, OwnTypes DEF Publishes, OwnType
  <2>4. ASSUME NEW l \in DOMAIN lives' PROVE Redials(l)'
    <3>1. CASE l = Len(lives) + 1
      BY <2>1, <2>2, <3>1 DEF Redials
    <3>2. CASE l # Len(lives) + 1
      BY <2>3, <3>2 DEF Redials
    <3> QED BY <3>1, <3>2
  <2>5. own.gen + 1 <= MaxGen + Len(lives') /\ own.gen <= MaxGen + Len(lives')
    <3>1. MaxGen \in Nat /\ own.gen \in Nat /\ Len(lives) \in Nat
      BY PiAssumption, OwnNumbers
    <3> QED BY <2>2, <3>1 DEF DialInv
  <2> QED BY <1>1, <2>4, <2>5 DEF DialInv
<1>3. CASE Withdraws
  <2>1. own'.public = 0
    BY <1>3, OwnTypes DEF Withdraws, OwnType
  <2>2. lives' = [lives EXCEPT ![own.public].gone = TRUE, ![own.public].up = FALSE]
        /\ own.public # 0
    BY <1>3 DEF Withdraws
  <2> QED BY <1>1, <2>1, <2>2, AskTypes, ValueTypes, ChangeDial
<1>4. CASE UNCHANGED lives /\ OwnSame
  BY <1>1, <1>4, StillStep DEF OwnSame
<1>5. CASE PublishAgain(c) /\ OwnSame
  <2>1. CASE UNCHANGED lives
    BY <1>4, <1>5, <2>1
  <2>2. CASE ~ UNCHANGED lives
    <3>1. PICK v \in Nat : own'.ver = v
      <4>1. PICK v \in Nat : own' = [own EXCEPT !.name = call[c].arg, !.ver = v]
        <5>1. own.ver + 1 \in Nat
          BY NumberTypes DEF TypeInv
        <5> QED BY <1>5, <5>1 DEF PublishAgain
      <4> QED BY <4>1, OwnTypes DEF OwnType
    <3>2. lives' = [lives EXCEPT ![own.public].ask = [st |-> "due", ver |-> v]]
      BY <1>5, <2>2, <3>1 DEF PublishAgain
    <3>3. [st |-> "due", ver |-> v] \in AskType
      BY DEF AskType
    <3> QED BY <1>1, <1>5, <3>2, <3>3, ValueTypes, ChangeDial DEF OwnSame
  <2> QED BY <2>1, <2>2
<1>9. CASE Rehello(c)
  <2>1. PICK a \in AskType, x \in Values :
           \/ lives' = lives
           \/ lives' = [lives EXCEPT ![call[c].life].ask = a]
           \/ lives' = [lives EXCEPT ![call[c].life].ask = a, ![call[c].life].bus = x]
    BY <1>9, RehelloIs
  <2> DEFINE l == call[c].life
  <2>2. own'.public \in {0, own.public}
    BY <1>9 DEF Rehello
  <2>3. \/ lives' = lives
        \/ lives' = [lives EXCEPT ![l].ask = a]
        \/ lives' = [lives EXCEPT ![l].ask = a, ![l].bus = x]
    BY <2>1
  <2> HIDE DEF l
  <2>4. CASE lives' = lives
    BY <1>1, <2>2, <2>4, ChangeDial
  <2>5. CASE lives' = [lives EXCEPT ![l].ask = a]
    BY <1>1, <2>2, <2>5, ChangeDial
  <2>6. CASE lives' = [lives EXCEPT ![l].ask = a, ![l].bus = x]
    BY <1>1, <2>2, <2>6, ChangeDial
  <2> QED BY <2>3, <2>4, <2>5, <2>6
<1>6. CASE (Rehelloed(c) \/ RehelloCut(c)) /\ OwnSame
  <2>1. \E l : lives' = [lives EXCEPT ![l].ask = NoAsk]
    BY <1>6 DEF Rehelloed, RehelloCut
  <2> QED BY <1>1, <1>6, <2>1, AskTypes, ValueTypes, ChangeDial DEF OwnSame
<1>7. Publishes(c) \/ Withdraws \/ OwnSame
  BY HandlerSame
<1>8. \/ PublishAgain(c) \/ Rehello(c) \/ Rehelloed(c) \/ RehelloCut(c) \/ Publishes(c) \/ Withdraws
      \/ UNCHANGED lives
  BY DEF Handler, AcquireRefused, Describe, PublishFirst, Publishes, PublishRefused,
       Admitted, NotAdmitted, RehelloLost, EndBegins, Owns, Withdraws, EndJoined,
       TreeBegins, DrainBegins, DrainSends, DrainEnds, DrainAppended, ToolBegins, ToolPublic,
       ToolResult, ToolReturns
<1> QED BY <1>2, <1>3, <1>4, <1>5, <1>6, <1>7, <1>8, <1>9

\* The dial itself, of the published lifetime.
LEMMA DialledDials ==
  ASSUME TypeInv, LinkInv, DialInv, NEW l \in DOMAIN lives, Dialled(l), Current(l)
  PROVE  DialInv'
<1>0. MaxGen \in Nat /\ own.gen \in Nat /\ Len(lives) \in Nat /\ DOMAIN lives = 1..Len(lives)
  BY PiAssumption, OwnNumbers
<1>1. PICK g \in Nat : g = own.gen + 1
  BY <1>0
<1>2. PICK r \in LifeType : r = lives[l]
  BY LivesTypes
<1> DEFINE e == [r EXCEPT !.pc = "hello", !.gen = g, !.up = TRUE, !.bus = "", !.ask = NoAsk]
<1>3. lives' = [lives EXCEPT ![l] = e]
  BY <1>1, <1>2 DEF Dialled
<1>4. e \in LifeType /\ e.pc = "hello"
  BY AskTypes, ValueTypes DEF LifeType, LifePcs
<1>5. e.gen = g /\ e.up
  BY DEF LifeType
<1> HIDE DEF e
<1>6. /\ Len(lives') = Len(lives) /\ DOMAIN lives' = DOMAIN lives
      /\ \A j \in DOMAIN lives : lives'[j] = IF j = l THEN e ELSE lives[j]
  BY <1>3, <1>4, SetLife DEF TypeInv
<1>7. own'.public = own.public /\ own'.gen = g /\ own.public = l /\ ~own.ending
  BY <1>1, OwnTypes DEF Dialled, Current, OwnType
<1>8. l = Len(lives)
  BY <1>0, <1>7 DEF LinkInv
<1>9. ASSUME NEW j \in DOMAIN lives PROVE Redials(j)'
  BY <1>4, <1>5, <1>6, <1>7 DEF Redials
<1>10. g <= MaxGen + Len(lives)
  <2>1. CASE lives[l].gen = 0
    BY <1>0, <1>1, <1>8, <2>1 DEF DialInv
  <2>2. CASE lives[l].gen # 0
    <3>1. own.gen < MaxGen
      BY <1>7, <2>2 DEF DialInv, Redials, Dialled
    <3> QED BY <1>0, <1>1, <3>1
  <2> QED BY <2>1, <2>2
<1>11. lives'[Len(lives')].gen # 0
  BY <1>0, <1>1, <1>5, <1>6, <1>8
<1> QED BY <1>6, <1>7, <1>9, <1>10, <1>11 DEF DialInv

\* A lifetime that leaves its connection dials again only if the transport was lost.
LEMMA DetachedDials ==
  ASSUME TypeInv, LinkInv, DialInv, NEW l \in DOMAIN lives, NEW bad \in BOOLEAN,
         Detached(l, bad), lives[l].pc \in {"hello", "serve"},
         ~lives[l].up \/ Gone(l) \/ bad
  PROVE  DialInv'
<1>1. PICK r \in LifeType : r = lives[l]
  BY LivesTypes
<1>2. PICK p \in {"dial", "done"} :
        /\ lives' = [lives EXCEPT ![l].pc = p, ![l].up = FALSE, ![l].ask = NoAsk]
        /\ p = "dial" => Current(l) /\ ~Gone(l) /\ ~bad
  BY DEF Detached, RetryOrEnd
<1>3. PICK e \in LifeType : /\ e = [r EXCEPT !.pc = p, !.up = FALSE, !.ask = NoAsk]
                            /\ e.pc = p /\ e.gen = r.gen
  <2>1. /\ [r EXCEPT !.pc = p, !.up = FALSE, !.ask = NoAsk] \in LifeType
        /\ [r EXCEPT !.pc = p, !.up = FALSE, !.ask = NoAsk].pc = p
        /\ [r EXCEPT !.pc = p, !.up = FALSE, !.ask = NoAsk].gen = r.gen
    BY AskTypes DEF LifeType, LifePcs
  <2> QED BY <2>1
<1>4. lives' = [lives EXCEPT ![l] = e]
  BY <1>1, <1>2, <1>3
<1>5. /\ Len(lives') = Len(lives) /\ DOMAIN lives' = DOMAIN lives
      /\ \A j \in DOMAIN lives : lives'[j] = IF j = l THEN e ELSE lives[j]
  BY <1>4, SetLife DEF TypeInv
<1>6. /\ own'.public = own.public /\ own'.gen = own.gen /\ own'.ending = own.ending
      /\ own.down => own'.down
  <2>1. PICK a \in {0, own.conn}, b \in {0, own.connecting} :
          own' \in {[own EXCEPT !.conn = a, !.connecting = b],
                    Fail([own EXCEPT !.conn = a, !.connecting = b])}
    BY DEF Detached
  <2> QED BY <2>1, OwnTypes DEF OwnType, Fail
<1>7. ASSUME NEW j \in DOMAIN lives PROVE Redials(j)'
  <2>1. CASE j # l
    BY <1>5, <1>6, <2>1 DEF DialInv, Redials
  <2>2. CASE j = l
    <3>1. p = "dial" => own.gen < MaxGen
      BY <1>2 DEF DialInv, Redials, Current, Gone
    <3> QED BY <1>3, <1>5, <1>6, <2>2, <3>1 DEF Redials
  <2> QED BY <2>1, <2>2
<1>8. Len(lives) # 0 => Len(lives) \in DOMAIN lives
  BY OwnNumbers
<1>9. \A j \in DOMAIN lives : lives'[j].gen = lives[j].gen
  BY <1>1, <1>3, <1>5
<1> QED BY <1>5, <1>6, <1>7, <1>8, <1>9 DEF DialInv

\* The lifetimes.
LEMMA LifetimeDials ==
  ASSUME TypeInv, LinkInv, DialInv, NEW l \in DOMAIN lives, Lifetime(l)
  PROVE  DialInv'
<1>0. own.name \in Values /\ own.ver \in Nat /\ "" \in Values /\ NoAsk \in AskType
  BY OwnTypes, ValueTypes, AskTypes DEF OwnType
<1>1. CASE UNCHANGED own /\ lives' = [lives EXCEPT ![l].pc = "done"]
  BY <1>0, <1>1, ChangeDial DEF Ends
<1>2. CASE HelloSent(l)
  <2>1. UNCHANGED own /\ Hello(l, own.name, own.ver)
    BY <1>2 DEF HelloSent
  <2>2. PICK a \in AskType : \/ lives' = [lives EXCEPT ![l].ask = a]
                             \/ lives' = [lives EXCEPT ![l].ask = a, ![l].bus = own.name]
    BY <1>0, <2>1, AskTypes DEF Hello
  <2>3. Ends /\ own'.gen = own.gen /\ own'.public \in {0, own.public}
    BY <2>1 DEF Ends
  <2>4. CASE lives' = [lives EXCEPT ![l].ask = a]
    BY <1>0, <2>3, <2>4, ChangeDial
  <2>5. CASE lives' = [lives EXCEPT ![l].ask = a, ![l].bus = own.name]
    BY <1>0, <2>3, <2>5, ChangeDial
  <2> QED BY <2>2, <2>4, <2>5
<1>3. CASE HelloObserved(l)
  <2>1. CASE UNCHANGED own /\ lives' = [lives EXCEPT ![l].ask = NoAsk]
    BY <1>0, <2>1, ChangeDial DEF Ends
  <2>2. CASE /\ own' = [own EXCEPT !.conn = lives[l].gen, !.connecting = 0,
                                   !.ever = TRUE, !.last = ""]
             /\ lives' = [lives EXCEPT ![l].pc = "serve", ![l].ready = TRUE, ![l].ask = NoAsk]
    <3>1. PICK r \in LifeType : r = lives[l]
      BY LivesTypes
    <3>2. PICK e \in LifeType : /\ e = [r EXCEPT !.pc = "serve", !.ready = TRUE, !.ask = NoAsk]
                                /\ e.pc = "serve" /\ e.gen = r.gen /\ e.up = r.up
      <4>1. /\ [r EXCEPT !.pc = "serve", !.ready = TRUE, !.ask = NoAsk] \in LifeType
            /\ [r EXCEPT !.pc = "serve", !.ready = TRUE, !.ask = NoAsk].gen = r.gen
            /\ [r EXCEPT !.pc = "serve", !.ready = TRUE, !.ask = NoAsk].up = r.up
            /\ [r EXCEPT !.pc = "serve", !.ready = TRUE, !.ask = NoAsk].pc = "serve"
        BY <1>0 DEF LifeType, LifePcs
      <4> QED BY <4>1
    <3>3. lives' = [lives EXCEPT ![l] = e]
      BY <2>2, <3>1, <3>2
    <3>4. Ends /\ own'.gen = own.gen /\ own'.public = own.public
      BY <2>2, OwnTypes DEF OwnType, Ends
    <3>5. lives[l].pc = "hello"
      BY <1>3 DEF HelloObserved
    <3> QED BY <3>1, <3>2, <3>3, <3>4, <3>5, OneMilder
  <2> QED BY <1>3, <2>1, <2>2 DEF HelloObserved
<1>4. CASE HelloFails(l) \/ ServeEnds(l)
  BY <1>4, DetachedDials DEF HelloFails, ServeEnds
<1>5. CASE DialEnds(l) \/ Dialled(l)
  BY <1>1, <1>5, DialledDials DEF DialEnds, Dialled
<1> QED BY <1>2, <1>3, <1>4, <1>5 DEF Lifetime

\* The bus: a transport of the published lifetime is lost, or closed by an owner that fails.
LEMMA BusDials ==
  ASSUME TypeInv, LinkInv, DialInv, NEW l \in DOMAIN lives, Bus(l)
  PROVE  DialInv'
<1>0. "" \in Values /\ NoAsk \in AskType
  BY ValueTypes, AskTypes
<1>1. CASE \/ own' = own \/ own' = Fail(own)
           \/ own' = [own EXCEPT !.ending = TRUE]
           \/ own' = [own EXCEPT !.ending = TRUE, !.down = TRUE]
  <2>1. Ends /\ own'.gen = own.gen /\ own'.public = own.public
    BY <1>1, OwnChange DEF Ends, OwnSame
  <2>2. CASE lives' = lives \/ lives' = [lives EXCEPT ![l].bus = ""]
    BY <1>0, <2>1, <2>2, ChangeDial
  <2>3. CASE Hangup(l) /\ (own.gen < MaxGen \/ own'.public # l \/ own'.ending \/ own'.down)
    BY <1>0, <2>1, <2>3, ChangeDial DEF Hangup
  <2>4. CanArrive(l) /\ ~Served(l) => own.gen < MaxGen \/ own.public # l \/ own.ending
    <3>1. lives[l].pc = "serve" /\ own.public = l => own.conn = lives[l].gen /\ own.conn # 0
      BY DEF LinkInv
    <3>2. own.conn # 0 => own.conn = own.gen
      BY DEF LinkInv
    <3> QED BY <3>1, <3>2 DEF CanArrive, Served
  <2>5. CASE LinkLoss(l)
    BY <2>3, <2>5 DEF LinkLoss, Hangup
  <2>6. CASE Supersede(l)
    <3>1. CASE ~Served(l)
      BY <2>1, <2>3, <2>4, <2>6, <3>1 DEF Supersede, Ends
    <3>2. CASE Served(l) /\ Busy >= SlotLimit
      <4>1. own'.ending
        BY <2>6, <3>2, OwnTypes DEF Supersede, OwnType
      <4> QED BY <2>3, <2>6, <3>2, <4>1 DEF Supersede
    <3>3. CASE Served(l) /\ ~(Busy >= SlotLimit)
      BY <2>2, <2>6, <3>3 DEF Supersede
    <3> QED BY <3>1, <3>2, <3>3
  <2>7. ASSUME NEW m \in Msgs, Arrive(l, m) PROVE DialInv'
    <3>1. CASE ~Served(l)
      BY <2>1, <2>3, <2>4, <2>7, <3>1 DEF Arrive, Ends
    <3>2. CASE Served(l) /\ Busy >= SlotLimit
      <4>1. own'.down
        BY <2>7, <3>2, FailTypes, OwnTypes DEF Arrive, Served
      <4> QED BY <2>3, <2>7, <3>2, <4>1 DEF Arrive
    <3>3. CASE Served(l) /\ ~(Busy >= SlotLimit)
      BY <2>2, <2>7, <3>3 DEF Arrive
    <3> QED BY <3>1, <3>2, <3>3
  <2> QED BY <2>5, <2>6, <2>7 DEF Bus
<1> QED BY <1>1 DEF Bus, LinkLoss, Supersede, Arrive

\* Every step keeps the dials.
LEMMA DialStep ==
  ASSUME TypeInv, LinkInv, DialInv, [Next]_vars
  PROVE  DialInv'
<1>1. CASE Extension \/ Response \/ UNCHANGED vars
  <2>1. UNCHANGED <<own, lives>>
    BY <1>1, ExtensionApart DEF vars
  <2> QED BY <2>1, StillStep DEF Ends
<1>2. ASSUME NEW m \in Msgs, Deliver(m) PROVE DialInv'
  <2>1. UNCHANGED lives /\ OwnSame /\ Ends
    BY <1>2, DeliverSame DEF Ends
  <2> QED BY <2>1, StillStep DEF OwnSame
<1>3. CASE SupersedeAcked \/ HostStops \/ OwnerClosed
  <2>1. UNCHANGED lives /\ OwnSame /\ Ends
    BY <1>3, OwnChange DEF SupersedeAcked, HostStops, OwnerClosed, Ends
  <2> QED BY <2>1, StillStep DEF OwnSame
<1>4. CASE OwnerCloses
  <2>1. own'.gen = own.gen /\ own'.public = 0 /\ Ends
    BY <1>4, OwnTypes DEF OwnerCloses, OwnType, Ends
  <2>2. DOMAIN lives' = DOMAIN lives /\ lives' \in Seq(LifeType)
    BY <1>4, SupervisorTypes DEF OwnerCloses, Supervisor, TypeInv
  <2>3. Len(lives') = Len(lives)
    BY <2>2, OwnNumbers, LenProperties
  <2>4. ASSUME NEW l \in DOMAIN lives PROVE Milder(l)
    <3>1. lives'[l].pc = lives[l].pc /\ lives'[l].gen = lives[l].gen
      BY <1>4, LivesTypes DEF OwnerCloses, LifeType
    <3>2. l # 0
      BY OwnNumbers
    <3> QED BY <2>1, <3>1, <3>2 DEF Milder
  <2> QED BY <2>1, <2>2, <2>3, <2>4, MilderStep
<1> QED BY <1>1, <1>2, <1>3, <1>4, HandlerDials, LifetimeDials, BusDials DEF Next, Supervisor

-----------------------------------------------------------------------------
(* The theorems.                                                           *)

BoundInv == RangeInv /\ DialInv /\ SlotInv

\* At first there is nothing to bound.
LEMMA InitBounds == Init => BoundInv
<1> SUFFICES ASSUME Init PROVE BoundInv
  OBVIOUS
<1>1. lives = <<>> /\ Len(lives) = 0 /\ DOMAIN lives = {}
  BY NoLives
<1>2. own.gen = 0 /\ own.connecting = 0 /\ own.queue = lives
  BY <1>1 DEF Init
<1>3. RangeInv
  <2>1. \A c \in Calls : call[c].life = 0 /\ call[c].gen = 0
    BY DEF Init, NoCall
  <2>2. gate = Free /\ sup = "none" /\ host = "run"
    BY DEF Init
  <2>3. Len(own.queue) = 0 /\ QueueLimit \in Nat
    BY <1>1, <1>2, PiAssumption
  <2>4. Len(own.queue) <= QueueLimit
    BY <2>3
  <2> QED BY <1>1, <1>2, <2>1, <2>2, <2>4 DEF RangeInv
<1>4. DialInv
  BY <1>1, <1>2, PiAssumption DEF DialInv
<1>5. SlotInv
  <2>1. \A m \in Msgs : del[m].pc = "none"
    BY DEF Init
  <2>2. Serving = {} /\ {m \in Msgs : del[m].pc \notin {"none", "done"}} = {}
    BY <2>1 DEF Serving, Over
  <2>3. IsFiniteSet({}) /\ Cardinality({}) = 0
    BY FS_EmptySet
  <2>4. sup = "none"
    BY DEF Init
  <2>5. Busy = 0 /\ SlotLimit \in Nat
    <3>1. Cardinality({m \in Msgs : del[m].pc \notin {"none", "done"}}) = 0
      BY <2>2, <2>3
    <3>2. (IF sup = "ack" THEN 1 ELSE 0) = 0
      BY <2>4
    <3> QED BY <3>1, <3>2, PiAssumption DEF Busy
  <2>6. Busy <= SlotLimit /\ IsFiniteSet(Serving)
    BY <2>2, <2>3, <2>5
  <2> QED BY <2>6 DEF SlotInv
<1> QED BY <1>3, <1>4, <1>5 DEF BoundInv

\* Calls, queue, connections and slots stay within their limits: BoundInv is an invariant.
THEOREM BoundInvariant == Spec => []BoundInv
<1>1. IInv /\ IInv' /\ DeliveryInv /\ DeliveryInv' /\ BoundInv /\ [Next]_vars => BoundInv'
  BY RangeStep, DialStep, SlotStep DEF IInv, DeliveryInv, BoundInv
<1> QED BY <1>1, InitBounds, Invariant, DeliveryInvariant, PTL DEF Spec

\* Every variable stays in its range; the owner dials at most MaxGen connections beyond
\* the first of each lifetime, queues no more than maxInteractiveQueueItems messages and
\* serves no more deliveries than it has slots.
THEOREM TypeCorrect == Spec => []TypeOK
<1>1. IInv /\ DeliveryInv /\ BoundInv => TypeOK
  <2> SUFFICES ASSUME IInv, DeliveryInv, BoundInv PROVE TypeOK
    OBVIOUS
  <2>1. /\ ext.act \in {"off", "idle", "turn", "compact", "tree"}
        /\ ext.id \in Ids \cup {NoId} /\ ext.admitted \subseteq Msgs
        /\ ext.later \in Witnesses \cup {"none"}
    BY DEF IInv, TypeInv, ExtType, Acts, IdsOrNone
  <2>2. own \in OwnType /\ TypeInv
    BY DEF IInv, TypeInv
  <2>3. ASSUME NEW c \in Calls
        PROVE  /\ call[c].id \in Ids \cup {NoId}
               /\ call[c].life \in 0..Len(lives) /\ call[c].gen \in 0..own.gen
    <3>1. call[c] \in CallType
      BY <2>2 DEF TypeInv
    <3>2. call[c].life <= Len(lives) /\ call[c].gen <= own.gen
      BY DEF BoundInv, RangeInv
    <3> QED BY <2>2, <3>1, <3>2, OwnNumbers DEF CallType, IdsOrNone
  <2>4. /\ own.id \in Ids \cup {NoId} /\ own.queue \in Seq(Msgs)
        /\ own.public \in 0..Len(lives) /\ own.conn \in 0..own.gen
    <3>1. own.public <= Len(lives) /\ own.conn <= own.gen
      BY <2>2, OwnNumbers DEF DeliveryInv, LinkInv
    <3> QED BY <2>2, <3>1, OwnNumbers DEF OwnType, IdsOrNone
  <2>5. own.connecting \in 0..own.gen /\ own.gen <= MaxGen + Len(lives)
    BY <2>2, OwnNumbers DEF BoundInv, RangeInv, DialInv
  <2>6. app \in [Msgs -> {"none", "sent", "yes", "busy", "branch", "fail"}]
    BY <2>2 DEF TypeInv, Answers
  <2>7. /\ Len(own.queue) <= QueueLimit /\ gate \in {Free} \cup Calls \cup Msgs
        /\ sup \in {"none", "ack", "done"}
        /\ host \in {"run", "kill", "leave", "close", "closed"} /\ Busy <= SlotLimit
    BY DEF BoundInv, RangeInv, SlotInv
  <2> QED BY <2>1, <2>3, <2>4, <2>5, <2>6, <2>7 DEF TypeOK
<1> QED BY <1>1, BoundInvariant, Invariant, DeliveryInvariant, PTL
=============================================================================
