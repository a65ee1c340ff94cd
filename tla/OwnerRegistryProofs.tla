------------------------- MODULE OwnerRegistryProofs -------------------------
(***************************************************************************)
(* Machine-checked proofs about OwnerRegistry, for any number of owners,   *)
(* connection attempts and tool calls, any limits and both topologies.     *)
(*                                                                         *)
(* The inductive invariant is IInv: the types and what the holder of the   *)
(* gate works on (TypeInv), the registry's bindings and retired tokens     *)
(* (RegistryInv), each binding by itself (BindingInv), the order of Close  *)
(* (CloseInv) and the initial name (NameInv).  Each part is preserved by   *)
(* a lemma of its own, one step per action.  TotalExact is about a sum     *)
(* over the bindings, of which it is shown first how one binding moves it. *)
(***************************************************************************)
EXTENDS OwnerRegistry, SequenceTheorems, FiniteSetTheorems, WellFoundedInduction, TLAPS

-----------------------------------------------------------------------------
(* What each part of Next leaves alone, and what the gate's holder becomes.  *)

\* A binding's own loop touches neither the registry's bindings nor the gate.
LEMMA PublicLoopFrame ==
  ASSUME NEW b \in Bindings, PublicLoop(b)
  PROVE  UNCHANGED <<status, primary, retired, holder, endVars, tool>>
BY DEF PublicLoop, LoopExit, Dial, Attach, Publish, HelloRejected, ConnectionLost, Detach,
       Stop, loopElse, stateVars

\* Nor do the public requests, and they make no connection either.
LEMMA RequestsFrame ==
  ASSUME NEW b \in Bindings, Requests(b)
  PROVE  UNCHANGED <<stateVars, endVars, holder, named, stopped, made, attempt, tool>>
BY DEF Requests, Arrive, HandleStale, HandleSuperseded, FailSuperseded, HandleDeliver,
       TakeDelivery, FinishDelivery, Drain, loopElse, loopVars, byteVars

\* Tool calls only read.
LEMMA ToolFrame ==
  ASSUME NEW c \in ToolCalls, Tool(c)
  PROVE  UNCHANGED toolElse
BY DEF Tool, ToolBegin, ToolSend, ToolCheck, Return

\* The lifecycle handlers leave requests, deliveries and the bridge alone.
LEMMA LifecycleFrame ==
  ASSUME Lifecycle
  PROVE  UNCHANGED <<endVars, workVars, made>>
BY DEF Lifecycle, RefuseRequest, BeginReady, BeginEnd, BeginSwitch, Describe, Unmap, CancelPublic,
       JoinPublic, RefuseAdmission, Admit, FinishLane, loopVars

\* Close ends no loop and no handler itself.
End == Close \/ StopBridge \/ CloseBridge \/ Closed \/ BridgeEnded
LEMMA EndFrame ==
  ASSUME End
  PROVE  UNCHANGED <<holder, loop, made, attempt, terminal, workVars, bytes, named,
                     everPrimary, ready, lastEnded, tool>>
BY DEF End, Close, StopBridge, CloseBridge, Closed, BridgeEnded, byteVars, loopVars, stateVars

\* The holder of the gate moves on, gives the gate back, or is a new one.
LEMMA HoldStep ==
  ASSUME holder \in Holders, NEW pc \in HoldPcs, Hold(pc)
  PROVE  /\ holder' \in Holders /\ holder'.pc = pc /\ holder'.kind = holder.kind
         /\ holder'.owner = holder.owner /\ holder'.prev = holder.prev
BY DEF Hold, Holders, HoldPcs

LEMMA ReleaseStep ==
  ASSUME Release
  PROVE  holder' \in Holders /\ holder'.pc = "none"
BY RegistryAssumption DEF Release, NoHolder, Holders, HoldPcs

LEMMA BeginStep ==
  ASSUME NEW kind \in {"ready", "switch", "end"}, NEW b \in 0 .. N, NEW p \in 0 .. N,
         NEW pc \in HoldPcs, Begin(kind, b, p, pc)
  PROVE  /\ holder' \in Holders /\ holder'.pc = pc /\ holder'.kind = kind
         /\ holder'.owner = b /\ holder'.prev = p
BY DEF Begin, Holders, HoldPcs

-----------------------------------------------------------------------------
(* Every variable stays in its range, for every instance.                    *)

LEMMA TypeInit == Init => TypeOK
<1> SUFFICES ASSUME Init PROVE TypeOK
  OBVIOUS
<1> USE RegistryAssumption DEF Init, Bindings
<1>1. status \in [Bindings -> Statuses] /\ primary \in 0 .. N
  BY DEF Statuses
<1>2. holder \in Holders
  BY DEF NoHolder, Holders, HoldPcs
<1>3. retired \in Seq(Bindings) /\ bridge \in {"open", "ended", "stopped", "closed"}
  OBVIOUS
<1>7. lastEnded \in BOOLEAN /\ everPrimary \in BOOLEAN /\ ready \in BOOLEAN
  OBVIOUS
<1>8. err \in BOOLEAN /\ canceled \in BOOLEAN /\ ending \in BOOLEAN /\ closed \in BOOLEAN
  OBVIOUS
<1>4. ByteTypes /\ LoopTypes
  BY DEF ByteTypes, LoopTypes, LoopPcs
<1>5. WorkTypes
  BY DEF WorkTypes
<1>6. tool \in [ToolCalls -> Calls]
  BY DEF Calls, NoCall
<1> HIDE DEF Init
<1> QED BY <1>1, <1>2, <1>3, <1>4, <1>5, <1>6, <1>7, <1>8 DEF TypeOK, RegistryTypes

\* Only the lifecycle handlers and Close change the gate's holder, the bindings and
\* the retired tokens; every handler may fail the registry.
LEMMA FailTypes ==
  ASSUME TypeOK, Fail \/ UNCHANGED failVars
  PROVE  err' \in BOOLEAN /\ canceled' \in BOOLEAN
BY DEF TypeOK, RegistryTypes, Fail, failVars

\* Which owners the holder of the gate works on.
HolderOK ==
  /\ holder.kind \in {"ready", "switch"} => holder.owner \in Bindings
  /\ holder.kind \in {"switch", "end"} => holder.prev \in Bindings
  /\ holder.pc \in {"describe", "admit", "finish"} => holder.kind \in {"ready", "switch"}
  /\ holder.pc \in {"remove", "cancel", "join"} => holder.kind \in {"switch", "end"}
  /\ holder.pc = "finish" => Lane /\ holder.owner \in Primaries

LEMMA HolderTypes ==
  ASSUME TypeOK, HolderOK, [Next]_vars
  PROVE  holder' \in Holders /\ HolderOK'
<1>0. holder \in Holders /\ Bindings \subseteq 0 .. N /\ 0 \in 0 .. N
  BY RegistryAssumption DEF TypeOK, RegistryTypes, Bindings
<1> USE DEF HolderOK
<1> DEFINE Goal == holder' \in Holders /\ HolderOK'
<1>1. ASSUME NEW b \in Bindings, BeginReady(b) \/ BeginEnd(b) PROVE Goal
  <2>1. CASE BeginReady(b)
    BY <2>1, <1>0, BeginStep DEF BeginReady, HoldPcs
  <2>2. CASE BeginEnd(b)
    BY <2>2, <1>0, BeginStep DEF BeginEnd, HoldPcs
  <2> QED BY <1>1, <2>1, <2>2
<1>2. ASSUME NEW b \in Bindings, NEW p \in Bindings, BeginSwitch(p, b) PROVE Goal
  BY <1>2, <1>0, BeginStep DEF BeginSwitch, HoldPcs
<1>3. CASE Release
  BY <1>3, ReleaseStep DEF Release, NoHolder
<1>4. CASE Describe
  BY <1>0, <1>3, <1>4, HoldStep DEF Describe, HoldPcs
<1>5. CASE Unmap
  BY <1>0, <1>3, <1>5, HoldStep DEF Unmap, HoldPcs
<1>6. CASE CancelPublic
  BY <1>0, <1>6, HoldStep DEF CancelPublic, HoldPcs
<1>7. CASE JoinPublic
  BY <1>0, <1>3, <1>7, HoldStep DEF JoinPublic, HoldPcs
<1>8. CASE Admit
  BY <1>0, <1>3, <1>8, HoldStep DEF Admit, HoldPcs, Target, HasPublic
<1>9. CASE FinishLane \/ RefuseAdmission
  BY <1>3, <1>9 DEF FinishLane, RefuseAdmission
<1>10. CASE UNCHANGED holder \/ RefuseRequest
  BY <1>0, <1>10 DEF RefuseRequest
<1> HIDE DEF Goal, HolderOK
<1> QED BY <1>1, <1>2, <1>4, <1>5, <1>6, <1>7, <1>8, <1>9, <1>10, PublicLoopFrame,
        RequestsFrame, ToolFrame, EndFrame DEF Next, Lifecycle, End, Stopped, vars, toolElse, Goal

\* Only the lifecycle handlers and Close change the bindings and the retired tokens.
LEMMA BindingTypes ==
  ASSUME TypeOK, HolderOK, [Next]_vars
  PROVE  status' \in [Bindings -> Statuses] /\ primary' \in 0 .. N /\ retired' \in Seq(Bindings)
<1> USE RegistryAssumption DEF TypeOK, RegistryTypes, Statuses, Bindings
<1>1. CASE UNCHANGED <<status, primary, retired>>
  BY <1>1
<1>2. CASE Unmap
  <2>1. CASE UNCHANGED stateVars
    BY <1>1, <2>1 DEF stateVars
  <2>2. CASE ~UNCHANGED stateVars
    <3>1. /\ holder.prev \in Bindings
          /\ status' = [status EXCEPT ![holder.prev] = "removed"]
          /\ retired' = Append(retired, holder.prev)
          /\ primary' \in {primary, 0}
      BY <1>2, <2>2 DEF Unmap, HolderOK
    <3> HIDE DEF HolderOK
    <3> QED BY <3>1
  <2> QED BY <2>1, <2>2
<1>3. CASE JoinPublic
  <2>1. /\ holder.prev \in Bindings
        /\ status' = [status EXCEPT ![holder.prev] = "retired"]
        /\ retired' = retired \/ (retired # <<>> /\ retired' = Tail(retired))
        /\ primary' = primary
    BY <1>3 DEF JoinPublic, HolderOK, Evicts
  <2>2. retired' \in Seq(Bindings)
    BY SMTT(30), <2>1, HeadTailProperties
  <2> QED BY <2>1, <2>2
<1>4. CASE Admit
  <2>1. CASE UNCHANGED stateVars
    BY <1>1, <2>1 DEF stateVars
  <2>2. CASE ~UNCHANGED stateVars
    <3>1. /\ holder.owner \in Bindings
          /\ status' = [status EXCEPT ![holder.owner] = "bound"]
          /\ retired' = retired
          /\ primary' \in {primary, holder.owner}
      BY <1>4, <2>2 DEF Admit, HolderOK, Target, stateVars
    <3> QED BY <3>1
  <2> QED BY <2>1, <2>2
<1>5. CASE Close
  BY <1>5 DEF Close
<1>6. CASE Closed
  BY <1>6 DEF Closed
<1>7. CASE Lifecycle /\ ~Unmap /\ ~JoinPublic /\ ~Admit
  BY <1>7, <1>1 DEF Lifecycle, RefuseRequest, BeginReady, BeginEnd, BeginSwitch, Describe, CancelPublic,
     RefuseAdmission, FinishLane, stateVars
<1>8. CASE End /\ ~Close /\ ~Closed
  BY <1>8, <1>1 DEF End, StopBridge, CloseBridge, BridgeEnded, stateVars
<1> QED BY <1>1, <1>2, <1>3, <1>4, <1>5, <1>6, <1>7, <1>8, PublicLoopFrame, RequestsFrame,
        ToolFrame DEF Next, End, Stopped, vars, stateVars, toolElse

LEMMA FlagTypes ==
  ASSUME TypeOK, [Next]_vars
  PROVE  /\ lastEnded' \in BOOLEAN /\ everPrimary' \in BOOLEAN /\ ready' \in BOOLEAN
         /\ err' \in BOOLEAN /\ canceled' \in BOOLEAN
         /\ ending' \in BOOLEAN /\ closed' \in BOOLEAN
         /\ bridge' \in {"open", "ended", "stopped", "closed"}
<1> DEFINE Ready == lastEnded' \in BOOLEAN /\ everPrimary' \in BOOLEAN /\ ready' \in BOOLEAN
           Failed == err' \in BOOLEAN /\ canceled' \in BOOLEAN
           Ended == ending' \in BOOLEAN /\ closed' \in BOOLEAN
                    /\ bridge' \in {"open", "ended", "stopped", "closed"}
<1> SUFFICES Ready /\ Failed /\ Ended
  OBVIOUS
<1>1. ASSUME Fail \/ UNCHANGED failVars PROVE Failed
  BY <1>1 DEF TypeOK, RegistryTypes, Fail, failVars
<1>2. ASSUME UNCHANGED <<lastEnded, everPrimary, ready>> PROVE Ready
  BY <1>2 DEF TypeOK, RegistryTypes
<1>3. ASSUME UNCHANGED endVars PROVE Ended
  BY <1>3 DEF TypeOK, RegistryTypes, endVars
<1>4. CASE Lifecycle
  <2>1. ASSUME Unmap PROVE Ready /\ Failed
    <3>1. Ready
      BY <2>1 DEF Unmap, TypeOK, RegistryTypes, stateVars
    <3>2. Failed
      BY <1>1, <2>1 DEF Unmap
    <3> QED BY <3>1, <3>2
  <2>2. ASSUME FinishLane PROVE Ready /\ Failed
    <3>1. Ready
      BY <2>2 DEF FinishLane, TypeOK, RegistryTypes
    <3>2. Failed
      BY <1>1, <2>2 DEF FinishLane
    <3> QED BY <3>1, <3>2
  <2>3. ASSUME ~Unmap, ~FinishLane PROVE Ready /\ Failed
    <3>1. UNCHANGED <<lastEnded, everPrimary, ready>> /\ (Fail \/ UNCHANGED failVars)
      BY <1>4, <2>3 DEF Lifecycle, RefuseRequest, BeginReady, BeginEnd, BeginSwitch, Describe, CancelPublic,
         JoinPublic, RefuseAdmission, Admit, stateVars
    <3> HIDE DEF Ready, Failed
    <3> QED BY <1>1, <1>2, <3>1
  <2>4. Ended
    BY <1>3, <1>4, LifecycleFrame
  <2> HIDE DEF Ready, Failed, Ended
  <2> QED BY <2>1, <2>2, <2>3, <2>4
<1>5. ASSUME NEW b \in Bindings, PublicLoop(b) PROVE Ready /\ Failed /\ Ended
  <2>1. Fail \/ UNCHANGED failVars
    BY <1>5 DEF PublicLoop, LoopExit, Dial, Attach, Publish, HelloRejected, ConnectionLost,
       Detach, Stop, loopElse
  <2>3. Ready
    BY <1>5 DEF TypeOK, RegistryTypes, PublicLoop, LoopExit, Dial, Attach, Publish,
       HelloRejected, ConnectionLost, Detach, Stop, loopElse, stateVars
  <2>4. Failed /\ Ended
    BY <1>1, <1>3, <1>5, <2>1, PublicLoopFrame
  <2> QED BY <2>3, <2>4
<1>6. ASSUME NEW b \in Bindings, Requests(b) PROVE Ready /\ Failed /\ Ended
  <2>1. Fail \/ UNCHANGED failVars
    BY <1>6 DEF Requests, Arrive, HandleStale, HandleSuperseded, FailSuperseded, HandleDeliver,
       TakeDelivery, FinishDelivery, Drain, loopElse
  <2> QED BY <1>1, <1>2, <1>3, <1>6, <2>1, RequestsFrame DEF stateVars
<1>7. ASSUME UNCHANGED <<stateVars, failVars, endVars>> PROVE Ready /\ Failed /\ Ended
  BY <1>1, <1>2, <1>3, <1>7 DEF stateVars
<1>8. ASSUME End PROVE Ready /\ Failed /\ Ended
  <2>1. Ended
    BY <1>8 DEF End, Close, StopBridge, CloseBridge, Closed, BridgeEnded, TypeOK, RegistryTypes
  <2>2. Failed
    BY <1>1, <1>8 DEF End, Close, StopBridge, CloseBridge, Closed, BridgeEnded, TypeOK,
       RegistryTypes, failVars
  <2> QED BY <1>2, <1>8, <2>1, <2>2, EndFrame
<1> HIDE DEF Ready, Failed, Ended
<1> QED BY <1>4, <1>5, <1>6, <1>7, <1>8, ToolFrame DEF Next, End, Stopped, vars, toolElse

LEMMA ByteTypesStep ==
  ASSUME TypeOK, HolderOK, [Next]_vars
  PROVE  ByteTypes'
<1> USE DEF TypeOK, ByteTypes
<1>1. ASSUME NEW b \in Bindings, NEW n \in Int, Charge(b, n), named' \subseteq Bindings
      PROVE  ByteTypes'
  BY <1>1 DEF Charge
<1>2. CASE UNCHANGED byteVars
  BY <1>2 DEF byteVars
<1>3. CASE JoinPublic
  BY <1>3 DEF JoinPublic, HolderOK, TokenCost
<1>4. CASE Admit
  BY <1>1, <1>2, <1>4 DEF Admit, HolderOK, Target
<1>5. CASE Lifecycle /\ ~JoinPublic /\ ~Admit
  BY <1>2, <1>5 DEF Lifecycle, RefuseRequest, BeginReady, BeginEnd, BeginSwitch, Describe, CancelPublic,
     Unmap, RefuseAdmission, FinishLane
<1>6. ASSUME NEW b \in Bindings, PublicLoop(b) PROVE ByteTypes'
  <2>1. CASE Publish(b)
    BY <1>1, <1>2, <2>1 DEF Publish
  <2> QED BY <1>2, <1>6, <2>1 DEF PublicLoop, LoopExit, Dial, Attach, HelloRejected,
      ConnectionLost, Detach, Stop, loopElse
<1>7. ASSUME NEW b \in Bindings, Requests(b) PROVE ByteTypes'
  <2>0. queue[b] \in Int /\ -queue[b] \in Int /\ -1 \in Int /\ 1 \in Int
    BY DEF WorkTypes
  <2>1. CASE HandleDeliver(b)
    BY <1>1, <2>0, <2>1 DEF HandleDeliver
  <2>2. CASE FinishDelivery(b)
    BY <1>1, <2>0, <2>2 DEF FinishDelivery
  <2>3. CASE Drain(b)
    BY <1>1, <2>0, <2>3 DEF Drain
  <2> QED BY <1>2, <1>7, <2>1, <2>2, <2>3 DEF Requests, Arrive, HandleStale, HandleSuperseded,
      FailSuperseded, TakeDelivery, loopElse
<1>8. CASE End
  BY <1>2, <1>8 DEF End, Close, StopBridge, CloseBridge, Closed, BridgeEnded, byteVars
<1> QED BY <1>2, <1>3, <1>4, <1>5, <1>6, <1>7, <1>8, ToolFrame DEF Next, End, Stopped, vars,
        toolElse

LEMMA LoopTypesStep ==
  ASSUME TypeOK, HolderOK, [Next]_vars
  PROVE  LoopTypes'
<1> USE RegistryAssumption DEF TypeOK, LoopTypes, LoopPcs
<1>1. CASE UNCHANGED loopVars
  BY <1>1 DEF loopVars
<1>2. CASE Unmap
  <2>1. /\ caller' = caller \/ (/\ holder.prev \in Bindings
                                /\ caller' = [caller EXCEPT ![holder.prev] = 0])
        /\ UNCHANGED <<stopped, loop, made, attempt, terminal>>
    BY <1>2 DEF Unmap, HolderOK
  <2> QED BY <2>1
<1>3. CASE CancelPublic
  BY <1>3 DEF CancelPublic, HolderOK
<1>4. CASE Admit
  <2>1. /\ holder.owner \in Bindings
        /\ loop' \in {[loop EXCEPT ![holder.owner] = pc] : pc \in {"idle", "none"}}
        /\ stopped' = [stopped EXCEPT ![holder.owner] = FALSE]
        /\ attempt' = [attempt EXCEPT ![holder.owner] = 0]
        /\ terminal' = terminal \ {holder.owner}
        /\ UNCHANGED <<made, caller>>
    BY <1>4 DEF Admit, HolderOK, Target
  <2> QED BY <2>1
<1>5. CASE Lifecycle /\ ~Unmap /\ ~CancelPublic /\ ~Admit
  BY <1>1, <1>5 DEF Lifecycle, RefuseRequest, BeginReady, BeginEnd, BeginSwitch, Describe, JoinPublic, RefuseAdmission, FinishLane
<1>6. ASSUME NEW b \in Bindings, LoopExit(b) \/ HelloRejected(b) \/ ConnectionLost(b)
      PROVE LoopTypes'
  BY <1>6 DEF LoopExit, HelloRejected, ConnectionLost, Move
<1>7. ASSUME NEW b \in Bindings, Dial(b) \/ Attach(b) PROVE LoopTypes'
  BY <1>7 DEF Dial, Attach, Move
<1>8. ASSUME NEW b \in Bindings, Publish(b) PROVE LoopTypes'
  BY <1>8 DEF Publish, Move
<1>9. ASSUME NEW b \in Bindings, Detach(b) PROVE LoopTypes'
  BY <1>9 DEF Detach, Move
<1>10. ASSUME NEW b \in Bindings, Stop(b) PROVE LoopTypes'
  BY <1>10 DEF Stop, Move
<1>11. ASSUME NEW b \in Bindings, HandleStale(b) \/ FailSuperseded(b) PROVE LoopTypes'
  BY <1>11 DEF HandleStale, FailSuperseded, CloseConn, Move
<1>12. ASSUME NEW b \in Bindings, HandleDeliver(b) PROVE LoopTypes'
  BY <1>12 DEF HandleDeliver, CloseConn, Move
<1>13. ASSUME NEW b \in Bindings, HandleSuperseded(b) PROVE LoopTypes'
  BY <1>13 DEF HandleSuperseded
<1>14. ASSUME NEW b \in Bindings, Requests(b), ~HandleStale(b), ~FailSuperseded(b),
              ~HandleDeliver(b), ~HandleSuperseded(b)
       PROVE  LoopTypes'
  BY <1>1, <1>14 DEF Requests, Arrive, TakeDelivery, FinishDelivery, Drain
<1>15. CASE Close
  BY <1>15 DEF Close
<1>16. CASE StopBridge
  BY <1>16 DEF StopBridge
<1>17. CASE End /\ ~Close /\ ~StopBridge
  BY <1>1, <1>17 DEF End, CloseBridge, Closed, BridgeEnded
<1> HIDE DEF LoopTypes, TypeOK
<1> QED BY <1>1, <1>2, <1>3, <1>4, <1>5, <1>6, <1>7, <1>8, <1>9, <1>10, <1>11, <1>12, <1>13,
        <1>14, <1>15, <1>16, <1>17, ToolFrame DEF Next, End, PublicLoop, Stopped, vars, toolElse

LEMMA WorkTypesStep ==
  ASSUME TypeOK, [Next]_vars
  PROVE  WorkTypes'
<1> USE RegistryAssumption DEF TypeOK, WorkTypes
<1>1. CASE UNCHANGED workVars
  BY <1>1 DEF workVars
<1>2. ASSUME NEW b \in Bindings, Dial(b) PROVE WorkTypes'
  BY <1>2 DEF Dial
<1>3. ASSUME NEW b \in Bindings, NEW r \in Methods, Arrive(b, r) PROVE WorkTypes'
  BY <1>3 DEF Arrive
<1>4. ASSUME NEW b \in Bindings, HandleStale(b) \/ HandleSuperseded(b) \/ FailSuperseded(b)
      PROVE WorkTypes'
  BY <1>4 DEF HandleStale, HandleSuperseded, FailSuperseded, Serve, Methods
<1>5. ASSUME NEW b \in Bindings, HandleDeliver(b) PROVE WorkTypes'
  BY <1>5 DEF HandleDeliver, Serve, HasRoom
<1>6. ASSUME NEW b \in Bindings, TakeDelivery(b) PROVE WorkTypes'
  BY <1>6 DEF TakeDelivery
<1>8. ASSUME NEW b \in Bindings, FinishDelivery(b) PROVE WorkTypes'
  BY <1>8 DEF FinishDelivery
<1>9. ASSUME NEW b \in Bindings, Drain(b) PROVE WorkTypes'
  BY <1>9 DEF Drain
<1>7. ASSUME NEW b \in Bindings, PublicLoop(b), ~Dial(b) PROVE WorkTypes'
  BY <1>1, <1>7 DEF PublicLoop, LoopExit, Attach, Publish, HelloRejected, ConnectionLost, Detach, Stop
<1> HIDE DEF WorkTypes, TypeOK
<1> QED BY <1>1, <1>2, <1>3, <1>4, <1>5, <1>6, <1>7, <1>8, <1>9, LifecycleFrame, EndFrame, ToolFrame
        DEF Next, End, Requests, Stopped, vars, toolElse

LEMMA ToolTypesStep ==
  ASSUME TypeOK, [Next]_vars
  PROVE  tool' \in [ToolCalls -> Calls]
<1> USE RegistryAssumption
<1>1. CASE UNCHANGED tool
  BY <1>1 DEF TypeOK
<1>2. ASSUME NEW c \in ToolCalls, NEW call \in Calls, tool' = [tool EXCEPT ![c] = call]
      PROVE  tool' \in [ToolCalls -> Calls]
  BY <1>2 DEF TypeOK
<1>3. ASSUME NEW c \in ToolCalls, NEW b \in Bindings, ToolBegin(c, b)
      PROVE  tool' \in [ToolCalls -> Calls]
  <2>1. [pc |-> "captured", owner |-> b, att |-> caller[b]] \in Calls
    BY DEF Calls, TypeOK, LoopTypes, Bindings
  <2> QED BY <1>2, <1>3, <2>1 DEF ToolBegin
<1>4. ASSUME NEW c \in ToolCalls, NEW outcome \in {"ok", "failed"}, Return(c, outcome)
      PROVE  tool' \in [ToolCalls -> Calls]
  <2>1. [pc |-> outcome, owner |-> 0, att |-> 0] \in Calls
    BY DEF Calls
  <2> QED BY <1>2, <1>4, <2>1 DEF Return
<1>5. ASSUME NEW c \in ToolCalls, ToolSend(c) PROVE tool' \in [ToolCalls -> Calls]
  <2>1. [pc |-> "answered", owner |-> tool[c].owner, att |-> 0] \in Calls
    BY DEF Calls, TypeOK
  <2> QED BY <1>2, <1>4, <1>5, <2>1 DEF ToolSend
<1>6. ASSUME NEW c \in ToolCalls, ToolCheck(c) PROVE tool' \in [ToolCalls -> Calls]
  BY <1>4, <1>6 DEF ToolCheck
<1>7. CASE Admit
  <2>1. \A c \in ToolCalls : [tool[c] EXCEPT !.owner = 0] \in Calls /\ tool[c] \in Calls
    BY DEF Calls, TypeOK
  <2> QED BY ZenonT(60), <1>1, <1>7, <2>1 DEF Admit
<1>8. CASE Lifecycle /\ ~Admit
  BY <1>1, <1>8 DEF Lifecycle, RefuseRequest, BeginReady, BeginEnd, BeginSwitch, Describe, Unmap, CancelPublic,
     JoinPublic, RefuseAdmission, FinishLane
<1> QED BY <1>1, <1>3, <1>5, <1>6, <1>7, <1>8, PublicLoopFrame, RequestsFrame, EndFrame
        DEF Next, End, Tool, Stopped, vars

\* The two together are inductive.
TypeInv == TypeOK /\ HolderOK

LEMMA TypeStep == TypeInv /\ [Next]_vars => TypeInv'
<1> SUFFICES ASSUME TypeInv, [Next]_vars PROVE TypeInv'
  OBVIOUS
<1>1. RegistryTypes'
  BY HolderTypes, BindingTypes, FlagTypes DEF TypeInv, RegistryTypes
<1>2. ByteTypes' /\ LoopTypes' /\ WorkTypes' /\ tool' \in [ToolCalls -> Calls]
  BY ByteTypesStep, LoopTypesStep, WorkTypesStep, ToolTypesStep DEF TypeInv
<1> QED BY <1>1, <1>2, HolderTypes DEF TypeInv, TypeOK


-----------------------------------------------------------------------------
(* The registry's bindings, its primary, the retired tokens and the gate.    *)

BoundOpen   == \A b \in Bindings :
  (status[b] = "bound" => ~ending) /\ (status[b] = "closed" => ending)
RemovedHeld == \A b \in Bindings :
  status[b] = "removed" => holder.pc \in {"cancel", "join"} /\ holder.prev = b
HeldRemoved == holder.pc \in {"cancel", "join"} => status[holder.prev] = "removed"

RegistryInv == OnePrimary /\ BoundOpen /\ RemovedHeld /\ HeldRemoved /\ RetiredStaysOut

LEMMA ContainsAppend ==
  ASSUME NEW s \in Seq(Bindings), NEW p \in Bindings, NEW b \in Bindings, b # p,
         ~Contains(s, b)
  PROVE  ~Contains(Append(s, p), b)
BY DEF Contains

LEMMA ContainsTail ==
  ASSUME NEW s \in Seq(Bindings), s # <<>>, NEW b, ~Contains(s, b)
  PROVE  ~Contains(Tail(s), b)
<1>1. \A i \in 1 .. Len(Tail(s)) : Tail(s)[i] = s[i + 1] /\ i + 1 \in 1 .. Len(s)
  BY HeadTailProperties, LenProperties
<1> QED BY <1>1 DEF Contains

LEMMA RegistryStep == TypeInv /\ RegistryInv /\ [Next]_vars => RegistryInv'
<1> SUFFICES ASSUME TypeInv, RegistryInv, [Next]_vars PROVE RegistryInv'
  OBVIOUS
<1>0. /\ holder \in Holders /\ HolderOK /\ retired \in Seq(Bindings)
      /\ status \in [Bindings -> Statuses] /\ Bindings \subseteq 0 .. N /\ 0 \in 0 .. N
      /\ Primaries \subseteq Bindings /\ 0 \notin Bindings
  BY RegistryAssumption DEF TypeInv, TypeOK, RegistryTypes, Bindings
<1> USE DEF RegistryInv, OnePrimary, BoundOpen, RemovedHeld, HeldRemoved, RetiredStaysOut, Statuses
<1>1. CASE UNCHANGED <<status, primary, retired, ending, holder>>
  BY <1>1
\* A step of the gate's holder that touches no binding.
<1>2. ASSUME UNCHANGED <<status, primary, retired, ending>>,
             holder.pc \notin {"cancel", "join"}, holder'.pc \notin {"cancel", "join"}
      PROVE  RegistryInv'
  BY <1>2
<1>3. ASSUME NEW b \in Bindings, NEW p \in Bindings,
             BeginReady(b) \/ BeginEnd(b) \/ BeginSwitch(p, b)
      PROVE  RegistryInv'
  <2>1. holder.pc = "none"
    BY <1>3 DEF BeginReady, BeginEnd, BeginSwitch, Begin, NoHolder
  <2>2. holder'.pc \in {"describe", "remove"}
    BY <1>3 DEF BeginReady, BeginEnd, BeginSwitch, Begin
  <2> QED BY <1>2, <1>3, <2>1, <2>2 DEF BeginReady, BeginEnd, BeginSwitch, stateVars, endVars
<1>4. CASE Describe
  <2>1. holder'.pc \in {"none", "remove", "admit"}
    BY <1>0, <1>4, HoldStep, ReleaseStep DEF Describe, HoldPcs
  <2> QED BY <1>2, <1>4, <2>1 DEF Describe, stateVars, endVars
<1>5. CASE Unmap
  <2>1. CASE UNCHANGED status
    <3>1. Release /\ UNCHANGED <<stateVars, endVars>> /\ holder.pc = "remove"
      BY <1>0, <1>5, <2>1 DEF Unmap, HolderOK
    <3> QED BY <1>2, <3>1, ReleaseStep DEF stateVars, endVars
  <2>2. CASE ~UNCHANGED status
    <3>1. /\ holder.pc = "remove" /\ holder.prev \in Bindings /\ status[holder.prev] = "bound"
          /\ Hold("cancel") /\ UNCHANGED ending
          /\ status' = [status EXCEPT ![holder.prev] = "removed"]
          /\ retired' = Append(retired, holder.prev)
          /\ primary' = IF primary = holder.prev THEN 0 ELSE primary
      BY <1>0, <1>5, <2>2 DEF Unmap, HolderOK, stateVars, endVars
    <3>2. holder'.pc = "cancel" /\ holder'.prev = holder.prev
      BY <1>0, <3>1, HoldStep DEF HoldPcs
    <3>3. OnePrimary' /\ BoundOpen' /\ RemovedHeld' /\ HeldRemoved'
      BY <1>0, <3>1, <3>2
    <3>4. RetiredStaysOut'
      BY <1>0, <3>1, ContainsAppend
    <3> QED BY <3>3, <3>4
  <2> QED BY <2>1, <2>2
<1>6. CASE CancelPublic
  <2>1. holder'.pc = "join" /\ holder'.prev = holder.prev /\ holder.pc = "cancel"
    BY <1>0, <1>6, HoldStep DEF CancelPublic, HoldPcs
  <2> QED BY <1>6, <2>1 DEF CancelPublic, stateVars, endVars
<1>7. CASE JoinPublic
  <2>1. /\ holder.pc = "join" /\ holder.prev \in Bindings /\ UNCHANGED <<primary, ending>>
        /\ status' = [status EXCEPT ![holder.prev] = "retired"]
        /\ retired' = retired \/ (retired # <<>> /\ retired' = Tail(retired))
    BY <1>0, <1>7, RegistryAssumption DEF JoinPublic, HolderOK, Evicts, endVars
  <2>2. holder'.pc \in {"admit", "none"}
    BY <1>0, <1>7, HoldStep, ReleaseStep DEF JoinPublic, HoldPcs
  <2>3. status[holder.prev] = "removed"
    BY <2>1
  <2>4. OnePrimary' /\ BoundOpen' /\ RemovedHeld' /\ HeldRemoved'
    BY <1>0, <2>1, <2>2, <2>3
  <2>5. RetiredStaysOut'
    BY <1>0, <2>1, <2>3, ContainsTail
  <2> QED BY <2>4, <2>5
<1>8. CASE Admit
  <2>0. holder'.pc \in {"none", "finish"} /\ holder.pc = "admit" /\ holder.owner \in Bindings
    BY <1>0, <1>8, HoldStep, ReleaseStep DEF Admit, HoldPcs, HolderOK
  <2>1. /\ status' = [status EXCEPT ![holder.owner] = "bound"]
        /\ primary' = IF holder.owner \in Primaries THEN holder.owner ELSE primary
        /\ UNCHANGED <<retired, ending>>
    BY <1>8 DEF Admit, Target, endVars
  <2>2. /\ ~ending /\ ~Contains(retired, holder.owner) /\ status[holder.owner] # "bound"
        /\ holder.owner \in Primaries => primary = 0
    BY <1>8 DEF Admit, Refused, Target, Unavailable
  <2>3. OnePrimary' /\ BoundOpen' /\ RemovedHeld' /\ HeldRemoved'
    BY <1>0, <2>0, <2>1, <2>2
  <2>4. RetiredStaysOut'
    BY <1>0, <2>1, <2>2
  <2> QED BY <2>3, <2>4
<1>9. CASE FinishLane \/ RefuseAdmission
  BY <1>2, <1>9, ReleaseStep DEF FinishLane, RefuseAdmission, stateVars, endVars
<1>10. CASE Close
  <2>1. /\ status' = [b \in Bindings |-> IF status[b] = "bound" THEN "closed" ELSE status[b]]
        /\ primary' = 0 /\ ending' /\ UNCHANGED <<retired, holder>>
    BY <1>10 DEF Close
  <2>2. holder.pc \in {"cancel", "join"} => holder.prev \in Bindings
    BY <1>0 DEF HolderOK
  <2>3. OnePrimary' /\ BoundOpen'
    BY <1>0, <2>1
  <2>4. RemovedHeld' /\ HeldRemoved' /\ RetiredStaysOut'
    BY <1>0, <2>1, <2>2
  <2> QED BY <2>3, <2>4
<1>11. CASE Closed
  <2>1. UNCHANGED <<status, primary, ending, holder>> /\ ending /\ retired' = <<>>
    BY <1>11 DEF Closed
  <2> QED BY <1>0, <2>1
<1>12. CASE StopBridge \/ CloseBridge \/ BridgeEnded
  BY <1>1, <1>12 DEF StopBridge, CloseBridge, BridgeEnded, stateVars
<1>17. CASE RefuseRequest
  BY <1>1, <1>17 DEF RefuseRequest, stateVars, endVars
<1>13. CASE Lifecycle
  BY <1>17, <1>3, <1>4, <1>5, <1>6, <1>7, <1>8, <1>9, <1>13 DEF Lifecycle
<1>14. ASSUME NEW b \in Bindings, PublicLoop(b) \/ Requests(b) PROVE RegistryInv'
  BY <1>1, <1>14, PublicLoopFrame, RequestsFrame DEF stateVars, endVars
<1>15. ASSUME NEW c \in ToolCalls, Tool(c) PROVE RegistryInv'
  BY <1>1, <1>15, ToolFrame DEF toolElse, stateVars, endVars
<1>16. CASE Stopped \/ UNCHANGED vars
  BY <1>1, <1>16 DEF Stopped, vars, stateVars, endVars
<1> HIDE DEF RegistryInv
<1> QED BY <1>10, <1>11, <1>12, <1>13, <1>14, <1>15, <1>16 DEF Next

-----------------------------------------------------------------------------
(* One binding: its loop, its attempt, its requests and its bytes.           *)

CallerOK(b) == Published(b) =>
  /\ status[b] = "bound" /\ b \notin terminal
  /\ caller[b] = attempt[b] /\ attempt[b] = made[b] /\ loop[b] \in {"up", "lost"}
SupersededOK(b) == b \in terminal => canceled \/ "failing" \in handling[b]
\* A loop that has no connection has nothing to do for one.
QuietOK(b) ==
  /\ loop[b] \in {"none", "idle", "done"} =>
       handling[b] = {} /\ ~delivering[b] /\ drained[b]
  /\ delivering[b] => ~drained[b]
  /\ loop[b] \in {"dialed", "hello"} => made[b] # 0
  /\ ~HasPublic(b) => loop[b] = "none"
\* A binding that is not there, or no longer, has no loop and no bytes.
GoneOK(b) == status[b] \in {"absent", "retired"} => loop[b] \in {"none", "done"} /\ bytes[b] = 0
CoveredOK(b) == status[b] \in {"bound", "removed", "closed"} =>
  bytes[b] >= 1 + (IF delivering[b] THEN 1 ELSE 0) + (IF drained[b] THEN 0 ELSE queue[b])

BindingOK(b) == CallerOK(b) /\ SupersededOK(b) /\ QuietOK(b) /\ GoneOK(b) /\ CoveredOK(b)
BindingInv   == \A b \in Bindings : BindingOK(b)

\* What BindingOK(x) depends on.
Same(x) == /\ status'[x] = status[x] /\ (x \in terminal' <=> x \in terminal)
           /\ loop'[x] = loop[x] /\ made'[x] = made[x]
           /\ attempt'[x] = attempt[x] /\ caller'[x] = caller[x]
           /\ handling'[x] = handling[x] /\ queue'[x] = queue[x]
           /\ delivering'[x] = delivering[x] /\ drained'[x] = drained[x]
           /\ bytes'[x] = bytes[x]

LEMMA SameBinding ==
  ASSUME NEW x \in Bindings, BindingOK(x), canceled => canceled', Same(x)
  PROVE  BindingOK(x)'
<1> USE DEF BindingOK, Same
<1>1. CallerOK(x)' /\ SupersededOK(x)'
  BY DEF CallerOK, SupersededOK, Published
<1>2. QuietOK(x)' /\ GoneOK(x)'
  BY DEF QuietOK, GoneOK, HasPublic
<1>3. CoveredOK(x)'
  BY DEF CoveredOK
<1> QED BY <1>1, <1>2, <1>3

\* registry.ctx is never revived.
LEMMA CanceledStays == ASSUME [Next]_vars, canceled PROVE canceled'
<1>1. CASE Lifecycle
  BY <1>1 DEF Lifecycle, RefuseRequest, BeginReady, BeginEnd, BeginSwitch, Describe, Unmap, CancelPublic,
     JoinPublic, RefuseAdmission, Admit, FinishLane, Fail, failVars
<1>2. ASSUME NEW b \in Bindings, PublicLoop(b) PROVE canceled'
  BY <1>2 DEF PublicLoop, LoopExit, Dial, Attach, Publish, HelloRejected, ConnectionLost, Detach,
     Stop, Fail, failVars, loopElse
<1>3. ASSUME NEW b \in Bindings, Requests(b) PROVE canceled'
  BY <1>3 DEF Requests, Arrive, HandleStale, HandleSuperseded, FailSuperseded, HandleDeliver,
     TakeDelivery, FinishDelivery, Drain, Fail, failVars, loopElse
<1>4. CASE Close \/ StopBridge \/ CloseBridge \/ Closed \/ BridgeEnded
  BY <1>4 DEF Close, StopBridge, CloseBridge, Closed, BridgeEnded, Fail, failVars
<1> QED BY <1>1, <1>2, <1>3, <1>4, ToolFrame DEF Next, Stopped, vars, toolElse, failVars

\* The types a proof about one binding needs.
LEMMA BindingFacts ==
  ASSUME TypeInv
  PROVE  /\ status \in [Bindings -> Statuses] /\ bytes \in [Bindings -> Int]
         /\ stopped \in [Bindings -> BOOLEAN] /\ loop \in [Bindings -> LoopPcs]
         /\ made \in [Bindings -> 0 .. Attempts] /\ attempt \in [Bindings -> 0 .. Attempts]
         /\ caller \in [Bindings -> 0 .. Attempts]
         /\ handling \in [Bindings -> SUBSET (Methods \cup {"failing"})]
         /\ queue \in [Bindings -> 0 .. Work]
         /\ delivering \in [Bindings -> BOOLEAN] /\ drained \in [Bindings -> BOOLEAN]
         /\ total \in Int /\ holder \in Holders
BY DEF TypeInv, TypeOK, RegistryTypes, ByteTypes, LoopTypes, WorkTypes

\* The binding's own loop.
LEMMA PublicLoopBinding ==
  ASSUME TypeInv, BindingInv, [Next]_vars, NEW b \in Bindings, PublicLoop(b)
  PROVE  BindingInv'
<1> SUFFICES ASSUME NEW x \in Bindings PROVE BindingOK(x)'
  BY DEF BindingInv
<1>0. BindingOK(x) /\ BindingOK(b) /\ (canceled => canceled')
  BY CanceledStays DEF BindingInv
<1> USE BindingFacts
<1>1. CASE x # b
  <2>1. Same(x)
    BY <1>1 DEF PublicLoop, LoopExit, Dial, Attach, Publish, HelloRejected, ConnectionLost,
       Detach, Stop, Move, Charge, Same, loopElse, stateVars, byteVars, workVars
  <2> QED BY <1>0, <2>1, SameBinding
<1>2. CASE x = b
  <2> USE <1>0, <1>2 DEF BindingOK
  <2> USE DEF CallerOK, SupersededOK, QuietOK, GoneOK, CoveredOK, Published, HasPublic, Move,
          loopElse, stateVars, failVars, byteVars, workVars
  <2>1. CASE LoopExit(b)
    BY <2>1 DEF LoopExit
  <2>2. CASE Dial(b)
    BY <2>2 DEF Dial
  <2>3. CASE Attach(b)
    BY <2>3 DEF Attach
  <2>4. CASE Publish(b)
    BY <2>4 DEF Publish, Attached, Charge
  <2>5. CASE HelloRejected(b)
    BY <2>5 DEF HelloRejected
  <2>6. CASE ConnectionLost(b)
    BY <2>6 DEF ConnectionLost
  <2>7. CASE Detach(b)
    BY <2>7 DEF Detach
  <2>8. CASE Stop(b)
    BY <2>8 DEF Stop
  <2> QED BY <2>1, <2>2, <2>3, <2>4, <2>5, <2>6, <2>7, <2>8 DEF PublicLoop
<1> QED BY <1>1, <1>2

\* Its requests and deliveries.
LEMMA RequestsBinding ==
  ASSUME TypeInv, BindingInv, [Next]_vars, NEW b \in Bindings, Requests(b)
  PROVE  BindingInv'
<1> SUFFICES ASSUME NEW x \in Bindings PROVE BindingOK(x)'
  BY DEF BindingInv
<1>0. BindingOK(x) /\ BindingOK(b) /\ (canceled => canceled')
  BY CanceledStays DEF BindingInv
<1> USE BindingFacts
<1>1. CASE x # b
  <2>1. Same(x)
    BY <1>1 DEF Requests, Arrive, HandleStale, HandleSuperseded, FailSuperseded, HandleDeliver,
       TakeDelivery, FinishDelivery, Drain, Serve, Methods, CloseConn, Move, Charge, Same, loopElse,
       stateVars, byteVars, loopVars
  <2> QED BY <1>0, <2>1, SameBinding
<1>2. CASE x = b
  <2> USE <1>0, <1>2 DEF BindingOK
  <2> USE DEF CallerOK, SupersededOK, QuietOK, GoneOK, CoveredOK, Published, HasPublic, Serve, Methods,
          CloseConn, Move, loopElse, stateVars, failVars, byteVars, loopVars
  <2>1. ASSUME NEW r \in Methods, Arrive(b, r) PROVE BindingOK(x)'
    BY <2>1 DEF Arrive
  <2>2. CASE HandleStale(b)
    BY <2>2 DEF HandleStale
  <2>3. CASE HandleSuperseded(b)
    BY <2>3 DEF HandleSuperseded
  <2>4. CASE FailSuperseded(b)
    BY <2>4 DEF FailSuperseded, Fail
  <2>5. CASE HandleDeliver(b)
    BY <2>5 DEF HandleDeliver, Current, Attached, Charge, HasRoom
  <2>6. CASE TakeDelivery(b)
    BY <2>6 DEF TakeDelivery
  <2>7. CASE FinishDelivery(b)
    BY <2>7 DEF FinishDelivery, Charge
  <2>8. CASE Drain(b)
    BY <2>8 DEF Drain, Charge
  <2> QED BY <2>1, <2>2, <2>3, <2>4, <2>5, <2>6, <2>7, <2>8 DEF Requests
<1> QED BY <1>1, <1>2

\* The lifecycle handlers.
LEMMA LifecycleBinding ==
  ASSUME TypeInv, RegistryInv, BindingInv, [Next]_vars, Lifecycle
  PROVE  BindingInv'
<1> SUFFICES ASSUME NEW x \in Bindings PROVE BindingOK(x)'
  BY DEF BindingInv
<1>0. BindingOK(x) /\ (canceled => canceled') /\ HolderOK
  BY CanceledStays DEF BindingInv, TypeInv
<1> USE BindingFacts
<1>1. CASE UNCHANGED <<status, bytes, loopVars>>
  BY <1>0, <1>1, LifecycleFrame, SameBinding DEF Same, loopVars, workVars
<1>2. CASE Unmap
  <2>1. CASE UNCHANGED <<status, caller>>
    BY <1>1, <1>2, <2>1 DEF Unmap, loopVars, byteVars
  <2>2. CASE ~UNCHANGED <<status, caller>>
    <3>1. /\ holder.prev \in Bindings /\ status[holder.prev] = "bound"
          /\ status' = [status EXCEPT ![holder.prev] = "removed"]
          /\ caller' = [caller EXCEPT ![holder.prev] = 0]
          /\ UNCHANGED <<canceled, bytes, stopped, loop, made, attempt, terminal, handling,
                         queue, delivering, drained>>
      BY <1>0, <1>2, <2>2 DEF Unmap, HolderOK, stateVars, failVars, byteVars, workVars
    <3> QED BY <1>0, <3>1 DEF BindingOK, CallerOK, SupersededOK, QuietOK, GoneOK, CoveredOK,
        Published, HasPublic
  <2> QED BY <2>1, <2>2
<1>3. CASE CancelPublic
  <2>1. Same(x)
    BY <1>3 DEF CancelPublic, Same, stateVars, byteVars, workVars
  <2> QED BY <1>0, <2>1, SameBinding
<1>4. CASE JoinPublic
  <2>1. /\ holder.prev \in Bindings /\ Joined(holder.prev)
        /\ status' = [status EXCEPT ![holder.prev] = "retired"]
        /\ bytes' = [bytes EXCEPT ![holder.prev] = 0]
        /\ UNCHANGED <<canceled, stopped, loop, made, attempt, caller, terminal, handling,
                       queue, delivering, drained>>
    BY <1>0, <1>4 DEF JoinPublic, HolderOK, loopVars, failVars, workVars
  <2>2. status[holder.prev] = "removed" /\ BindingOK(holder.prev)
    BY <1>4, <2>1 DEF RegistryInv, HeldRemoved, JoinPublic, BindingInv
  <2> QED BY <1>0, <2>1, <2>2 DEF BindingOK, CallerOK, SupersededOK, QuietOK, GoneOK, CoveredOK,
      Published, HasPublic, Joined
<1>5. CASE Admit
  <2>1. /\ holder.owner \in Bindings /\ holder.pc = "admit" /\ BindingOK(holder.owner)
        /\ status' = [status EXCEPT ![holder.owner] = "bound"]
        /\ bytes' = [bytes EXCEPT ![holder.owner] = @ + 1]
        /\ loop' = [loop EXCEPT ![holder.owner] = IF HasPublic(holder.owner) THEN "idle" ELSE "none"]
        /\ attempt' = [attempt EXCEPT ![holder.owner] = 0]
        /\ terminal' = terminal \ {holder.owner}
        /\ UNCHANGED <<canceled, made, caller, handling, queue, delivering, drained>>
    BY <1>0, <1>5 DEF Admit, HolderOK, Target, Charge, failVars, workVars, BindingInv
  <2>2. status[holder.owner] \in {"absent", "retired"}
    <3>1. status[holder.owner] # "bound" /\ ~ending
      BY <1>5 DEF Admit, Refused, Target, Unavailable
    <3>2. status[holder.owner] # "removed"
      BY <2>1 DEF RegistryInv, RemovedHeld
    <3>3. status[holder.owner] # "closed"
      BY <2>1, <3>1 DEF RegistryInv, BoundOpen
    <3> QED BY <2>1, <3>1, <3>2, <3>3 DEF Statuses
  <2>3. CASE x = holder.owner
    BY <1>0, <2>1, <2>2, <2>3 DEF BindingOK, CallerOK, SupersededOK, QuietOK, GoneOK, CoveredOK,
       Published, HasPublic
  <2>4. CASE x # holder.owner
    BY <1>0, <2>1, <2>4, SameBinding DEF Same
  <2> QED BY <2>3, <2>4
<1>6. CASE Lifecycle /\ ~Unmap /\ ~CancelPublic /\ ~JoinPublic /\ ~Admit
  BY <1>1, <1>6 DEF Lifecycle, RefuseRequest, BeginReady, BeginEnd, BeginSwitch, Describe, RefuseAdmission,
     FinishLane, stateVars,
     byteVars
<1> QED BY <1>2, <1>3, <1>4, <1>5, <1>6

\* Close takes the binding's caller away, a later step does not touch it.
LEMMA EndBinding ==
  ASSUME TypeInv, BindingInv, [Next]_vars, End
  PROVE  BindingInv'
<1> SUFFICES ASSUME NEW x \in Bindings PROVE BindingOK(x)'
  BY DEF BindingInv
<1>0. BindingOK(x) /\ (canceled => canceled')
  BY CanceledStays DEF BindingInv
<1> USE BindingFacts
<1>1. CASE Close
  <2>1. /\ status' = [b \in Bindings |-> IF status[b] = "bound" THEN "closed" ELSE status[b]]
        /\ caller' = [b \in Bindings |-> IF status[b] = "bound" THEN 0 ELSE caller[b]]
        /\ UNCHANGED <<bytes, loop, made, attempt, terminal, handling, queue, delivering, drained>>
    BY <1>1 DEF Close, byteVars, workVars
  <2> QED BY <1>0, <2>1 DEF BindingOK, CallerOK, SupersededOK, QuietOK, GoneOK, CoveredOK,
      Published, HasPublic
<1>2. CASE ~Close
  <2>1. UNCHANGED <<status, bytes, loop, made, attempt, caller, terminal, handling, queue,
                    delivering, drained>>
    BY <1>2 DEF End, StopBridge, CloseBridge, Closed, BridgeEnded, stateVars, byteVars, loopVars,
       workVars
  <2> QED BY <1>0, <2>1, SameBinding DEF Same
<1> QED BY <1>1, <1>2

LEMMA BindingStep == TypeInv /\ RegistryInv /\ BindingInv /\ [Next]_vars => BindingInv'
<1> SUFFICES ASSUME TypeInv, RegistryInv, BindingInv, [Next]_vars PROVE BindingInv'
  OBVIOUS
<1>1. ASSUME UNCHANGED <<status, canceled, byteVars, loopVars, workVars>> PROVE BindingInv'
  <2> SUFFICES ASSUME NEW x \in Bindings PROVE BindingOK(x)'
    BY DEF BindingInv
  <2> QED BY <1>1, SameBinding DEF Same, BindingInv, byteVars, loopVars, workVars
<1>2. ASSUME NEW c \in ToolCalls, Tool(c) PROVE BindingInv'
  BY <1>1, <1>2, ToolFrame DEF toolElse, stateVars, failVars
<1>3. CASE Stopped \/ UNCHANGED vars
  BY <1>1, <1>3 DEF Stopped, vars, stateVars, failVars
<1> QED BY <1>2, <1>3, PublicLoopBinding, RequestsBinding, LifecycleBinding, EndBinding
        DEF Next, End

-----------------------------------------------------------------------------
(* Close, and the launch's initial name.                                     *)

CloseInv ==
  /\ bridge \in {"stopped", "closed"} => ending
  /\ bridge = "closed" => holder = NoHolder /\ \A c \in ToolCalls : ToolIdle(c)
  /\ closed => bridge = "closed" /\ total = 0 /\ \A b \in Bindings : loop[b] \in {"none", "done"}

LEMMA CloseStep == TypeInv /\ BindingInv /\ CloseInv /\ [Next]_vars => CloseInv'
<1> SUFFICES ASSUME TypeInv, BindingInv, CloseInv, [Next]_vars PROVE CloseInv'
  OBVIOUS
<1>0. \A b \in Bindings : QuietOK(b)
  BY DEF BindingInv, BindingOK
<1> USE DEF CloseInv
<1>1. CASE UNCHANGED <<endVars, holder, tool, total, loop>>
  BY <1>1 DEF ToolIdle, endVars
\* While the bridge is closed nobody holds the gate and every loop may still move.
<1>2. CASE Lifecycle
  <2>1. bridge # "closed"
    BY <1>2, BindingFacts DEF Lifecycle, RefuseRequest, BeginReady, BeginEnd, BeginSwitch, Begin, Serving,
       Describe, Unmap, CancelPublic, JoinPublic, RefuseAdmission, Admit, FinishLane, NoHolder
  <2> QED BY <1>2, <2>1, LifecycleFrame DEF endVars
<1>3. ASSUME NEW b \in Bindings, PublicLoop(b) PROVE CloseInv'
  <2>1. loop[b] \notin {"none", "done"}
    BY <1>3 DEF PublicLoop, LoopExit, Dial, Attach, Publish, HelloRejected, ConnectionLost,
       Detach, Stop
  <2> QED BY <1>3, <2>1, PublicLoopFrame DEF endVars, ToolIdle
<1>4. ASSUME NEW b \in Bindings, Requests(b) PROVE CloseInv'
  <2>1. CASE loop[b] \in {"none", "done"}
    BY <1>0, <1>4, <2>1 DEF QuietOK, Requests, Arrive, HandleStale, HandleSuperseded,
       FailSuperseded, HandleDeliver, TakeDelivery, FinishDelivery, Drain, Serve
  <2>2. CASE loop[b] \notin {"none", "done"}
    BY <1>4, <2>2, RequestsFrame DEF endVars, ToolIdle
  <2> QED BY <2>1, <2>2
<1>5. ASSUME NEW c \in ToolCalls, Tool(c) PROVE CloseInv'
  <2>1. bridge # "closed"
    BY <1>5 DEF Tool, ToolBegin, Serving, ToolSend, ToolCheck, ToolIdle
  <2> QED BY <1>5, <2>1, ToolFrame DEF toolElse, endVars
<1>6. CASE Close
  BY <1>6, EndFrame DEF End, Close, byteVars, ToolIdle
<1>7. CASE StopBridge \/ CloseBridge \/ BridgeEnded
  BY <1>7, EndFrame DEF End, StopBridge, CloseBridge, BridgeEnded, Serving, byteVars, ToolIdle
<1>8. CASE Closed
  BY <1>8, EndFrame DEF End, Closed, WorkDone, ToolIdle
<1>9. CASE Stopped \/ UNCHANGED vars
  BY <1>1, <1>9 DEF Stopped, vars, byteVars, loopVars
<1> HIDE DEF CloseInv
<1> QED BY <1>2, <1>3, <1>4, <1>5, <1>6, <1>7, <1>8, <1>9 DEF Next

NameInv ==
  /\ named # {} => everPrimary
  /\ \A b, c \in named : b = c

LEMMA NameStep == TypeInv /\ NameInv /\ [Next]_vars => NameInv'
<1> SUFFICES ASSUME TypeInv, NameInv, [Next]_vars PROVE NameInv'
  OBVIOUS
<1> USE DEF NameInv
<1>1. ASSUME named' \subseteq named, everPrimary => everPrimary' PROVE NameInv'
  BY <1>1
<1>2. CASE Lifecycle
  BY <1>1, <1>2 DEF Lifecycle, RefuseRequest, BeginReady, BeginEnd, BeginSwitch, Describe, Unmap, CancelPublic,
     JoinPublic, RefuseAdmission, Admit, FinishLane, stateVars, byteVars
<1>3. ASSUME NEW b \in Bindings, PublicLoop(b) PROVE NameInv'
  <2>1. CASE TakesInitialName(b) /\ Publish(b)
    BY <2>1 DEF TakesInitialName, Publish, byteVars
  <2>2. CASE ~(TakesInitialName(b) /\ Publish(b))
    BY <1>1, <1>3, <2>2 DEF PublicLoop, LoopExit, Dial, Attach, Publish, HelloRejected,
       ConnectionLost, Detach, Stop, loopElse, stateVars, byteVars
  <2> QED BY <2>1, <2>2
<1>4. ASSUME NEW b \in Bindings, Requests(b) PROVE NameInv'
  BY <1>1, <1>4, RequestsFrame DEF stateVars
<1>5. CASE End
  BY <1>1, <1>5, EndFrame
<1>6. ASSUME NEW c \in ToolCalls, Tool(c) PROVE NameInv'
  BY <1>1, <1>6, ToolFrame DEF toolElse, byteVars, stateVars
<1>7. CASE Stopped \/ UNCHANGED vars
  BY <1>1, <1>7 DEF Stopped, vars, byteVars, stateVars
<1> HIDE DEF NameInv
<1> QED BY <1>2, <1>3, <1>4, <1>5, <1>6, <1>7 DEF Next, End

-----------------------------------------------------------------------------
(* The theorems.                                                             *)

IInv == TypeInv /\ RegistryInv /\ BindingInv /\ CloseInv /\ NameInv

LEMMA InitIInv == Init => IInv
<1> SUFFICES ASSUME Init PROVE IInv
  OBVIOUS
<1>1. TypeInv
  BY TypeInit DEF TypeInv, Init, HolderOK, NoHolder
<1>2. RegistryInv
  <2>1. primary = 0 /\ holder.pc = "none" /\ \A b \in Bindings : status[b] = "absent"
    BY DEF Init, NoHolder
  <2>2. OnePrimary /\ RetiredStaysOut
    BY <2>1, RegistryAssumption DEF OnePrimary, RetiredStaysOut, Bindings
  <2>3. BoundOpen /\ RemovedHeld /\ HeldRemoved
    BY <2>1 DEF BoundOpen, RemovedHeld, HeldRemoved
  <2> QED BY <2>2, <2>3 DEF RegistryInv
<1>3. BindingInv
  BY DEF Init, BindingInv, BindingOK, CallerOK, SupersededOK, QuietOK, GoneOK, CoveredOK, Published
<1>4. CloseInv /\ NameInv
  BY DEF Init, CloseInv, NameInv
<1> QED BY <1>1, <1>2, <1>3, <1>4 DEF IInv

\* The inductive invariant of the registry.
THEOREM Inductive == Spec => []IInv
<1>1. IInv /\ [Next]_vars => IInv'
  BY TypeStep, RegistryStep, BindingStep, CloseStep, NameStep DEF IInv
<1> QED BY <1>1, InitIInv, PTL DEF Spec

\* Every variable of the registry stays in its range: no delivery queue grows past
\* maxOwnerWork, no attempt is attached that was not made.
THEOREM TypeCorrect == Spec => []TypeOK
BY Inductive, PTL DEF IInv, TypeInv

\* However ready, switch, session_end and Close interleave, one primary at most is
\* bound and it is the one registry.primaryToken names.
THEOREM OnePrimaryAlways == Spec => []OnePrimary
BY Inductive, PTL DEF IInv, RegistryInv

\* A retired owner token is never admitted again while the registry remembers it.
THEOREM RetiredStaysOutAlways == Spec => []RetiredStaysOut
BY Inductive, PTL DEF IInv, RegistryInv

\* A caller is lent out only by a bound, not superseded binding whose loop is still
\* in the attempt that published it.
THEOREM CallerIsCurrentAlways == Spec => []CallerIsCurrent
<1>1. IInv => CallerIsCurrent
  BY DEF IInv, BindingInv, BindingOK, CallerOK, CallerIsCurrent
<1> QED BY <1>1, Inductive, PTL

\* A superseded binding has failed its registry, or its handler is about to.
THEOREM SupersededFailsAlways == Spec => []SupersededFails
<1>1. IInv => SupersededFails
  BY DEF IInv, BindingInv, BindingOK, SupersededOK, SupersededFails
<1> QED BY <1>1, Inductive, PTL

\* removeBinding has joined all a binding ran before it gives its bytes back.
THEOREM RemovalJoinsAlways == Spec => []RemovalJoins
<1>1. IInv => RemovalJoins
  BY DEF IInv, BindingInv, BindingOK, GoneOK, QuietOK, RemovalJoins
<1> QED BY <1>1, Inductive, PTL

\* A binding holds the bytes of every delivery it has still to release, so
\* releaseStateLocked does not panic.
THEOREM ReleaseCoveredAlways == Spec => []ReleaseCovered
<1>1. IInv => ReleaseCovered
  BY DEF IInv, BindingInv, BindingOK, CoveredOK, ReleaseCovered
<1> QED BY <1>1, Inductive, PTL

\* The launch's initial name is adopted once, by the first primary published.
THEOREM InitialNameOnceAlways == Spec => []InitialNameOnce
<1>1. IInv => InitialNameOnce
  <2> SUFFICES ASSUME NameInv PROVE InitialNameOnce
    BY DEF IInv
  <2>1. CASE named = {}
    BY <2>1, FS_EmptySet DEF InitialNameOnce, NameInv
  <2>2. ASSUME NEW b \in named PROVE InitialNameOnce
    <3>1. named = {b}
      BY <2>2 DEF NameInv
    <3> QED BY <3>1, FS_Singleton DEF InitialNameOnce, NameInv
  <2> QED BY <2>1, <2>2
<1> QED BY <1>1, Inductive, PTL

\* When Close has returned no loop, handler, delivery or tool call is left.
THEOREM ClosedIsQuietAlways == Spec => []ClosedIsQuiet
<1>1. IInv => ClosedIsQuiet
  BY DEF IInv, CloseInv, BindingInv, BindingOK, QuietOK, ClosedIsQuiet
<1> QED BY <1>1, Inductive, PTL

\* checkGeneration lets a primary's tool result through only while that binding is
\* the registry's primary.
THEOREM ToolResultCurrentAlways == Spec => ToolResultCurrent
<1> DEFINE Passed(c) == tool'[c].pc = "ok" /\ tool[c].pc # "ok" /\ tool[c].owner \in Primaries =>
                          primary = tool[c].owner /\ ~ending
<1>1. IInv /\ [Next]_vars => \A c \in ToolCalls : Passed(c)
  <2> SUFFICES ASSUME IInv, [Next]_vars, NEW c \in ToolCalls,
                      tool'[c].pc = "ok", tool[c].pc # "ok", tool[c].owner \in Primaries
               PROVE  primary = tool[c].owner /\ ~ending
    OBVIOUS
  <2>0. tool \in [ToolCalls -> Calls] /\ OnePrimary /\ BoundOpen /\ Primaries \subseteq Bindings
    BY RegistryAssumption DEF IInv, TypeInv, TypeOK, RegistryInv, Bindings
  <2>1. CASE UNCHANGED tool
    BY <2>1
  <2>2. CASE Admit
    BY <2>0, <2>2 DEF Admit, Calls
  <2>3. CASE Lifecycle /\ ~Admit
    BY <2>1, <2>3 DEF Lifecycle, RefuseRequest, BeginReady, BeginEnd, BeginSwitch, Describe, Unmap,
       CancelPublic, JoinPublic, RefuseAdmission, FinishLane
  <2>4. ASSUME NEW d \in ToolCalls, Tool(d) PROVE primary = tool[c].owner /\ ~ending
    <3>1. d = c /\ ToolCheck(c) /\ status[tool[c].owner] = "bound"
      BY <2>0, <2>4, BindingFacts DEF Tool, ToolBegin, ToolSend, ToolCheck, Return, Calls
    <3> QED BY <2>0, <3>1 DEF OnePrimary, BoundOpen
  <2> QED BY <2>1, <2>2, <2>3, <2>4, PublicLoopFrame, RequestsFrame, EndFrame
          DEF Next, End, Stopped, vars
<1> HIDE DEF Passed
<1>2. IInv /\ [Next]_vars => [\A c \in ToolCalls : Passed(c)]_vars
  BY <1>1
<1>3. Spec => [][\A c \in ToolCalls : Passed(c)]_vars
  BY <1>2, Inductive, PTL DEF Spec
<1> QED BY <1>3 DEF ToolResultCurrent, Passed

\* Ready is announced only when the primary is reachable: published, or a lane's.
THEOREM ReadyIsPublishedAlways == Spec => ReadyIsPublished
<1> DEFINE Announced == ~ready /\ ready' => primary' # 0 /\ (Lane \/ caller'[primary'] # 0)
<1>1. IInv /\ [Next]_vars => Announced
  <2> SUFFICES ASSUME IInv, [Next]_vars, ~ready, ready' PROVE primary' # 0 /\ (Lane \/ caller'[primary'] # 0)
    OBVIOUS
  <2>0. /\ HolderOK /\ OnePrimary /\ BindingInv /\ TypeInv
        /\ Primaries \subseteq Bindings /\ 0 \notin Bindings
    BY RegistryAssumption DEF IInv, TypeInv, RegistryInv, Bindings
  <2>1. CASE FinishLane
    BY <2>0, <2>1 DEF FinishLane, HolderOK, OnePrimary, Target
  <2>2. CASE Lifecycle /\ ~FinishLane
    BY <2>2 DEF Lifecycle, RefuseRequest, BeginReady, BeginEnd, BeginSwitch, Describe, Unmap, CancelPublic,
       JoinPublic, RefuseAdmission, Admit, stateVars
  <2>3. ASSUME NEW b \in Bindings, PublicLoop(b) PROVE primary' # 0 /\ (Lane \/ caller'[primary'] # 0)
    <3>1. Publish(b) /\ b \in Primaries /\ Attached(b)
      BY <2>3 DEF PublicLoop, LoopExit, Dial, Attach, Publish, HelloRejected, ConnectionLost,
         Detach, Stop, loopElse, stateVars
    <3>2. primary = b /\ primary' = b
      BY <2>0, <3>1 DEF Attached, OnePrimary, Publish
    <3>3. caller'[b] = made[b] /\ made[b] # 0
      BY <2>0, <3>1, BindingFacts DEF Publish, BindingInv, BindingOK, QuietOK
    <3> QED BY <2>0, <3>2, <3>3
  <2> QED BY <2>1, <2>2, <2>3, RequestsFrame, ToolFrame, EndFrame DEF Next, End, Stopped, vars,
          stateVars, toolElse
<1> HIDE DEF Announced
<1>2. IInv /\ [Next]_vars => [Announced]_vars
  BY <1>1
<1>3. Spec => [][Announced]_vars
  BY <1>2, Inductive, PTL DEF Spec
<1> QED BY <1>3 DEF ReadyIsPublished, Announced

-----------------------------------------------------------------------------
(* The registry's total is the sum of what it holds.                         *)

\* Induction over the natural numbers, for a set.
LEMMA SetInduction ==
  ASSUME NEW S, 0 \in S, \A n \in Nat : n \in S => n + 1 \in S
  PROVE  \A n \in Nat : n \in S
<1> DEFINE T == {n \in Nat : n \notin S}
<1> SUFFICES ASSUME T # {} PROVE FALSE
  BY DEF T
<1>1. PICK x \in T : \A y \in T : ~(<<y, x>> \in OpToRel(<, Nat))
  <2>1. T \subseteq Nat
    OBVIOUS
  <2> HIDE DEF T
  <2> QED BY <2>1, NatLessThanWellFounded, WFMin, Zenon
<1>2. x \in Nat /\ x # 0 /\ x \notin S
  OBVIOUS
<1>3. x - 1 \in Nat /\ x - 1 < x /\ (x - 1) + 1 = x
  BY <1>2
<1>4. x - 1 \in S
  BY <1>1, <1>3 DEF OpToRel
<1> QED BY <1>2, <1>3, <1>4

\* The binding a sum takes out of a set of bindings next.
Pick(s) == CHOOSE x \in s : TRUE

\* h is the sum of f over every set of bindings, in the order FoldFunction takes them.
Sums(f, h) ==
  h = [s \in SUBSET Bindings |-> IF s = {} THEN 0 ELSE f[Pick(s)] + h[s \ {Pick(s)}]]

\* The sets of at most n bindings.
Small(n) == {s \in SUBSET Bindings : Cardinality(s) <= n}

\* A set of bindings is finite, and smaller without the one that is taken.
LEMMA PickIs ==
  ASSUME NEW s \in SUBSET Bindings
  PROVE  /\ Cardinality(s) \in Nat /\ (Cardinality(s) = 0 <=> s = {})
         /\ s # {} => /\ Pick(s) \in s /\ s \ {Pick(s)} \in SUBSET Bindings
                      /\ Cardinality(s \ {Pick(s)}) = Cardinality(s) - 1
<1>1. IsFiniteSet(s)
  <2>1. IsFiniteSet(1 .. N)
    BY RegistryAssumption, FS_Interval
  <2> QED BY <2>1, FS_Subset DEF Bindings
<1>2. Cardinality(s) \in Nat /\ (Cardinality(s) = 0 <=> s = {})
  BY <1>1, FS_CardinalityType, FS_EmptySet
<1>3. ASSUME s # {}
      PROVE  /\ Pick(s) \in s /\ s \ {Pick(s)} \in SUBSET Bindings
             /\ Cardinality(s \ {Pick(s)}) = Cardinality(s) - 1
  <2>1. Pick(s) \in s
    BY <1>3, Zenon DEF Pick
  <2> QED BY <1>1, <2>1, FS_RemoveElement
<1> QED BY <1>2, <1>3

\* No set but the empty one is small enough for nothing.
LEMMA SmallNone ==
  ASSUME NEW s \in Small(0)
  PROVE  s = {}
<1>1. s \in SUBSET Bindings /\ Cardinality(s) <= 0
  BY DEF Small
<1>2. Cardinality(s) \in Nat
  BY <1>1, PickIs
<1>3. Cardinality(s) = 0
  BY <1>1, <1>2
<1> QED BY <1>1, <1>3, PickIs

\* What holds of the empty set, and of a set when it holds of the set without the binding
\* that is taken, holds of every set.
LEMMA SumInduction ==
  ASSUME NEW G, {} \in G,
         \A s \in SUBSET Bindings : s # {} /\ s \ {Pick(s)} \in G => s \in G
  PROVE  \A s \in SUBSET Bindings : s \in G
<1> DEFINE S == {n \in Nat : \A s \in Small(n) : s \in G}
<1>1. 0 \in S
  BY SmallNone
<1>2. ASSUME NEW n \in Nat, n \in S PROVE n + 1 \in S
  <2>1. ASSUME NEW s \in Small(n + 1) PROVE s \in G
    <3>1. CASE s = {}
      BY <3>1
    <3>2. CASE s # {}
      <4>1. s \ {Pick(s)} \in Small(n)
        BY <3>2, PickIs DEF Small
      <4> QED BY <1>2, <3>2, <4>1 DEF Small
    <3> QED BY <3>1, <3>2
  <2> QED BY <2>1
<1> HIDE DEF S
<1>3. \A n \in Nat : n \in S
  BY <1>1, <1>2, SetInduction
<1>4. \A s \in SUBSET Bindings : Cardinality(s) \in Nat
  BY PickIs
<1>5. \A s \in SUBSET Bindings : s \in Small(Cardinality(s))
  BY <1>4 DEF Small
<1> QED BY <1>3, <1>4, <1>5 DEF S

\* h is the sum of f over the sets of at most n bindings.
SumsTo(f, n, h) ==
  h = [s \in Small(n) |-> IF s = {} THEN 0 ELSE f[Pick(s)] + h[s \ {Pick(s)}]]

\* The recursive function that sums is well defined.
LEMMA SumsExist ==
  ASSUME NEW f
  PROVE  \E h : Sums(f, h)
<1> DEFINE S == {n \in Nat : \E h : SumsTo(f, n, h)}
<1>1. 0 \in S
  <2> DEFINE h == [s \in Small(0) |-> 0]
  <2>1. \A s \in Small(0) : s = {}
    BY SmallNone
  <2>2. SumsTo(f, 0, h)
    BY <2>1 DEF SumsTo
  <2> QED BY <2>2
<1>2. ASSUME NEW n \in Nat, n \in S PROVE n + 1 \in S
  <2>1. PICK h : SumsTo(f, n, h)
    BY <1>2
  <2> DEFINE k == [s \in Small(n + 1) |-> IF s = {} THEN 0 ELSE f[Pick(s)] + h[s \ {Pick(s)}]]
  <2>2. ASSUME NEW s \in Small(n + 1), s # {} PROVE k[s \ {Pick(s)}] = h[s \ {Pick(s)}]
    <3>1. s \ {Pick(s)} \in Small(n) /\ s \ {Pick(s)} \in Small(n + 1)
      BY <2>2, PickIs DEF Small
    <3> DEFINE t == s \ {Pick(s)}
    <3> HIDE DEF t
    <3>2. t \in Small(n) /\ t \in Small(n + 1)
      BY <3>1 DEF t
    <3>3. h[t] = IF t = {} THEN 0 ELSE f[Pick(t)] + h[t \ {Pick(t)}]
      BY <2>1, <3>2 DEF SumsTo
    <3>4. k[t] = h[t]
      BY <3>2, <3>3
    <3> QED BY <3>4 DEF t
  <2>3. k = [s \in Small(n + 1) |-> IF s = {} THEN 0 ELSE f[Pick(s)] + k[s \ {Pick(s)}]]
    <3>1. \A s \in Small(n + 1) :
            k[s] = IF s = {} THEN 0 ELSE f[Pick(s)] + k[s \ {Pick(s)}]
      BY <2>2
    <3>2. k = [s \in Small(n + 1) |-> k[s]]
      OBVIOUS
    <3> HIDE DEF k
    <3> QED BY <3>1, <3>2
  <2> HIDE DEF k
  <2>4. SumsTo(f, n + 1, k)
    BY <2>3 DEF SumsTo
  <2> QED BY <2>4
<1> HIDE DEF S
<1>3. N \in S
  BY <1>1, <1>2, SetInduction, RegistryAssumption
<1>4. PICK h : SumsTo(f, N, h)
  BY <1>3 DEF S
<1>5. Small(N) = SUBSET Bindings
  <2>1. ASSUME NEW s \in SUBSET Bindings PROVE Cardinality(s) <= N
    <3>1. IsFiniteSet(Bindings) /\ Cardinality(Bindings) = N
      BY RegistryAssumption, FS_Interval DEF Bindings
    <3> QED BY <3>1, FS_Subset
  <2> QED BY <2>1 DEF Small
<1> QED BY <1>4, <1>5 DEF Sums, SumsTo

\* What the bindings hold together.
Sum(f) == FoldFunction(+, 0, f)

\* FoldFunction over the bindings is such a sum.
LEMMA SumIs ==
  ASSUME NEW f, DOMAIN f = Bindings
  PROVE  \E h : Sums(f, h) /\ Sum(f) = h[Bindings]
<1> DEFINE h == CHOOSE h : Sums(f, h)
<1>1. Sums(f, h)
  BY SumsExist
<1>2. Sum(f) = h[Bindings]
  BY Zenon DEF Sum, FoldFunction, FoldFunctionOnSet, MapThenFoldSet, Sums, Pick
<1> HIDE DEF h
<1> QED BY <1>1, <1>2

\* A step of a sum.
LEMMA SumsAt ==
  ASSUME NEW f, NEW h, Sums(f, h)
  PROVE  /\ h[{}] = 0
         /\ \A s \in SUBSET Bindings : s # {} => h[s] = f[Pick(s)] + h[s \ {Pick(s)}]
BY DEF Sums

\* Nothing adds up to nothing.
LEMMA SumOfNothing ==
  ASSUME NEW f \in [Bindings -> {0}]
  PROVE  Sum(f) = 0
<1>1. PICK h : Sums(f, h) /\ Sum(f) = h[Bindings]
  BY SumIs
<1> DEFINE G == {s \in SUBSET Bindings : h[s] = 0}
<1>2. {} \in G
  BY <1>1, SumsAt
<1>3. ASSUME NEW s \in SUBSET Bindings, s # {}, s \ {Pick(s)} \in G PROVE s \in G
  <2>1. Pick(s) \in Bindings
    BY <1>3, PickIs
  <2>2. h[s] = f[Pick(s)] + h[s \ {Pick(s)}]
    BY <1>1, <1>3, SumsAt
  <2>3. f[Pick(s)] = 0 /\ h[s \ {Pick(s)}] = 0
    BY <1>3, <2>1
  <2> QED BY <2>2, <2>3
<1> HIDE DEF G
<1>4. Bindings \in G
  BY <1>2, <1>3, SumInduction
<1> QED BY <1>1, <1>4 DEF G

\* When one binding holds v instead, the sum moves by the difference.
LEMMA SumMoves ==
  ASSUME NEW f \in [Bindings -> Int], NEW b \in Bindings, NEW v \in Int
  PROVE  Sum(f) \in Int /\ Sum([f EXCEPT ![b] = v]) = Sum(f) + v - f[b]
<1> DEFINE g == [f EXCEPT ![b] = v]
<1>0. g \in [Bindings -> Int] /\ g[b] = v /\ \A x \in Bindings : x # b => g[x] = f[x]
  OBVIOUS
<1> HIDE DEF g
<1>1. PICK h : Sums(f, h) /\ Sum(f) = h[Bindings]
  BY SumIs
<1>2. PICK k : Sums(g, k) /\ Sum(g) = k[Bindings]
  BY <1>0, SumIs
<1> DEFINE Moved(s) == h[s] \in Int /\ k[s] = h[s] + (IF b \in s THEN v - f[b] ELSE 0)
           G == {s \in SUBSET Bindings : Moved(s)}
<1>6. k[{}] = 0 /\ \A s \in SUBSET Bindings : s # {} => k[s] = g[Pick(s)] + k[s \ {Pick(s)}]
  BY <1>2, SumsAt
<1>3. {} \in G
  BY <1>1, <1>6, SumsAt
<1>4. ASSUME NEW s \in SUBSET Bindings, s # {}, s \ {Pick(s)} \in G PROVE s \in G
  <2> DEFINE x == Pick(s)
             t == s \ {x}
  <2>1. x \in s /\ x \in Bindings /\ (b \in t <=> b \in s /\ b # x)
    BY <1>4, PickIs
  <2>2. h[s] = f[x] + h[t] /\ k[s] = g[x] + k[t] /\ Moved(t)
    <3>1. h[s] = f[x] + h[t]
      BY <1>1, <1>4, SumsAt
    <3>2. k[s] = g[x] + k[t]
      BY <1>4, <1>6
    <3>3. Moved(t)
      BY <1>4
    <3> QED BY <3>1, <3>2, <3>3
  <2> HIDE DEF x, t
  <2>3. f[x] \in Int /\ f[b] \in Int /\ g[x] = IF x = b THEN v ELSE f[x]
    BY <1>0, <2>1
  <2>4. Moved(s)
    BY <2>1, <2>2, <2>3
  <2> QED BY <2>4
<1> HIDE DEF G
<1>5. Bindings \in G
  BY <1>3, <1>4, SumInduction
<1> QED BY <1>1, <1>2, <1>5 DEF G, g

\* The token a removal has taken and not charged yet.
Uncharged(pc) == IF pc \in {"cancel", "join"} THEN 1 ELSE 0

\* Accounted, spelled with them.
LEMMA TotalIs ==
  /\ Accounted <=> (~ending => total = Sum(bytes) + Len(retired) - Uncharged(holder.pc))
  /\ Accounted' <=> (~ending' => total' = Sum(bytes') + Len(retired') - Uncharged(holder'.pc))
<1>1. Accounted <=> (~ending => total = Sum(bytes) + Len(retired) - Uncharged(holder.pc))
  BY Zenon DEF Accounted, Sum, Uncharged
<1>2. Accounted' <=> (~ending' => total' = Sum(bytes') + Len(retired') - Uncharged(holder'.pc))
  BY Zenon DEF Accounted, Sum, Uncharged, FoldFunction, FoldFunctionOnSet, MapThenFoldSet
<1> QED BY <1>1, <1>2

\* A charge, with the retired tokens left alone.
LEMMA ChargeTotal ==
  ASSUME TypeOK, Accounted, NEW b \in Bindings, NEW n \in Int, Charge(b, n),
         UNCHANGED retired, ending' \in BOOLEAN, ~ending' => ~ending,
         Uncharged(holder'.pc) = Uncharged(holder.pc)
  PROVE  Accounted'
<1>1. total \in Int /\ bytes \in [Bindings -> Int] /\ bytes[b] + n \in Int /\ bytes[b] \in Int
      /\ Len(retired) \in Nat /\ Uncharged(holder.pc) \in Int
  BY DEF TypeOK, RegistryTypes, ByteTypes, Uncharged
<1>2. bytes' = [bytes EXCEPT ![b] = bytes[b] + n] /\ total' = total + n
  BY DEF Charge
<1>3. Sum(bytes) \in Int /\ Sum(bytes') = Sum(bytes) + (bytes[b] + n) - bytes[b]
  BY <1>1, <1>2, SumMoves
<1>4. ~ending' => total' = Sum(bytes') + Len(retired') - Uncharged(holder'.pc)
  BY <1>1, <1>2, <1>3, TotalIs
<1> QED BY <1>4, TotalIs

\* Nothing that is counted changes.
LEMMA SameTotal ==
  ASSUME TypeOK, Accounted, UNCHANGED <<total, bytes, retired>>, ending' \in BOOLEAN,
         ~ending' => ~ending, Uncharged(holder'.pc) = Uncharged(holder.pc)
  PROVE  Accounted'
BY TotalIs

\* A token is remembered when its removal begins and charged when it ends.
LEMMA UnmapTotal ==
  ASSUME TypeInv, Accounted, Unmap, ending' = ending
  PROVE  Accounted'
<1>0. TypeOK /\ HolderOK /\ holder \in Holders /\ holder.pc = "remove" /\ ending \in BOOLEAN
  BY DEF TypeInv, TypeOK, RegistryTypes, Unmap
<1>1. UNCHANGED <<total, bytes>>
  BY DEF Unmap, byteVars
<1>2. CASE Release /\ UNCHANGED retired
  <2>1. Uncharged(holder'.pc) = Uncharged(holder.pc)
    BY <1>0, <1>2, ReleaseStep DEF Uncharged
  <2> QED BY <1>0, <1>1, <1>2, <2>1, SameTotal
<1>3. CASE Hold("cancel") /\ retired' = Append(retired, holder.prev)
  <2>1. Uncharged(holder'.pc) = 1 /\ Uncharged(holder.pc) = 0
    BY <1>0, <1>3, HoldStep DEF Uncharged, HoldPcs
  <2>2. holder.prev \in Bindings /\ retired \in Seq(Bindings)
    BY <1>0 DEF HolderOK, TypeOK, RegistryTypes
  <2>3. Len(retired') = Len(retired) + 1 /\ Len(retired) \in Nat
    BY <1>3, <2>2
  <2>4. total \in Int /\ bytes \in [Bindings -> Int]
    BY <1>0 DEF TypeOK, ByteTypes
  <2>5. Sum(bytes) \in Int
    BY <2>4, <2>2, SumMoves
  <2>6. ~ending' => total' = Sum(bytes') + Len(retired') - Uncharged(holder'.pc)
    BY <1>1, <2>1, <2>3, <2>5, TotalIs
  <2> QED BY <2>6, TotalIs
<1> QED BY <1>2, <1>3 DEF Unmap, stateVars

\* What the binding held is released, and its token charged or the oldest one's given back.
LEMMA JoinTotal ==
  ASSUME TypeInv, Accounted, JoinPublic, ending' = ending
  PROVE  Accounted'
<1>0. TypeOK /\ HolderOK /\ holder \in Holders /\ holder.pc = "join" /\ ending \in BOOLEAN
  BY DEF TypeInv, TypeOK, RegistryTypes, JoinPublic
<1>1. PICK p \in Bindings : p = holder.prev
  BY <1>0 DEF HolderOK
<1>2. /\ bytes' = [bytes EXCEPT ![p] = 0]
      /\ total' = IF ending THEN total ELSE total - bytes[p] + TokenCost
      /\ retired' = IF Evicts THEN Tail(retired) ELSE retired
  BY <1>1 DEF JoinPublic
<1>3. Uncharged(holder.pc) = 1 /\ Uncharged(holder'.pc) = 0
  <2>1. holder'.pc \in {"admit", "none"}
    BY <1>0, HoldStep, ReleaseStep DEF JoinPublic, HoldPcs
  <2> QED BY <1>0, <2>1 DEF Uncharged
<1>4. total \in Int /\ bytes \in [Bindings -> Int] /\ bytes[p] \in Int /\ retired \in Seq(Bindings)
  BY <1>0 DEF TypeOK, RegistryTypes, ByteTypes
<1>5. Len(retired) \in Nat /\ Len(retired') + 1 = Len(retired) + TokenCost /\ TokenCost \in Int
  <2>1. CASE Evicts
    <3>1. retired # <<>> /\ Len(retired) \in Nat
      BY <1>4, <2>1, RegistryAssumption DEF Evicts
    <3>2. Len(Tail(retired)) = Len(retired) - 1
      BY <1>4, <3>1
    <3> QED BY <1>2, <2>1, <3>1, <3>2 DEF TokenCost
  <2>2. CASE ~Evicts
    BY <1>2, <1>4, <2>2 DEF TokenCost
  <2> QED BY <2>1, <2>2
<1>6. Len(retired') \in Int
  BY <1>2, <1>4, <1>5
<1>7. Sum(bytes) \in Int /\ Sum(bytes') = Sum(bytes) + 0 - bytes[p]
  <2>1. PICK f \in [Bindings -> Int] : f = bytes
    BY <1>4
  <2>2. PICK v \in Int : v = 0
    OBVIOUS
  <2>3. Sum(f) \in Int /\ Sum([f EXCEPT ![p] = v]) = Sum(f) + v - f[p]
    BY SumMoves
  <2> QED BY <1>2, <2>1, <2>2, <2>3
<1>8. ASSUME ~ending PROVE total' = Sum(bytes') + Len(retired') - Uncharged(holder'.pc)
  <2>1. total = Sum(bytes) + Len(retired) - 1
    BY <1>3, <1>8, TotalIs
  <2>2. total' = total - bytes[p] + TokenCost
    BY <1>2, <1>8
  <2>3. Len(retired') = Len(retired) + TokenCost - 1
    BY <1>5, <1>6
  <2>4. total' = (Sum(bytes) + 0 - bytes[p]) + (Len(retired) + TokenCost - 1) - 0
    BY <1>4, <1>5, <1>7, <2>1, <2>2
  <2> QED BY <1>3, <1>7, <2>3, <2>4
<1> QED BY <1>8, TotalIs

\* Every step keeps the total exact.
LEMMA TotalStep ==
  ASSUME TypeInv, Accounted, [Next]_vars
  PROVE  Accounted'
<1>0. TypeOK /\ HolderOK /\ holder \in Holders /\ ending \in BOOLEAN
  BY DEF TypeInv, TypeOK, RegistryTypes
<1>e. ending' \in BOOLEAN
  BY TypeStep DEF TypeInv, TypeOK, RegistryTypes
<1>1. ASSUME UNCHANGED <<total, bytes, retired>>, Uncharged(holder'.pc) = Uncharged(holder.pc),
             ~ending' => ~ending
      PROVE  Accounted'
  BY <1>0, <1>e, <1>1, SameTotal
<1>2. ASSUME NEW b \in Bindings, NEW n \in Int, Charge(b, n), UNCHANGED <<retired, ending>>,
             Uncharged(holder'.pc) = Uncharged(holder.pc)
      PROVE  Accounted'
  BY <1>0, <1>2, ChargeTotal
<1>3. CASE Lifecycle
  <2>0. ending' = ending
    BY <1>3, LifecycleFrame DEF endVars
  <2>1. CASE \E b \in Bindings : BeginReady(b) \/ BeginEnd(b) \/ \E p \in Bindings : BeginSwitch(p, b)
    <3>1. UNCHANGED <<total, bytes, retired>> /\ holder.pc = "none" /\ holder'.pc \in {"describe", "remove"}
      BY <2>1 DEF BeginReady, BeginEnd, BeginSwitch, Begin, NoHolder, byteVars, stateVars
    <3> QED BY <1>1, <2>0, <3>1 DEF Uncharged
  <2>2. CASE Describe
    <3>1. holder'.pc \in {"none", "remove", "admit"} /\ holder.pc = "describe"
      BY <1>0, <2>2, HoldStep, ReleaseStep DEF Describe, HoldPcs
    <3> QED BY <1>1, <2>0, <2>2, <3>1 DEF Describe, byteVars, stateVars, Uncharged
  <2>3. CASE Unmap
    BY <2>0, <2>3, UnmapTotal
  <2>4. CASE CancelPublic
    <3>1. holder'.pc = "join" /\ holder.pc = "cancel"
      BY <1>0, <2>4, HoldStep DEF CancelPublic, HoldPcs
    <3> QED BY <1>1, <2>0, <2>4, <3>1 DEF CancelPublic, byteVars, stateVars, Uncharged
  <2>5. CASE JoinPublic
    BY <2>0, <2>5, JoinTotal
  <2>6. CASE Admit
    <3>1. holder'.pc \in {"none", "finish"} /\ holder.pc = "admit"
      BY <1>0, <2>6, HoldStep, ReleaseStep DEF Admit, HoldPcs
    <3>2. Uncharged(holder'.pc) = Uncharged(holder.pc)
      BY <3>1 DEF Uncharged
    <3>3. Charge(Target, 1) /\ UNCHANGED retired
      BY <2>6 DEF Admit
    <3>4. Target \in Bindings
      BY <1>0, <3>1 DEF HolderOK, Target
    <3> QED BY <1>2, <2>0, <3>2, <3>3, <3>4
  <2>7. CASE FinishLane \/ RefuseAdmission
    <3>1. holder'.pc = "none" /\ holder.pc \in {"finish", "admit"}
      BY <2>7, ReleaseStep DEF FinishLane, RefuseAdmission
    <3> QED BY <1>1, <2>0, <2>7, <3>1 DEF FinishLane, RefuseAdmission, byteVars, stateVars, Uncharged
  <2>8. CASE RefuseRequest
    BY <1>1, <2>0, <2>8 DEF RefuseRequest, byteVars, stateVars
  <2> QED BY <1>3, <2>8, <2>1, <2>2, <2>3, <2>4, <2>5, <2>6, <2>7 DEF Lifecycle
<1>4. ASSUME NEW b \in Bindings, PublicLoop(b) PROVE Accounted'
  <2>1. UNCHANGED <<retired, holder, ending>>
    BY <1>4, PublicLoopFrame DEF endVars
  <2>2. UNCHANGED <<total, bytes>> \/ Charge(b, 1)
    BY <1>4 DEF PublicLoop, LoopExit, Dial, Attach, Publish, HelloRejected, ConnectionLost,
       Detach, Stop, loopElse, byteVars
  <2> QED BY <1>1, <1>2, <2>1, <2>2
<1>5. ASSUME NEW b \in Bindings, Requests(b) PROVE Accounted'
  <2>1. UNCHANGED <<retired, holder, ending>>
    BY <1>5, RequestsFrame DEF endVars, stateVars
  <2>2. queue[b] \in Int /\ -queue[b] \in Int /\ -1 \in Int /\ 1 \in Int
    BY <1>0 DEF TypeOK, WorkTypes
  <2>3. UNCHANGED <<total, bytes>> \/ \E n \in Int : Charge(b, n)
    <3>1. CASE HandleDeliver(b)
      BY <2>2, <3>1 DEF HandleDeliver
    <3>2. CASE FinishDelivery(b)
      BY <2>2, <3>2 DEF FinishDelivery
    <3>3. CASE Drain(b)
      BY <2>2, <3>3 DEF Drain
    <3> QED BY <1>5, <3>1, <3>2, <3>3 DEF Requests, Arrive, HandleStale, HandleSuperseded,
        FailSuperseded, TakeDelivery, loopElse, byteVars
  <2> QED BY <1>1, <1>2, <2>1, <2>3
<1>6. CASE End
  <2>1. CASE Closed
    BY <2>1, TotalIs DEF Closed
  <2>2. CASE ~Closed
    <3>1. UNCHANGED <<total, bytes, retired, holder>> /\ (~ending' => ~ending)
      BY <1>0, <1>6, <2>2, EndFrame DEF End, Close, StopBridge, CloseBridge, BridgeEnded, byteVars, stateVars
    <3> QED BY <1>1, <3>1
  <2> QED BY <2>1, <2>2
<1>7. CASE (\E c \in ToolCalls : Tool(c)) \/ Stopped \/ UNCHANGED vars
  <2>1. UNCHANGED <<total, bytes, retired, holder, ending>>
    BY <1>7, ToolFrame DEF Stopped, vars, toolElse, byteVars, stateVars, endVars
  <2> QED BY <1>1, <2>1
<1> QED BY <1>3, <1>4, <1>5, <1>6, <1>7 DEF Next, End

\* What fits is charged, and a removal gives back at least what its token costs.
LEMMA LimitStep ==
  ASSUME TypeInv, RegistryInv, BindingInv, total <= MaxRetained, [Next]_vars
  PROVE  total' <= MaxRetained
<1>0. /\ total \in Int /\ bytes \in [Bindings -> Int] /\ MaxRetained \in Nat /\ HolderOK
      /\ \A b \in Bindings : queue[b] \in Nat
  BY RegistryAssumption, BindingFacts DEF TypeInv
<1>1. CASE UNCHANGED total
  BY <1>1
<1>2. ASSUME NEW b \in Bindings, NEW n \in Int, Charge(b, n), n > 0 => Room(n)
      PROVE  total' <= MaxRetained
  BY <1>0, <1>2 DEF Charge, Room
<1>3. CASE JoinPublic
  <2>1. PICK p \in Bindings : p = holder.prev
    BY <1>0, <1>3 DEF JoinPublic, HolderOK
  <2>2. status[p] = "removed" /\ CoveredOK(p)
    BY <1>3, <2>1 DEF RegistryInv, HeldRemoved, JoinPublic, BindingInv, BindingOK
  <2>3. bytes[p] >= 1 /\ TokenCost <= 1 /\ TokenCost \in Int /\ bytes[p] \in Int
    BY <1>0, <2>2 DEF CoveredOK, TokenCost
  <2>4. total' = IF ending THEN total ELSE total - bytes[p] + TokenCost
    BY <1>3, <2>1 DEF JoinPublic
  <2> QED BY <1>0, <2>3, <2>4
<1>4. CASE Admit
  BY <1>0, <1>2, <1>4 DEF Admit, Refused, HolderOK, Target
<1>5. CASE Lifecycle /\ ~JoinPublic /\ ~Admit
  BY <1>1, <1>5 DEF Lifecycle, RefuseRequest, BeginReady, BeginEnd, BeginSwitch, Describe,
     Unmap, CancelPublic, RefuseAdmission, FinishLane, byteVars
<1>6. ASSUME NEW b \in Bindings, PublicLoop(b) PROVE total' <= MaxRetained
  <2>1. CASE Publish(b)
    BY <1>1, <1>2, <2>1 DEF Publish, byteVars
  <2> QED BY <1>1, <1>6, <2>1 DEF PublicLoop, LoopExit, Dial, Attach, HelloRejected,
      ConnectionLost, Detach, Stop, loopElse, byteVars
<1>7. ASSUME NEW b \in Bindings, Requests(b) PROVE total' <= MaxRetained
  <2>1. CASE HandleDeliver(b)
    BY <1>1, <1>2, <2>1 DEF HandleDeliver
  <2>2. CASE FinishDelivery(b)
    BY <1>0, <2>2 DEF FinishDelivery, Charge
  <2>3. CASE Drain(b)
    BY <1>0, <2>3 DEF Drain, Charge
  <2> QED BY <1>1, <1>7, <2>1, <2>2, <2>3 DEF Requests, Arrive, HandleStale, HandleSuperseded,
      FailSuperseded, TakeDelivery, loopElse, byteVars
<1>8. CASE End
  BY <1>0, <1>1, <1>8 DEF End, Close, StopBridge, CloseBridge, Closed, BridgeEnded, byteVars
<1>9. CASE (\E c \in ToolCalls : Tool(c)) \/ Stopped \/ UNCHANGED vars
  BY <1>1, <1>9, ToolFrame DEF Stopped, vars, toolElse, byteVars
<1> QED BY <1>3, <1>4, <1>5, <1>6, <1>7, <1>8, <1>9 DEF Next, End

\* While the registry is not ending, its retained bytes are those of its bindings and of
\* the retired tokens it remembers, whatever joins, fails and is evicted on the way; and
\* they never pass the limit, although a retired token is charged without asking.
THEOREM TotalExactAlways == Spec => []TotalExact
<1>1. Init => TotalExact
  <2> SUFFICES ASSUME Init PROVE TotalExact
    OBVIOUS
  <2>1. bytes \in [Bindings -> {0}] /\ total = 0 /\ retired = <<>> /\ holder.pc = "none"
    BY DEF Init, NoHolder
  <2>2. Sum(bytes) = 0 /\ Len(retired) = 0 /\ Uncharged(holder.pc) = 0
    BY <2>1, SumOfNothing DEF Uncharged
  <2>3. Accounted /\ total <= MaxRetained
    BY <2>1, <2>2, TotalIs, RegistryAssumption
  <2> QED BY <2>3 DEF TotalExact
<1>2. IInv /\ TotalExact /\ [Next]_vars => TotalExact'
  BY TotalStep, LimitStep DEF IInv, TotalExact
<1> QED BY <1>1, <1>2, Inductive, PTL DEF Spec
=============================================================================
