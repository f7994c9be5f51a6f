-------------------------- MODULE CoordinatorProofs --------------------------
(***************************************************************************)
(* Theorems about swap mode, for every set of models, requests and GPUs:   *)
(* about the coordinator and its manager (Spec), from CoordInd, and about  *)
(* a server that is shut down (ShutdownSpec), from EndInv.  What the two   *)
(* invariants share, and no shutdown disturbs, is CoreInv.                 *)
(***************************************************************************)
EXTENDS CoordinatorShutdown, TLAPS

-----------------------------------------------------------------------------
(* The initial states *)

(* A server that has just started has no process, no swap and no limit.       *)
LEMMA InitCoord == Init => CoordInd
<1> SUFFICES ASSUME Init PROVE CoordInd
  OBVIOUS
<1> USE ManagerAssumption, CoordinatorAssumption DEF Init, MgrInit
<1>1. CoordTypeOK
  BY DEF CoordTypeOK, CoordStates, ProcStates, CallStages, NoCall, RequestStages, SwapStages,
     Blank
<1>2. SwapsSerialized /\ ReadyIsTruthful
  BY DEF SwapsSerialized, ReadyIsTruthful, Swapping, SwapStages
<1>3. CmdInv /\ StageInv /\ SnapInv
  BY DEF CmdInv, StageInv, SnapInv, StoppingStages, NoCall
<1>4. LimitInv
  BY DEF LimitInv, StoppingStages, NewLimitStages, NoCall
<1> QED
  BY <1>1, <1>2, <1>3, <1>4 DEF CoordInd

-----------------------------------------------------------------------------
(* The core: the types, the one swap, the one request in handleEnsure, the    *)
(* one process, which need no other part of CoordInd                          *)

CoreInv == CoordTypeOK /\ SwapsSerialized /\ SnapInv /\ CmdInv

(* Nothing the swap depends on changes.                                       *)
LEMMA CoreStutter ==
    ASSUME CoreInv, UNCHANGED <<mgrVars, model, snap, swap, state, current, swapping, failures>>,
           req' \in [Requests -> RequestStages],
           \A r \in Requests : req'[r] = "received" => req[r] = "received",
           tracked' \subseteq Requests,
           cooling' \in BOOLEAN, backingOff' \in BOOLEAN, limited' \subseteq GPUs
    PROVE  CoreInv'
<1>1. CoordTypeOK'
  BY DEF CoreInv, CoordTypeOK, mgrVars
<1>2. SwapsSerialized' /\ CmdInv'
  BY DEF CoreInv, SwapsSerialized, Swapping, CmdInv, mgrVars
<1>3. SnapInv'
  BY DEF CoreInv, SnapInv, Busy, Fields
<1> QED
  BY <1>1, <1>2, <1>3 DEF CoreInv

(* handleEnsure reads the fields as they are.                                 *)
LEMMA CoreReceive ==
    ASSUME CoreInv, NEW r \in Requests, Receive(r)
    PROVE  CoreInv'
<1>1. CoordTypeOK'
  BY DEF CoreInv, CoordTypeOK, Receive, RequestStages, Fields, mgrVars, coordVars
<1>2. SwapsSerialized' /\ CmdInv'
  BY DEF CoreInv, SwapsSerialized, Swapping, CmdInv, Receive, mgrVars, coordVars
<1>3. SnapInv'
  <2>1. Fields' = Fields /\ snap' = Fields
    BY DEF Receive, Fields, coordVars
  <2> QED
    BY <2>1 DEF CoreInv, CoordTypeOK, SnapInv, Receive
<1> QED
  BY <1>1, <1>2, <1>3 DEF CoreInv

(* A handleEnsure that begins a swap knows that there is none.                *)
LEMMA SnapTells ==
    ASSUME CoreInv, NEW r \in Requests, req[r] = "received", EnsureReply(r) = "waiting"
    PROVE  /\ snap = Fields
           /\ ~swapping /\ state \notin {"starting", "stopping"}
  BY DEF CoreInv, SnapInv, EnsureReply, Busy, Fields

(* RevertModelLimits limits no further GPU.                                   *)
LEMMA RevertShrinks == ASSUME NEW m, Revert(m) PROVE limited' \subseteq limited
  BY DEF Revert

(* performSwap, from handleEnsure to handleSwapDone, keeps to one swap.       *)
LEMMA CoreSwap ==
    ASSUME CoreInv, NEW r \in Requests, HandleEnsure(r) \/ Perform(r)
    PROVE  CoordTypeOK' /\ SwapsSerialized'
<1> USE ManagerAssumption, CoordinatorAssumption, RevertShrinks
        DEF CoreInv, CoordTypeOK, CoordStates, SwapsSerialized, Swapping, SwapStages, SwapTo,
            NoCall, CallStages, mgrVars, coordVars, reqVars
<1>1. CASE HandleEnsure(r)
  <2>1. CoordTypeOK'
    <3>1. EnsureReply(r) \in RequestStages
      BY DEF EnsureReply, RequestStages
    <3>2. snap' \in [state : CoordStates, current : Models \cup {None},
                     swapping : BOOLEAN, failures : Nat]
      BY <1>1 DEF HandleEnsure, Blank
    <3>3. req' \in [Requests -> RequestStages]
      BY <1>1, <3>1 DEF HandleEnsure
    <3>4. /\ swap' \in [Requests -> SwapStages \cup {"none", "ok", "error"}]
          /\ state' \in CoordStates /\ swapping' \in BOOLEAN
      BY <1>1 DEF HandleEnsure
    <3>5. UNCHANGED <<cmd, proc, waitCh, call, current, failures, cooling, backingOff,
                      model, tracked, limited>>
      BY <1>1 DEF HandleEnsure
    <3> QED
      BY <3>2, <3>3, <3>4, <3>5
  <2>2. SwapsSerialized'
    BY <1>1, SnapTells DEF HandleEnsure
  <2> QED
    BY <2>1, <2>2
<1>2. CASE EndDrain(r)
  BY <1>2 DEF EndDrain
<1>3. CASE StopOld(r)
  BY <1>3 DEF StopOld, StopBegins
<1>4. CASE OldStopped(r)
  BY <1>4 DEF OldStopped
<1>5. CASE ApplyLimits(r)
  BY <1>5 DEF ApplyLimits
<1>6. CASE Start(r)
  <2>1. CoordTypeOK'
    BY <1>6 DEF Start, Spawn, Record, ProcStates
  <2>2. SwapsSerialized'
    BY <1>6 DEF Start
  <2> QED
    BY <2>1, <2>2
<1>7. CASE StartFails(r)
  BY <1>7 DEF StartFails
<1>8. CASE VerifySucceeds(r)
  BY <1>8 DEF VerifySucceeds
<1>9. CASE VerifyFails(r)
  BY <1>9 DEF VerifyFails, StopBegins
<1>10. CASE Unwound(r)
  BY <1>10 DEF Unwound
<1>11. CASE SwapFailed(r)
  <2>1. CoordTypeOK'
    <3>1. backingOff' \in BOOLEAN /\ failures' \in Nat
      BY <1>11 DEF SwapFailed
    <3> QED
      BY <1>11, <3>1 DEF SwapFailed
  <2>2. SwapsSerialized'
    BY <1>11 DEF SwapFailed
  <2> QED
    BY <2>1, <2>2
<1>12. CASE SwapSucceeded(r)
  <2>1. CoordTypeOK'
    BY <1>12 DEF SwapSucceeded
  <2>2. SwapsSerialized'
    BY <1>12 DEF SwapSucceeded
  <2> QED
    BY <2>1, <2>2
<1>13. CASE RevertOld(r) \/ UndoLimits(r)
  <2>1. limited' \subseteq limited
    BY <1>13 DEF RevertOld, UndoLimits
  <2>2. SwapsSerialized'
    BY <1>13 DEF RevertOld, UndoLimits
  <2> HIDE RevertShrinks
  <2>3. CoordTypeOK'
    BY <1>13, <2>1 DEF RevertOld, UndoLimits
  <2> QED
    BY <2>2, <2>3
<1>14. CASE BeginStart(r)
  <2>1. CoordTypeOK'
    BY <1>14 DEF BeginStart
  <2>2. SwapsSerialized'
    BY <1>14 DEF BeginStart
  <2> QED
    BY <2>1, <2>2
<1> QED
  BY <1>1, <1>2, <1>3, <1>4, <1>5, <1>6, <1>7, <1>8, <1>9, <1>10, <1>11, <1>12, <1>13, <1>14
  DEF Perform

(* A step of performSwap is one of a swap in progress, moves that swap alone  *)
(* and leaves handleEnsure's copy as it is.                                   *)
LEMMA PerformMoves ==
    ASSUME NEW r \in Requests, Perform(r)
    PROVE  /\ Swapping(r)
           /\ \E stage : swap' = [swap EXCEPT ![r] = stage]
           /\ UNCHANGED <<req, snap>>
  BY DEF Perform, EndDrain, StopOld, OldStopped, RevertOld, BeginStart, ApplyLimits, Start,
     StartFails, VerifySucceeds, VerifyFails, Unwound, UndoLimits, SwapFailed, SwapSucceeded,
     SwapTo, Swapping, SwapStages, reqVars

(* Whoever has read the fields before a swap ended has read that it was in    *)
(* progress.                                                                  *)
LEMMA SnapStep ==
    ASSUME CoreInv, NEW r \in Requests, HandleEnsure(r) \/ Perform(r)
    PROVE  SnapInv'
<1>1. CASE HandleEnsure(r)
  <2>1. EnsureReply(r) # "received"
    BY DEF EnsureReply
  <2>2. \A q \in Requests : req'[q] # "received"
    BY <1>1, <2>1 DEF CoreInv, CoordTypeOK, SnapInv, HandleEnsure
  <2> QED
    BY <2>2 DEF SnapInv
<1>2. CASE Perform(r)
  <2>1. swapping /\ UNCHANGED <<req, snap>>
    BY <1>2, PerformMoves DEF CoreInv, SwapsSerialized
  <2>2. \A q \in Requests : req[q] = "received" => Busy
    BY <2>1 DEF CoreInv, SnapInv, Fields, Busy
  <2> QED
    BY <2>1, <2>2 DEF CoreInv, SnapInv, Busy
<1> QED
  BY <1>1, <1>2

(* Of these only Start touches m.cmd, and it finds it free.                   *)
LEMMA SwapLeavesCmd ==
    ASSUME NEW r \in Requests, HandleEnsure(r) \/ Perform(r), ~Start(r)
    PROVE  UNCHANGED <<cmd, proc, waitCh>>
  BY DEF HandleEnsure, Perform, EndDrain, StopOld, StopBegins, OldStopped, RevertOld,
     BeginStart, ApplyLimits, StartFails, VerifySucceeds, VerifyFails, Unwound, UndoLimits,
     SwapFailed, SwapSucceeded, mgrVars

LEMMA CmdStep ==
    ASSUME CoreInv, NEW r \in Requests, HandleEnsure(r) \/ Perform(r)
    PROVE  CmdInv'
<1> USE ManagerAssumption, CoordinatorAssumption
        DEF CoreInv, CoordTypeOK, CmdInv
<1>1. CASE Start(r)
  <2>1. \A p \in Procs : p # r => proc[p] # "started"
    BY <1>1 DEF Start, SwapsSerialized, Swapping, SwapStages
  <2>2. CASE swap[r] = "start"
    BY <1>1, <2>1, <2>2 DEF Start, Spawn, MayStart, SwapTo
  <2>3. CASE swap[r] = "record"
    BY <1>1, <2>1, <2>3 DEF Start, Record, SwapTo
  <2> QED
    BY <1>1, <2>2, <2>3 DEF Start
<1>2. CASE ~Start(r)
  <2>1. \A p \in Procs : swap'[p] = "record" <=> swap[p] = "record"
    <3>1. CASE HandleEnsure(r)
      <4>1. EnsureReply(r) = "waiting" => swap[r] # "record"
        BY <3>1, SnapTells DEF HandleEnsure, SwapsSerialized, Swapping, SwapStages
      <4> QED
        BY <3>1, <4>1 DEF HandleEnsure
    <3>2. CASE Perform(r)
      BY <1>2, <3>2
      DEF Perform, EndDrain, StopOld, OldStopped, RevertOld, BeginStart, ApplyLimits,
          StartFails, VerifySucceeds, VerifyFails, Unwound, UndoLimits, SwapFailed,
          SwapSucceeded, SwapTo
    <3> QED
      BY <3>1, <3>2
  <2> QED
    BY <1>2, <2>1, SwapLeavesCmd
<1> QED
  BY <1>1, <1>2

(* An exit, and what the waiter and a waiting Stop make of it.                *)
LEMMA CoreManager ==
    ASSUME CoreInv, ManagerMoves
    PROVE  CoreInv'
<1> USE ManagerAssumption, CoordinatorAssumption
        DEF CoreInv, CoordTypeOK, CmdInv, ProcStates, CallStages, Alone, coordVars, reqVars
<1>1. SwapsSerialized' /\ SnapInv'
  BY DEF ManagerMoves, SwapsSerialized, Swapping, SnapInv, Busy, Fields
<1>2. ASSUME NEW p \in Procs, Alone(Exit(p)) \/ Alone(Report(p))
      PROVE  CoordTypeOK' /\ CmdInv'
  <2>1. CoordTypeOK'
    BY <1>2, SMTT(60) DEF Exit, Report
  <2>2. CmdInv'
    BY <1>2 DEF Exit, Report
  <2> QED
    BY <2>1, <2>2
<1>3. ASSUME NEW p \in Procs, Alone(Clear(p)) PROVE CoordTypeOK' /\ CmdInv'
  <2>1. CoordTypeOK'
    BY <1>3 DEF Clear
  <2>2. CmdInv'
    BY <1>3 DEF Clear
  <2> QED
    BY <2>1, <2>2
<1>4. ASSUME NEW c \in Procs, Alone(StopReceives(c)) PROVE CoordTypeOK' /\ CmdInv'
  <2>1. CoordTypeOK'
    BY <1>4 DEF StopReceives
  <2>2. CmdInv'
    BY <1>4 DEF StopReceives
  <2> QED
    BY <2>1, <2>2
<1>5. ASSUME NEW c \in Procs, Alone(StopDeadline(c)) PROVE CoordTypeOK' /\ CmdInv'
  <2>1. CoordTypeOK'
    BY <1>5 DEF StopDeadline
  <2>2. CmdInv'
    BY <1>5 DEF StopDeadline
  <2> QED
    BY <2>1, <2>2
<1>6. ASSUME NEW c \in Procs, Alone(StopGivesUp(c)) PROVE CoordTypeOK' /\ CmdInv'
  <2>1. CoordTypeOK'
    BY <1>6 DEF StopGivesUp
  <2>2. CmdInv'
    BY <1>6 DEF StopGivesUp
  <2> QED
    BY <2>1, <2>2
<1> QED
  BY <1>1, <1>2, <1>3, <1>4, <1>5, <1>6 DEF ManagerMoves

(* Every step of the coordinator, the router and the manager.                 *)
LEMMA NextCore == CoreInv /\ [Next]_vars => CoreInv'
<1> SUFFICES ASSUME CoreInv, [Next]_vars PROVE CoreInv'
  OBVIOUS
<1>1. ASSUME NEW r \in Requests, HandleEnsure(r) \/ Perform(r) PROVE CoreInv'
  BY <1>1, CoreSwap, SnapStep, CmdStep DEF CoreInv
<1>2. ASSUME NEW r \in Requests,
             Await(r) \/ WaitTimesOut(r) \/ Track(r) \/ Forward(r) \/ Finish(r)
      PROVE  CoreInv'
  <2>1. /\ req' \in [Requests -> RequestStages] /\ tracked' \subseteq Requests
        /\ \A q \in Requests : req'[q] = "received" => req[q] = "received"
    BY <1>2
    DEF CoreInv, CoordTypeOK, Await, WaitTimesOut, Track, Forward, Finish, RequestStages
  <2> QED
    BY <1>2, <2>1, CoreStutter
    DEF CoreInv, CoordTypeOK, Await, WaitTimesOut, Track, Forward, Finish, mgrVars, coordVars
<1>3. ASSUME NEW r \in Requests, Receive(r) PROVE CoreInv'
  BY <1>3, CoreReceive
<1>4. ASSUME CooldownPasses \/ BackoffPasses PROVE CoreInv'
  <2>1. cooling' \in BOOLEAN /\ backingOff' \in BOOLEAN
    BY <1>4 DEF CoreInv, CoordTypeOK, CooldownPasses, BackoffPasses
  <2> QED
    BY <1>4, <2>1, CoreStutter
    DEF CoreInv, CoordTypeOK, CooldownPasses, BackoffPasses, reqVars
<1>5. ASSUME UNCHANGED vars PROVE CoreInv'
  BY <1>5, CoreStutter DEF CoreInv, CoordTypeOK, vars, coordVars, reqVars
<1> QED
  BY <1>1, <1>2, <1>3, <1>4, <1>5, CoreManager DEF Next, Quiet

-----------------------------------------------------------------------------
(* What rests on the core: readiness, the stages of a swap, its limits *)

UpperInv == ReadyIsTruthful /\ StageInv /\ LimitInv

(* handleEnsure begins a swap with the limits of what it is to stop.          *)
LEMMA EnsureStep ==
    ASSUME CoordInd, NEW r \in Requests, HandleEnsure(r)
    PROVE  UpperInv'
<1> USE ManagerAssumption, CoordinatorAssumption
        DEF CoordInd, UpperInv, CoordTypeOK, HandleEnsure, mgrVars
<1>0. EnsureReply(r) = "waiting" =>
          snap = Fields /\ ~swapping /\ state \notin {"starting", "stopping"}
  BY SnapTells DEF CoreInv
<1>1. ReadyIsTruthful'
  BY <1>0 DEF ReadyIsTruthful
<1>2. StageInv'
  <2>1. EnsureReply(r) \notin {"new", "received"}
    BY DEF EnsureReply
  <2> QED
    BY <2>1 DEF StageInv, StoppingStages
<1>3. LimitInv'
  BY <1>0 DEF SwapsSerialized, LimitInv, StageInv, StoppingStages, NewLimitStages, Swapping,
     SwapStages, Fields, CoordStates
<1> QED
  BY <1>1, <1>2, <1>3

(* The old process: drain, stop, revert.                                      *)
LEMMA StopOldStep ==
    ASSUME CoordInd, NEW r \in Requests,
           EndDrain(r) \/ StopOld(r) \/ OldStopped(r) \/ RevertOld(r) \/ BeginStart(r)
    PROVE  UpperInv'
<1> USE ManagerAssumption, CoordinatorAssumption
        DEF CoordInd, UpperInv, CoordTypeOK, SwapsSerialized, ReadyIsTruthful, CmdInv, StageInv,
            StoppingStages, NewLimitStages, Swapping, SwapStages, SwapTo, NoCall, CallStages,
            mgrVars, coordVars, reqVars
<1>1. CASE EndDrain(r)
  BY <1>1 DEF EndDrain, LimitInv
<1>2. CASE StopOld(r)
  BY <1>2 DEF StopOld, StopBegins, LimitInv
<1>3. CASE OldStopped(r)
  <2>1. ReadyIsTruthful' /\ StageInv'
    BY <1>3 DEF OldStopped
  <2>2. LimitInv'
    BY <1>3 DEF OldStopped, LimitInv
  <2> QED
    BY <2>1, <2>2
<1>4. CASE RevertOld(r)
  <2>1. ReadyIsTruthful' /\ StageInv'
    BY <1>4 DEF RevertOld
  <2>2. ~MayRefuse /\ limited \subseteq limitedGPUs[current] /\ current \in Models =>
          limited' = {}
    BY <1>4 DEF RevertOld, Revert
  <2>3. LimitInv'
    BY <1>4, <2>2 DEF RevertOld, LimitInv
  <2> QED
    BY <2>1, <2>3
<1>5. CASE BeginStart(r)
  <2>1. ReadyIsTruthful' /\ StageInv'
    BY <1>5 DEF BeginStart
  <2>2. LimitInv'
    BY <1>5 DEF BeginStart, LimitInv
  <2> QED
    BY <2>1, <2>2
<1> QED
  BY <1>1, <1>2, <1>3, <1>4, <1>5

(* The new process: limits, start, verification, and what is undone.          *)
LEMMA StartStep ==
    ASSUME CoordInd, NEW r \in Requests,
           ApplyLimits(r) \/ Start(r) \/ StartFails(r) \/ VerifySucceeds(r)
             \/ VerifyFails(r) \/ Unwound(r) \/ UndoLimits(r)
    PROVE  UpperInv'
<1> USE ManagerAssumption, CoordinatorAssumption
        DEF CoordInd, UpperInv, CoordTypeOK, SwapsSerialized, ReadyIsTruthful, CmdInv, StageInv,
            LimitInv, StoppingStages, NewLimitStages, Swapping, SwapStages, SwapTo, NoCall,
            CallStages, mgrVars, coordVars, reqVars
<1>1. CASE ApplyLimits(r)
  BY <1>1 DEF ApplyLimits
<1>2. CASE Start(r)
  <2>1. CASE swap[r] = "start"
    BY <1>2, <2>1 DEF Start, Spawn, MayStart, ProcStates
  <2>2. CASE swap[r] = "record"
    <3>1. ReadyIsTruthful'
      BY <1>2, <2>2 DEF Start, Record
    <3>2. StageInv'
      BY <1>2, <2>2 DEF Start, Record
    <3>3. LimitInv'
      BY <1>2, <2>2 DEF Start, Record
    <3> QED
      BY <3>1, <3>2, <3>3
  <2> QED
    BY <1>2, <2>1, <2>2 DEF Start
<1>3. CASE StartFails(r)
  BY <1>3 DEF StartFails
<1>4. CASE VerifySucceeds(r)
  BY <1>4 DEF VerifySucceeds
<1>5. CASE VerifyFails(r)
  BY <1>5 DEF VerifyFails, StopBegins
<1>6. CASE Unwound(r)
  BY <1>6 DEF Unwound
<1>7. CASE UndoLimits(r)
  <2>1. ReadyIsTruthful' /\ StageInv'
    BY <1>7 DEF UndoLimits
  <2>2. ~MayRefuse /\ limited \subseteq limitedGPUs[model[r]] => limited' = {}
    BY <1>7 DEF UndoLimits, Revert
  <2>3. LimitInv'
    BY <1>7, <2>2 DEF UndoLimits
  <2> QED
    BY <2>1, <2>3
<1> QED
  BY <1>1, <1>2, <1>3, <1>4, <1>5, <1>6, <1>7

(* handleSwapDone ends the one swap there is.                                 *)
LEMMA DoneStep ==
    ASSUME CoordInd, NEW r \in Requests, SwapFailed(r) \/ SwapSucceeded(r)
    PROVE  UpperInv'
<1> USE ManagerAssumption, CoordinatorAssumption
        DEF CoordInd, UpperInv, CoordTypeOK, SwapsSerialized, ReadyIsTruthful, CmdInv, StageInv,
            LimitInv, StoppingStages, NewLimitStages, Swapping, SwapStages, SwapTo, mgrVars, reqVars
<1>1. CASE SwapFailed(r)
  <2>1. ReadyIsTruthful' /\ StageInv'
    BY <1>1 DEF SwapFailed
  <2>2. LimitInv'
    BY <1>1 DEF SwapFailed
  <2> QED
    BY <2>1, <2>2
<1>2. CASE SwapSucceeded(r)
  <2>1. ReadyIsTruthful'
    BY <1>2 DEF SwapSucceeded
  <2>2. StageInv'
    BY <1>2 DEF SwapSucceeded
  <2>3. LimitInv'
    BY <1>2 DEF SwapSucceeded
  <2> QED
    BY <2>1, <2>2, <2>3
<1> QED
  BY <1>1, <1>2

(* Requests and time touch nothing the swap depends on.                       *)
LEMMA RequestStep ==
    ASSUME CoordInd,
           \/ \E r \in Requests :
                 \/ Receive(r) \/ Await(r) \/ WaitTimesOut(r) \/ Track(r) \/ Forward(r)
                 \/ Finish(r)
           \/ CooldownPasses \/ BackoffPasses \/ UNCHANGED vars
    PROVE  UpperInv'
<1> USE DEF CoordInd, CoordTypeOK
<1>1. /\ UNCHANGED <<mgrVars, state, current, model, swap, limited>>
      /\ \A r \in Requests : req'[r] \in {"new", "received"} => req[r] \in {"new", "received"}
  BY DEF Receive, Await, WaitTimesOut, Track, Forward, Finish, CooldownPasses, BackoffPasses,
     coordVars, reqVars, vars
<1>2. ReadyIsTruthful' /\ StageInv'
  BY <1>1 DEF ReadyIsTruthful, StageInv, mgrVars
<1>3. LimitInv'
  BY <1>1 DEF LimitInv, mgrVars
<1> QED
  BY <1>2, <1>3 DEF UpperInv

(* An exit, and what the waiter and a waiting Stop make of it.                *)
LEMMA ManagerStep ==
    ASSUME CoordInd, ManagerMoves
    PROVE  UpperInv'
<1> USE ManagerAssumption, CoordinatorAssumption
        DEF CoordInd, UpperInv, CoordTypeOK, ReadyIsTruthful, CmdInv, StageInv, LimitInv,
            StoppingStages, NewLimitStages, Swapping, SwapStages, ProcStates, CallStages, Alone,
            coordVars, reqVars
<1>1. ASSUME NEW p \in Procs, Alone(Exit(p)) \/ Alone(Report(p)) PROVE UpperInv'
  <2>1. ReadyIsTruthful' /\ StageInv'
    BY <1>1 DEF Exit, Report
  <2>2. LimitInv'
    BY <1>1 DEF Exit, Report
  <2> QED
    BY <2>1, <2>2
<1>2. ASSUME NEW p \in Procs, Alone(Clear(p)) PROVE UpperInv'
  <2>1. ReadyIsTruthful' /\ StageInv'
    BY <1>2 DEF Clear
  <2>2. LimitInv'
    BY <1>2 DEF Clear
  <2> QED
    BY <2>1, <2>2
<1>3. ASSUME NEW c \in Procs, Alone(StopReceives(c)) PROVE UpperInv'
  <2>1. ReadyIsTruthful'
    BY <1>3 DEF StopReceives
  <2>2. /\ call[c].stage # "idle" /\ call'[c].stage # "idle"
        /\ \A b \in Procs \ {c} : call'[b] = call[b]
        /\ ~MayGarble => call'[c].stage = "stopped"
    BY <1>3 DEF StopReceives
  <2>3. StageInv'
    BY <1>3, <2>2 DEF StopReceives
  <2>4. LimitInv'
    <3>1. UNCHANGED <<state, current, limited, swap, model>>
      BY <1>3
    <3>2. ~MayGarble =>
            \A b \in Procs : call'[b].stage = "failed" => call[b].stage = "failed"
      BY <2>2
    <3> QED
      BY <3>1, <3>2
  <2> QED
    BY <2>1, <2>3, <2>4
<1>4. ASSUME NEW c \in Procs, Alone(StopDeadline(c)) PROVE UpperInv'
  BY <1>4 DEF StopDeadline
<1>5. ASSUME NEW c \in Procs, Alone(StopGivesUp(c)) PROVE UpperInv'
  BY <1>5 DEF StopGivesUp
<1> QED
  BY <1>1, <1>2, <1>3, <1>4, <1>5 DEF ManagerMoves

(* Every step of the coordinator, the router and the manager.                 *)
LEMMA NextCoord == CoordInd /\ [Next]_vars => CoordInd'
<1> SUFFICES ASSUME CoordInd, [Next]_vars PROVE CoordInd'
  OBVIOUS
<1>1. CoreInv'
  BY NextCore DEF CoreInv, CoordInd
<1>2. UpperInv'
  BY EnsureStep, StopOldStep, StartStep, DoneStep, RequestStep, ManagerStep
  DEF Next, Perform, Quiet
<1> QED
  BY <1>1, <1>2 DEF CoreInv, UpperInv, CoordInd

-----------------------------------------------------------------------------
(* The theorems about the coordinator *)

(* The process that m.cmd records is alone, and so is one that has yet to be  *)
(* recorded: the swap that started it is the only one.                        *)
LEMMA CmdAlone ==
    ASSUME CoordTypeOK, SwapsSerialized, CmdInv PROVE OneProcess
  BY ManagerAssumption, CoordinatorAssumption
  DEF CmdInv, OneProcess, Running, SwapsSerialized, Swapping, SwapStages

(* Whatever processes, clients and nvidia-smi do, every reachable state of    *)
(* swap mode satisfies the inductive invariant.                               *)
THEOREM SwapInductive == Spec => []CoordInd
<1> QED
  BY InitCoord, NextCoord, PTL DEF Spec

(* Every variable of the coordinator and of the manager keeps its type, and a *)
(* Stop that waits waits for a process.                                       *)
THEOREM SwapTypeCorrect == Spec => []CoordTypeOK
<1>1. CoordInd => CoordTypeOK
  BY DEF CoordInd
<1> QED
  BY <1>1, SwapInductive, PTL

(* Swap mode never runs two processes, nor loses one, even if it outlives     *)
(* SIGKILL and Stop fails: Start refuses while m.cmd is set.                  *)
THEOREM NeverTwoProcesses == Spec => []OneProcess
<1>1. CoordInd => OneProcess
  BY CmdAlone DEF CoordInd
<1> QED
  BY <1>1, SwapInductive, PTL

(* swapInProgress and the two transient states agree with the one swap there  *)
(* is, whichever path doSwap takes.                                           *)
THEOREM OneSwap == Spec => []SwapsSerialized
<1>1. CoordInd => SwapsSerialized
  BY DEF CoordInd
<1> QED
  BY <1>1, SwapInductive, PTL

(* A request that handleEnsure waves through asks the model that runs.        *)
THEOREM ReadyTruth == Spec => []ReadyIsTruthful
<1>1. CoordInd => ReadyIsTruthful
  BY DEF CoordInd
<1> QED
  BY <1>1, SwapInductive, PTL

(* When stops succeed and limits are accepted, doSwap's reverts leave no      *)
(* model's power limit behind.                                                *)
THEOREM LimitsFollowSwaps ==
    ASSUME ~MayLinger, ~MayGarble, ~MayRefuse
    PROVE  Spec => []SwapLimitsOwned
<1>1. CoordInd => SwapLimitsOwned
  BY CoordinatorAssumption
  DEF CoordInd, CoordTypeOK, LimitInv, SwapsSerialized, SwapLimitsOwned, SwapOwns, Swapping,
      SwapStages, StoppingStages, NewLimitStages, CoordStates
<1> QED
  BY <1>1, SwapInductive, PTL

(* A swap begins only when none is in progress, after the backoff, and        *)
(* outside the cooldown unless it restarts the current model.                 *)
THEOREM SwapsKeepPace == Spec => SwapsPaced
<1> DEFINE Paced(r) ==
      swap[r] = "none" /\ swap'[r] # "none" =>
          /\ ~swapping
          /\ ~(state = "error" /\ failures > 1 /\ backingOff)
          /\ cooling => state = "ready" /\ current = model[r] /\ cmd = None
<1>1. CoordInd /\ [Next]_vars => \A r \in Requests : Paced(r)
  <2> SUFFICES ASSUME CoordInd, [Next]_vars, NEW r \in Requests,
                      swap[r] = "none", swap'[r] # "none"
               PROVE  /\ ~swapping
                      /\ ~(state = "error" /\ failures > 1 /\ backingOff)
                      /\ cooling => state = "ready" /\ current = model[r] /\ cmd = None
    OBVIOUS
  <2>1. ASSUME NEW s \in Requests, Perform(s) PROVE FALSE
    BY <2>1, PerformMoves DEF CoordInd, CoordTypeOK, Swapping, SwapStages
  <2>2. HandleEnsure(r)
    <3>1. ASSUME NEW s \in Requests, HandleEnsure(s), s # r PROVE FALSE
      BY <3>1 DEF CoordInd, CoordTypeOK, HandleEnsure
    <3>2. ~\E s \in Requests :
             \/ Receive(s) \/ Await(s) \/ WaitTimesOut(s) \/ Track(s) \/ Forward(s)
             \/ Finish(s)
      BY DEF Receive, Await, WaitTimesOut, Track, Forward, Finish
    <3>3. ~(CooldownPasses \/ BackoffPasses \/ ManagerMoves \/ UNCHANGED vars)
      BY DEF CooldownPasses, BackoffPasses, ManagerMoves, Alone, vars
    <3> QED
      BY <2>1, <3>1, <3>2, <3>3 DEF Next, Quiet
  <2>3. EnsureReply(r) = "waiting" /\ req[r] = "received"
    BY <2>2 DEF HandleEnsure
  <2>4. snap = Fields /\ ~swapping
    BY <2>3, SnapTells DEF CoreInv, CoordInd
  <2> QED
    BY <2>3, <2>4
    DEF CoordInd, CoordTypeOK, EnsureReply, Ready, Busy, InBackoff, InCooldown, Crashed, Fields
<1> QED
  BY <1>1, SwapInductive, PTL DEF Spec, SwapsPaced

-----------------------------------------------------------------------------
(* The end: what the steps of the coordinator leave of a process, of an exit  *)
(* and of main                                                                *)

(* No process comes back.                                                     *)
LEMMA OverStays ==
    ASSUME CoreInv, [Next]_vars, NEW p \in Procs, proc[p] \in Over
    PROVE  proc'[p] \in Over
<1> USE CoordinatorAssumption DEF CoreInv, CoordTypeOK, Over
<1>1. ASSUME NEW r \in Requests, HandleEnsure(r) \/ Perform(r) PROVE proc'[p] \in Over
  <2>1. CASE Start(r)
    BY <2>1 DEF Start, Spawn, Record
  <2>2. CASE ~Start(r)
    BY <1>1, <2>2, SwapLeavesCmd
  <2> QED
    BY <2>1, <2>2
<1>2. CASE ManagerMoves
  BY <1>2 DEF ManagerMoves, Alone, Exit, Report, Clear, StopReceives, StopDeadline, StopGivesUp
<1>3. CASE UNCHANGED proc
  BY <1>3
<1> QED
  BY <1>1, <1>2, <1>3
  DEF Next, Quiet, Receive, Await, WaitTimesOut, Track, Forward, Finish, CooldownPasses, BackoffPasses,
      vars, mgrVars

(* Only a swap starts a process, and it is then still in progress.            *)
LEMMA OnlySwapsStart ==
    ASSUME CoreInv, [Next]_vars, ~swapping
    PROVE  Running' \subseteq Running
<1> USE CoordinatorAssumption
        DEF CoreInv, CoordTypeOK, SwapsSerialized, Swapping, SwapStages, Running
<1>1. ASSUME NEW r \in Requests, HandleEnsure(r) \/ Perform(r) PROVE UNCHANGED proc
  BY <1>1, SwapLeavesCmd DEF Start
<1>2. CASE ManagerMoves
  BY <1>2 DEF ManagerMoves, Alone, Exit, Report, Clear, StopReceives, StopDeadline, StopGivesUp
<1>3. CASE UNCHANGED proc
  BY <1>3
<1> QED
  BY <1>1, <1>2, <1>3
  DEF Next, Quiet, Receive, Await, WaitTimesOut, Track, Forward, Finish, CooldownPasses, BackoffPasses,
      vars, mgrVars

(* The calls of Stop that the swaps make and end.                             *)
LEMMA SwapCalls ==
    ASSUME CoreInv, NEW r \in Requests, HandleEnsure(r) \/ Perform(r)
    PROVE  /\ UNCHANGED waitCh
           /\ \/ UNCHANGED call
              \/ /\ swap[r] # "none"
                 /\ \E k : call' = [call EXCEPT ![r] = k] /\ (k.stage = "stopped" => k.of = None)
  BY DEF HandleEnsure, Perform, EndDrain, StopOld, StopBegins, OldStopped, RevertOld,
     BeginStart, ApplyLimits, Start, Spawn, Record, StartFails, VerifySucceeds, VerifyFails,
     Unwound, UndoLimits, SwapFailed, SwapSucceeded, mgrVars, NoCall

(* An exit result, and a Stop that has it, are of a process that is over.     *)
LEMMA ExitStep ==
    ASSUME CoreInv, ExitInv, [Next]_vars
    PROVE  ExitInv'
<1> USE ManagerAssumption, CoordinatorAssumption DEF CoreInv, CoordTypeOK, ExitInv
<1>1. ASSUME NEW r \in Requests, HandleEnsure(r) \/ Perform(r) PROVE ExitInv'
  BY <1>1, SwapCalls, OverStays
<1>2. CASE ManagerMoves
  <2>1. ASSUME NEW p \in Procs, Alone(Report(p)) PROVE ExitInv'
    BY <2>1, OverStays DEF Alone, Report, Over
  <2>2. ASSUME NEW p \in Procs, Alone(Exit(p)) \/ Alone(Clear(p)) PROVE ExitInv'
    BY <2>2, OverStays DEF Alone, Exit, Clear
  <2>3. ASSUME NEW c \in Procs,
               Alone(StopReceives(c)) \/ Alone(StopDeadline(c)) \/ Alone(StopGivesUp(c))
        PROVE  ExitInv'
    BY <2>3 DEF Alone, StopReceives, StopDeadline, StopGivesUp
  <2> QED
    BY <1>2, <2>1, <2>2, <2>3 DEF ManagerMoves
<1>3. CASE UNCHANGED mgrVars
  BY <1>3 DEF mgrVars
<1> QED
  BY <1>1, <1>2, <1>3
  DEF Next, Quiet, Receive, Await, WaitTimesOut, Track, Forward, Finish, CooldownPasses, BackoffPasses,
      vars

(* Main's Stop waits and ends on its own; main asks for no swap.              *)
LEMMA MainStays ==
    ASSUME CoreInv, req[Main] = "new", swap[Main] = "none", [Next]_vars, req'[Main] = "new"
    PROVE  /\ swap'[Main] = "none"
           /\ call'[Main].of = call[Main].of
           /\ call'[Main].stage = "idle" <=> call[Main].stage = "idle"
<1> USE MainAssumption, CoordinatorAssumption DEF CoreInv, CoordTypeOK
<1>1. ASSUME NEW r \in Requests, HandleEnsure(r)
      PROVE  swap'[Main] = "none" /\ UNCHANGED call
  BY <1>1 DEF HandleEnsure, EnsureReply, mgrVars
<1>2. ASSUME NEW r \in Requests, Perform(r)
      PROVE  swap'[Main] = "none" /\ call'[Main] = call[Main]
  <2>1. r # Main /\ swap' = [swap EXCEPT ![r] = swap'[r]]
    BY <1>2, PerformMoves DEF Swapping, SwapStages
  <2> QED
    BY <1>2, <2>1, SwapCalls
<1>3. CASE ManagerMoves
  <2>1. UNCHANGED swap
    BY <1>3 DEF ManagerMoves, Alone
  <2>2. ASSUME NEW p \in Procs, Alone(Exit(p)) \/ Alone(Report(p)) \/ Alone(Clear(p))
        PROVE  UNCHANGED call
    BY <2>2 DEF Alone, Exit, Report, Clear
  <2>3. ASSUME NEW c \in Procs, NEW stage \in CallStages \ {"idle"}, call[c].stage # "idle",
               call' = [call EXCEPT ![c].stage = stage]
        PROVE  /\ call'[Main].of = call[Main].of
               /\ call'[Main].stage = "idle" <=> call[Main].stage = "idle"
    BY <2>3
  <2>4. ASSUME NEW c \in Procs,
               Alone(StopReceives(c)) \/ Alone(StopDeadline(c)) \/ Alone(StopGivesUp(c))
        PROVE  \E stage \in CallStages \ {"idle"} :
                  call[c].stage # "idle" /\ call' = [call EXCEPT ![c].stage = stage]
    BY <2>4 DEF Alone, StopReceives, StopDeadline, StopGivesUp, CallStages
  <2> QED
    BY <1>3, <2>1, <2>2, <2>3, <2>4 DEF ManagerMoves
<1>4. CASE UNCHANGED <<mgrVars, swap>>
  BY <1>4 DEF mgrVars
<1> QED
  BY <1>1, <1>2, <1>3, <1>4
  DEF Next, Quiet, Receive, Await, WaitTimesOut, Track, Forward, Finish, CooldownPasses, BackoffPasses,
      vars

-----------------------------------------------------------------------------
(* The initial states, and every step of the server until main returns *)

(* A server that has just started has nothing to stop.                        *)
LEMMA InitEnd == ShutdownInit => EndInv
<1> SUFFICES ASSUME ShutdownInit PROVE EndInv
  OBVIOUS
<1> USE ManagerAssumption, MainAssumption, CoordinatorAssumption
        DEF ShutdownInit, StopStages
<1>1. CoordTypeOK /\ SwapsSerialized /\ SnapInv /\ CmdInv
  BY InitCoord DEF CoordInd
<1>2. EndTypeOK
  BY <1>1 DEF EndTypeOK
<1>3. ExitInv /\ MainInv
  BY DEF ExitInv, MainInv, Init, MgrInit, NoCall
<1>4. FoundInv /\ AloneInv
  BY DEF FoundInv, AloneInv, Init
<1> QED
  BY <1>1, <1>2, <1>3, <1>4 DEF EndInv

(* Anything but main: a swap beside StopCurrent is noted.                     *)
LEMMA ServeStep == ASSUME EndInv, Serve PROVE EndInv'
<1> USE MainAssumption, ManagerAssumption, CoordinatorAssumption DEF EndInv, Serve, stopVars
<1>1. CoreInv
  BY DEF CoreInv, EndTypeOK
<1>2. CoreInv'
  BY <1>1, NextCore
<1>3. EndTypeOK'
  <2>1. swapping' \in BOOLEAN
    BY <1>2 DEF CoreInv, CoordTypeOK
  <2>2. disturbed' \in BOOLEAN
    BY <2>1 DEF EndTypeOK
  <2> QED
    BY <1>2, <2>2 DEF EndTypeOK, CoreInv
<1>4. ExitInv'
  BY <1>1, ExitStep
<1>5. MainInv'
  BY <1>1, MainStays DEF MainInv
<1>6. FoundInv'
  BY <1>1, MainStays, OverStays DEF MainInv, FoundInv, EndTypeOK
<1>7. AloneInv'
  <2> SUFFICES ASSUME ~disturbed' PROVE /\ phase \in StopStages => ~swapping'
                                        /\ phase \in {"stopping", "reverting", "stopped"} =>
                                              Running' \subseteq {seen}
    BY DEF AloneInv
  <2>1. ~disturbed /\ (phase \in StopStages => ~swapping')
    OBVIOUS
  <2>2. ASSUME phase \in {"stopping", "reverting", "stopped"} PROVE Running' \subseteq {seen}
    <3>1. ~swapping /\ Running \subseteq {seen}
      BY <2>1, <2>2 DEF AloneInv, StopStages
    <3> QED
      BY <1>1, <3>1, OnlySwapsStart DEF Running
  <2> QED
    BY <2>1, <2>2
<1> QED
  BY <1>2, <1>3, <1>4, <1>5, <1>6, <1>7 DEF CoreInv

(* A Stop that was robbed of the exit result gives up.                        *)
LEMMA RobbedStep == ASSUME EndInv, NEW c \in Requests, StopRobbed(c) PROVE EndInv'
<1> USE MainAssumption, ManagerAssumption, CoordinatorAssumption
        DEF EndInv, StopRobbed, stopVars, coordVars, reqVars
<1>1. CoordTypeOK'
  BY DEF CoordTypeOK, EndTypeOK, CallStages
<1>2. EndTypeOK'
  BY <1>1 DEF EndTypeOK
<1>3. SwapsSerialized' /\ SnapInv' /\ CmdInv'
  BY DEF SwapsSerialized, Swapping, SnapInv, Busy, Fields, CmdInv
<1>4. ExitInv' /\ MainInv' /\ FoundInv'
  BY DEF ExitInv, MainInv, FoundInv, EndTypeOK, CoordTypeOK
<1>5. AloneInv'
  BY DEF AloneInv, Running
<1> QED
  BY <1>1, <1>2, <1>3, <1>4, <1>5

-----------------------------------------------------------------------------
(* StopCurrent *)

(* The phases that touch no process: the signal, the end of Run, the reading  *)
(* of currentModel, the return of main.                                       *)
LEMMA PhaseStep ==
    ASSUME EndInv, Signal \/ RunEnds \/ ReadCurrentModel \/ MainReturns \/ UNCHANGED allVars
    PROVE  EndInv'
<1> USE DEF EndInv, Signal, RunEnds, ReadCurrentModel, MainReturns, allVars, stopVars, StopStages
<1>1. UNCHANGED vars
  OBVIOUS
<1>2. CoreInv'
  BY <1>1, NextCore DEF CoreInv, EndTypeOK
<1>3. EndTypeOK'
  BY <1>2 DEF CoreInv, EndTypeOK, CoordTypeOK, vars, coordVars
<1>4. ExitInv' /\ MainInv'
  BY <1>1 DEF ExitInv, MainInv, vars, mgrVars, reqVars
<1>5. FoundInv'
  BY <1>1 DEF FoundInv, EndTypeOK, vars, mgrVars
<1>6. AloneInv'
  BY <1>1 DEF AloneInv, Running, vars, mgrVars, coordVars
<1> QED
  BY <1>2, <1>3, <1>4, <1>5, <1>6 DEF CoreInv

(* Manager.Stop takes the one process there is.                               *)
LEMMA TakesProcess == ASSUME EndInv, StopProcess PROVE EndInv'
<1> USE MainAssumption, ManagerAssumption, CoordinatorAssumption
        DEF EndInv, StopProcess, StopBegins, coordVars, reqVars, StopStages
<1>1. CoordTypeOK'
  BY DEF CoordTypeOK, EndTypeOK, CallStages
<1>2. EndTypeOK'
  BY <1>1 DEF EndTypeOK, CoordTypeOK
<1>3. SwapsSerialized' /\ SnapInv' /\ CmdInv'
  BY DEF SwapsSerialized, Swapping, SnapInv, Busy, Fields, CmdInv
<1>4. ExitInv' /\ MainInv' /\ FoundInv'
  BY DEF ExitInv, MainInv, FoundInv, EndTypeOK, CoordTypeOK
<1>5. AloneInv'
  BY DEF AloneInv, CmdInv, SwapsSerialized, Swapping, SwapStages, Running
<1> QED
  BY <1>1, <1>2, <1>3, <1>4, <1>5

(* A Stop that succeeded found nothing, or has the exit result.               *)
LEMMA StopResult == ASSUME EndInv, StopReturns PROVE EndInv'
<1> USE MainAssumption, ManagerAssumption, CoordinatorAssumption
        DEF EndInv, StopReturns, coordVars, reqVars, NoCall, StopStages
<1>1. CoordTypeOK'
  BY DEF CoordTypeOK, EndTypeOK, CallStages
<1>2. EndTypeOK'
  BY <1>1 DEF EndTypeOK, CoordTypeOK
<1>3. SwapsSerialized' /\ SnapInv' /\ CmdInv'
  BY DEF SwapsSerialized, Swapping, SnapInv, Busy, Fields, CmdInv
<1>4. ExitInv' /\ MainInv'
  BY DEF ExitInv, MainInv, EndTypeOK, CoordTypeOK
<1>5. FoundInv'
  BY DEF ExitInv, FoundInv, EndTypeOK, CoordTypeOK
<1>6. AloneInv'
  BY DEF AloneInv, Running
<1> QED
  BY <1>1, <1>2, <1>3, <1>4, <1>5, <1>6

(* RevertModelLimits reverts what it can.                                     *)
LEMMA EndRevert == ASSUME EndInv, RevertCurrent PROVE EndInv'
<1> USE DEF EndInv, RevertCurrent, stopVars, mgrVars, coordVars, reqVars, StopStages
<1>1. limited' \subseteq GPUs
  BY RevertShrinks DEF EndTypeOK, CoordTypeOK
<1>2. CoreInv'
  BY <1>1, CoreStutter DEF CoreInv, EndTypeOK, CoordTypeOK
<1>3. EndTypeOK'
  BY <1>2 DEF CoreInv, EndTypeOK
<1>4. ExitInv' /\ MainInv' /\ FoundInv'
  BY DEF ExitInv, MainInv, FoundInv
<1>5. AloneInv'
  BY DEF AloneInv, Running
<1> QED
  BY <1>2, <1>3, <1>4, <1>5 DEF CoreInv

(* Every step of the server and of its end.                                   *)
LEMMA NextEnd == EndInv /\ [ShutdownNext]_allVars => EndInv'
  BY ServeStep, RobbedStep, PhaseStep, TakesProcess, StopResult, EndRevert
  DEF ShutdownNext, StopStep, Gone

-----------------------------------------------------------------------------
(* The theorems about the end *)

(* Whatever swaps, clients and processes do before and beside StopCurrent,    *)
(* every reachable state satisfies the inductive invariant.                   *)
THEOREM EndInductive == ShutdownSpec => []EndInv
<1> QED
  BY InitEnd, NextEnd, PTL DEF ShutdownSpec

(* When main returns after a Stop that succeeded, the process it found is     *)
(* over; and without a swap beside StopCurrent no process is left.            *)
THEOREM LeavesNoProcess == ShutdownSpec => []NoProcessLeft
<1>1. EndInv => NoProcessLeft
  <2> SUFFICES ASSUME EndInv, phase = "gone", outcome = "stopped"
               PROVE  seen \notin Running /\ (~disturbed => Running = {})
    BY DEF NoProcessLeft
  <2>1. seen \notin Running
    BY ManagerAssumption DEF EndInv, FoundInv, Over, Running
  <2>2. ~disturbed => Running \subseteq {seen}
    BY DEF EndInv, AloneInv
  <2> QED
    BY <2>1, <2>2
<1> QED
  BY <1>1, EndInductive, PTL

(* The second Stop beside a swap's own starts nothing: to the end of main     *)
(* there is at most one process, in m.cmd or in the hands of a Start.         *)
THEOREM OneProcessToTheEnd == ShutdownSpec => []OneProcess
<1>1. EndInv => OneProcess
  BY CmdAlone DEF EndInv, EndTypeOK
<1> QED
  BY <1>1, EndInductive, PTL

(* Nor does it disturb the coordinator: swapInProgress and the transient      *)
(* states agree with the one swap there is until main returns.                *)
THEOREM OneSwapToTheEnd == ShutdownSpec => []SwapsSerialized
<1>1. EndInv => SwapsSerialized
  BY DEF EndInv
<1> QED
  BY <1>1, EndInductive, PTL
=============================================================================
