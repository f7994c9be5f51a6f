--------------------------- MODULE SchedulerProofs ---------------------------
(***************************************************************************)
(* Theorems about the scheduler, for every set of models, requests, GPUs   *)
(* and ports and every configuration.  They follow from IndInv, which the  *)
(* initial states satisfy and every action preserves; the lemmas take the  *)
(* actions in the order a request meets them.                              *)
(***************************************************************************)
EXTENDS SchedulerProperties, TLAPS

-----------------------------------------------------------------------------
(* Type correctness *)

(* A server that has just started is well typed.                              *)
LEMMA InitType == Init => TypeOK
  BY ModelAssumption DEF Init, TypeOK, ServerTypeOK, NoPlan, Stages, PermitStages,
                         Rejections

(* Most actions keep the types by the look of them; the named steps are those *)
(* whose helpers have to be opened.                                           *)
LEMMA NextServerType == ServerTypeOK /\ [Next]_vars => ServerTypeOK'
<1> SUFFICES ASSUME ServerTypeOK, [Next]_vars PROVE ServerTypeOK'
  OBVIOUS
<1> USE ModelAssumption
        DEF ServerTypeOK, Goto, reqVars, instVars, useVars, resVars, planVars,
            Stages, PermitStages, Rejections
<1>1. ASSUME NEW r \in Requests, RouteReady(r) PROVE ServerTypeOK'
  BY <1>1 DEF RouteReady, Routable, Touch
<1>2. ASSUME NEW r \in Requests,
             RouteMiss(r) \/ Handout(r) \/ Finish(r) \/ ReadClock(r) \/ GiveBack(r)
      PROVE ServerTypeOK'
  BY <1>2 DEF RouteMiss, Handout, Finish, ReadClock, GiveBack
<1>3. ASSUME NEW r \in Requests,
             TryPermit(r) \/ JoinWaiters(r) \/ WaiterGetsPermit(r) \/ WaitTimesOut(r)
               \/ LeaveWaiters(r)
      PROVE ServerTypeOK'
  BY <1>3 DEF TryPermit, JoinWaiters, WaiterGetsPermit, WaitTimesOut, LeaveWaiters
<1>4. ASSUME NEW r \in Requests, Admit(r) \/ EndDrain(r) \/ Deregister(r) PROVE ServerTypeOK'
  BY <1>4 DEF Admit, EndDrain, Deregister
<1>5. ASSUME NEW r \in Requests, CheckGPUs(r) PROVE ServerTypeOK'
  BY <1>5 DEF CheckGPUs, NoPlan, Ripe
<1>6. ASSUME NEW r \in Requests, ScanConflicts(r) PROVE ServerTypeOK'
  BY <1>6 DEF ScanConflicts, Conflicts, NoPlan
<1>7. ASSUME NEW r \in Requests, SortConflicts(r) \/ Rescan(r) PROVE ServerTypeOK'
  BY <1>7 DEF SortConflicts, Rescan, NoPlan
<1>8. ASSUME NEW r \in Requests, EvictNext(r) \/ EvictDone(r) PROVE ServerTypeOK'
  BY <1>8 DEF EvictNext, EvictDone, NoPlan
<1>9. ASSUME NEW r \in Requests, StopVictim(r) \/ StopUnverified(r) PROVE ServerTypeOK'
  BY <1>9 DEF StopVictim, StopUnverified, StopProcess
<1>10. ASSUME NEW r \in Requests, RevertVictim(r) \/ RevertOwnLimits(r) PROVE ServerTypeOK'
  BY <1>10 DEF RevertVictim, RevertOwnLimits, RevertLimits
<1>11. ASSUME NEW r \in Requests, ReleaseVictim(r) \/ ReleaseOwnPort(r) PROVE ServerTypeOK'
  BY <1>11 DEF ReleaseVictim, ReleaseOwnPort, ReleasePort
<1>12. ASSUME NEW r \in Requests, CheckVRAM(r) \/ AcquirePort(r) PROVE ServerTypeOK'
  BY <1>12 DEF CheckVRAM, AcquirePort, FreePorts
<1>13. ASSUME NEW r \in Requests, ApplyLimits(r) PROVE ServerTypeOK'
  BY <1>13 DEF ApplyLimits
<1>14. ASSUME NEW r \in Requests,
              StartProcess(r) \/ StartFails(r) \/ VerifySucceeds(r) \/ VerifyFails(r)
       PROVE ServerTypeOK'
  BY <1>14 DEF StartProcess, StartFails, VerifySucceeds, VerifyFails
<1>15. ASSUME NEW r \in Requests, Install(r) PROVE ServerTypeOK'
  BY <1>15 DEF Install, Touch
<1>16. ASSUME NEW i \in Requests, Crash(i) \/ GrowOld(i) PROVE ServerTypeOK'
  BY <1>16 DEF Crash, GrowOld
<1>17. CASE UNCHANGED vars
  BY <1>17 DEF vars
<1> QED
  BY <1>1, <1>2, <1>3, <1>4, <1>5, <1>6, <1>7, <1>8, <1>9, <1>10, <1>11, <1>12, <1>13,
     <1>14, <1>15, <1>16, <1>17 DEF Next, Schedule, Idle

(* The token passes from nobody to a request, and from its holder to nobody.  *)
LEMMA PermitMoves ==
    [Next]_vars => permit' \in {permit, None} \/ (permit = None /\ permit' \in Requests)
<1> SUFFICES ASSUME [Next]_vars
             PROVE  permit' \in {permit, None} \/ (permit = None /\ permit' \in Requests)
  OBVIOUS
<1> USE DEF reqVars
<1>1. ASSUME NEW r \in Requests, TryPermit(r) \/ WaiterGetsPermit(r) \/ GiveBack(r)
      PROVE permit' \in {permit, None} \/ (permit = None /\ permit' \in Requests)
  BY <1>1 DEF TryPermit, WaiterGetsPermit, GiveBack
<1>2. ASSUME NEW r \in Requests,
             RouteReady(r) \/ RouteMiss(r) \/ Handout(r) \/ Finish(r) \/ JoinWaiters(r)
               \/ WaitTimesOut(r) \/ LeaveWaiters(r) \/ ReadClock(r) \/ Admit(r)
               \/ CheckGPUs(r) \/ CheckVRAM(r)
      PROVE permit' = permit
  BY <1>2 DEF RouteReady, RouteMiss, Handout, Finish, JoinWaiters, WaitTimesOut,
     LeaveWaiters, ReadClock, Admit, CheckGPUs, CheckVRAM
<1>3. ASSUME NEW r \in Requests,
             ScanConflicts(r) \/ SortConflicts(r) \/ EvictNext(r) \/ EvictDone(r)
               \/ EndDrain(r) \/ StopVictim(r) \/ RevertVictim(r) \/ Deregister(r)
               \/ ReleaseVictim(r) \/ Rescan(r)
      PROVE permit' = permit
  BY <1>3 DEF ScanConflicts, SortConflicts, EvictNext, EvictDone, EndDrain, StopVictim,
     RevertVictim, Deregister, ReleaseVictim, Rescan
<1>4. ASSUME NEW r \in Requests,
             AcquirePort(r) \/ ApplyLimits(r) \/ StartProcess(r) \/ StartFails(r)
               \/ VerifySucceeds(r) \/ VerifyFails(r) \/ StopUnverified(r)
               \/ ReleaseOwnPort(r) \/ RevertOwnLimits(r) \/ Install(r)
      PROVE permit' = permit
  BY <1>4 DEF AcquirePort, ApplyLimits, StartProcess, StartFails, VerifySucceeds,
     VerifyFails, StopUnverified, ReleaseOwnPort, RevertOwnLimits, Install
<1>5. CASE (\E i \in Requests : Crash(i) \/ GrowOld(i)) \/ UNCHANGED vars
  BY <1>5 DEF Crash, GrowOld, vars
<1> QED
  BY <1>1, <1>2, <1>3, <1>4, <1>5 DEF Next, Schedule, Idle

(* The two together.                                                          *)
LEMMA NextType == TypeOK /\ [Next]_vars => TypeOK'
  BY NextServerType, PermitMoves DEF TypeOK

(* Every reachable state is well typed: stages, tokens, ports and instances   *)
(* stay in the sets AcquireRoute and the pool draw them from.                 *)
THEOREM TypeCorrect == Spec => []TypeOK
<1>1. Init => TypeOK
  BY InitType
<1>2. TypeOK /\ [Next]_vars => TypeOK'
  BY NextType
<1> QED
  BY <1>1, <1>2, PTL DEF Spec

-----------------------------------------------------------------------------
(* Facts about the GPU sets *)

(* A model conflicts with itself, which is why its own dead instance is       *)
(* evicted before it is built anew.                                           *)
LEMMA OverlapFacts ==
    \A m, n \in Models : Overlap(m, m) /\ (Overlap(m, n) <=> Overlap(n, m))
  BY ModelAssumption DEF Overlap

(* What evictConflicts learns from an empty list of conflicts.                *)
LEMMA NoConflicts ==
    ASSUME NEW m \in Models
    PROVE  Conflicts(m) = {} <=> \A n \in Models : instances[n] # None => ~Overlap(n, m)
  BY DEF Conflicts

-----------------------------------------------------------------------------
(* The inductive invariant *)

(* A server that has just started has no instance, no token and no port out.  *)
LEMMA InitInd == Init => IndInv
<1> SUFFICES ASSUME Init PROVE IndInv
  OBVIOUS
<1>1. TypeOK
  BY InitType
<1>2. PermitInv /\ LifeInv /\ MapInv /\ ClearedInv /\ ProcessInv
  BY ModelAssumption DEF Init, PermitInv, LifeInv, MapInv, ClearedInv, ProcessInv,
     PermitStages, EvictStages, PlanStages, EarlyStages, BuildStages, PlacedStages, Building
<1>3. VictimInv /\ PlanInv
  BY ModelAssumption DEF Init, VictimInv, PlanInv, NoPlan, EvictStages, PlanStages
<1>4. PortsAccounted
  BY ModelAssumption DEF Init, PortsAccounted, Owners, Registered, BuildStages, Building
<1> QED
  BY <1>1, <1>2, <1>3, <1>4 DEF IndInv

(* Routing and the end of a request touch neither the map nor the ports.      *)
LEMMA RoutingStep ==
    ASSUME IndInv, TypeOK', NEW r \in Requests,
           RouteReady(r) \/ RouteMiss(r) \/ Handout(r) \/ Finish(r) \/ ReadClock(r)
    PROVE  IndInv'
<1> USE ModelAssumption
        DEF IndInv, TypeOK, ServerTypeOK, PermitInv, LifeInv, MapInv, VictimInv,
            PlanInv, ClearedInv, ProcessInv, PortsAccounted, PermitStages, Answered,
            Rejections, EvictStages, PlanStages, EarlyStages, BuildStages, PlacedStages,
            RunningStages, Building, Owners, Registered, Goto, reqVars, instVars, useVars,
            resVars, planVars
<1>1. CASE RouteReady(r)
  <2>1. PermitInv' /\ LifeInv' /\ MapInv' /\ ClearedInv' /\ ProcessInv'
    BY <1>1 DEF RouteReady
  <2>2. VictimInv'
    BY <1>1 DEF RouteReady, Routable
  <2>3. PlanInv' /\ PortsAccounted'
    BY <1>1 DEF RouteReady
  <2> QED
    BY <2>1, <2>2, <2>3
<1>2. CASE RouteMiss(r)
  BY <1>2 DEF RouteMiss
<1>3. CASE Handout(r)
  BY <1>3 DEF Handout
<1>4. CASE Finish(r)
  BY <1>4 DEF Finish
<1>5. CASE ReadClock(r)
  BY <1>5 DEF ReadClock
<1> QED
  BY <1>1, <1>2, <1>3, <1>4, <1>5

(* The token changes hands before anything is evicted or built, and after     *)
(* AcquireRoute has its answer.                                               *)
LEMMA PermitStep ==
    ASSUME IndInv, TypeOK', NEW r \in Requests,
           TryPermit(r) \/ JoinWaiters(r) \/ WaiterGetsPermit(r) \/ WaitTimesOut(r)
             \/ LeaveWaiters(r) \/ GiveBack(r) \/ Admit(r) \/ CheckGPUs(r) \/ CheckVRAM(r)
    PROVE  IndInv'
<1> USE ModelAssumption
        DEF IndInv, TypeOK, ServerTypeOK, PermitInv, LifeInv, MapInv, VictimInv,
            PlanInv, ClearedInv, ProcessInv, PortsAccounted, PermitStages, Answered,
            Rejections, EvictStages, PlanStages, EarlyStages, BuildStages, PlacedStages,
            RunningStages, Building, Owners, Registered, Goto, reqVars, instVars, useVars,
            resVars, planVars
<1>1. CASE TryPermit(r)
  <2>1. PermitInv' /\ LifeInv' /\ MapInv' /\ ClearedInv' /\ ProcessInv'
    BY <1>1 DEF TryPermit
  <2>2. VictimInv' /\ PlanInv' /\ PortsAccounted'
    BY <1>1 DEF TryPermit
  <2> QED
    BY <2>1, <2>2
<1>2. CASE JoinWaiters(r)
  BY <1>2 DEF JoinWaiters
<1>3. CASE WaiterGetsPermit(r)
  BY <1>3 DEF WaiterGetsPermit
<1>4. CASE WaitTimesOut(r)
  BY <1>4 DEF WaitTimesOut
<1>5. CASE LeaveWaiters(r)
  BY <1>5 DEF LeaveWaiters
<1>6. CASE GiveBack(r)
  BY <1>6 DEF GiveBack
<1>7. CASE Admit(r)
  <2>1. PermitInv' /\ LifeInv' /\ MapInv' /\ ClearedInv' /\ ProcessInv'
    BY <1>7 DEF Admit
  <2>2. VictimInv' /\ PlanInv' /\ PortsAccounted'
    BY <1>7 DEF Admit
  <2> QED
    BY <2>1, <2>2
<1>8. CASE CheckGPUs(r)
  <2>1. PermitInv' /\ LifeInv' /\ MapInv' /\ ClearedInv' /\ ProcessInv'
    BY <1>8 DEF CheckGPUs
  <2>2. VictimInv' /\ PlanInv' /\ PortsAccounted'
    BY <1>8 DEF CheckGPUs, NoPlan, Ripe
  <2> QED
    BY <2>1, <2>2
<1>9. CASE CheckVRAM(r)
  <2>1. PermitInv' /\ LifeInv' /\ MapInv' /\ ClearedInv' /\ ProcessInv'
    BY <1>9 DEF CheckVRAM
  <2>2. VictimInv' /\ PlanInv' /\ PortsAccounted'
    BY <1>9 DEF CheckVRAM
  <2> QED
    BY <2>1, <2>2
<1> QED
  BY <1>1, <1>2, <1>3, <1>4, <1>5, <1>6, <1>7, <1>8, <1>9

(* The eviction: a victim keeps its key until Deregister, its port until      *)
(* ReleaseVictim, and the placement goes on once no conflict is registered.   *)
LEMMA EvictionStep ==
    ASSUME IndInv, TypeOK', NEW r \in Requests,
           ScanConflicts(r) \/ SortConflicts(r) \/ EvictNext(r) \/ EvictDone(r)
             \/ EndDrain(r) \/ StopVictim(r) \/ RevertVictim(r) \/ Deregister(r)
             \/ ReleaseVictim(r) \/ Rescan(r)
    PROVE  IndInv'
<1> USE ModelAssumption
        DEF IndInv, TypeOK, ServerTypeOK, PermitInv, LifeInv, MapInv, VictimInv,
            PlanInv, ClearedInv, ProcessInv, PortsAccounted, PermitStages, Answered,
            Rejections, EvictStages, PlanStages, EarlyStages, BuildStages, PlacedStages,
            RunningStages, Building, Owners, Registered, Goto, reqVars, instVars, useVars,
            resVars, planVars
<1>1. CASE ScanConflicts(r)
  <2>1. PermitInv' /\ LifeInv' /\ ClearedInv'
    BY <1>1 DEF ScanConflicts
  <2>2. MapInv' /\ VictimInv'
    BY <1>1 DEF ScanConflicts
  (* What was found is registered and not pinned; nothing else is planned.    *)
  <2>3. PlanInv'
    BY <1>1 DEF ScanConflicts, Conflicts, AnyPinned, NoPlan
  <2>4. ProcessInv' /\ PortsAccounted'
    BY <1>1 DEF ScanConflicts
  <2> QED
    BY <2>1, <2>2, <2>3, <2>4
<1>2. CASE EvictNext(r)
  <2>0. PermitInv'
    BY <1>2 DEF EvictNext
  <2>1. LifeInv' /\ ClearedInv'
    BY <1>2 DEF EvictNext, OldestLeft
  (* The victim was left in the plan, so it is registered and not pinned.     *)
  <2>2. MapInv'
    BY <1>2 DEF EvictNext, OldestLeft
  <2>3. VictimInv'
    BY <1>2 DEF EvictNext, OldestLeft
  <2>4. PlanInv'
    BY <1>2 DEF EvictNext, OldestLeft, NoPlan
  <2>5. ProcessInv'
    BY <1>2 DEF EvictNext, OldestLeft
  (* The victim is an owner already, as a registered instance.                *)
  <2>6. PortsAccounted'
    <3>1. victim = None /\ Registered' = Registered /\ Building' = Building
      BY <1>2 DEF EvictNext
    <3>2. victim' \in Registered \cup {None}
      BY <1>2, <3>1 DEF EvictNext, OldestLeft
    <3>3. Owners' = Owners /\ port' = port /\ used' = used
      BY <1>2, <3>1, <3>2 DEF EvictNext
    <3> QED
      BY <3>3
  <2> QED
    BY <2>0, <2>1, <2>2, <2>3, <2>4, <2>5, <2>6
<1>3. CASE EvictDone(r)
  <2>1. ClearedInv'
    BY <1>3, NoConflicts DEF EvictDone
  <2>2. PermitInv' /\ LifeInv'
    BY <1>3 DEF EvictDone
  <2>3. MapInv' /\ VictimInv' /\ PlanInv'
    BY <1>3 DEF EvictDone, NoPlan
  <2>4. ProcessInv' /\ PortsAccounted'
    BY <1>3 DEF EvictDone
  <2> QED
    BY <2>1, <2>2, <2>3, <2>4
<1>4. CASE EndDrain(r)
  BY <1>4 DEF EndDrain
<1>5. CASE StopVictim(r)
  BY <1>5 DEF StopVictim, StopProcess
<1>6. CASE Deregister(r)
  <2>1. PermitInv' /\ LifeInv' /\ ClearedInv' /\ ProcessInv'
    BY <1>6 DEF Deregister
  (* The plan's other instances have other keys. *)
  <2>2. MapInv' /\ VictimInv' /\ PlanInv'
    BY <1>6 DEF Deregister
  (* The victim stops being registered but stays an owner as the victim. *)
  <2>3. PortsAccounted'
    BY <1>6 DEF Deregister
  <2> QED
    BY <2>1, <2>2, <2>3
<1>7. CASE ReleaseVictim(r)
  <2>1. life[r] = "none" /\ victim \in Requests
    BY <1>7 DEF ReleaseVictim
  <2>2. PermitInv' /\ LifeInv' /\ MapInv' /\ ClearedInv' /\ ProcessInv'
    BY <1>7, <2>1 DEF ReleaseVictim
  <2>3. VictimInv' /\ PlanInv'
    BY <1>7, <2>1 DEF ReleaseVictim
  (* Its port is no other owner's, so it leaves the pool's books exactly.     *)
  <2>4. PortsAccounted'
    BY <1>7, <2>1 DEF ReleaseVictim, ReleasePort
  <2> QED
    BY <2>2, <2>3, <2>4
<1>8. CASE SortConflicts(r)
  <2>1. plan'.left = plan.left /\ plan'.ripe = plan.ripe
    BY <1>8 DEF SortConflicts
  <2>2. PermitInv' /\ LifeInv' /\ MapInv' /\ ClearedInv' /\ ProcessInv'
    BY <1>8 DEF SortConflicts
  <2>3. VictimInv' /\ PlanInv'
    BY <1>8, <2>1 DEF SortConflicts
  <2>4. PortsAccounted'
    BY <1>8 DEF SortConflicts
  <2> QED
    BY <2>2, <2>3, <2>4
<1>9. CASE RevertVictim(r)
  BY <1>9 DEF RevertVictim
<1>10. CASE Rescan(r)
  <2>1. ClearedInv'
    BY <1>10, NoConflicts DEF Rescan
  <2>2. PermitInv' /\ LifeInv' /\ MapInv' /\ ProcessInv'
    BY <1>10 DEF Rescan
  <2>3. VictimInv' /\ PlanInv' /\ PortsAccounted'
    BY <1>10 DEF Rescan, NoPlan
  <2> QED
    BY <2>1, <2>2, <2>3
<1> QED
  BY <1>1, <1>2, <1>3, <1>4, <1>5, <1>6, <1>7, <1>8, <1>9, <1>10

(* The start: the builder owns a port of its own and GPUs no one else has,    *)
(* and gives both back on every failure.                                      *)
LEMMA BuildStep ==
    ASSUME IndInv, TypeOK', NEW r \in Requests,
           AcquirePort(r) \/ ApplyLimits(r) \/ StartProcess(r) \/ StartFails(r)
             \/ VerifySucceeds(r) \/ VerifyFails(r) \/ StopUnverified(r)
             \/ ReleaseOwnPort(r) \/ RevertOwnLimits(r) \/ Install(r)
    PROVE  IndInv'
<1> USE ModelAssumption
        DEF IndInv, TypeOK, ServerTypeOK, PermitInv, LifeInv, MapInv, VictimInv,
            PlanInv, ClearedInv, ProcessInv, PortsAccounted, PermitStages, Answered,
            Rejections, EvictStages, PlanStages, EarlyStages, BuildStages, PlacedStages,
            RunningStages, Building, Owners, Registered, Goto, reqVars, instVars, useVars,
            resVars, planVars
<1>1. CASE AcquirePort(r)
  <2>1. PermitInv' /\ LifeInv' /\ MapInv' /\ ClearedInv' /\ ProcessInv'
    BY <1>1 DEF AcquirePort
  <2>2. VictimInv' /\ PlanInv'
    BY <1>1 DEF AcquirePort
  (* The port was free, and the request had no instance before. *)
  <2>3. PortsAccounted'
    BY <1>1 DEF AcquirePort, FreePorts
  <2> QED
    BY <2>1, <2>2, <2>3
<1>2. CASE ApplyLimits(r)
  BY <1>2 DEF ApplyLimits
<1>3. CASE StartProcess(r)
  BY <1>3 DEF StartProcess
<1>4. CASE StartFails(r)
  BY <1>4 DEF StartFails
<1>5. CASE VerifySucceeds(r)
  BY <1>5 DEF VerifySucceeds
<1>6. CASE VerifyFails(r)
  BY <1>6 DEF VerifyFails
<1>7. CASE Install(r)
  <2>1. instances[model[r]] = None
    BY <1>7, OverlapFacts DEF Install
  <2>2. PermitInv' /\ LifeInv' /\ VictimInv' /\ PlanInv'
    BY <1>7, <2>1 DEF Install
  (* Nothing registered shares a GPU with the newcomer. *)
  <2>3. MapInv' /\ ClearedInv'
    BY <1>7, <2>1, OverlapFacts DEF Install
  <2>4. ProcessInv' /\ PortsAccounted'
    BY <1>7, <2>1 DEF Install
  <2> QED
    BY <2>2, <2>3, <2>4
<1>8. CASE StopUnverified(r)
  BY <1>8 DEF StopUnverified, StopProcess
<1>9. CASE ReleaseOwnPort(r)
  BY <1>9 DEF ReleaseOwnPort, ReleasePort
<1>10. CASE RevertOwnLimits(r)
  BY <1>10 DEF RevertOwnLimits
<1> QED
  BY <1>1, <1>2, <1>3, <1>4, <1>5, <1>6, <1>7, <1>8, <1>9, <1>10

(* A process that dies leaves the map and the ports as they are.              *)
LEMMA EnvironmentStep ==
    ASSUME IndInv, TypeOK', NEW i \in Requests, Crash(i) \/ GrowOld(i)
    PROVE  IndInv'
<1> USE DEF IndInv, TypeOK, ServerTypeOK, PermitInv, LifeInv, MapInv, VictimInv,
            PlanInv, ClearedInv, ProcessInv, PortsAccounted, Building, Owners,
            Registered, BuildStages, reqVars, resVars, planVars
<1>1. CASE Crash(i)
  BY <1>1 DEF Crash
<1>2. CASE GrowOld(i)
  BY <1>2 DEF GrowOld
<1> QED
  BY <1>1, <1>2

(* Every step of AcquireRoute, of a client or of a process.                   *)
LEMMA NextInd == IndInv /\ [Next]_vars => IndInv'
<1> SUFFICES ASSUME IndInv, [Next]_vars PROVE IndInv'
  OBVIOUS
<1>1. TypeOK'
  BY NextType DEF IndInv
<1>2. CASE UNCHANGED vars
  BY <1>2 DEF vars, reqVars, instVars, useVars, resVars, planVars, IndInv, TypeOK, ServerTypeOK,
     PermitInv, LifeInv, MapInv, VictimInv, PlanInv, ClearedInv, ProcessInv,
     PortsAccounted, Building, Owners, Registered
<1>3. ASSUME NEW r \in Requests,
             RouteReady(r) \/ RouteMiss(r) \/ Schedule(r) \/ Finish(r)
      PROVE IndInv'
  BY <1>1, <1>3, RoutingStep, PermitStep, EvictionStep, BuildStep DEF Schedule
<1>4. ASSUME NEW i \in Requests, Crash(i) \/ GrowOld(i) PROVE IndInv'
  BY <1>1, <1>4, EnvironmentStep
<1> QED
  BY <1>2, <1>3, <1>4 DEF Next, Idle

(* IndInv holds in every reachable state of AcquireRoute's interleavings.     *)
THEOREM Inductive == Spec => []IndInv
<1>1. Init => IndInv
  BY InitInd
<1>2. IndInv /\ [Next]_vars => IndInv'
  BY NextInd
<1> QED
  BY <1>1, <1>2, PTL DEF Spec

(* The scheduler's invariant says more than BesideInv.                        *)
LEMMA BesideWeaker == IndInv => BesideInv
  BY ModelAssumption
     DEF IndInv, TypeOK, ServerTypeOK, BesideInv, Installed, LifeInv, MapInv, VictimInv,
         PlanInv, PermitInv, PermitStages, EvictStages, PlanStages

-----------------------------------------------------------------------------
(* What follows from it *)

(* The pool's books are right whatever fails: no port is leaked, released     *)
(* twice, or released under a live instance.                                  *)
THEOREM PortsSafe == Spec => []PortsAccounted
<1>1. IndInv => PortsAccounted
  BY DEF IndInv
<1> QED
  BY <1>1, Inductive, PTL

(* The branch of AcquireRoute that replaces a registered instance is dead:    *)
(* the model's key is always free when the new instance takes it.             *)
THEOREM FreshInstall == Spec => []InstallIsFresh
<1>1. IndInv => InstallIsFresh
  BY OverlapFacts DEF IndInv, TypeOK, ServerTypeOK, ClearedInv, PlacedStages, BuildStages,
                      InstallIsFresh
<1> QED
  BY <1>1, Inductive, PTL

(* A victim that drained in time is stopped with no request on it. *)
THEOREM CleanStops == Spec => []DrainedStaysDrained
<1>1. IndInv => DrainedStaysDrained
  BY DEF IndInv, VictimInv, EvictStages, DrainedStaysDrained
<1> QED
  BY <1>1, Inductive, PTL

(* If a process that is stopped always exits, every process that runs is in   *)
(* the map or in the hands of the permit's holder.                            *)
THEOREM NoOrphans == ASSUME "linger" \notin Faults PROVE Spec => []NoOrphanProcess
<1>1. IndInv => NoOrphanProcess
  <2> SUFFICES ASSUME IndInv, NEW i \in alive PROVE i \in Owners
    BY DEF NoOrphanProcess
  <2>1. i \in Requests /\ model[i] \in Models
    BY DEF IndInv, TypeOK, ServerTypeOK
  <2>2. instances[model[i]] = i \/ pc[i] \in RunningStages
    BY DEF IndInv, ProcessInv
  <2> QED
    BY <2>1, <2>2 DEF Owners, Registered, Building, BuildStages, RunningStages
<1> QED
  BY <1>1, Inductive, PTL

(* If a process that is stopped always exits, two processes never share a     *)
(* GPU: the registered ones have disjoint GPUs, the one under construction    *)
(* has GPUs that no registered one holds, and there is only one of it.        *)
THEOREM Exclusion == ASSUME "linger" \notin Faults PROVE Spec => []GPUExclusive
<1>1. IndInv => GPUExclusive
  <2> SUFFICES ASSUME IndInv, NEW i \in alive, NEW j \in alive, i # j
               PROVE  ~Overlap(model[i], model[j])
    BY DEF GPUExclusive
  <2> USE DEF IndInv, TypeOK, ServerTypeOK
  <2>1. /\ i \in Requests /\ model[i] \in Models
        /\ j \in Requests /\ model[j] \in Models
    OBVIOUS
  <2>2. /\ instances[model[i]] = i \/ pc[i] \in RunningStages
        /\ instances[model[j]] = j \/ pc[j] \in RunningStages
    BY DEF ProcessInv
  <2>3. CASE instances[model[i]] = i /\ instances[model[j]] = j
    BY <2>1, <2>3, ModelAssumption DEF MapInv
  <2>4. CASE instances[model[i]] = i /\ pc[j] \in RunningStages
    BY <2>1, <2>4, ModelAssumption DEF ClearedInv, PlacedStages, BuildStages, RunningStages
  <2>5. CASE pc[i] \in RunningStages /\ instances[model[j]] = j
    BY <2>1, <2>5, ModelAssumption, OverlapFacts DEF ClearedInv, PlacedStages, BuildStages, RunningStages
  <2>6. ~(pc[i] \in RunningStages /\ pc[j] \in RunningStages)
    BY <2>1 DEF PermitInv, PermitStages, RunningStages
  <2> QED
    BY <2>2, <2>3, <2>4, <2>5, <2>6
<1> QED
  BY <1>1, Inductive, PTL

(* An instance that begins to drain is the victim of a plan: it was ripe when *)
(* the plan was made, and an instance never grows younger.                    *)
THEOREM YoungNeverEvicted == Spec => YoungStays
<1>1. IndInv /\ [Next]_vars => [YoungStep]_vars
  <2> SUFFICES ASSUME IndInv, Next, NEW i \in Requests,
                      life[i] = "ready", life'[i] = "stopping"
               PROVE  i \in aged
    BY DEF YoungStep
  <2> USE DEF IndInv, TypeOK, ServerTypeOK
  <2>1. ASSUME NEW r \in Requests, EvictNext(r) PROVE i \in aged
    BY <2>1 DEF EvictNext, PlanInv
  <2>2. ASSUME NEW r \in Requests, Install(r) PROVE FALSE
    <3>1. instances[model[r]] = None
      BY <2>2, OverlapFacts DEF Install, ClearedInv, PlacedStages, BuildStages
    <3> QED
      BY <2>2, <3>1, ModelAssumption DEF Install
  <2>3. ASSUME NEW r \in Requests, AcquirePort(r) PROVE FALSE
    BY <2>3 DEF AcquirePort
  <2> QED
    BY <2>1, <2>2, <2>3 DEF Next, Schedule, Idle, vars, instVars, RouteReady, RouteMiss,
       TryPermit, JoinWaiters, WaiterGetsPermit, WaitTimesOut, LeaveWaiters, ReadClock,
       GiveBack, Admit, CheckGPUs, ScanConflicts, SortConflicts, EvictDone, EndDrain, StopVictim, RevertVictim, Deregister, ReleaseVictim,
       Rescan, CheckVRAM, ApplyLimits, StartProcess, StartFails, VerifySucceeds, VerifyFails,
       StopUnverified, ReleaseOwnPort, RevertOwnLimits, Handout, Finish, Crash, GrowOld
<1> QED
  BY <1>1, Inductive, PTL DEF Spec, YoungStays

(* A pinned model's instance is never a victim and never replaced: it keeps   *)
(* its key and its GPUs as long as its process runs.                          *)
THEOREM PinnedNeverEvicted == Spec => PinnedStays
<1>1. IndInv /\ [Next]_vars => [PinnedStep]_vars
  <2> SUFFICES ASSUME IndInv, Next, NEW m \in PinnedModels, instances[m] \in alive
               PROVE  instances'[m] = instances[m] /\ life'[instances[m]] = "ready"
    BY DEF PinnedStep
  <2> USE ModelAssumption DEF IndInv, TypeOK, ServerTypeOK
  <2>0. /\ m \in Models
        /\ instances[m] \in Requests
        /\ model[instances[m]] = m
        /\ life[instances[m]] = "ready"
    BY DEF MapInv
  <2>1. ASSUME NEW r \in Requests, EvictNext(r)
        PROVE instances' = instances /\ life'[instances[m]] = "ready"
    BY <2>0, <2>1 DEF EvictNext, OldestLeft, PlanInv
  <2>2. ASSUME NEW r \in Requests, Deregister(r)
        PROVE instances'[m] = instances[m] /\ life' = life
    BY <2>0, <2>2 DEF Deregister, VictimInv, EvictStages
  <2>3. ASSUME NEW r \in Requests, Install(r)
        PROVE instances'[m] = instances[m] /\ life'[instances[m]] = "ready"
    <3>1. instances[model[r]] = None
      BY <2>3, OverlapFacts DEF Install, ClearedInv, PlacedStages, BuildStages
    <3> QED
      BY <2>0, <2>3, <3>1 DEF Install
  <2>4. ASSUME NEW r \in Requests, AcquirePort(r)
        PROVE instances' = instances /\ life'[instances[m]] = "ready"
    BY <2>0, <2>4 DEF AcquirePort, LifeInv, EarlyStages
  <2> QED
    BY <2>0, <2>1, <2>2, <2>3, <2>4 DEF Next, Schedule, Idle, vars, instVars, RouteReady,
       RouteMiss, TryPermit, JoinWaiters, WaiterGetsPermit, WaitTimesOut, LeaveWaiters,
       ReadClock, GiveBack, Admit, CheckGPUs, ScanConflicts, SortConflicts, EvictDone,
       EndDrain, StopVictim, RevertVictim, ReleaseVictim, Rescan, CheckVRAM, ApplyLimits,
       StartProcess, StartFails, VerifySucceeds, VerifyFails, StopUnverified,
       ReleaseOwnPort, RevertOwnLimits, Handout, Finish, Crash, GrowOld
<1> QED
  BY <1>1, Inductive, PTL DEF Spec, PinnedStays

(* Routes are granted by a test and a Track in one critical section, and by   *)
(* the hand-out of an instance that is ready, so draining instances gain none.*)
THEOREM StoppingNotRouted == Spec => NoRouteToStopping
<1> DEFINE Kept == \A i \in Requests : life[i] = "stopping" => inflight'[i] \subseteq inflight[i]
<1>1. IndInv /\ [Next]_vars => [Kept]_vars
  <2> SUFFICES ASSUME IndInv, Next, NEW i \in Requests, life[i] = "stopping"
               PROVE  inflight'[i] \subseteq inflight[i]
    OBVIOUS
  <2> USE DEF IndInv, TypeOK, ServerTypeOK
  <2>1. ASSUME NEW r \in Requests, RouteReady(r) PROVE inflight'[i] = inflight[i]
    BY <2>1 DEF RouteReady, Routable
  <2>2. ASSUME NEW r \in Requests, Handout(r) PROVE inflight'[i] = inflight[i]
    BY <2>2 DEF Handout, LifeInv
  <2>3. ASSUME NEW r \in Requests, Finish(r) PROVE inflight'[i] \subseteq inflight[i]
    BY <2>3 DEF Finish
  <2> QED
    BY <2>1, <2>2, <2>3 DEF Next, Schedule, Idle, vars, instVars, RouteMiss, TryPermit,
       JoinWaiters, WaiterGetsPermit, WaitTimesOut, LeaveWaiters, ReadClock, GiveBack,
       Admit, CheckGPUs, ScanConflicts, SortConflicts, EvictNext, EvictDone, EndDrain,
       StopVictim, RevertVictim, Deregister, ReleaseVictim, Rescan, CheckVRAM,
       AcquirePort, ApplyLimits, StartProcess, StartFails, VerifySucceeds, VerifyFails,
       StopUnverified, ReleaseOwnPort, RevertOwnLimits, Install, Crash, GrowOld
<1> QED
  BY <1>1, Inductive, PTL DEF Spec, NoRouteToStopping

-----------------------------------------------------------------------------
(* The order of eviction *)

(* A conflict that is planned is registered, ready and not under              *)
(* construction.                                                              *)
LEMMA PlannedIsReady ==
    ASSUME IndInv, RankInv, NEW w \in plan.left
    PROVE  /\ w \in Requests /\ model[w] \in Models
           /\ instances[model[w]] = w /\ life[w] = "ready" /\ w # victim
  BY ModelAssumption DEF IndInv, TypeOK, ServerTypeOK, PlanInv, RankInv

(* A use moves the record past every clock reading made before it; the sort   *)
(* ranks by such readings.                                                    *)
LEMMA RankStep ==
    ASSUME IndInv, RankInv, [Next]_vars
    PROVE  RankInv'
<1> USE ModelAssumption
        DEF Goto, reqVars, instVars, useVars, resVars, planVars
<1> DEFINE Ready == \A m \in Models : instances[m] # None /\ instances[m] # victim =>
                        life[instances[m]] = "ready"
           Recorded(i) == lastUsed[i] < routed[i] /\ routed[i] <= clock
           Timed == /\ now <= clock
                    /\ \A m \in Models : instances[m] # None => Recorded(instances[m])
           Ranked == \A w \in plan.left : plan.order[w] < routed[w]
<1>1. Ready /\ Timed /\ Ranked
  BY DEF RankInv
<1>2. ASSUME Ready', Timed', Ranked' PROVE RankInv'
  BY <1>2 DEF RankInv
<1>3. ServerTypeOK /\ PermitInv /\ LifeInv /\ MapInv /\ VictimInv /\ PlanInv /\ ClearedInv
  BY DEF IndInv, TypeOK
<1> USE DEF ServerTypeOK
(* Most steps leave the map, the uses or the plan as they are.                *)
<1>4. ASSUME instances' = instances, life' = life, victim' = victim PROVE Ready'
  BY <1>1, <1>4
<1>5. ASSUME UNCHANGED useVars, now' \in {now, clock, 0},
             \A m \in Models : instances'[m] \in {instances[m], None}
      PROVE  Timed'
  BY <1>1, <1>3, <1>5
<1>6. ASSUME routed' = routed, plan'.left \subseteq plan.left,
             \A w \in plan'.left : plan'.order[w] = plan.order[w]
      PROVE  Ranked'
  BY <1>1, <1>6
<1>7. ASSUME NEW r \in Requests, RouteReady(r) PROVE RankInv'
  <2> DEFINE i == instances[model[r]]
  <2>1. Ready'
    BY <1>4, <1>7 DEF RouteReady
  <2>2. /\ clock' = clock + 1 /\ plan' = plan /\ instances' = instances
        /\ routed' = [routed EXCEPT ![i] = clock + 1]
        /\ i \in Requests
        /\ now' \in {now, 0}
    BY <1>3, <1>7 DEF RouteReady, Routable, Touch
  <2>3. PICK t \in Nat : t <= clock /\ lastUsed' = [lastUsed EXCEPT ![i] = t]
    BY <1>1, <1>3, <1>7 DEF RouteReady, Touch
  <2>4. Timed'
    BY <1>1, <1>3, <2>2, <2>3
  <2>5. \A w \in plan.left : w \in Requests /\ instances[model[w]] = w /\ model[w] \in Models
    BY PlannedIsReady
  <2>6. \A w \in plan.left : routed[w] <= routed'[w]
    BY <1>1, <1>3, <2>2, <2>5
  <2>7. Ranked'
    BY <1>1, <1>3, <2>2, <2>5, <2>6
  <2> QED
    BY <1>2, <2>1, <2>4, <2>7
<1>8. ASSUME NEW r \in Requests,
             RouteMiss(r) \/ ReadClock(r) \/ TryPermit(r) \/ JoinWaiters(r)
               \/ WaiterGetsPermit(r) \/ WaitTimesOut(r) \/ LeaveWaiters(r)
               \/ GiveBack(r) \/ Admit(r) \/ CheckVRAM(r) \/ Handout(r) \/ Finish(r)
      PROVE  RankInv'
  <2>1. Ready'
    BY <1>4, <1>8 DEF RouteMiss, ReadClock, TryPermit, JoinWaiters, WaiterGetsPermit,
       WaitTimesOut, LeaveWaiters, GiveBack, Admit, CheckVRAM, Handout, Finish
  <2>2. Timed'
    BY <1>5, <1>8 DEF RouteMiss, ReadClock, TryPermit, JoinWaiters, WaiterGetsPermit,
       WaitTimesOut, LeaveWaiters, GiveBack, Admit, CheckVRAM, Handout, Finish
  <2>3. Ranked'
    BY <1>6, <1>8 DEF RouteMiss, ReadClock, TryPermit, JoinWaiters, WaiterGetsPermit,
       WaitTimesOut, LeaveWaiters, GiveBack, Admit, CheckVRAM, Handout, Finish
  <2> QED
    BY <1>2, <2>1, <2>2, <2>3
(* The scan takes the readings of registered instances for the ranks, and a   *)
(* sort that was disturbed takes the oldest reading there is for all of them. *)
<1>9. ASSUME NEW r \in Requests, ScanConflicts(r) PROVE RankInv'
  <2>1. Ready' /\ Timed'
    BY <1>4, <1>5, <1>9 DEF ScanConflicts
  <2>2. routed' = routed
    BY <1>9 DEF ScanConflicts
  <2>3. CASE plan' = NoPlan
    BY <1>2, <2>1, <2>3 DEF NoPlan
  <2>4. CASE plan' # NoPlan
    <3>1. /\ plan'.left = Conflicts(model[r])
          /\ \A w \in Requests : w \in plan'.left => plan'.order[w] = lastUsed[w]
      BY <1>9, <2>4 DEF ScanConflicts
    <3>2. \A w \in Conflicts(model[r]) : w \in Requests /\ lastUsed[w] < routed[w]
      BY <1>1, <1>3 DEF Conflicts
    <3>3. Ranked'
      BY <2>2, <3>1, <3>2
    <3> QED
      BY <1>2, <2>1, <3>3
  <2> QED
    BY <2>3, <2>4
<1>10. ASSUME NEW r \in Requests, SortConflicts(r) PROVE RankInv'
  <2>1. Ready' /\ Timed'
    BY <1>4, <1>5, <1>10 DEF SortConflicts
  <2>2. routed' = routed /\ plan'.left = plan.left
    BY <1>3, <1>10 DEF SortConflicts
  <2>3. ASSUME NEW w \in plan.left PROVE plan'.order[w] < routed[w]
    <3>1. w \in Requests /\ plan.order[w] \in Nat /\ routed[w] \in Nat
      BY <1>3
    <3>2. plan'.order[w] \in {plan.order[w], 0}
      BY <1>3, <1>10, <3>1 DEF SortConflicts, NoPlan
    <3> QED
      BY <1>1, <3>1, <3>2
  <2> QED
    BY <1>2, <2>1, <2>2, <2>3
<1>11. ASSUME NEW r \in Requests, EvictNext(r) PROVE RankInv'
  <2>1. victim = None
    BY <1>3, <1>11 DEF EvictNext, PermitInv, PermitStages, VictimInv, EvictStages
  <2>2. Ready'
    BY <1>1, <1>3, <1>11, <2>1 DEF EvictNext, OldestLeft
  <2>3. Timed'
    BY <1>5, <1>11 DEF EvictNext
  <2>4. Ranked'
    BY <1>3, <1>6, <1>11 DEF EvictNext, OldestLeft, NoPlan
  <2> QED
    BY <1>2, <2>2, <2>3, <2>4
<1>12. ASSUME NEW r \in Requests,
              CheckGPUs(r) \/ EvictDone(r) \/ Rescan(r) \/ EndDrain(r) \/ StopVictim(r)
                \/ RevertVictim(r)
       PROVE  RankInv'
  <2>1. Ready' /\ Timed'
    BY <1>4, <1>5, <1>12 DEF CheckGPUs, EvictDone, Rescan, EndDrain, StopVictim, RevertVictim
  <2>2. Ranked'
    BY <1>6, <1>12 DEF CheckGPUs, EvictDone, Rescan, EndDrain, StopVictim, RevertVictim, NoPlan
  <2> QED
    BY <1>2, <2>1, <2>2
<1>13. ASSUME NEW r \in Requests,
              ApplyLimits(r) \/ StartProcess(r) \/ StartFails(r) \/ VerifySucceeds(r)
                \/ VerifyFails(r) \/ StopUnverified(r) \/ ReleaseOwnPort(r)
                \/ RevertOwnLimits(r)
       PROVE  RankInv'
  <2>1. Ready' /\ Timed'
    BY <1>4, <1>5, <1>13 DEF ApplyLimits, StartProcess, StartFails, VerifySucceeds,
       VerifyFails, StopUnverified, ReleaseOwnPort, RevertOwnLimits
  <2>2. Ranked'
    BY <1>6, <1>13 DEF ApplyLimits, StartProcess, StartFails, VerifySucceeds,
       VerifyFails, StopUnverified, ReleaseOwnPort, RevertOwnLimits
  <2> QED
    BY <1>2, <2>1, <2>2
<1>14. ASSUME NEW r \in Requests, Deregister(r) PROVE RankInv'
  <2>1. Ready'
    BY <1>1, <1>3, <1>14 DEF Deregister
  <2>2. Timed'
    BY <1>3, <1>5, <1>14 DEF Deregister
  <2>3. Ranked'
    BY <1>6, <1>14 DEF Deregister
  <2> QED
    BY <1>2, <2>1, <2>2, <2>3
<1>15. ASSUME NEW r \in Requests, ReleaseVictim(r) PROVE RankInv'
  <2>1. instances[model[victim]] = None
    BY <1>3, <1>15 DEF ReleaseVictim, VictimInv, EvictStages
  <2>2. \A m \in Models : instances[m] # None => instances[m] # victim
    BY <1>3, <2>1 DEF MapInv
  <2>3. Ready'
    BY <1>1, <1>15, <2>2 DEF ReleaseVictim
  <2>4. Timed' /\ Ranked'
    BY <1>5, <1>6, <1>15 DEF ReleaseVictim
  <2> QED
    BY <1>2, <2>3, <2>4
(* While an instance is built no conflict is left.                            *)
<1>16. ASSUME NEW r \in Requests, AcquirePort(r) PROVE RankInv'
  <2>1. life[r] = "none"
    BY <1>3, <1>16 DEF AcquirePort, LifeInv, EarlyStages
  <2>2. Ready'
    BY <1>1, <1>3, <1>16, <2>1 DEF AcquirePort
  <2>3. Timed' /\ Ranked'
    BY <1>5, <1>6, <1>16 DEF AcquirePort
  <2> QED
    BY <1>2, <2>2, <2>3
<1>17. ASSUME NEW r \in Requests, Install(r) PROVE RankInv'
  <2>1. victim = None /\ plan.left = {} /\ plan' = plan
    BY <1>3, <1>17
       DEF Install, PermitInv, PermitStages, VictimInv, PlanInv, EvictStages, PlanStages
  <2>2. instances[model[r]] = None
    BY <1>3, <1>17, OverlapFacts DEF Install, ClearedInv, PlacedStages, BuildStages
  <2>3. Ready'
    BY <1>1, <1>3, <1>17, <2>1, <2>2 DEF Install
  <2>4. /\ clock' = clock + 1 /\ now' = 0
        /\ routed' = [routed EXCEPT ![r] = clock + 1]
        /\ lastUsed' = [lastUsed EXCEPT ![r] = now]
        /\ instances' = [instances EXCEPT ![model[r]] = r]
    BY <1>17 DEF Install, Touch
  <2>5. Timed'
    BY <1>1, <1>3, <2>4
  <2> QED
    BY <1>2, <2>1, <2>3, <2>5
<1>18. CASE (\E i \in Requests : Crash(i) \/ GrowOld(i)) \/ UNCHANGED vars
  BY <1>2, <1>4, <1>5, <1>6, <1>18 DEF Crash, GrowOld, vars
<1> QED
  BY <1>7, <1>8, <1>9, <1>10, <1>11, <1>12, <1>13, <1>14, <1>15, <1>16, <1>17, <1>18
  DEF Next, Schedule, Idle

(* Victims go in LRU order, although the clock behind lastUsedAt is read      *)
(* without the lock: of a conflict left behind, the last use was recorded     *)
(* after the clock had been read for the use that ranks the victim.  When     *)
(* sort.Slice met a request that touched a conflict there are no ranks.       *)
THEOREM LeastRecent == Spec => LeastRecentFirst
<1> DEFINE Step ==
      \A v, w \in Requests :
          /\ v \in plan.left /\ life'[v] = "stopping"
          /\ w \in plan.left \ {v}
          => plan.order[v] < routed[w]
<1>1. Init => RankInv
  BY ModelAssumption DEF Init, RankInv, NoPlan
<1>2. IndInv /\ RankInv /\ [Next]_vars => RankInv'
  BY RankStep
<1>3. IndInv /\ RankInv /\ [Next]_vars => [Step]_vars
  <2> SUFFICES ASSUME IndInv, RankInv, Next,
                      NEW v \in plan.left, life'[v] = "stopping", NEW w \in plan.left
               PROVE  plan.order[v] < routed[w]
    OBVIOUS
  <2>1. v \in Requests /\ w \in Requests /\ life[v] = "ready"
    BY PlannedIsReady
  <2>2. /\ routed[w] \in Nat /\ plan.order[w] \in Nat /\ plan.order[v] \in Nat
        /\ plan.order[w] < routed[w]
    BY <2>1 DEF IndInv, TypeOK, ServerTypeOK, RankInv
  <2>3. ASSUME NEW r \in Requests, EvictNext(r) PROVE plan.order[v] <= plan.order[w]
    BY <2>1, <2>3 DEF EvictNext, OldestLeft, IndInv, TypeOK, ServerTypeOK
  <2>4. ASSUME NEW r \in Requests, Install(r) PROVE FALSE
    <3>1. instances[model[r]] = None
      BY <2>4, OverlapFacts DEF Install, IndInv, TypeOK, ServerTypeOK, ClearedInv,
         PlacedStages, BuildStages
    <3> QED
      BY <2>1, <2>4, <3>1, ModelAssumption DEF Install, IndInv, TypeOK, ServerTypeOK
  <2>5. ASSUME NEW r \in Requests, AcquirePort(r) PROVE FALSE
    BY <2>1, <2>5 DEF AcquirePort, IndInv, TypeOK, ServerTypeOK
  <2>6. \E r \in Requests : EvictNext(r)
    BY <2>1, <2>4, <2>5 DEF Next, Schedule, Idle, vars, instVars, RouteReady, RouteMiss,
       TryPermit, JoinWaiters, WaiterGetsPermit, WaitTimesOut, LeaveWaiters, ReadClock,
       GiveBack, Admit, CheckGPUs, ScanConflicts, SortConflicts, EvictDone, EndDrain,
       StopVictim, RevertVictim, Deregister, ReleaseVictim, Rescan, CheckVRAM, ApplyLimits,
       StartProcess, StartFails, VerifySucceeds, VerifyFails, StopUnverified,
       ReleaseOwnPort, RevertOwnLimits, Handout, Finish, Crash, GrowOld
  <2> QED
    BY <2>2, <2>3, <2>6
<1> QED
  BY <1>1, <1>2, <1>3, Inductive, PTL DEF Spec, LeastRecentFirst

-----------------------------------------------------------------------------
(* Power limits *)

(* Who gives up ownership has reverted its limits; the others keep theirs.    *)
LEMMA LimitStep ==
    ASSUME "revert" \notin Faults, ~("apply" \in Faults /\ PowerRequired),
           IndInv, IndInv', LimitInv, [Next]_vars
    PROVE  LimitInv'
<1> USE ModelAssumption
        DEF IndInv, TypeOK, ServerTypeOK, LimitInv, LimitsOwned, LimitOwners, Owners,
            Registered, Building, BuildStages, Goto, reqVars, instVars, useVars, resVars,
            planVars
<1>1. ASSUME NEW r \in Requests, StopVictim(r) \/ RevertVictim(r) PROVE LimitInv'
  BY <1>1 DEF StopVictim, RevertVictim, RevertLimits, VictimInv, EvictStages
<1>2. ASSUME NEW r \in Requests, Deregister(r) PROVE LimitInv'
  <2>1. victim # None /\ instances[model[victim]] = victim
    BY <1>2 DEF Deregister, VictimInv, EvictStages
  <2>2. \A i \in Registered : i # victim => i \in Registered'
    BY <1>2, <2>1 DEF Deregister, MapInv
  <2>3. /\ Building \subseteq Building'
        /\ \A q \in Requests : pc[q] = "undo" => pc'[q] = "undo"
    BY <1>2 DEF Deregister
  <2>4. limited' = limited /\ model' = model /\ victim' = victim
    BY <1>2 DEF Deregister
  <2>5. LimitOwners \subseteq LimitOwners'
    BY <2>1, <2>2, <2>3, <2>4
  <2>6. limited \cap gpusOf[model[victim]] = {}
    BY <1>2 DEF Deregister
  <2>7. \A q \in Requests : pc'[q] # "refused"
    BY <1>2 DEF Deregister
  <2> QED
    BY <2>4, <2>5, <2>6, <2>7 DEF LimitInv
<1>3. ASSUME NEW r \in Requests, ReleaseVictim(r) PROVE LimitInv'
  BY <1>3 DEF ReleaseVictim, PermitInv, PermitStages
<1>4. ASSUME NEW r \in Requests, ApplyLimits(r) PROVE LimitInv'
  BY <1>4 DEF ApplyLimits, PermitInv, PermitStages
<1>5. ASSUME NEW r \in Requests,
             StartFails(r) \/ VerifyFails(r) \/ StopUnverified(r)
      PROVE LimitInv'
  BY <1>5 DEF StartFails, VerifyFails, StopUnverified
<1>12. ASSUME NEW r \in Requests, ReleaseOwnPort(r) PROVE LimitInv'
  BY <1>12 DEF ReleaseOwnPort, PermitInv, PermitStages
<1>13. ASSUME NEW r \in Requests, RevertOwnLimits(r) PROVE LimitInv'
  BY <1>13 DEF RevertOwnLimits, RevertLimits, PermitInv, PermitStages
<1>6. ASSUME NEW r \in Requests, Install(r) PROVE LimitInv'
  <2>1. instances[model[r]] = None
    BY <1>6, OverlapFacts DEF Install, ClearedInv, PlacedStages, BuildStages
  <2>2. permit = r /\ victim = None /\ victim' = None
    BY <1>6, <2>1 DEF Install, PermitInv, PermitStages, VictimInv, EvictStages
  <2>3. \A i \in Registered : i \in Registered'
    BY <1>6, <2>1 DEF Install
  <2>4. r \in Registered'
    BY <1>6 DEF Install
  <2>5. /\ \A i \in Building : i # r => i \in Building'
        /\ \A i \in Requests : pc[i] = "undo" => pc'[i] = "undo"
    BY <1>6 DEF Install
  <2>6. limited' = limited /\ model' = model
    BY <1>6 DEF Install
  <2>7. LimitOwners \subseteq LimitOwners'
    BY <2>2, <2>3, <2>4, <2>5
  <2>8. \A q \in Requests : pc'[q] \notin {"deregister", "release"}
    BY <2>2 DEF VictimInv, EvictStages
  <2>9. \A q \in Requests : pc'[q] # "refused"
    BY <1>6, <2>2 DEF Install
  <2> QED
    BY <2>6, <2>7, <2>8, <2>9 DEF LimitInv
<1>7. ASSUME NEW r \in Requests, EvictNext(r) PROVE LimitInv'
  <2>1. permit = r /\ victim = None
    BY <1>7 DEF EvictNext, PermitInv, PermitStages, VictimInv, EvictStages
  <2>2. /\ Registered' = Registered /\ Building \subseteq Building'
        /\ \A q \in Requests : pc[q] = "undo" => pc'[q] = "undo"
    BY <1>7 DEF EvictNext
  <2>3. limited' = limited /\ model' = model
    BY <1>7 DEF EvictNext
  <2>4. LimitOwners \subseteq LimitOwners'
    BY <2>1, <2>2
  <2>5. \A q \in Requests : pc[q] \notin {"deregister", "release"}
    BY <2>1 DEF VictimInv, EvictStages
  <2>6. \A q \in Requests : pc'[q] \notin {"deregister", "release"}
    BY <1>7, <2>5 DEF EvictNext
  <2>7. \A q \in Requests : pc'[q] # "refused"
    BY <1>7 DEF EvictNext
  <2> QED
    BY <2>3, <2>4, <2>6, <2>7 DEF LimitInv
<1>8. ASSUME NEW r \in Requests,
             EndDrain(r) \/ EvictDone(r) \/ ScanConflicts(r) \/ SortConflicts(r) \/ Rescan(r)
      PROVE LimitInv'
  <2>1. /\ instances' = instances /\ victim' = victim
        /\ limited' = limited /\ model' = model
    BY <1>8 DEF EndDrain, EvictDone, ScanConflicts, SortConflicts, Rescan
  <2>2. /\ pc[r] \in {"drain", "evict", "scan", "sort", "rescan"}
        /\ \E stage \in {"stop", "kill", "vram", "insufficient", "pinned_conflict", "sort",
                         "evict"} : pc' = [pc EXCEPT ![r] = stage]
    BY <1>8 DEF EndDrain, EvictDone, ScanConflicts, SortConflicts, Rescan
  <2>3. \A q \in Requests : \/ pc'[q] = pc[q]
                           \/ /\ pc[q] \notin BuildStages \cup {"undo"}
                              /\ pc'[q] \notin {"deregister", "release", "refused"}
    BY <2>2
  <2>4. LimitOwners \subseteq LimitOwners'
    BY <2>1, <2>3
  <2> QED
    BY <2>1, <2>3, <2>4 DEF LimitInv
<1>9. ASSUME NEW r \in Requests,
             StartProcess(r) \/ VerifySucceeds(r) \/ Handout(r)
      PROVE LimitInv'
  BY <1>9 DEF StartProcess, VerifySucceeds, Handout
<1>14. ASSUME NEW r \in Requests, AcquirePort(r) PROVE LimitInv'
  <2>1. /\ Registered' = Registered /\ Building \subseteq Building'
        /\ \A q \in Requests : pc[q] = "undo" => pc'[q] = "undo"
    BY <1>14 DEF AcquirePort
  <2>2. limited' = limited /\ model' = model /\ victim' = victim
    BY <1>14 DEF AcquirePort
  <2>3. LimitOwners \subseteq LimitOwners'
    BY <2>1, <2>2
  <2>4. \A q \in Requests : pc'[q] \in {"deregister", "release", "refused"} => pc'[q] = pc[q]
    BY <1>14 DEF AcquirePort
  <2> QED
    BY <2>2, <2>3, <2>4 DEF LimitInv
<1>10. ASSUME NEW r \in Requests,
              RouteReady(r) \/ RouteMiss(r) \/ TryPermit(r) \/ JoinWaiters(r)
                \/ WaiterGetsPermit(r) \/ WaitTimesOut(r) \/ LeaveWaiters(r)
                \/ ReadClock(r) \/ GiveBack(r) \/ Admit(r) \/ CheckGPUs(r)
                \/ CheckVRAM(r) \/ Finish(r)
      PROVE LimitInv'
  BY <1>10 DEF RouteReady, RouteMiss, TryPermit, JoinWaiters, WaiterGetsPermit,
     WaitTimesOut, LeaveWaiters, ReadClock, GiveBack, Admit, CheckGPUs, CheckVRAM, Finish
<1>11. CASE (\E i \in Requests : Crash(i) \/ GrowOld(i)) \/ UNCHANGED vars
  BY <1>11 DEF Crash, GrowOld, vars
<1> QED
  BY <1>1, <1>2, <1>3, <1>4, <1>5, <1>6, <1>7, <1>8, <1>9, <1>10, <1>11, <1>12, <1>13,
     <1>14 DEF Next, Schedule, Idle

(* When reverts succeed and no required limit is refused, a GPU is under a    *)
(* model's limit only while an instance of that model owns it.                *)
THEOREM LimitsReverted ==
    ASSUME "revert" \notin Faults, ~("apply" \in Faults /\ PowerRequired)
    PROVE  Spec => []LimitsOwned
<1>1. Init => LimitInv
  BY DEF Init, LimitInv, LimitsOwned
<1>2. IndInv /\ IndInv' /\ LimitInv /\ [Next]_vars => LimitInv'
  BY LimitStep
<1>3. LimitInv => LimitsOwned
  BY DEF LimitInv
<1> QED
  BY <1>1, <1>2, <1>3, Inductive, PTL DEF Spec
=============================================================================
