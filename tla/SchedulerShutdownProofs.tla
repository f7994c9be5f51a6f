------------------------ MODULE SchedulerShutdownProofs ------------------------
(***************************************************************************)
(* Theorems about the end of a server in scheduler mode.  The scheduler's  *)
(* own invariant holds until StopAll begins; from then on StopAll may take *)
(* instances from the map and ports from the pool beside the request that  *)
(* holds the permit, and BesideInv is what is left of it.                  *)
(***************************************************************************)
EXTENDS SchedulerShutdown, SchedulerCountProofs

-----------------------------------------------------------------------------
(* The requests beside StopAll *)

(* Routing, waiting for the permit and the end of a request.                  *)
LEMMA BesideRouting ==
    ASSUME ServerTypeOK, BesideInv, NEW r \in Requests,
           RouteReady(r) \/ RouteMiss(r) \/ TryPermit(r) \/ JoinWaiters(r)
             \/ WaiterGetsPermit(r) \/ WaitTimesOut(r) \/ LeaveWaiters(r) \/ ReadClock(r)
             \/ Handout(r) \/ GiveBack(r) \/ Finish(r)
    PROVE  BesideInv'
<1> USE ModelAssumption
        DEF ServerTypeOK, BesideInv, Installed, PermitInv, ClearedInv, PermitStages,
            EvictStages, PlanStages, EarlyStages, BuildStages, PlacedStages, Building,
            Answered, Rejections, Goto, reqVars, useVars, instVars, resVars, planVars
<1>1. CASE RouteReady(r)
  BY <1>1 DEF RouteReady
<1>2. CASE RouteMiss(r)
  BY <1>2 DEF RouteMiss
<1>3. CASE TryPermit(r)
  BY <1>3 DEF TryPermit
<1>4. CASE JoinWaiters(r)
  BY <1>4 DEF JoinWaiters
<1>5. CASE WaiterGetsPermit(r)
  BY <1>5 DEF WaiterGetsPermit
<1>6. CASE WaitTimesOut(r) \/ LeaveWaiters(r)
  BY <1>6 DEF WaitTimesOut, LeaveWaiters
<1>7. CASE Handout(r) \/ Finish(r)
  BY <1>7 DEF Handout, Finish
<1>8. CASE ReadClock(r)
  BY <1>8 DEF ReadClock
<1>9. CASE GiveBack(r)
  BY <1>9 DEF GiveBack
<1> QED
  BY <1>1, <1>2, <1>3, <1>4, <1>5, <1>6, <1>7, <1>8, <1>9

(* Admission and eviction: what is planned or evicted was installed before,   *)
(* although StopAll may have taken it from the map since.                     *)
LEMMA BesideEviction ==
    ASSUME ServerTypeOK, BesideInv, NEW r \in Requests,
           Admit(r) \/ CheckGPUs(r) \/ ScanConflicts(r) \/ SortConflicts(r)
             \/ EvictNext(r) \/ EvictDone(r) \/ EndDrain(r) \/ StopVictim(r)
             \/ RevertVictim(r) \/ Deregister(r) \/ ReleaseVictim(r) \/ Rescan(r)
    PROVE  BesideInv'
<1> USE ModelAssumption
        DEF ServerTypeOK, BesideInv, Installed, PermitInv, ClearedInv, PermitStages,
            EvictStages, PlanStages, EarlyStages, BuildStages, PlacedStages, Building,
            Answered, Rejections, Goto, reqVars, useVars, instVars, resVars, planVars
<1>1. CASE Admit(r)
  BY <1>1 DEF Admit
<1>2. CASE ScanConflicts(r)
  <2>0. /\ instances' = instances /\ model' = model
        /\ permit' = permit
        /\ \/ pc' = [pc EXCEPT ![r] = "sort"]
           \/ pc' = [pc EXCEPT ![r] = "pinned_conflict"]
    BY <1>2 DEF ScanConflicts
  <2>1. PermitInv' /\ ClearedInv'
    <3>1. pc[r] = "scan"
      BY <1>2 DEF ScanConflicts
    <3> QED
      BY <2>0, <3>1
  <2>2. plan'.left \subseteq Installed'
    <3>1. Installed' = Installed
      BY <1>2 DEF ScanConflicts
    <3>2. Conflicts(model[r]) \subseteq Installed
      BY DEF Conflicts
    <3>3. plan'.left = {} \/ plan'.left = Conflicts(model[r])
      BY <1>2 DEF ScanConflicts, NoPlan
    <3> QED
      BY <3>1, <3>2, <3>3
  <2>3. plan'.left # {} => pc'[r] = "sort"
    BY <1>2 DEF ScanConflicts, NoPlan
  <2>4. victim' = None
    BY <1>2 DEF ScanConflicts
  <2> QED
    BY <1>2, <2>1, <2>2, <2>3, <2>4 DEF ScanConflicts
<1>3. CASE EvictNext(r)
  <2>1. PermitInv' /\ ClearedInv'
    BY <1>3 DEF EvictNext
  <2>2. \A i \in Requests : life'[i] = life[i] \/ (i \in plan.left /\ life'[i] = "stopping")
    BY <1>3 DEF EvictNext, OldestLeft
  <2>3. \A i \in Requests : pc'[i] \in EarlyStages \/ i \in Building' => i \notin plan.left
    BY <1>3 DEF EvictNext
  <2> QED
    BY <1>3, <2>1, <2>2, <2>3 DEF EvictNext, NoPlan
<1>4. CASE EvictDone(r)
  BY <1>4, NoConflicts DEF EvictDone, NoPlan
<1>5. CASE EndDrain(r) \/ StopVictim(r)
  BY <1>5 DEF EndDrain, StopVictim
<1>6. CASE Deregister(r)
  BY <1>6 DEF Deregister
<1>7. CASE ReleaseVictim(r)
  BY <1>7 DEF ReleaseVictim
<1>8. CASE Rescan(r)
  BY <1>8, NoConflicts DEF Rescan, NoPlan
<1>9. CASE CheckGPUs(r)
  BY <1>9 DEF CheckGPUs, NoPlan
<1>10. CASE SortConflicts(r)
  BY <1>10 DEF SortConflicts
<1>11. CASE RevertVictim(r)
  BY <1>11 DEF RevertVictim
<1> QED
  BY <1>1, <1>2, <1>3, <1>4, <1>5, <1>6, <1>7, <1>8, <1>9, <1>10, <1>11

(* The start of an instance: its request has none before the port and a       *)
(* starting one until the install, which takes a free key.                    *)
LEMMA BesideBuild ==
    ASSUME ServerTypeOK, BesideInv, NEW r \in Requests,
           CheckVRAM(r) \/ AcquirePort(r) \/ ApplyLimits(r) \/ StartProcess(r)
             \/ StartFails(r) \/ VerifySucceeds(r) \/ VerifyFails(r) \/ StopUnverified(r)
             \/ ReleaseOwnPort(r) \/ RevertOwnLimits(r) \/ Install(r)
    PROVE  BesideInv'
<1> USE ModelAssumption
        DEF ServerTypeOK, BesideInv, Installed, PermitInv, ClearedInv, PermitStages,
            EvictStages, PlanStages, EarlyStages, BuildStages, PlacedStages, Building,
            Answered, Rejections, Goto, reqVars, useVars, instVars, resVars, planVars
<1>1. CASE CheckVRAM(r)
  BY <1>1 DEF CheckVRAM
<1>2. CASE AcquirePort(r)
  BY <1>2 DEF AcquirePort
<1>3. CASE ApplyLimits(r)
  BY <1>3 DEF ApplyLimits
<1>4. CASE StartProcess(r) \/ StartFails(r)
  BY <1>4 DEF StartProcess, StartFails
<1>5. CASE VerifySucceeds(r) \/ VerifyFails(r)
  BY <1>5 DEF VerifySucceeds, VerifyFails
<1>6. CASE Install(r)
  <2>1. instances[model[r]] = None
    BY <1>6, OverlapFacts DEF Install
  <2>2. victim' = None /\ plan' = plan /\ model' = model
    BY <1>6, <2>1 DEF Install
  <2>3. pc' = [pc EXCEPT ![r] = "handout"]
    BY <1>6, <2>1 DEF Install
  <2>4. \A i \in Requests : life'[i] = IF i = r THEN "ready" ELSE life[i]
    BY <1>6, <2>1 DEF Install
  <2>5. \A m \in Models : instances'[m] = IF m = model[r] THEN r ELSE instances[m]
    BY <1>6 DEF Install
  <2>6. PermitInv' /\ ClearedInv'
    BY <1>6, <2>3 DEF Install
  <2>7. plan.left = {}
    BY <1>6 DEF Install
  <2> QED
    BY <2>2, <2>3, <2>4, <2>5, <2>6, <2>7
<1>7. CASE StopUnverified(r) \/ ReleaseOwnPort(r) \/ RevertOwnLimits(r)
  BY <1>7 DEF StopUnverified, ReleaseOwnPort, RevertOwnLimits
<1> QED
  BY <1>1, <1>2, <1>3, <1>4, <1>5, <1>6, <1>7

(* Whatever a request, a process or a clock does, BesideInv stays.            *)
LEMMA BesideServes ==
    ASSUME ServerTypeOK, BesideInv, [Next]_vars
    PROVE  BesideInv'
<1>1. CASE (\E i \in Requests : Crash(i) \/ GrowOld(i)) \/ UNCHANGED vars
  BY <1>1 DEF Crash, GrowOld, vars, reqVars, useVars, instVars, resVars, planVars,
     BesideInv, PermitInv, ClearedInv, Building, Installed
<1>2. ASSUME NEW r \in Requests,
             RouteReady(r) \/ RouteMiss(r) \/ Schedule(r) \/ Finish(r)
      PROVE BesideInv'
  BY <1>2, BesideRouting, BesideEviction, BesideBuild DEF Schedule
<1> QED
  BY <1>1, <1>2 DEF Next, Idle

(* StopAll marks what was installed and frees keys; the rest is untouched.    *)
LEMMA BesideStops ==
    ASSUME ShutdownTypeOK, BesideInv, StopInv, StopStep \/ Signal \/ Gone
    PROVE  BesideInv'
<1> USE ModelAssumption, MainAssumption
        DEF ShutdownTypeOK, ServerTypeOK, BesideInv, Installed, PermitInv, ClearedInv,
            Building, reqVars, useVars, instVars, resVars, planVars, vars, stopVars
<1>1. CASE StopAllBegins
  BY <1>1 DEF StopAllBegins
<1>2. CASE StopNext
  <2>1. PICK i \in found : life' = [life EXCEPT ![i] = "stopping"]
    BY <1>2 DEF StopNext, StopInv
  <2>2. i \in Installed
    BY <2>1 DEF StopInv
  <2>3. Installed' = Installed
    BY <2>1, <2>2
  <2>4. \A r \in Requests : pc[r] \in EarlyStages \/ r \in Building => life'[r] = life[r]
    BY <2>1, <2>2
  <2> QED
    BY <1>2, <2>3, <2>4 DEF StopNext
<1>3. CASE DeregisterCurrent
  BY <1>3 DEF DeregisterCurrent
<1>4. CASE Collect \/ EndStopDrain \/ StopCurrentInstance \/ RevertCurrent
             \/ ReleaseCurrent \/ Exit \/ Signal \/ Gone
  BY <1>4 DEF Collect, EndStopDrain, StopCurrentInstance, RevertCurrent, ReleaseCurrent,
     Exit, Signal, Gone, allVars
<1> QED
  BY <1>1, <1>2, <1>3, <1>4 DEF StopStep

-----------------------------------------------------------------------------
(* What the requests cannot do to an instance StopAll has found *)

(* An installed instance is installed for good, is not started again, and     *)
(* once it is marked gains no request but its builder's, who holds the permit.*)
LEMMA ServeFacts ==
    ASSUME ServerTypeOK, BesideInv, [Next]_vars
    PROVE  /\ Installed \subseteq Installed'
           /\ \A i \in Requests : life[i] = "stopping" => life'[i] = "stopping"
           /\ alive' \cap Installed \subseteq alive
           /\ \A i \in Requests : life[i] = "stopping" =>
                 inflight'[i] \subseteq inflight[i] \cup IF permit = Main THEN {} ELSE {i}
<1> USE ModelAssumption, MainAssumption
        DEF ServerTypeOK, BesideInv, Installed, Building, BuildStages, PermitInv, Goto,
            reqVars, useVars, instVars, resVars, planVars
<1> DEFINE Kept ==
        /\ Installed \subseteq Installed'
        /\ \A i \in Requests : life[i] = "stopping" => life'[i] = "stopping"
        /\ alive' \cap Installed \subseteq alive
        /\ \A i \in Requests : life[i] = "stopping" =>
              inflight'[i] \subseteq inflight[i] \cup IF permit = Main THEN {} ELSE {i}
<1>1. ASSUME NEW r \in Requests, RouteReady(r) PROVE Kept
  BY <1>1 DEF RouteReady, Routable
<1>2. ASSUME NEW r \in Requests, Handout(r) PROVE Kept
  <2>1. permit # Main
    BY <1>2 DEF Handout, PermitStages
  <2> QED
    BY <1>2, <2>1 DEF Handout
<1>3. ASSUME NEW r \in Requests, Finish(r) PROVE Kept
  BY <1>3 DEF Finish
<1>4. ASSUME NEW r \in Requests, EvictNext(r) PROVE Kept
  BY <1>4 DEF EvictNext, OldestLeft
<1>5. ASSUME NEW r \in Requests, AcquirePort(r) PROVE Kept
  <2>1. life[r] = "none"
    BY <1>5 DEF AcquirePort, EarlyStages
  <2> QED
    BY <1>5, <2>1 DEF AcquirePort
<1>6. ASSUME NEW r \in Requests, Install(r) PROVE Kept
  <2>1. life[r] = "starting"
    BY <1>6 DEF Install
  <2>2. instances[model[r]] = None
    BY <1>6, OverlapFacts DEF Install, ClearedInv, PlacedStages
  <2> QED
    BY <1>6, <2>1, <2>2 DEF Install
<1>7. ASSUME NEW r \in Requests, StartProcess(r) PROVE Kept
  BY <1>7 DEF StartProcess
<1>8. ASSUME NEW r \in Requests, StopVictim(r) \/ StopUnverified(r) PROVE Kept
  BY <1>8 DEF StopVictim, StopUnverified, StopProcess
<1>9. ASSUME NEW r \in Requests,
             \/ RouteMiss(r) \/ TryPermit(r) \/ JoinWaiters(r) \/ WaiterGetsPermit(r)
             \/ WaitTimesOut(r) \/ LeaveWaiters(r) \/ ReadClock(r) \/ Admit(r)
             \/ CheckGPUs(r) \/ ScanConflicts(r) \/ SortConflicts(r) \/ EvictDone(r)
             \/ EndDrain(r) \/ RevertVictim(r) \/ Deregister(r) \/ ReleaseVictim(r)
             \/ Rescan(r) \/ CheckVRAM(r) \/ ApplyLimits(r) \/ StartFails(r)
             \/ VerifySucceeds(r) \/ VerifyFails(r) \/ ReleaseOwnPort(r)
             \/ RevertOwnLimits(r) \/ GiveBack(r)
      PROVE Kept
  <2>1. life' = life /\ alive' = alive /\ inflight' = inflight
    BY <1>9 DEF RouteMiss, TryPermit, JoinWaiters, WaiterGetsPermit, WaitTimesOut,
       LeaveWaiters, ReadClock, Admit, CheckGPUs, ScanConflicts, SortConflicts, EvictDone,
       EndDrain, RevertVictim, Deregister, ReleaseVictim, Rescan, CheckVRAM, ApplyLimits,
       StartFails, VerifySucceeds, VerifyFails, ReleaseOwnPort, RevertOwnLimits, GiveBack
  <2> QED
    BY <2>1
<1>10. CASE (\E i \in Requests : Crash(i) \/ GrowOld(i)) \/ UNCHANGED vars
  BY <1>10 DEF Crash, GrowOld, vars
<1> QED
  BY <1>1, <1>2, <1>3, <1>4, <1>5, <1>6, <1>7, <1>8, <1>9, <1>10 DEF Next, Schedule, Idle

(* While StopAll holds the permit requests are routed, wait and finish, and   *)
(* do nothing else.                                                           *)
LEMMA QuietServes ==
    ASSUME ServerTypeOK, BesideInv, permit = Main, [Next]_vars
    PROVE  /\ permit' = permit
           /\ instances' = instances /\ model' = model /\ port' = port /\ used' = used
           /\ alive' \subseteq alive
<1> USE ModelAssumption, MainAssumption
        DEF ServerTypeOK, reqVars, useVars, instVars, resVars, planVars
<1>1. \A r \in Requests : pc[r] \notin PermitStages
  BY DEF BesideInv, PermitInv
<1>2. ASSUME NEW r \in Requests, Schedule(r)
      PROVE  TryPermit(r) \/ JoinWaiters(r) \/ WaitTimesOut(r) \/ LeaveWaiters(r)
  BY <1>1, <1>2 DEF PermitStages, Schedule, WaiterGetsPermit, ReadClock, Admit, CheckGPUs,
     ScanConflicts, SortConflicts, EvictNext, EvictDone, EndDrain, StopVictim, RevertVictim,
     Deregister, ReleaseVictim, Rescan, CheckVRAM, AcquirePort, ApplyLimits, StartProcess,
     StartFails, VerifySucceeds, VerifyFails, StopUnverified, ReleaseOwnPort,
     RevertOwnLimits, Install, Handout, GiveBack
<1>3. ASSUME NEW r \in Requests,
             RouteReady(r) \/ RouteMiss(r) \/ TryPermit(r) \/ JoinWaiters(r)
               \/ WaitTimesOut(r) \/ LeaveWaiters(r) \/ Finish(r)
      PROVE  /\ permit' = permit
             /\ instances' = instances /\ model' = model /\ port' = port /\ used' = used
             /\ alive' \subseteq alive
  BY <1>1, <1>3 DEF PermitStages, RouteReady, RouteMiss, TryPermit, JoinWaiters,
     WaitTimesOut, LeaveWaiters, Finish
<1>4. CASE (\E i \in Requests : Crash(i) \/ GrowOld(i)) \/ UNCHANGED vars
  BY <1>4 DEF Crash, GrowOld, vars
<1> QED
  BY <1>2, <1>3, <1>4 DEF Next, Idle

-----------------------------------------------------------------------------
(* The inductive invariant *)

(* A server that has just started has not been told to stop.                  *)
LEMMA ShutdownInitInv == ShutdownInit => ShutdownInv
<1> SUFFICES ASSUME ShutdownInit PROVE ShutdownInv
  OBVIOUS
<1>1. IndInv /\ BesideInv
  BY InitInd, BesideWeaker DEF ShutdownInit
<1>2. ShutdownTypeOK
  BY <1>1 DEF ShutdownInit, ShutdownTypeOK, IndInv, TypeOK
<1>3. NotedInv
  BY ModelAssumption DEF ShutdownInit, Init, NotedInv
<1>4. StopInv /\ SerialInv
  BY MainAssumption DEF ShutdownInit, Init, StopInv, StopStages, SerialInv, ShutdownDrains
<1> QED
  BY <1>1, <1>2, <1>3, <1>4 DEF ShutdownInv

(* The types, through the requests' steps and StopAll's.                      *)
LEMMA ShutdownType == ShutdownTypeOK /\ [ShutdownNext]_allVars => ShutdownTypeOK'
<1> SUFFICES ASSUME ShutdownTypeOK, [ShutdownNext]_allVars PROVE ShutdownTypeOK'
  OBVIOUS
<1>1. CASE Serve
  <2>1. ServerTypeOK'
    BY <1>1, NextServerType DEF Serve, ShutdownTypeOK
  <2>2. permit' \in Requests \cup {None, Main}
    BY <1>1, PermitMoves DEF Serve, ShutdownTypeOK
  <2>3. lingering' \subseteq Requests
    BY <1>1, <2>1 DEF Serve, ShutdownTypeOK, ServerTypeOK
  <2> QED
    BY <1>1, <2>1, <2>2, <2>3 DEF Serve, ShutdownTypeOK, stopVars
<1> USE DEF ShutdownTypeOK, ServerTypeOK, StopStages, stopVars, reqVars, useVars, instVars,
            resVars, planVars, vars
<1>2. CASE StopAllBegins
  BY <1>2 DEF StopAllBegins
<1>3. CASE Collect
  BY <1>3 DEF Collect, Registered
<1>4. CASE StopNext
  BY <1>4 DEF StopNext
<1>5. CASE StopCurrentInstance \/ RevertCurrent
  BY <1>5 DEF StopCurrentInstance, RevertCurrent, StopProcess, RevertLimits
<1>6. CASE DeregisterCurrent
  BY <1>6 DEF DeregisterCurrent
<1>7. CASE ReleaseCurrent
  BY <1>7 DEF ReleaseCurrent, ReleasePort
<1>8. CASE EndStopDrain \/ Exit \/ Signal \/ Gone \/ UNCHANGED allVars
  BY <1>8 DEF EndStopDrain, Exit, Signal, Gone, allVars
<1> QED
  BY <1>1, <1>2, <1>3, <1>4, <1>5, <1>6, <1>7, <1>8 DEF ShutdownNext, StopStep

(* Until StopAll begins a process leaves the map or its builder's hands only  *)
(* when it has been stopped, or noted as lingering.                           *)
LEMMA NotedServes ==
    ASSUME IndInv, NotedInv, lingering \subseteq Requests, Serve
    PROVE  NotedInv'
<1>1. Next /\ lingering \subseteq lingering'
  BY DEF Serve
<1> USE ModelAssumption
        DEF IndInv, TypeOK, ServerTypeOK, NotedInv, RunningStages, Goto, reqVars, useVars,
            instVars, resVars, planVars
<1>2. ASSUME NEW r \in Requests, NEW stage,
             pc[r] \in RunningStages => stage \in RunningStages,
             stage \notin {"revert", "deregister", "release"},
             pc' = [pc EXCEPT ![r] = stage],
             alive' \subseteq alive, instances' = instances, model' = model,
             victim' = victim
      PROVE  NotedInv'
  BY <1>1, <1>2
<1>3. ASSUME NEW r \in Requests,
             RouteReady(r) \/ RouteMiss(r) \/ TryPermit(r) \/ JoinWaiters(r)
               \/ WaiterGetsPermit(r) \/ WaitTimesOut(r) \/ LeaveWaiters(r) \/ Handout(r)
               \/ Finish(r)
      PROVE  NotedInv'
  BY <1>2, <1>3 DEF RouteReady, RouteMiss, TryPermit, JoinWaiters, WaiterGetsPermit,
     WaitTimesOut, LeaveWaiters, Handout, Finish
<1>4. ASSUME NEW r \in Requests,
             Admit(r) \/ ScanConflicts(r) \/ SortConflicts(r) \/ EvictDone(r)
               \/ EndDrain(r) \/ Rescan(r) \/ CheckVRAM(r) \/ AcquirePort(r)
               \/ ApplyLimits(r) \/ StartFails(r)
      PROVE  NotedInv'
  BY <1>2, <1>4 DEF Admit, ScanConflicts, SortConflicts, EvictDone, EndDrain, Rescan,
     CheckVRAM, AcquirePort, ApplyLimits, StartFails
<1>13. ASSUME NEW r \in Requests,
              ReadClock(r) \/ CheckGPUs(r) \/ VerifySucceeds(r) \/ VerifyFails(r)
                \/ ReleaseOwnPort(r) \/ RevertOwnLimits(r)
       PROVE  NotedInv'
  BY <1>2, <1>13 DEF ReadClock, CheckGPUs, VerifySucceeds, VerifyFails, ReleaseOwnPort,
     RevertOwnLimits
<1>14. ASSUME NEW r \in Requests, GiveBack(r) PROVE NotedInv'
  BY <1>1, <1>14 DEF GiveBack
<1>15. ASSUME NEW r \in Requests, RevertVictim(r) PROVE NotedInv'
  BY <1>1, <1>15 DEF RevertVictim
<1>5. ASSUME NEW r \in Requests, EvictNext(r) PROVE NotedInv'
  <2>1. \A q \in Requests : pc[q] \notin {"revert", "deregister", "release"}
    BY <1>5 DEF EvictNext, PermitInv, PermitStages
  <2> QED
    BY <1>1, <1>5, <2>1 DEF EvictNext
<1>6. ASSUME NEW r \in Requests, StopVictim(r) PROVE NotedInv'
  <2>1. victim \notin alive' \/ victim \in lingering'
    BY <1>6 DEF StopVictim, StopProcess, Serve
  <2>2. alive' \subseteq alive
    BY <1>6 DEF StopVictim, StopProcess
  <2> QED
    BY <1>1, <1>6, <2>1, <2>2 DEF StopVictim
<1>7. ASSUME NEW r \in Requests, Deregister(r) PROVE NotedInv'
  <2>1. victim \in Requests /\ instances[model[victim]] = victim
    BY <1>7 DEF Deregister, VictimInv, EvictStages
  <2>2. \A i \in alive \ lingering : i # victim
    BY <1>7 DEF Deregister
  <2> QED
    BY <1>1, <1>7, <2>1, <2>2 DEF Deregister
<1>8. ASSUME NEW r \in Requests, ReleaseVictim(r) PROVE NotedInv'
  <2>1. \A q \in Requests : pc'[q] \notin {"revert", "deregister", "release"}
    BY <1>8 DEF ReleaseVictim, PermitInv, PermitStages
  <2> QED
    BY <1>1, <1>8, <2>1 DEF ReleaseVictim
<1>9. ASSUME NEW r \in Requests, StartProcess(r) PROVE NotedInv'
  <2>1. \A q \in Requests : pc'[q] \notin {"revert", "deregister", "release"}
    BY <1>9 DEF StartProcess, PermitInv, PermitStages
  <2> QED
    BY <1>1, <1>9, <2>1 DEF StartProcess
<1>10. ASSUME NEW r \in Requests, StopUnverified(r) PROVE NotedInv'
  <2>1. r \notin alive' \/ r \in lingering'
    BY <1>10 DEF StopUnverified, StopProcess, Serve
  <2>2. alive' \subseteq alive
    BY <1>10 DEF StopUnverified, StopProcess
  <2> QED
    BY <1>1, <1>10, <2>1, <2>2 DEF StopUnverified
<1>11. ASSUME NEW r \in Requests, Install(r) PROVE NotedInv'
  <2>1. instances[model[r]] = None
    BY <1>11, OverlapFacts DEF Install, ClearedInv, PlacedStages, BuildStages
  <2>2. \A q \in Requests : pc'[q] \notin {"revert", "deregister", "release"}
    BY <1>11, <2>1 DEF Install, PermitInv, PermitStages
  <2> QED
    BY <1>1, <1>11, <2>1, <2>2 DEF Install
<1>12. CASE (\E i \in Requests : Crash(i) \/ GrowOld(i)) \/ UNCHANGED vars
  BY <1>1, <1>12 DEF Crash, GrowOld, vars
<1> QED
  BY <1>1, <1>3, <1>4, <1>5, <1>6, <1>7, <1>8, <1>9, <1>10, <1>11, <1>12,
     <1>13, <1>14, <1>15 DEF Next, Schedule, Idle

(* StopAll's part of the invariant, beside the requests.                      *)
LEMMA StopServes ==
    ASSUME ShutdownTypeOK, ShutdownTypeOK', BesideInv, StopInv, Serve
    PROVE  StopInv'
<1> DEFINE inHand == phase \in StopStages \ {"collect", "next"}
           toStop == IF phase \in {"drain", "stop", "kill"} THEN {current} ELSE {}
<1>1. [Next]_vars /\ lingering \subseteq lingering'
  BY DEF Serve
<1>2. /\ phase' = phase /\ left' = left /\ current' = current /\ found' = found
      /\ serial' = serial
  BY DEF Serve, stopVars
<1>3. permit' = Main <=> permit = Main
  BY <1>1, PermitMoves, QuietServes, MainAssumption DEF ShutdownTypeOK
<1>4. /\ Installed \subseteq Installed'
      /\ \A i \in Requests : life[i] = "stopping" => life'[i] = "stopping"
      /\ alive' \cap Installed \subseteq alive
      /\ \A i \in Requests : life[i] = "stopping" =>
            inflight'[i] \subseteq inflight[i] \cup IF permit = Main THEN {} ELSE {i}
  BY <1>1, ServeFacts DEF ShutdownTypeOK
<1>5. left' \subseteq found' /\ found' \subseteq Installed'
  BY <1>2, <1>4 DEF StopInv
<1>6. inHand => current \in Requests /\ life[current] = "stopping"
  BY DEF StopInv, ShutdownTypeOK
<1>7. IF inHand THEN current' \in found' \ left' /\ life'[current'] = "stopping"
                ELSE current' = None
  BY <1>2, <1>4, <1>6 DEF StopInv
<1>8. (found' \ left') \cap alive' \subseteq lingering' \cup toStop
  BY <1>1, <1>2, <1>4 DEF StopInv
<1>9. ShutdownDrains'
  <2> SUFFICES ASSUME phase = "stop"
               PROVE  inflight'[current] \subseteq IF serial THEN {} ELSE {current}
    BY <1>2 DEF ShutdownDrains
  <2>1. inflight[current] \subseteq IF serial THEN {} ELSE {current}
    BY DEF StopInv, ShutdownDrains
  <2>2. inflight'[current] \subseteq
            inflight[current] \cup IF permit = Main THEN {} ELSE {current}
    BY <1>4, <1>6 DEF StopStages
  <2>3. CASE permit = Main
    BY <2>1, <2>2, <2>3 DEF StopInv
  <2>4. CASE permit # Main
    BY <2>1, <2>2, <2>4 DEF StopInv
  <2> QED
    BY <2>3, <2>4
<1>10. serial' <=> permit' = Main
  BY <1>2, <1>3 DEF StopInv
<1> QED
  BY <1>2, <1>5, <1>7, <1>8, <1>9, <1>10 DEF StopInv

(* StopAll's part of the invariant, through its own steps: what it has marked *)
(* it drains, stops and notes before it forgets it.                           *)
LEMMA StopStops ==
    ASSUME ShutdownTypeOK, BesideInv, StopInv, StopStep \/ Signal \/ Gone
    PROVE  StopInv'
<1> USE ModelAssumption, MainAssumption
        DEF ShutdownTypeOK, ServerTypeOK, StopInv, StopStages, ShutdownDrains, Installed,
            reqVars, useVars, instVars, resVars, planVars, vars, stopVars
<1>1. CASE StopAllBegins
  BY <1>1 DEF StopAllBegins
<1>2. CASE Collect
  <2>1. Registered \subseteq Installed
    BY DEF Registered, BesideInv
  <2> QED
    BY <1>2, <2>1 DEF Collect
<1>3. CASE StopNext
  <2>1. PICK i \in left : /\ left' = left \ {i} /\ current' = i
                          /\ life' = [life EXCEPT ![i] = "stopping"]
    BY <1>3 DEF StopNext
  <2>2. Installed' = Installed
    BY <2>1
  <2>3. phase' = "drain" /\ found' = found /\ alive' = alive /\ lingering' = lingering
        /\ serial' = serial /\ permit' = permit
    BY <1>3 DEF StopNext
  <2>4. current' \in found' \ left' /\ life'[current'] = "stopping"
    BY <2>1, <2>3
  <2>5. (found' \ left') \cap alive' \subseteq lingering' \cup {current'}
    BY <1>3, <2>1, <2>3 DEF StopNext
  <2> HIDE DEF Installed
  <2> QED
    BY <2>1, <2>2, <2>3, <2>4, <2>5
<1>4. CASE EndStopDrain
  BY <1>4 DEF EndStopDrain
<1>5. CASE StopCurrentInstance
  <2>1. alive' \subseteq alive /\ (alive' \cap {current}) \subseteq lingering'
    BY <1>5 DEF StopCurrentInstance, StopProcess
  <2>2. lingering \subseteq lingering'
    BY <1>5 DEF StopCurrentInstance
  <2>3. (found \ left) \cap alive' \subseteq lingering'
    BY <1>5, <2>1, <2>2 DEF StopCurrentInstance
  <2> QED
    BY <1>5, <2>3 DEF StopCurrentInstance
<1>6. CASE DeregisterCurrent
  BY <1>6 DEF DeregisterCurrent
<1>7. CASE ReleaseCurrent
  BY <1>7 DEF ReleaseCurrent
<1>8. CASE Exit
  BY <1>8 DEF Exit
<1>9. CASE Signal \/ Gone
  BY <1>9 DEF Signal, Gone, allVars
<1>10. CASE RevertCurrent
  BY <1>10 DEF RevertCurrent
<1> QED
  BY <1>1, <1>2, <1>3, <1>4, <1>5, <1>6, <1>7, <1>8, <1>9, <1>10 DEF StopStep

(* When the permit is free StopAll finds a scheduler at rest: nothing is      *)
(* under construction or on its way out, and every port is a registered one's.*)
LEMMA SerialBegins ==
    ASSUME ShutdownTypeOK, IndInv, NotedInv, StopInv, StopAllBegins
    PROVE  SerialInv'
<1> SUFFICES ASSUME permit = None PROVE SerialInv'
  BY DEF StopAllBegins, SerialInv
<1> USE ModelAssumption DEF IndInv, TypeOK, ServerTypeOK
<1>1. \A r \in Requests : pc[r] \notin PermitStages
  BY DEF PermitInv
<1>2. victim = None /\ Building = {}
  BY <1>1 DEF VictimInv, Building, BuildStages, PermitStages
<1>3. Owners = Registered
  BY <1>2 DEF Owners
<1>4. /\ used = {port[i] : i \in Registered}
      /\ \A i, j \in Registered : i # j => port[i] # port[j]
  BY <1>3 DEF PortsAccounted
<1>5. alive \subseteq Registered \cup lingering
  BY <1>1 DEF NotedInv, Registered, RunningStages, PermitStages
<1>6. left = {} /\ current = None
  BY DEF StopInv, StopAllBegins
<1>7. /\ phase' = "collect" /\ left' = left /\ current' = current /\ alive' = alive
      /\ lingering' = lingering /\ used' = used /\ port' = port /\ instances' = instances
  BY DEF StopAllBegins, instVars, resVars
<1>8. Registered' = Registered
  BY <1>7 DEF Registered
<1> HIDE DEF IndInv
<1> QED
  BY <1>4, <1>5, <1>6, <1>7, <1>8 DEF SerialInv

(* With the permit in hand the requests leave StopAll's instances, keys and   *)
(* ports alone.                                                               *)
LEMMA SerialServes ==
    ASSUME ShutdownTypeOK, BesideInv, StopInv, SerialInv, Serve
    PROVE  SerialInv'
<1> SUFFICES ASSUME serial PROVE SerialInv'
  BY DEF Serve, SerialInv, stopVars
<1>1. permit = Main /\ [Next]_vars /\ lingering \subseteq lingering'
  BY DEF StopInv, Serve
<1>2. /\ instances' = instances /\ port' = port /\ used' = used
      /\ alive' \subseteq alive
  BY <1>1, QuietServes DEF ShutdownTypeOK
<1>3. phase' = phase /\ left' = left /\ current' = current /\ serial' = serial
  BY DEF Serve, stopVars
<1>4. Registered' = Registered
  BY <1>2 DEF Registered
<1> QED
  BY <1>1, <1>2, <1>3, <1>4 DEF SerialInv

(* StopAll takes its instances from the map and their ports from the pool one *)
(* by one, each when it has been stopped.                                     *)
LEMMA SerialStops ==
    ASSUME ShutdownTypeOK, BesideInv, StopInv, SerialInv,
           Collect \/ StopNext \/ EndStopDrain \/ StopCurrentInstance \/ RevertCurrent
             \/ DeregisterCurrent \/ ReleaseCurrent \/ Exit \/ Signal \/ Gone
    PROVE  SerialInv'
<1> USE ModelAssumption
        DEF ShutdownTypeOK, ServerTypeOK, StopStages, reqVars, useVars, instVars, resVars,
            planVars, vars, stopVars
<1>0. ASSUME instances' = instances PROVE Registered' = Registered
  BY <1>0 DEF Registered
<1>1. CASE Collect
  BY <1>0, <1>1 DEF Collect, SerialInv, StopInv
<1>2. CASE StopNext
  <2>1. current = None
    BY <1>2 DEF StopNext, StopInv
  <2>2. PICK i \in left : left' = left \ {i} /\ current' = i
    BY <1>2 DEF StopNext
  <2>3. /\ Registered' = Registered /\ phase' = "drain" /\ serial' = serial
        /\ alive' = alive /\ lingering' = lingering /\ used' = used /\ port' = port
    BY <1>0, <1>2 DEF StopNext
  <2>4. serial => Registered \cup ({current'} \ {None}) = Registered
    BY <2>2 DEF SerialInv
  <2>5. serial => Registered \subseteq left
    BY <1>2, <2>1 DEF StopNext, SerialInv, Registered
  <2>6. serial => left' \subseteq Registered /\ current' \in Registered
    BY <2>2 DEF SerialInv
  <2>7. serial => Registered \subseteq left' \cup {current'}
    BY <2>2, <2>5
  <2>8. serial =>
          /\ alive \subseteq Registered \cup lingering
          /\ used = {port[j] : j \in Registered}
          /\ \A j, k \in Registered : j # k => port[j] # port[k]
    <3>1. Registered \cup ({current} \ {None}) = Registered
      BY <2>1
    <3> QED
      BY <3>1 DEF SerialInv
  <2> QED
    BY <2>3, <2>4, <2>6, <2>7, <2>8 DEF SerialInv
<1>3. CASE EndStopDrain
  BY <1>0, <1>3 DEF EndStopDrain, SerialInv
<1>4. CASE StopCurrentInstance
  <2>1. alive' \subseteq alive /\ lingering \subseteq lingering'
    BY <1>4 DEF StopCurrentInstance, StopProcess
  <2> QED
    BY <1>0, <1>4, <2>1 DEF StopCurrentInstance, SerialInv
<1>5. CASE DeregisterCurrent
  <2> SUFFICES ASSUME serial PROVE SerialInv'
    BY <1>5 DEF DeregisterCurrent, SerialInv
  <2>1. current \in Requests /\ current \in Registered /\ current \notin left
    BY <1>5 DEF DeregisterCurrent, SerialInv, StopInv
  <2>2. instances[model[current]] = current
    BY <2>1 DEF Registered, BesideInv
  <2>3. Registered' = Registered \ {current}
    <3>1. \A i \in Requests : i \in Registered <=> instances[model[i]] = i
      BY DEF Registered, BesideInv
    <3>2. \A m \in Models : instances'[m] = IF m = model[current] THEN None ELSE instances[m]
      BY <1>5 DEF DeregisterCurrent
    <3>3. \A i \in Requests : i \in Registered' => i \in Registered /\ i # current
      BY <2>2, <3>2 DEF Registered, BesideInv
    <3>4. \A i \in Requests : i \in Registered /\ i # current => instances'[model[i]] = i
      BY <2>2, <3>1, <3>2
    <3>5. \A i \in Requests : i \in Registered /\ i # current => i \in Registered'
      BY <3>4 DEF Registered
    <3> QED
      BY <3>3, <3>5 DEF Registered
  <2>4. /\ phase' = "release" /\ left' = left /\ current' = current /\ alive' = alive
        /\ lingering' = lingering /\ used' = used /\ port' = port
    BY <1>5 DEF DeregisterCurrent
  <2>5. current \notin alive \/ current \in lingering
    BY <1>5, <2>1 DEF DeregisterCurrent, StopInv
  <2>6. Registered' \cup ({current} \ {None}) = Registered \cup ({current} \ {None})
    BY <2>1, <2>3
  <2>7. left \subseteq Registered' /\ Registered' \subseteq left \cup {current}
    BY <1>5, <2>1, <2>3 DEF DeregisterCurrent, SerialInv
  <2>8. alive \subseteq Registered' \cup lingering
    BY <2>3, <2>5 DEF SerialInv
  <2> QED
    BY <2>3, <2>4, <2>6, <2>7, <2>8 DEF SerialInv
<1>6. CASE ReleaseCurrent
  <2> SUFFICES ASSUME serial PROVE SerialInv'
    BY <1>6 DEF ReleaseCurrent, SerialInv
  <2>1. current \in Requests /\ current \notin Registered /\ current \notin left
    BY <1>6 DEF ReleaseCurrent, SerialInv, StopInv
  <2>2. used = {port[i] : i \in Registered \cup {current}}
    BY <2>1 DEF SerialInv
  <2>3. \A i \in Registered : port[i] # port[current]
    BY <2>1 DEF SerialInv
  <2>4. used' = {port[i] : i \in Registered}
    BY <1>6, <2>1, <2>2, <2>3 DEF ReleaseCurrent, ReleasePort
  <2>5. /\ Registered' = Registered /\ phase' = "next" /\ left' = left /\ current' = None
        /\ alive' = alive /\ lingering' = lingering /\ port' = port
    BY <1>0, <1>6 DEF ReleaseCurrent
  <2>6. Registered \subseteq left
    BY <1>6, <2>1 DEF ReleaseCurrent, SerialInv
  <2>7. Registered' \cup ({current'} \ {None}) = Registered
    BY <2>5
  <2> QED
    BY <2>4, <2>5, <2>6, <2>7 DEF SerialInv
<1>7. CASE Exit \/ Gone
  <2>1. /\ Registered' = Registered /\ left' = left /\ current' = current
        /\ serial' = serial /\ alive' = alive /\ lingering' = lingering
        /\ used' = used /\ port' = port
    BY <1>0, <1>7 DEF Exit, Gone, allVars
  <2>2. phase' = "gone" /\ phase # "collect"
    BY <1>7 DEF Exit, Gone, allVars
  <2> QED
    BY <2>1, <2>2 DEF SerialInv
<1>8. CASE Signal
  BY <1>8 DEF Signal, SerialInv, StopInv
<1>9. CASE RevertCurrent
  BY <1>0, <1>9 DEF RevertCurrent, SerialInv
<1> QED
  BY <1>1, <1>2, <1>3, <1>4, <1>5, <1>6, <1>7, <1>8, <1>9

(* Every step of the shutdown preserves the whole invariant.                  *)
LEMMA ShutdownStep == ShutdownInv /\ [ShutdownNext]_allVars => ShutdownInv'
<1> SUFFICES ASSUME ShutdownInv, [ShutdownNext]_allVars PROVE ShutdownInv'
  OBVIOUS
<1>1. ShutdownTypeOK /\ ShutdownTypeOK' /\ BesideInv /\ StopInv /\ SerialInv
  BY ShutdownType DEF ShutdownInv
<1>2. CASE Serve
  <2>1. [Next]_vars /\ phase' = phase
    BY <1>2 DEF Serve
  <2>2. BesideInv'
    BY <1>1, <2>1, BesideServes DEF ShutdownTypeOK
  <2>3. StopInv' /\ SerialInv'
    BY <1>1, <1>2, StopServes, SerialServes
  <2>4. phase \in {"up", "signalled"} => IndInv' /\ NotedInv'
    BY <1>1, <1>2, <2>1, NextInd, NotedServes DEF ShutdownInv, ShutdownTypeOK
  <2> QED
    BY <1>1, <2>1, <2>2, <2>3, <2>4 DEF ShutdownInv
<1>3. CASE StopStep \/ Signal \/ Gone
  <2>1. BesideInv' /\ StopInv'
    BY <1>1, <1>3, BesideStops, StopStops
  <2>2. SerialInv'
    <3>1. CASE StopAllBegins
      BY <1>1, <3>1, SerialBegins DEF ShutdownInv, StopAllBegins
    <3>2. CASE ~StopAllBegins
      BY <1>1, <1>3, <3>2, SerialStops DEF StopStep
    <3> QED
      BY <3>1, <3>2
  <2>3. phase' \in {"up", "signalled"} => Signal
    BY <1>3 DEF StopStep, StopAllBegins, Collect, StopNext, EndStopDrain,
       StopCurrentInstance, RevertCurrent, DeregisterCurrent, ReleaseCurrent, Exit, Signal,
       Gone, allVars
  <2>4. Signal => IndInv' /\ NotedInv'
    <3> SUFFICES ASSUME Signal PROVE IndInv' /\ NotedInv'
      OBVIOUS
    <3>1. IndInv /\ NotedInv /\ UNCHANGED vars /\ lingering' = lingering
      BY DEF Signal, ShutdownInv
    <3>2. IndInv'
      BY <3>1, NextInd
    <3>3. NotedInv'
      BY <3>1 DEF NotedInv, vars, reqVars, useVars, instVars, resVars, planVars
    <3> QED
      BY <3>2, <3>3
  <2> QED
    BY <1>1, <2>1, <2>2, <2>3, <2>4 DEF ShutdownInv
<1>4. CASE UNCHANGED allVars
  <2>1. ShutdownInv' <=> ShutdownInv
    BY <1>4 DEF allVars, vars, stopVars, reqVars, useVars, instVars, resVars, planVars,
       ShutdownInv, ShutdownTypeOK, ServerTypeOK, BesideInv, PermitInv, ClearedInv, Building, Installed,
       StopInv, ShutdownDrains, SerialInv, Registered, NotedInv, IndInv, TypeOK, LifeInv,
       MapInv, VictimInv, PlanInv, ProcessInv, PortsAccounted, Owners
  <2> QED
    BY <2>1
<1> QED
  BY <1>2, <1>3, <1>4 DEF ShutdownNext

(* ShutdownInv holds in every reachable state, from the start of the server   *)
(* to the end of its process.                                                 *)
THEOREM ShutdownInductive == ShutdownSpec => []ShutdownInv
<1>1. ShutdownInit => ShutdownInv
  BY ShutdownInitInv
<1>2. ShutdownInv /\ [ShutdownNext]_allVars => ShutdownInv'
  BY ShutdownStep
<1> QED
  BY <1>1, <1>2, PTL DEF ShutdownSpec

-----------------------------------------------------------------------------
(* What follows from it *)

(* What StopAll found in the map is gone when jukebox is; and everything is   *)
(* when it held the permit, except what a Stop reported as still running.     *)
THEOREM NothingSurvives == ShutdownSpec => []NothingFoundSurvives
<1>1. ShutdownInv => NothingFoundSurvives
  <2> SUFFICES ASSUME ShutdownInv, phase = "gone"
               PROVE  alive \cap found \subseteq lingering /\ (serial => alive \subseteq lingering)
    BY DEF NothingFoundSurvives
  <2>1. left = {} /\ current = None /\ found \cap alive \subseteq lingering
    BY DEF ShutdownInv, StopInv, StopStages
  <2>2. serial => Registered = {}
    BY <2>1, ModelAssumption DEF ShutdownInv, SerialInv, Registered
  <2>3. serial => alive \subseteq lingering
    BY <2>2 DEF ShutdownInv, SerialInv
  <2> QED
    BY <2>1, <2>3
<1> QED
  BY <1>1, ShutdownInductive, PTL

(* With the permit in hand StopAll is alone until jukebox ends: nobody        *)
(* evicts, builds or frees a port, and the ports stay accounted for.          *)
THEOREM SerialIsAlone == ShutdownSpec => []SerialShutdownIsAlone
<1>1. ShutdownInv => SerialShutdownIsAlone
  <2> SUFFICES ASSUME ShutdownInv, serial
               PROVE  /\ victim = None /\ Building = {}
                      /\ used = {port[i] : i \in Registered \cup ({current} \ {None})}
    BY DEF SerialShutdownIsAlone
  <2>1. \A r \in Requests : pc[r] \notin PermitStages
    BY MainAssumption DEF ShutdownInv, StopInv, BesideInv, PermitInv
  <2>2. victim = None /\ Building = {}
    BY <2>1 DEF ShutdownInv, BesideInv, Building, BuildStages, PermitStages, EvictStages
  <2> QED
    BY <2>2 DEF ShutdownInv, SerialInv
<1> QED
  BY <1>1, ShutdownInductive, PTL

(* An instance that drained in time is stopped with no request on it but, at  *)
(* most and only without the permit, its builder's.                           *)
THEOREM DrainsBeforeStops == ShutdownSpec => []ShutdownDrains
<1>1. ShutdownInv => ShutdownDrains
  BY DEF ShutdownInv, StopInv
<1> QED
  BY <1>1, ShutdownInductive, PTL

(* StopAll takes no slot and gives none back, and charges for nothing new.    *)
LEMMA StopCounts ==
    ASSUME ShutdownTypeOK, SlotInv, RoomInv, StopStep \/ Signal \/ Gone \/ UNCHANGED allVars
    PROVE  SlotInv' /\ RoomInv'
<1>1. pc' = pc /\ model' = model /\ inflight' = inflight /\ plan' = plan /\ victim' = victim
  BY DEF StopStep, StopAllBegins, Collect, StopNext, EndStopDrain, StopCurrentInstance,
     RevertCurrent, DeregisterCurrent, ReleaseCurrent, Exit, Signal, Gone, allVars, vars,
     reqVars, instVars, planVars
<1>2. instances' = instances \/ instances' = [instances EXCEPT ![model[current]] = None]
  BY DEF StopStep, StopAllBegins, Collect, StopNext, EndStopDrain, StopCurrentInstance,
     RevertCurrent, DeregisterCurrent, ReleaseCurrent, Exit, Signal, Gone, allVars, vars,
     instVars
<1>3. \A m \in Models : instances'[m] \in {instances[m], None}
  BY <1>2 DEF ShutdownTypeOK, ServerTypeOK
<1>4. Registered' \subseteq Registered
  BY <1>3, ModelAssumption DEF Registered
<1>5. Charged' \subseteq Charged
  BY <1>1, <1>4 DEF Charged, Owners, Building
<1>6. SlotInv'
  BY <1>1 DEF SlotInv, On
<1>7. RoomInv'
  BY <1>1, <1>5, RoomShrinks
<1> QED
  BY <1>6, <1>7

(* Both counts are kept to the end.                                           *)
LEMMA CountsKept == ShutdownSpec => [](SlotInv /\ RoomInv)
<1>1. ShutdownInit => SlotInv /\ RoomInv
  BY InitSlots, InitRoom DEF ShutdownInit
<1>2. ShutdownInv /\ SlotInv /\ RoomInv /\ [ShutdownNext]_allVars => SlotInv' /\ RoomInv'
  <2> SUFFICES ASSUME ShutdownInv, SlotInv, RoomInv, [ShutdownNext]_allVars
               PROVE  SlotInv' /\ RoomInv'
    OBVIOUS
  <2>1. ShutdownTypeOK /\ ServerTypeOK /\ BesideInv
    BY DEF ShutdownInv, ShutdownTypeOK
  <2>2. CASE Serve
    BY <2>1, <2>2, SlotStep, RoomStep DEF Serve
  <2> QED
    BY <2>1, <2>2, StopCounts DEF ShutdownNext
<1> QED
  BY <1>1, <1>2, ShutdownInductive, PTL DEF ShutdownSpec

(* To the end a request holds a slot of one tracker exactly while it is       *)
(* proxied, on an instance of its model.                                      *)
THEOREM SlotsToTheEnd == ShutdownSpec => []SlotsAccounted
  BY CountsKept, SlotsFollow, PTL

(* To the end max_instances bounds the instances, whatever StopAll has taken  *)
(* from the map under the request that evicts or builds.                      *)
THEOREM CapacityToTheEnd == ShutdownSpec => []CapacityRespected
  BY CountsKept, RoomBounds, PTL
=============================================================================
