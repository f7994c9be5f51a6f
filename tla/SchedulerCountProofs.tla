------------------------ MODULE SchedulerCountProofs ------------------------
(***************************************************************************)
(* Theorems about the scheduler that count: the slots of the in-flight     *)
(* trackers, the waiters for the permit, and the instances and ports that  *)
(* max_instances bounds.  They rest on IndInv, which SchedulerProofs shows *)
(* of every reachable state.                                               *)
(***************************************************************************)
EXTENDS SchedulerProofs, FiniteSetTheorems

-----------------------------------------------------------------------------
(* In-flight slots *)

(* The trackers that count a request. *)
On(r) == {i \in Requests : r \in inflight[i]}

(* Exactly one while it is proxied, that of an instance of its model. *)
SlotInv ==
    \A r \in Requests :
        /\ \A i \in On(r) : pc[r] = "serving" /\ model[i] = model[r]
        /\ pc[r] = "serving" => \E i \in Requests : On(r) = {i}

(* A route takes the one slot of a request that had none, and Done gives it   *)
(* back; no other step touches the trackers or the requests they count.       *)
LEMMA SlotStep ==
    ASSUME ServerTypeOK, BesideInv, SlotInv, [Next]_vars
    PROVE  SlotInv'
<1> USE ModelAssumption
        DEF ServerTypeOK, On, SlotInv, Goto, reqVars, instVars, useVars, resVars, planVars
<1>1. ASSUME NEW r \in Requests, NEW i \in Requests, model[i] = model[r],
             pc[r] # "serving", pc' = [pc EXCEPT ![r] = "serving"],
             inflight' = [inflight EXCEPT ![i] = @ \cup {r}], model' = model
      PROVE  SlotInv'
  <2> SUFFICES ASSUME NEW q \in Requests
               PROVE  /\ \A j \in On(q)' : pc'[q] = "serving" /\ model[j] = model[q]
                      /\ pc'[q] = "serving" => \E j \in Requests : On(q)' = {j}
    BY <1>1
  <2>1. CASE q = r
    <3>1. On(r) = {}
      BY <1>1
    <3>2. On(r)' = {i}
      BY <1>1, <3>1
    <3> QED
      BY <1>1, <2>1, <3>2
  <2>2. CASE q # r
    <3>1. On(q)' = On(q) /\ pc'[q] = pc[q]
      BY <1>1, <2>2
    <3> QED
      BY <3>1
  <2> QED
    BY <2>1, <2>2
<1>2. ASSUME NEW r \in Requests, RouteReady(r) PROVE SlotInv'
  <2> DEFINE i == instances[model[r]]
  <2>1. i \in Requests /\ model[i] = model[r]
    BY <1>2 DEF RouteReady, Routable, BesideInv
  <2>2. pc[r] # "serving" /\ pc' = [pc EXCEPT ![r] = "serving"]
    BY <1>2 DEF RouteReady
  <2>3. inflight' = [inflight EXCEPT ![i] = @ \cup {r}] /\ model' = model
    BY <1>2 DEF RouteReady
  <2> HIDE DEF i
  <2> QED
    BY <1>1, <2>1, <2>2, <2>3
<1>3. ASSUME NEW r \in Requests, Handout(r) PROVE SlotInv'
  BY <1>1, <1>3 DEF Handout
<1>4. ASSUME NEW r \in Requests, Finish(r) PROVE SlotInv'
  <2>1. \A q \in Requests : On(q)' = IF q = r THEN {} ELSE On(q)
    BY <1>4 DEF Finish
  <2>2. \A q \in Requests : pc'[q] = IF q = r THEN "finished" ELSE pc[q]
    BY <1>4 DEF Finish
  <2>3. model' = model
    BY <1>4 DEF Finish
  <2> QED
    BY <2>1, <2>2, <2>3
<1>5. ASSUME inflight' = inflight, model' = model,
             \A q \in Requests : pc'[q] = "serving" <=> pc[q] = "serving"
      PROVE  SlotInv'
  <2>1. \A q \in Requests : On(q)' = On(q)
    BY <1>5
  <2> QED
    BY <1>5, <2>1
<1>6. ASSUME NEW r \in Requests,
             RouteMiss(r) \/ TryPermit(r) \/ JoinWaiters(r) \/ WaiterGetsPermit(r)
               \/ WaitTimesOut(r) \/ LeaveWaiters(r)
      PROVE  SlotInv'
  BY <1>5, <1>6 DEF RouteMiss, TryPermit, JoinWaiters, WaiterGetsPermit, WaitTimesOut,
     LeaveWaiters
<1>10. ASSUME NEW r \in Requests, Admit(r) PROVE SlotInv'
  BY <1>5, <1>10 DEF Admit
<1>14. ASSUME NEW r \in Requests, CheckGPUs(r) PROVE SlotInv'
  <2>1. pc' = [pc EXCEPT ![r] = "scan"] \/ pc' = [pc EXCEPT ![r] = "error"]
    BY <1>14 DEF CheckGPUs
  <2>2. pc[r] # "serving" /\ inflight' = inflight /\ model' = model
    BY <1>14 DEF CheckGPUs
  <2>3. \A q \in Requests : pc'[q] = "serving" <=> pc[q] = "serving"
    BY <2>1, <2>2
  <2> QED
    BY <1>5, <2>2, <2>3
<1>12. ASSUME NEW r \in Requests, GiveBack(r) PROVE SlotInv'
  BY <1>5, <1>12 DEF GiveBack
<1>13. ASSUME NEW r \in Requests, ReadClock(r) PROVE SlotInv'
  BY <1>5, <1>13 DEF ReadClock
<1>11. ASSUME NEW r \in Requests, CheckVRAM(r) PROVE SlotInv'
  BY <1>5, <1>11 DEF CheckVRAM
<1>7. ASSUME NEW r \in Requests,
             ScanConflicts(r) \/ SortConflicts(r) \/ EvictNext(r) \/ EvictDone(r) \/ Rescan(r)
      PROVE  SlotInv'
  BY <1>5, <1>7 DEF ScanConflicts, SortConflicts, EvictNext, EvictDone, Rescan
<1>15. ASSUME NEW r \in Requests,
             EndDrain(r) \/ StopVictim(r) \/ RevertVictim(r) \/ Deregister(r)
               \/ ReleaseVictim(r)
      PROVE  SlotInv'
  BY <1>5, <1>15 DEF EndDrain, StopVictim, RevertVictim, Deregister, ReleaseVictim
<1>8. ASSUME NEW r \in Requests,
             AcquirePort(r) \/ ApplyLimits(r) \/ StartProcess(r) \/ StartFails(r)
               \/ VerifySucceeds(r) \/ VerifyFails(r) \/ StopUnverified(r)
               \/ ReleaseOwnPort(r) \/ RevertOwnLimits(r) \/ Install(r)
      PROVE  SlotInv'
  BY <1>5, <1>8 DEF AcquirePort, ApplyLimits, StartProcess, StartFails, VerifySucceeds,
     VerifyFails, StopUnverified, ReleaseOwnPort, RevertOwnLimits, Install
<1>9. CASE (\E i \in Requests : Crash(i) \/ GrowOld(i)) \/ UNCHANGED vars
  BY <1>5, <1>9 DEF Crash, GrowOld, vars
<1> QED
  BY <1>2, <1>3, <1>4, <1>6, <1>7, <1>8, <1>9, <1>10, <1>11, <1>12, <1>13,
     <1>14, <1>15 DEF Next, Schedule, Idle

(* No request is counted before it arrives.                                   *)
LEMMA InitSlots == Init => SlotInv
  BY DEF Init, SlotInv, On

(* One slot for a request that is proxied, none for any other.                *)
LEMMA SlotsFollow == SlotInv => SlotsAccounted
<1> SUFFICES ASSUME SlotInv, NEW r \in Requests
             PROVE  /\ Cardinality(On(r)) = IF pc[r] = "serving" THEN 1 ELSE 0
                    /\ \A i \in On(r) : model[i] = model[r]
  BY DEF SlotsAccounted, On
<1>1. CASE pc[r] = "serving"
  BY <1>1, FS_Singleton DEF SlotInv
<1>2. CASE pc[r] # "serving"
  <2>1. On(r) = {}
    BY <1>2 DEF SlotInv, On
  <2> QED
    BY <1>2, <2>1, FS_EmptySet
<1> QED
  BY <1>1, <1>2 DEF SlotInv

(* A request holds a slot of one in-flight tracker exactly while it is        *)
(* proxied, on an instance of the model it asked for.                         *)
THEOREM SlotsBalance == Spec => []SlotsAccounted
<1>1. IndInv /\ SlotInv /\ [Next]_vars => SlotInv'
  BY SlotStep, BesideWeaker DEF IndInv, TypeOK
<1> QED
  BY <1>1, InitSlots, SlotsFollow, Inductive, PTL DEF Spec

-----------------------------------------------------------------------------
(* Waiters for the permit *)

(* The requests for a model that wait, or have not yet withdrawn. *)
WaitingFor(m) == {r \in Requests : model[r] = m /\ pc[r] \in {"waiting", "granted", "expired"}}

WaitInv ==
    \A m \in Models : IF m \in waiters THEN \E r \in Requests : WaitingFor(m) = {r}
                                       ELSE WaitingFor(m) = {}

(* Only JoinWaiters, when the model is not listed, and the deferred delete    *)
(* change the list or the requests it stands for.                             *)
LEMMA WaitStep ==
    ASSUME IndInv, WaitInv, [Next]_vars
    PROVE  WaitInv'
<1> USE ModelAssumption
        DEF IndInv, TypeOK, ServerTypeOK, WaitingFor, WaitInv, Goto, reqVars, instVars,
            useVars, resVars, planVars
<1>1. ASSUME waiters' = waiters, model' = model,
             \A q \in Requests : pc'[q] \in {"waiting", "granted", "expired"}
                               <=> pc[q] \in {"waiting", "granted", "expired"}
      PROVE  WaitInv'
  <2>1. \A m \in Models : WaitingFor(m)' = WaitingFor(m)
    BY <1>1
  <2> QED
    BY <1>1, <2>1
<1>2. ASSUME NEW r \in Requests, JoinWaiters(r) PROVE WaitInv'
  <2>1. CASE model[r] \in waiters
    BY <1>1, <1>2, <2>1 DEF JoinWaiters
  <2>2. CASE model[r] \notin waiters
    <3>1. \A m \in Models : WaitingFor(m)' = IF m = model[r] THEN {r} ELSE WaitingFor(m)
      BY <1>2, <2>2 DEF JoinWaiters
    <3>2. waiters' = waiters \cup {model[r]}
      BY <1>2, <2>2 DEF JoinWaiters
    <3> QED
      BY <3>1, <3>2
  <2> QED
    BY <2>1, <2>2
<1>3. ASSUME NEW r \in Requests, LeaveWaiters(r) PROVE WaitInv'
  <2>1. WaitingFor(model[r]) = {r}
    BY <1>3 DEF LeaveWaiters
  <2>2. \A m \in Models : WaitingFor(m)' = IF m = model[r] THEN {} ELSE WaitingFor(m)
    BY <1>3, <2>1 DEF LeaveWaiters
  <2>3. waiters' = waiters \ {model[r]}
    BY <1>3 DEF LeaveWaiters
  <2> QED
    BY <2>2, <2>3
<1>4. ASSUME NEW r \in Requests,
             RouteReady(r) \/ RouteMiss(r) \/ TryPermit(r) \/ WaiterGetsPermit(r)
               \/ WaitTimesOut(r) \/ ReadClock(r) \/ GiveBack(r) \/ Admit(r)
               \/ CheckGPUs(r) \/ CheckVRAM(r) \/ Handout(r) \/ Finish(r)
      PROVE  WaitInv'
  BY <1>1, <1>4 DEF RouteReady, RouteMiss, TryPermit, WaiterGetsPermit, WaitTimesOut,
     ReadClock, GiveBack, Admit, CheckGPUs, CheckVRAM, Handout, Finish
<1>5. ASSUME NEW r \in Requests,
             ScanConflicts(r) \/ SortConflicts(r) \/ EvictNext(r) \/ EvictDone(r)
               \/ EndDrain(r) \/ StopVictim(r) \/ RevertVictim(r) \/ Deregister(r)
               \/ ReleaseVictim(r) \/ Rescan(r)
      PROVE  WaitInv'
  BY <1>1, <1>5 DEF ScanConflicts, SortConflicts, EvictNext, EvictDone, EndDrain,
     StopVictim, RevertVictim, Deregister, ReleaseVictim, Rescan
<1>6. ASSUME NEW r \in Requests,
             AcquirePort(r) \/ ApplyLimits(r) \/ StartProcess(r) \/ StartFails(r)
               \/ VerifySucceeds(r) \/ VerifyFails(r) \/ StopUnverified(r)
               \/ ReleaseOwnPort(r) \/ RevertOwnLimits(r) \/ Install(r)
      PROVE  WaitInv'
  BY <1>1, <1>6 DEF AcquirePort, ApplyLimits, StartProcess, StartFails, VerifySucceeds,
     VerifyFails, StopUnverified, ReleaseOwnPort, RevertOwnLimits, Install
<1>7. CASE (\E i \in Requests : Crash(i) \/ GrowOld(i)) \/ UNCHANGED vars
  BY <1>1, <1>7 DEF Crash, GrowOld, vars
<1> QED
  BY <1>2, <1>3, <1>4, <1>5, <1>6, <1>7 DEF Next, Schedule, Idle

(* s.waiters holds a model exactly while one request for it waits or has not  *)
(* yet withdrawn, and never two: a late waiter never takes the entry of       *)
(* another one with it.                                                       *)
THEOREM WaitersBalance == Spec => []WaitersAccounted
<1>1. Init => WaitInv
  BY DEF Init, WaitInv, WaitingFor
<1>2. IndInv /\ WaitInv /\ [Next]_vars => WaitInv'
  BY WaitStep
<1>3. WaitInv => WaitersAccounted
  <2> SUFFICES ASSUME WaitInv, NEW m \in Models
               PROVE  Cardinality(WaitingFor(m)) = IF m \in waiters THEN 1 ELSE 0
    BY DEF WaitersAccounted, WaitingFor
  <2> QED
    BY FS_Singleton, FS_EmptySet DEF WaitInv
<1> QED
  BY <1>1, <1>2, <1>3, Inductive, PTL DEF Spec

-----------------------------------------------------------------------------
(* The instances max_instances bounds, and their ports *)

(* From the admission to the port: the request has been let in and has built  *)
(* nothing yet.                                                               *)
RoomStages == {"gpus", "scan", "vram", "acquire"} \cup PlanStages

(* The owners, and the conflicts a plan has left, which StopAll may have taken *)
(* from the map since they were found.                                        *)
Charged == Owners \cup plan.left

(* Those a request that is being placed does not replace. *)
Others(r) == {i \in Charged : model[i] # model[r]}

(* The owners are within max_instances, and what Admit found holds until the  *)
(* port is taken: there is room for one instance more.                        *)
RoomInv ==
    /\ IsFiniteSet(Charged)
    /\ MaxInstances # Unlimited =>
          /\ Cardinality(Charged) <= MaxInstances
          /\ \A r \in Requests : pc[r] \in RoomStages =>
                Cardinality(Others(r)) < MaxInstances

(* A step that charges for no new instance keeps the room there is.           *)
LEMMA RoomShrinks ==
    ASSUME RoomInv, model' = model, Charged' \subseteq Charged,
           \A r \in Requests : pc'[r] \in RoomStages => pc[r] \in RoomStages
    PROVE  RoomInv'
<1>1. IsFiniteSet(Charged') /\ Cardinality(Charged') <= Cardinality(Charged)
  BY FS_Subset DEF RoomInv
<1>2. Cardinality(Charged) \in Nat /\ Cardinality(Charged') \in Nat
  BY <1>1, FS_CardinalityType DEF RoomInv
<1>3. ASSUME NEW r \in Requests
      PROVE  /\ Cardinality(Others(r)') <= Cardinality(Others(r))
             /\ Cardinality(Others(r)') \in Nat /\ Cardinality(Others(r)) \in Nat
  <2>1. Others(r) \subseteq Charged /\ Others(r)' \subseteq Others(r)
    BY DEF Others
  <2>2. IsFiniteSet(Others(r))
    BY <2>1, FS_Subset DEF RoomInv
  <2>3. IsFiniteSet(Others(r)') /\ Cardinality(Others(r)') <= Cardinality(Others(r))
    BY <2>1, <2>2, FS_Subset
  <2> QED
    BY <2>2, <2>3, FS_CardinalityType
<1> QED
  BY <1>1, <1>2, <1>3, CapacityAssumption DEF RoomInv

(* A request that has built and evicted nothing yet is charged for what is in *)
(* the map, and for nothing else.                                             *)
LEMMA BeforeEviction ==
    ASSUME ServerTypeOK, BesideInv, NEW r \in Requests, pc[r] \in {"admit", "acquire"}
    PROVE  victim = None /\ Building = {} /\ Charged = Registered
<1>1. \A q \in Requests : pc[q] \in PermitStages => q = r
  BY DEF BesideInv, PermitInv, PermitStages
<1>2. victim = None /\ Building = {} /\ plan.left = {}
  BY <1>1 DEF BesideInv, PermitStages, EvictStages, PlanStages, Building, BuildStages
<1> QED
  BY <1>2 DEF Charged, Owners

(* The count Admit compares is that of the others charged for: nothing is     *)
(* being built or evicted while the permit's holder has done neither.         *)
LEMMA AdmitCounts ==
    ASSUME ServerTypeOK, BesideInv, RoomInv, NEW r \in Requests, pc[r] = "admit"
    PROVE  Cardinality(Others(r)) = OtherInstances(model[r])
<1> DEFINE keys == {n \in Models \ {model[r]} : instances[n] # None}
           key  == [i \in Others(r) |-> model[i]]
<1>1. Charged = Registered
  BY BeforeEviction
<1>2. \A i \in Others(r) : i \in Requests /\ model[i] \in Models /\ instances[model[i]] = i
  BY <1>1, ModelAssumption DEF ServerTypeOK, Others, Registered, BesideInv
<1>3. \A n \in keys : instances[n] \in Others(r) /\ model[instances[n]] = n
  BY <1>1 DEF ServerTypeOK, Others, Registered, BesideInv
<1>4. key \in Bijection(Others(r), keys)
  <2>1. key \in [Others(r) -> keys]
    BY <1>2, ModelAssumption DEF Others
  <2>2. IsInjective(key)
    BY <1>2 DEF IsInjective
  <2>3. \A n \in keys : \E i \in Others(r) : key[i] = n
    BY <1>3
  <2> QED
    BY <2>1, <2>2, <2>3 DEF Bijection, Injection, Surjection
<1>5. IsFiniteSet(Others(r))
  BY FS_Subset DEF RoomInv, Others
<1>6. Cardinality(keys) = Cardinality(Others(r))
  BY <1>4, <1>5, FS_Bijection DEF ExistsBijection
<1> QED
  BY <1>6 DEF OtherInstances

(* Where a port is asked for every owner is of another model: the eviction    *)
(* has taken the model's own instance away.                                   *)
LEMMA AcquireCounts ==
    ASSUME ServerTypeOK, BesideInv, NEW r \in Requests, pc[r] = "acquire"
    PROVE  Charged = Others(r) /\ Owners = Others(r)
<1>1. Charged = Registered /\ Owners = Registered
  BY BeforeEviction DEF Owners
<1>2. \A i \in Registered : model[i] # model[r]
  BY ModelAssumption, OverlapFacts
     DEF ServerTypeOK, BesideInv, ClearedInv, PlacedStages, BuildStages, Registered
<1> QED
  BY <1>1, <1>2 DEF Others

(* The port makes its request an owner; Admit and AcquirePort aside, a step   *)
(* keeps the owners or gives one up, and a victim was in the plan before.     *)
LEMMA RoomStep ==
    ASSUME ServerTypeOK, BesideInv, RoomInv, [Next]_vars
    PROVE  RoomInv'
<1> USE ModelAssumption
        DEF ServerTypeOK, Goto, reqVars, instVars, useVars, resVars, planVars, Charged,
            Owners, Registered, Building, BuildStages, RoomStages, PlanStages, EvictStages
<1>1. ASSUME NEW r \in Requests, Admit(r) PROVE RoomInv'
  <2>1. CASE pc'[r] # "gpus"
    BY <1>1, <2>1, RoomShrinks DEF Admit
  <2>2. CASE pc'[r] = "gpus"
    <3>1. pc[r] = "admit" /\ Charged' = Charged /\ model' = model
      BY <1>1, <2>2 DEF Admit
    <3>2. \A q \in Requests : Others(q)' = Others(q)
      BY <3>1 DEF Others
    <3>3. MaxInstances # Unlimited => ~(OtherInstances(model[r]) >= MaxInstances)
      BY <1>1, <2>2 DEF Admit
    <3>4. IsFiniteSet(Others(r))
      BY <3>1, FS_Subset DEF RoomInv, Others
    <3>5. MaxInstances # Unlimited => Cardinality(Others(r)) < MaxInstances
      BY <3>1, <3>3, <3>4, AdmitCounts, CapacityAssumption, FS_CardinalityType
    <3>6. \A q \in Requests \ {r} : pc'[q] = pc[q]
      BY <1>1, <2>2 DEF Admit
    <3> HIDE DEF Charged
    <3> QED
      BY <3>1, <3>2, <3>5, <3>6 DEF RoomInv
  <2> QED
    BY <2>1, <2>2
<1>2. ASSUME NEW r \in Requests, AcquirePort(r) PROVE RoomInv'
  <2>1. CASE FreePorts = {}
    BY <1>2, <2>1, RoomShrinks DEF AcquirePort
  <2>2. CASE FreePorts # {}
    <3>1. Charged' = Charged \cup {r}
      BY <1>2, <2>2 DEF AcquirePort
    <3>2. pc[r] = "acquire" /\ pc' = [pc EXCEPT ![r] = "power"]
      BY <1>2, <2>2 DEF AcquirePort
    <3>3. Charged = Others(r)
      BY <3>2, AcquireCounts
    <3>4. \A q \in Requests : pc'[q] \notin RoomStages
      BY <3>2 DEF BesideInv, PermitInv, PermitStages
    <3> HIDE DEF Charged
    <3>5. IsFiniteSet(Charged) /\ Cardinality(Charged) \in Nat
      BY FS_CardinalityType DEF RoomInv
    <3>6. /\ IsFiniteSet(Charged')
          /\ Cardinality(Charged') <= Cardinality(Charged) + 1
      <4>1. /\ IsFiniteSet(Charged \cup {r})
            /\ Cardinality(Charged \cup {r}) =
                  IF r \in Charged THEN Cardinality(Charged) ELSE Cardinality(Charged) + 1
        BY <3>5, FS_AddElement
      <4>2. Cardinality(Charged \cup {r}) <= Cardinality(Charged) + 1
        BY <3>5, <4>1
      <4> QED
        BY <3>1, <4>1, <4>2
    <3>7. Cardinality(Charged') \in Nat
      BY <3>6, FS_CardinalityType
    <3>8. MaxInstances # Unlimited => Cardinality(Charged) < MaxInstances
      BY <3>2, <3>3 DEF RoomInv
    <3> QED
      BY <3>4, <3>5, <3>6, <3>7, <3>8, CapacityAssumption DEF RoomInv
  <2> QED
    BY <2>1, <2>2
<1>3. ASSUME NEW r \in Requests,
             RouteReady(r) \/ RouteMiss(r) \/ TryPermit(r) \/ JoinWaiters(r)
               \/ WaiterGetsPermit(r) \/ WaitTimesOut(r) \/ LeaveWaiters(r) \/ ReadClock(r)
               \/ GiveBack(r) \/ Handout(r) \/ Finish(r)
      PROVE  RoomInv'
  BY <1>3, RoomShrinks DEF RouteReady, RouteMiss, TryPermit, JoinWaiters,
     WaiterGetsPermit, WaitTimesOut, LeaveWaiters, ReadClock, GiveBack, Handout, Finish
(* The conflicts a scan finds are registered.                                 *)
<1>4. ASSUME NEW r \in Requests, ScanConflicts(r) PROVE RoomInv'
  <2>1. plan'.left = {} \/ plan'.left = Conflicts(model[r])
    BY <1>4 DEF ScanConflicts, NoPlan
  <2>2. Conflicts(model[r]) \subseteq Registered
    BY DEF Conflicts
  <2>3. /\ model' = model /\ Owners' = Owners
        /\ \A q \in Requests : pc'[q] \in RoomStages => pc[q] \in RoomStages
    BY <1>4 DEF ScanConflicts
  <2>4. Charged' \subseteq Charged
    BY <2>1, <2>2, <2>3
  <2> QED
    BY <2>3, <2>4, RoomShrinks
<1>5. ASSUME NEW r \in Requests,
             CheckGPUs(r) \/ SortConflicts(r) \/ EvictDone(r) \/ EndDrain(r)
               \/ StopVictim(r) \/ RevertVictim(r) \/ Rescan(r)
      PROVE  RoomInv'
  BY <1>5, RoomShrinks DEF CheckGPUs, SortConflicts, EvictDone, EndDrain, StopVictim,
     RevertVictim, Rescan, NoPlan
(* The victim was left in the plan, and stays an owner until its port is      *)
(* released.                                                                  *)
<1>6. ASSUME NEW r \in Requests, EvictNext(r) \/ Deregister(r) \/ ReleaseVictim(r)
      PROVE  RoomInv'
  <2>1. Charged' \subseteq Charged
    <3>1. CASE EvictNext(r)
      BY <3>1 DEF EvictNext, OldestLeft, NoPlan
    <3>2. CASE Deregister(r)
      BY <3>2 DEF Deregister
    <3>3. CASE ReleaseVictim(r)
      BY <3>3 DEF ReleaseVictim
    <3> QED
      BY <1>6, <3>1, <3>2, <3>3
  <2>2. life[r] = "none" /\ pc[r] \in RoomStages
    BY <1>6 DEF BesideInv, EarlyStages, EvictNext, Deregister, ReleaseVictim
  <2>3. model' = model /\ \A q \in Requests \ {r} : pc'[q] = pc[q]
    BY <1>6 DEF EvictNext, Deregister, ReleaseVictim
  <2> QED
    BY <2>1, <2>2, <2>3, RoomShrinks
<1>7. ASSUME NEW r \in Requests, CheckVRAM(r) \/ ApplyLimits(r) \/ StartProcess(r)
               \/ StartFails(r) \/ VerifySucceeds(r) \/ VerifyFails(r) \/ StopUnverified(r)
               \/ ReleaseOwnPort(r) \/ RevertOwnLimits(r)
      PROVE  RoomInv'
  BY <1>7, RoomShrinks DEF CheckVRAM, ApplyLimits, StartProcess, StartFails,
     VerifySucceeds, VerifyFails, StopUnverified, ReleaseOwnPort, RevertOwnLimits
(* The instance under construction becomes a registered one. *)
<1>8. ASSUME NEW r \in Requests, Install(r) PROVE RoomInv'
  <2>1. instances[model[r]] = None
    BY <1>8, OverlapFacts DEF Install, BesideInv, ClearedInv, PlacedStages, BuildStages
  <2> QED
    BY <1>8, <2>1, RoomShrinks DEF Install
<1>9. CASE (\E i \in Requests : Crash(i) \/ GrowOld(i)) \/ UNCHANGED vars
  BY <1>9, RoomShrinks DEF Crash, GrowOld, vars
<1> QED
  BY <1>1, <1>2, <1>3, <1>4, <1>5, <1>6, <1>7, <1>8, <1>9 DEF Next, Schedule, Idle

(* There is room for everything at first.                                     *)
LEMMA InitRoom == Init => RoomInv
<1> SUFFICES ASSUME Init PROVE RoomInv
  OBVIOUS
<1>1. Charged = {}
  BY ModelAssumption DEF Init, Charged, Owners, Registered, Building, BuildStages, NoPlan
<1>2. \A r \in Requests : pc[r] \notin RoomStages
  BY DEF Init, RoomStages, PlanStages, EvictStages
<1> QED
  BY <1>1, <1>2, FS_EmptySet, CapacityAssumption DEF RoomInv

(* The room found at the admission is still there at the port and at the      *)
(* install.                                                                   *)
LEMMA RoomKept == Spec => []RoomInv
<1>1. IndInv /\ RoomInv /\ [Next]_vars => RoomInv'
  BY RoomStep, BesideWeaker DEF IndInv, TypeOK
<1> QED
  BY <1>1, InitRoom, Inductive, PTL DEF Spec

(* The owners are among the instances charged for.                            *)
LEMMA RoomBounds ==
    ASSUME RoomInv
    PROVE  CapacityRespected
<1>1. IsFiniteSet(Charged) /\ Owners \subseteq Charged
  BY DEF RoomInv, Charged
<1>2. IsFiniteSet(Owners) /\ Cardinality(Owners) <= Cardinality(Charged)
  BY <1>1, FS_Subset
<1>3. Cardinality(Owners) \in Nat /\ Cardinality(Charged) \in Nat
  BY <1>1, <1>2, FS_CardinalityType
<1> QED
  BY <1>2, <1>3, CapacityAssumption DEF RoomInv, CapacityRespected

(* max_instances bounds the instances that own ports, the one under           *)
(* construction included, although it is tested long before the install.      *)
THEOREM CapacityHolds == Spec => []CapacityRespected
<1>1. RoomInv => CapacityRespected
  BY RoomBounds
<1> QED
  BY <1>1, RoomKept, PTL

(* When a port is asked for at most max_instances - 1 are taken: with a port  *)
(* range of max_instances at least, as Validate demands, AcquireRoute never   *)
(* answers "no free ports available".                                         *)
THEOREM PortAlwaysFree == Spec => []PortNeverExhausted
<1>1. IndInv /\ RoomInv => PortNeverExhausted
  <2> SUFFICES ASSUME IndInv, RoomInv, MaxInstances # Unlimited,
                      NEW r \in Requests, pc[r] = "acquire"
               PROVE  Cardinality(FreePorts) + MaxInstances > Cardinality(Ports)
    BY DEF PortNeverExhausted
  <2>1. IsFiniteSet(Owners) /\ Cardinality(Owners) < MaxInstances
    BY AcquireCounts, BesideWeaker DEF IndInv, TypeOK, RoomInv, RoomStages
  <2>2. [i \in Owners |-> port[i]] \in Surjection(Owners, used)
    BY DEF IndInv, PortsAccounted, Surjection
  <2>3. IsFiniteSet(used) /\ Cardinality(used) <= Cardinality(Owners)
    BY <2>1, <2>2, FS_Surjection
  <2>4. Ports \cap used = used
    BY DEF IndInv, TypeOK, ServerTypeOK
  <2>5. IsFiniteSet(FreePorts) /\ Cardinality(FreePorts) = Cardinality(Ports) - Cardinality(used)
    BY <2>4, PortAssumption, FS_Difference DEF FreePorts
  <2>6. /\ Cardinality(Owners) \in Nat /\ Cardinality(used) \in Nat
        /\ Cardinality(FreePorts) \in Nat /\ Cardinality(Ports) \in Nat
    BY <2>1, <2>3, <2>5, PortAssumption, FS_CardinalityType
  <2> QED
    BY <2>1, <2>3, <2>5, <2>6, CapacityAssumption
<1> QED
  BY <1>1, RoomKept, Inductive, PTL
=============================================================================
