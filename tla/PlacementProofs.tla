--------------------------- MODULE PlacementProofs ---------------------------
(***************************************************************************)
(* The scheduler implements Placement: every step of AcquireRoute, of a    *)
(* client or of a process claims, serves, evicts or vacates one model, or  *)
(* leaves the placement alone.  (That a start or an eviction, once begun,  *)
(* ends, is left to the run.)                                              *)
(***************************************************************************)
EXTENDS SchedulerCountProofs

-----------------------------------------------------------------------------
(* Who holds a GPU *)

Holds(m, g) == phaseOf[m] # "off" /\ g \in gpusOf[m]

(* A GPU is held by the one model that is placed on it. *)
HolderInv ==
    /\ phaseOf \in [Models -> {"off", "loading", "serving", "draining"}]
    /\ \A g \in GPUs :
          /\ \A m \in Models : Holds(m, g) => holderOf[g] = m
          /\ (\A m \in Models : ~Holds(m, g)) => holderOf[g] = None

(* Models that are placed have no GPU in common: registered ones by MapInv,   *)
(* the one under construction by ClearedInv.                                  *)
LEMMA PlacedApart ==
    ASSUME IndInv, NEW m \in Models, NEW n \in Models, m # n,
           phaseOf[m] # "off", phaseOf[n] # "off"
    PROVE  ~Overlap(m, n)
<1> USE ModelAssumption DEF IndInv, TypeOK, ServerTypeOK
<1>1. /\ (\E r \in Building : model[r] = m) \/ instances[m] # None
      /\ (\E r \in Building : model[r] = n) \/ instances[n] # None
  BY DEF phaseOf
<1>2. CASE instances[m] # None /\ instances[n] # None
  BY <1>2 DEF MapInv
<1>3. ASSUME NEW r \in Building, model[r] = m, instances[n] # None PROVE ~Overlap(m, n)
  BY <1>3, OverlapFacts DEF ClearedInv, PlacedStages, BuildStages, Building
<1>4. ASSUME NEW r \in Building, model[r] = n, instances[m] # None PROVE ~Overlap(m, n)
  BY <1>4, OverlapFacts DEF ClearedInv, PlacedStages, BuildStages, Building
<1>5. ASSUME NEW r \in Building, model[r] = m, NEW q \in Building, model[q] = n PROVE FALSE
  BY <1>5 DEF PermitInv, PermitStages, Building, BuildStages
<1> QED
  BY <1>1, <1>2, <1>3, <1>4, <1>5

(* In every reachable state a GPU has at most one holder. *)
LEMMA HolderFacts == IndInv => HolderInv
<1> SUFFICES ASSUME IndInv PROVE HolderInv
  OBVIOUS
<1>1. phaseOf \in [Models -> {"off", "loading", "serving", "draining"}]
  BY DEF phaseOf
<1>2. \A g \in GPUs, m, n \in Models : Holds(m, g) /\ Holds(n, g) => m = n
  BY PlacedApart DEF Holds, Overlap
<1>3. ASSUME NEW g \in GPUs, NEW m \in Models, Holds(m, g) PROVE holderOf[g] = m
  <2>1. holderOf[g] = CHOOSE n \in Models : Holds(n, g)
    BY <1>3 DEF holderOf, Holds
  <2> QED
    BY <1>2, <1>3, <2>1
<1>4. ASSUME NEW g \in GPUs, \A m \in Models : ~Holds(m, g) PROVE holderOf[g] = None
  BY <1>4 DEF holderOf, Holds
<1> QED
  BY <1>1, <1>3, <1>4 DEF HolderInv

LEMMA HolderFactsNext == IndInv' => HolderInv'
  BY HolderFacts, PTL

-----------------------------------------------------------------------------
(* The moves of the placement *)

(* A model that is off comes on: it finds its GPUs free and holds them.       *)
LEMMA ClaimMoves ==
    ASSUME HolderInv, HolderInv', NEW m \in Models, phaseOf[m] = "off",
           phaseOf' = [phaseOf EXCEPT ![m] = "loading"]
    PROVE  /\ \A g \in gpusOf[m] : holderOf[g] = None
           /\ holderOf' = [g \in GPUs |-> IF g \in gpusOf[m] THEN m ELSE holderOf[g]]
<1> USE DEF HolderInv
<1>1. gpusOf[m] \subseteq GPUs
  BY ModelAssumption
<1>2. \A n \in Models, g \in GPUs : Holds(n, g)' <=> Holds(n, g) \/ (n = m /\ g \in gpusOf[m])
  BY DEF Holds
<1>3. ASSUME NEW g \in gpusOf[m], NEW n \in Models, Holds(n, g) PROVE FALSE
  <2>1. n # m
    BY <1>3 DEF Holds
  <2>2. Holds(n, g)' /\ Holds(m, g)'
    BY <1>1, <1>2, <1>3
  <2> QED
    BY <1>1, <2>1, <2>2
<1>4. \A g \in gpusOf[m] : holderOf[g] = None
  BY <1>1, <1>3
<1>5. ASSUME NEW g \in GPUs
      PROVE  holderOf'[g] = IF g \in gpusOf[m] THEN m ELSE holderOf[g]
  <2>1. CASE g \in gpusOf[m]
    BY <1>2, <2>1
  <2>2. CASE g \notin gpusOf[m]
    BY <1>2, <2>2
  <2> QED
    BY <2>1, <2>2
<1>6. holderOf' = [g \in GPUs |-> holderOf'[g]]
  BY DEF holderOf
<1> QED
  BY <1>4, <1>5, <1>6

(* A model that was on goes off: its GPUs, and no others, are free. *)
LEMMA VacateMoves ==
    ASSUME HolderInv, HolderInv', NEW m \in Models, phaseOf[m] # "off",
           phaseOf' = [phaseOf EXCEPT ![m] = "off"]
    PROVE  holderOf' = [g \in GPUs |-> IF holderOf[g] = m THEN None ELSE holderOf[g]]
<1> USE DEF HolderInv
<1>1. \A n \in Models, g \in GPUs : Holds(n, g)' <=> Holds(n, g) /\ n # m
  BY DEF Holds
<1>2. ASSUME NEW g \in GPUs
      PROVE  holderOf'[g] = IF holderOf[g] = m THEN None ELSE holderOf[g]
  <2>1. CASE \E n \in Models : Holds(n, g) /\ n # m
    <3>1. PICK n \in Models : Holds(n, g) /\ n # m
      BY <2>1
    <3>2. holderOf[g] = n /\ holderOf'[g] = n
      BY <1>1, <3>1
    <3> QED
      BY <3>1, <3>2
  <2>2. CASE ~\E n \in Models : Holds(n, g) /\ n # m
    <3>1. holderOf'[g] = None
      BY <1>1, <2>2
    <3>2. CASE Holds(m, g)
      BY <3>1, <3>2
    <3>3. CASE ~Holds(m, g)
      <4>1. holderOf[g] = None
        BY <2>2, <3>3
      <4> QED
        BY <3>1, <4>1
    <3> QED
      BY <3>2, <3>3
  <2> QED
    BY <2>1, <2>2
<1>3. holderOf' = [g \in GPUs |-> holderOf'[g]]
  BY DEF holderOf
<1> QED
  BY <1>2, <1>3

(* A model that is on and stays on keeps its GPUs. *)
LEMMA PhaseMoves ==
    ASSUME HolderInv, HolderInv', NEW m \in Models, NEW x, x # "off", phaseOf[m] # "off",
           phaseOf' = [phaseOf EXCEPT ![m] = x]
    PROVE  holderOf' = holderOf
<1> USE DEF HolderInv
<1>1. \A n \in Models, g \in GPUs : Holds(n, g)' <=> Holds(n, g)
  BY DEF Holds
<1>2. ASSUME NEW g \in GPUs PROVE holderOf'[g] = holderOf[g]
  <2>1. CASE \E n \in Models : Holds(n, g)
    BY <1>1, <2>1
  <2>2. CASE ~\E n \in Models : Holds(n, g)
    BY <1>1, <2>2
  <2> QED
    BY <2>1, <2>2
<1>3. /\ holderOf = [g \in GPUs |-> holderOf[g]]
      /\ holderOf' = [g \in GPUs |-> holderOf'[g]]
  BY DEF holderOf
<1> QED
  BY <1>2, <1>3

-----------------------------------------------------------------------------
(* The steps that move a model *)

(* Placement counts as the scheduler does. *)
LEMMA SameCount == \A S : P!Cardinality(S) = Cardinality(S)
  BY DEF P!Cardinality, Cardinality

(* The port is the claim: from then on the model is under construction, on    *)
(* GPUs the eviction has cleared and within max_instances.                    *)
LEMMA PortClaims ==
    ASSUME IndInv, IndInv', RoomInv, MaxInstances = Unlimited => IsFiniteSet(Models),
           NEW r \in Requests, AcquirePort(r), FreePorts # {}
    PROVE  P!Claim(model[r])
<1> USE ModelAssumption DEF IndInv, TypeOK, ServerTypeOK
<1>1. pc[r] = "acquire" /\ life[r] = "none" /\ model[r] \in Models
  BY DEF AcquirePort, LifeInv, EarlyStages
<1>2. Building = {} /\ victim = None
  BY <1>1 DEF PermitInv, VictimInv, PermitStages, EvictStages, Building, BuildStages
<1>3. instances[model[r]] = None
  BY <1>1, OverlapFacts DEF ClearedInv, PlacedStages, BuildStages
<1>4. Building' = {r}
  BY <1>1, <1>2 DEF AcquirePort, Goto, Building, BuildStages
<1>5. phaseOf[model[r]] = "off"
  BY <1>1, <1>2, <1>3 DEF phaseOf
<1>6. ASSUME NEW n \in Models
      PROVE  phaseOf'[n] = IF n = model[r] THEN "loading" ELSE phaseOf[n]
  <2>1. model' = model /\ instances' = instances
    BY DEF AcquirePort
  <2>2. \A i \in Requests : i # r => life'[i] = life[i]
    BY DEF AcquirePort
  <2>3. instances[n] # None => instances[n] \in Requests /\ instances[n] # r
    <3>1. instances[n] \in Requests \cup {None}
      OBVIOUS
    <3>2. MapInv
      OBVIOUS
    <3> HIDE DEF IndInv, TypeOK, ServerTypeOK
    <3>3. instances[n] # None => life[instances[n]] # "none"
      BY <3>2 DEF MapInv
    <3> QED
      BY <1>1, <3>1, <3>3
  <2>4. phaseOf'[n] = IF \E q \in Building' : model'[q] = n THEN "loading"
                      ELSE IF instances'[n] = None THEN "off"
                      ELSE IF life'[instances'[n]] = "ready" THEN "serving" ELSE "draining"
    BY DEF phaseOf
  <2>5. phaseOf[n] = IF instances[n] = None THEN "off"
                     ELSE IF life[instances[n]] = "ready" THEN "serving" ELSE "draining"
    BY <1>2 DEF phaseOf
  <2>6. (\E q \in Building' : model'[q] = n) <=> n = model[r]
    BY <1>4, <2>1
  <2>7. instances[n] # None => life'[instances[n]] = life[instances[n]]
    BY <2>2, <2>3
  <2> HIDE DEF IndInv, TypeOK, ServerTypeOK
  <2> QED
    BY <2>1, <2>4, <2>5, <2>6, <2>7
<1>7. phaseOf' = [phaseOf EXCEPT ![model[r]] = "loading"]
  BY <1>6 DEF phaseOf
<1>8. ASSUME MaxInstances # Unlimited PROVE Cardinality(P!Placed) < MaxInstances
  <2>1. IsFiniteSet(Owners) /\ Cardinality(Owners) < MaxInstances
    BY <1>1, <1>8, AcquireCounts, BesideWeaker DEF RoomInv, RoomStages
  <2>2. \A n \in P!Placed : n \in Models /\ instances[n] \in Owners /\ model[instances[n]] = n
    BY <1>2 DEF P!Placed, phaseOf, Owners, Registered, MapInv
  <2>3. [n \in P!Placed |-> instances[n]] \in Injection(P!Placed, Owners)
    BY <2>2 DEF Injection, IsInjective
  <2>4. IsFiniteSet(P!Placed) /\ Cardinality(P!Placed) <= Cardinality(Owners)
    BY <2>1, <2>3, FS_Injection
  <2>5. Cardinality(P!Placed) \in Nat /\ Cardinality(Owners) \in Nat
    BY <2>1, <2>4, FS_CardinalityType
  <2> QED
    BY <1>8, <2>1, <2>4, <2>5, CapacityAssumption
<1>9. ASSUME MaxInstances = Unlimited PROVE Cardinality(P!Placed) < Cardinality(Models)
  <2>1. P!Placed \subseteq Models /\ model[r] \in Models /\ model[r] \notin P!Placed
    BY <1>1, <1>5 DEF P!Placed
  <2>2. /\ IsFiniteSet(P!Placed)
        /\ Cardinality(P!Placed) <= Cardinality(Models)
        /\ Cardinality(P!Placed) # Cardinality(Models)
    BY <1>9, <2>1, FS_Subset
  <2>3. Cardinality(P!Placed) \in Nat /\ Cardinality(Models) \in Nat
    BY <1>9, <2>2, FS_CardinalityType
  <2> HIDE DEF IndInv, TypeOK, ServerTypeOK
  <2> QED
    BY <2>2, <2>3
<1>10. /\ \A g \in gpusOf[model[r]] : holderOf[g] = None
       /\ holderOf' = [g \in GPUs |-> IF g \in gpusOf[model[r]] THEN model[r] ELSE holderOf[g]]
  BY <1>1, <1>5, <1>7, HolderFacts, HolderFactsNext, ClaimMoves
<1> QED
  BY <1>5, <1>7, <1>8, <1>9, <1>10, SameCount DEF P!Claim

(* The install is the moment the model serves. *)
LEMMA InstallServes ==
    ASSUME IndInv, IndInv', NEW r \in Requests, Install(r)
    PROVE  P!Serve(model[r])
<1> USE ModelAssumption DEF IndInv, TypeOK, ServerTypeOK
<1>1. pc[r] = "install" /\ model[r] \in Models /\ r \in Building
  BY DEF Install, Building, BuildStages
<1>2. \A q \in Building : q = r
  BY <1>1 DEF PermitInv, PermitStages, Building, BuildStages
<1>3. instances[model[r]] = None
  BY <1>1, OverlapFacts DEF ClearedInv, PlacedStages, BuildStages
<1>4. Building' = {}
  BY <1>2 DEF Install, Goto, Building, BuildStages
<1>5. phaseOf[model[r]] = "loading"
  BY <1>1 DEF phaseOf
<1>6. ASSUME NEW n \in Models
      PROVE  phaseOf'[n] = IF n = model[r] THEN "serving" ELSE phaseOf[n]
  <2>1. model' = model /\ instances' = [instances EXCEPT ![model[r]] = r]
    BY DEF Install
  <2>2. \A i \in Requests : life'[i] = IF i = r THEN "ready" ELSE life[i]
    BY <1>1, <1>3 DEF Install
  <2>3. instances[n] # None => instances[n] \in Requests /\ model[instances[n]] = n
    BY DEF MapInv
  <2>4. CASE n = model[r]
    BY <1>4, <2>1, <2>2, <2>4 DEF phaseOf
  <2>5. CASE n # model[r]
    BY <1>2, <1>4, <2>1, <2>2, <2>3, <2>5 DEF phaseOf
  <2> QED
    BY <2>4, <2>5
<1>7. phaseOf' = [phaseOf EXCEPT ![model[r]] = "serving"]
  BY <1>6 DEF phaseOf
<1>8. holderOf' = holderOf
  BY <1>1, <1>5, <1>7, HolderFacts, HolderFactsNext, PhaseMoves
<1> QED
  BY <1>5, <1>7, <1>8 DEF P!Serve

(* A plan's next victim is serving, and not pinned. *)
LEMMA MarkEvicts ==
    ASSUME IndInv, IndInv', NEW r \in Requests, NEW v \in plan.left,
           pc[r] = "evict", pc' = [pc EXCEPT ![r] = "drain"],
           life' = [life EXCEPT ![v] = "stopping"], instances' = instances, model' = model,
           life[v] = "ready"
    PROVE  P!Evict(model[v])
<1> USE ModelAssumption DEF IndInv, TypeOK, ServerTypeOK
<1>1. v \in Requests /\ model[v] \in Models /\ instances[model[v]] = v
  BY DEF PlanInv
<1>2. Building = {} /\ Building' = {}
  BY DEF PermitInv, PermitStages, Building, BuildStages
<1>3. phaseOf[model[v]] = "serving" /\ model[v] \notin PinnedModels
  BY <1>1, <1>2 DEF phaseOf, PlanInv
<1>4. ASSUME NEW n \in Models
      PROVE  phaseOf'[n] = IF n = model[v] THEN "draining" ELSE phaseOf[n]
  <2>1. instances[n] # None => instances[n] \in Requests /\ model[instances[n]] = n
    BY DEF MapInv
  <2>2. CASE n = model[v]
    BY <1>1, <1>2, <2>2 DEF phaseOf
  <2>3. CASE n # model[v]
    BY <1>1, <1>2, <2>1, <2>3 DEF phaseOf
  <2> QED
    BY <2>2, <2>3
<1>5. phaseOf' = [phaseOf EXCEPT ![model[v]] = "draining"]
  BY <1>4 DEF phaseOf
<1>6. holderOf' = holderOf
  BY <1>1, <1>3, <1>5, HolderFacts, HolderFactsNext, PhaseMoves
<1> QED
  BY <1>1, <1>3, <1>5, <1>6 DEF P!Evict

(* Once drained and stopped, the victim leaves the map and its GPUs. *)
LEMMA DeregisterVacates ==
    ASSUME IndInv, IndInv', NEW r \in Requests, Deregister(r)
    PROVE  P!Vacate(model[victim])
<1> USE ModelAssumption DEF IndInv, TypeOK, ServerTypeOK
<1>1. /\ pc[r] = "deregister" /\ victim \in Requests /\ life[victim] = "stopping"
      /\ model[victim] \in Models /\ instances[model[victim]] = victim
  BY DEF Deregister, VictimInv, EvictStages
<1>2. Building = {} /\ Building' = {}
  BY <1>1 DEF Deregister, Goto, PermitInv, PermitStages, Building, BuildStages
<1>3. phaseOf[model[victim]] = "draining"
  BY <1>1, <1>2 DEF phaseOf
<1>4. /\ instances' = [instances EXCEPT ![model[victim]] = None]
      /\ life' = life /\ model' = model
  BY DEF Deregister
<1>5. phaseOf' = [phaseOf EXCEPT ![model[victim]] = "off"]
  BY <1>1, <1>2, <1>4 DEF phaseOf
<1>6. holderOf' = [g \in GPUs |-> IF holderOf[g] = model[victim] THEN None ELSE holderOf[g]]
  BY <1>1, <1>3, <1>5, HolderFacts, HolderFactsNext, VacateMoves
<1> QED
  BY <1>3, <1>5, <1>6 DEF P!Vacate

(* A start that has failed gives the GPUs back with its port. *)
LEMMA FailureVacates ==
    ASSUME IndInv, IndInv', NEW r \in Requests, ReleaseOwnPort(r)
    PROVE  P!Vacate(model[r])
<1> USE ModelAssumption DEF IndInv, TypeOK, ServerTypeOK
<1>0. /\ pc[r] \in {"refused", "unstarted"}
      /\ instances' = instances /\ life' = life /\ model' = model
  BY DEF ReleaseOwnPort, instVars
<1>1. Building = {r} /\ Building' = {}
  BY DEF ReleaseOwnPort, Goto, PermitInv, PermitStages, Building, BuildStages
<1>2. model[r] \in Models /\ instances[model[r]] = None
  BY <1>0, OverlapFacts DEF ClearedInv, PlacedStages, BuildStages
<1>3. phaseOf[model[r]] = "loading"
  BY <1>1, <1>2 DEF phaseOf
<1>4. phaseOf' = [phaseOf EXCEPT ![model[r]] = "off"]
  BY <1>0, <1>1, <1>2 DEF phaseOf
<1>5. holderOf' = [g \in GPUs |-> IF holderOf[g] = model[r] THEN None ELSE holderOf[g]]
  BY <1>2, <1>3, <1>4, HolderFacts, HolderFactsNext, VacateMoves
<1> QED
  BY <1>3, <1>4, <1>5 DEF P!Vacate

-----------------------------------------------------------------------------
(* All steps *)

(* What neither builds, registers nor marks an instance is not seen.          *)
LEMMA NothingMoves ==
    ASSUME Building' = Building, instances' = instances, life' = life, model' = model
    PROVE  UNCHANGED P!vars
<1>1. phaseOf' = phaseOf
  BY DEF phaseOf
<1>2. holderOf' = holderOf
  BY <1>1 DEF holderOf
<1> QED
  BY <1>1, <1>2 DEF P!vars

LEMMA StepRefines ==
    ASSUME MaxInstances = Unlimited => IsFiniteSet(Models),
           IndInv, IndInv', RoomInv, [Next]_vars
    PROVE  [P!Next]_(P!vars)
<1> USE ModelAssumption
        DEF IndInv, TypeOK, ServerTypeOK, Building, BuildStages, Goto, reqVars, instVars,
            useVars, resVars, planVars
<1>1. \A m \in Models : P!Claim(m) \/ P!Serve(m) \/ P!Evict(m) \/ P!Vacate(m) => P!Next
  BY DEF P!Next
<1>2. ASSUME NEW r \in Requests, AcquirePort(r) PROVE [P!Next]_(P!vars)
  <2>1. CASE FreePorts = {}
    BY <1>2, <2>1, NothingMoves DEF AcquirePort
  <2>2. CASE FreePorts # {}
    BY <1>1, <1>2, <2>2, PortClaims
  <2> QED
    BY <2>1, <2>2
<1>3. ASSUME NEW r \in Requests, Install(r) PROVE [P!Next]_(P!vars)
  BY <1>1, <1>3, InstallServes
<1>4. ASSUME NEW r \in Requests, Deregister(r) PROVE [P!Next]_(P!vars)
  <2>1. model[victim] \in Models
    BY <1>4 DEF Deregister, VictimInv, EvictStages
  <2> QED
    BY <1>1, <1>4, <2>1, DeregisterVacates
<1>5. ASSUME NEW r \in Requests, EvictNext(r) PROVE [P!Next]_(P!vars)
  <2>1. PICK v \in plan.left :
          /\ pc[r] = "evict" /\ instances' = instances /\ model' = model
          /\ \/ life' = [life EXCEPT ![v] = "stopping"] /\ Goto(r, "drain")
             \/ life' = life /\ Goto(r, "min_uptime")
    BY <1>5 DEF EvictNext, OldestLeft
  <2>2. v \in Requests /\ model[v] \in Models /\ life[v] \in {"ready", "stopping"}
    BY <2>1 DEF PlanInv, MapInv
  <2>3. Building' = Building
    BY <2>1
  <2>4. CASE life' = life
    BY <2>1, <2>3, <2>4, NothingMoves
  <2>5. CASE life' # life
    <3>1. life[v] = "ready" /\ life' = [life EXCEPT ![v] = "stopping"] /\ Goto(r, "drain")
      BY <2>1, <2>2, <2>5
    <3>2. P!Evict(model[v])
      BY <2>1, <3>1, MarkEvicts
    <3> QED
      BY <1>1, <2>2, <3>2
  <2> QED
    BY <2>4, <2>5
<1>6. ASSUME NEW r \in Requests, ReleaseOwnPort(r) PROVE [P!Next]_(P!vars)
  BY <1>1, <1>6, FailureVacates
<1>7. ASSUME NEW r \in Requests,
             RouteReady(r) \/ RouteMiss(r) \/ TryPermit(r) \/ JoinWaiters(r)
               \/ WaiterGetsPermit(r) \/ WaitTimesOut(r) \/ LeaveWaiters(r) \/ ReadClock(r)
               \/ GiveBack(r) \/ Handout(r) \/ Finish(r)
      PROVE  [P!Next]_(P!vars)
  BY <1>7, NothingMoves DEF RouteReady, RouteMiss, TryPermit, JoinWaiters,
     WaiterGetsPermit, WaitTimesOut, LeaveWaiters, ReadClock, GiveBack, Handout, Finish
<1>8. ASSUME NEW r \in Requests,
             Admit(r) \/ CheckGPUs(r) \/ ScanConflicts(r) \/ SortConflicts(r) \/ EvictDone(r)
               \/ EndDrain(r) \/ StopVictim(r) \/ RevertVictim(r) \/ ReleaseVictim(r)
               \/ Rescan(r)
      PROVE  [P!Next]_(P!vars)
  BY <1>8, NothingMoves DEF Admit, CheckGPUs, ScanConflicts, SortConflicts, EvictDone,
     EndDrain, StopVictim, RevertVictim, ReleaseVictim, Rescan
<1>10. ASSUME NEW r \in Requests, CheckVRAM(r) PROVE [P!Next]_(P!vars)
  BY <1>10, NothingMoves DEF CheckVRAM
<1>11. ASSUME NEW r \in Requests,
              ApplyLimits(r) \/ StartProcess(r) \/ StartFails(r) \/ VerifySucceeds(r)
                \/ VerifyFails(r) \/ StopUnverified(r) \/ RevertOwnLimits(r)
       PROVE  [P!Next]_(P!vars)
  BY <1>11, NothingMoves DEF ApplyLimits, StartProcess, StartFails, VerifySucceeds,
     VerifyFails, StopUnverified, RevertOwnLimits
<1>9. CASE (\E i \in Requests : Crash(i) \/ GrowOld(i)) \/ UNCHANGED vars
  BY <1>9, NothingMoves DEF Crash, GrowOld, vars
<1> QED
  BY <1>2, <1>3, <1>4, <1>5, <1>6, <1>7, <1>8, <1>9, <1>10, <1>11 DEF Next, Schedule, Idle

(* Whatever arrives, dies, fails or times out, a model takes its whole set of *)
(* free GPUs at once, leaves only when its start failed or it was evicted,    *)
(* and is evicted only while it serves and is not pinned.                     *)
THEOREM PlacementImplemented ==
    ASSUME MaxInstances = Unlimited => IsFiniteSet(Models)
    PROVE  Spec => ImplementsPlacement
<1>1. Init => P!Init
  <2> SUFFICES ASSUME Init PROVE P!Init
    OBVIOUS
  <2>1. Building = {}
    BY DEF Init, Building, BuildStages
  <2>2. phaseOf = [m \in Models |-> "off"]
    BY <2>1 DEF Init, phaseOf
  <2>3. holderOf = [g \in GPUs |-> None]
    BY <2>2 DEF holderOf
  <2> QED
    BY <2>2, <2>3 DEF P!Init
<1>2. IndInv /\ IndInv' /\ RoomInv /\ [Next]_vars => [P!Next]_(P!vars)
  BY StepRefines
<1> QED
  BY <1>1, <1>2, Inductive, RoomKept, PTL DEF Spec, ImplementsPlacement, P!Spec
=============================================================================
