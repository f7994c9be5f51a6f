--------------------------- MODULE SchedulerShutdown ---------------------------
(***************************************************************************)
(* The end of a server in scheduler mode: main's signal handler            *)
(* (cmd/jukebox/main.go), StopAll (internal/jukebox/scheduler.go) and the  *)
(* requests that are on their way through AcquireRoute meanwhile.          *)
(*                                                                         *)
(* A signal closes the listener, at which main runs its deferred stop and  *)
(* returns; connections that were accepted before go on until then, and a  *)
(* request may still arrive on one.  With main gone every goroutine is, in *)
(* the middle of what it was doing; the processes it started are not.  The *)
(* preload of the default model is one more request, finished at once.     *)
(***************************************************************************)
EXTENDS SchedulerProperties

CONSTANTS Main      \* StopAll's token in s.sched

ASSUME MainAssumption == Main \notin Requests \cup {None}

VARIABLES
    phase,      \* "up", "signalled", StopAll's stages, and "gone"
    left,       \* StopAll's `all`: the instances it has yet to stop
    current,    \* the one it is stopping
    found,      \* history: the instances StopAll found in the map
    serial,     \* history: StopAll holds the permit
    lingering   \* history: the processes that a Stop has left running

stopVars == <<left, current, found, serial>>
allVars  == <<vars, phase, stopVars, lingering>>

StopStages == {"collect", "next", "drain", "stop", "kill", "revert", "deregister",
               "release"}

ShutdownInit ==
    /\ Init
    /\ phase = "up"
    /\ left = {}
    /\ current = None
    /\ found = {}
    /\ serial = FALSE
    /\ lingering = {}

-----------------------------------------------------------------------------
(* A step of a request, a process or a clock; the processes that it stops     *)
(* without success are noted.                                                 *)
Serve ==
    /\ phase # "gone"
    /\ Next
    /\ lingering' = lingering \cup
          {i \in alive' : \E r \in Requests :
              \/ pc[r] \in {"stop", "kill"} /\ pc'[r] # pc[r] /\ i = victim
              \/ pc[r] = "unverified" /\ pc'[r] # pc[r] /\ i = r}
    /\ UNCHANGED <<phase, stopVars>>

(* SIGINT or SIGTERM. *)
Signal ==
    /\ phase = "up"
    /\ phase' = "signalled"
    /\ UNCHANGED <<vars, stopVars, lingering>>

\* Fault: the permit is not even tried.
StopAllUnserialized ==
    /\ phase = "signalled"
    /\ phase' = "collect"
    /\ serial' = (permit = None)
    /\ UNCHANGED <<vars, left, current, found, lingering>>

(* The permit when it is there, and on without it when it is not. *)
StopAllBegins ==
    /\ phase = "signalled"
    /\ phase' = "collect"
    /\ serial' = (permit = None)
    /\ permit' = IF permit = None THEN Main ELSE permit
    /\ UNCHANGED <<pc, model, waiters, instVars, resVars, planVars>>
    /\ UNCHANGED <<left, current, found, lingering>>

Collect ==
    /\ phase = "collect"
    /\ left' = Registered
    /\ found' = Registered
    /\ phase' = "next"
    /\ UNCHANGED <<vars, current, serial, lingering>>

\* Fault: the instance is drained without being marked.
StopNextUnmarked ==
    /\ phase = "next"
    /\ \E i \in left :
        /\ left' = left \ {i}
        /\ current' = i
    /\ phase' = "drain"
    /\ UNCHANGED <<vars, found, serial, lingering>>

(* drainAndStopInstance marks the next instance, in any order. *)
StopNext ==
    /\ phase = "next"
    /\ \E i \in left :
        /\ left' = left \ {i}
        /\ current' = i
        /\ life' = [life EXCEPT ![i] = "stopping"]
    /\ phase' = "drain"
    /\ UNCHANGED <<reqVars, instances, alive, aged, useVars, inflight, resVars, planVars>>
    /\ UNCHANGED <<found, serial, lingering>>

\* Fault: the drain has no deadline.
EndStopDrainUnbounded ==
    /\ phase = "drain"
    /\ inflight[current] = {}
    /\ phase' = "stop"
    /\ UNCHANGED <<vars, stopVars, lingering>>

(* WaitForDrain, whose deadline is drain_timeout; stop's own context, with    *)
(* shutdown_timeout, is not looked at.                                        *)
EndStopDrain ==
    /\ phase = "drain"
    /\ phase' = IF inflight[current] = {} THEN "stop" ELSE "kill"
    /\ UNCHANGED <<vars, stopVars, lingering>>

(* mgr.Stop, whose error is dropped. *)
StopCurrentInstance ==
    /\ phase \in {"stop", "kill"}
    /\ StopProcess(current)
    /\ lingering' = lingering \cup (alive' \cap {current})
    /\ phase' = "revert"
    /\ UNCHANGED <<reqVars, instances, life, aged, useVars, inflight, resVars, planVars>>
    /\ UNCHANGED stopVars

(* RevertModelLimits *)
RevertCurrent ==
    /\ phase = "revert"
    /\ RevertLimits(model[current])
    /\ phase' = "deregister"
    /\ UNCHANGED <<reqVars, instVars, port, used, planVars>>
    /\ UNCHANGED <<stopVars, lingering>>

(* delete(s.instances, inst.model), be it this instance or a later one. *)
DeregisterCurrent ==
    /\ phase = "deregister"
    /\ instances' = [instances EXCEPT ![model[current]] = None]
    /\ phase' = "release"
    /\ UNCHANGED <<reqVars, life, alive, aged, useVars, inflight, resVars, planVars>>
    /\ UNCHANGED <<stopVars, lingering>>

(* ports.Release, which an evictor may have done before. *)
ReleaseCurrent ==
    /\ phase = "release"
    /\ ReleasePort(current)
    /\ current' = None
    /\ phase' = "next"
    /\ UNCHANGED <<reqVars, instVars, port, limited, planVars>>
    /\ UNCHANGED <<left, found, serial, lingering>>

(* StopAll returns, main returns: the end of every goroutine. *)
Exit ==
    /\ phase = "next"
    /\ left = {}
    /\ phase' = "gone"
    /\ UNCHANGED <<vars, stopVars, lingering>>

Gone == phase = "gone" /\ UNCHANGED allVars

StopStep ==
    \/ StopAllBegins \/ Collect \/ StopNext \/ EndStopDrain \/ StopCurrentInstance
    \/ RevertCurrent \/ DeregisterCurrent \/ ReleaseCurrent \/ Exit

ShutdownNext == Serve \/ Signal \/ StopStep \/ Gone

ShutdownSpec == ShutdownInit /\ [][ShutdownNext]_allVars

-----------------------------------------------------------------------------
(* Properties *)

(* What StopAll found in the map is gone when jukebox is.  With the permit in *)
(* hand it finds everything; without it, only an instance that a request was  *)
(* about to build or to install at that moment survives jukebox.              *)
NothingFoundSurvives ==
    phase = "gone" =>
        /\ alive \cap found \subseteq lingering
        /\ serial => alive \subseteq lingering

(* With the permit in hand StopAll is alone: nobody evicts, builds or frees a *)
(* port meanwhile, and the ports stay accounted for.                          *)
SerialShutdownIsAlone ==
    serial /\ phase # "gone" =>
        /\ victim = None /\ Building = {}
        /\ used = {port[i] : i \in Registered \cup ({current} \ {None})}

(* An instance that drained in time is stopped with no request on it, though  *)
(* requests go on arriving; but when StopAll lacks the permit, the request    *)
(* that built the instance may be handed its route after the drain.           *)
ShutdownDrains ==
    phase = "stop" => inflight[current] \subseteq IF serial THEN {} ELSE {current}

(* Whatever the clients and the requests in AcquireRoute do, the shutdown     *)
(* never waits for them: it can go on from each of its stages.                *)
StopNeverWaits == phase \in {"signalled"} \cup StopStages => ENABLED StopStep
-----------------------------------------------------------------------------
(* The inductive invariant behind the safety invariants, part by part *)

ShutdownTypeOK ==
    /\ ServerTypeOK
    /\ permit \in Requests \cup {None, Main}
    /\ phase \in {"up", "signalled", "gone"} \cup StopStages
    /\ left \subseteq Requests
    /\ current \in Requests \cup {None}
    /\ found \subseteq Requests
    /\ serial \in BOOLEAN
    /\ lingering \subseteq Requests

(* Before StopAll begins the processes are in the map, in the builder's hands *)
(* or noted: the invariant of the requests with what lingers beside it.       *)
NotedInv ==
    /\ \A i \in alive \ lingering :
          instances[model[i]] = i \/ pc[i] \in RunningStages
    /\ \A r \in Requests : pc[r] \in {"revert", "deregister", "release"} /\ victim \in alive =>
          victim \in lingering

(* What StopAll has in hand was installed and is marked, what it has done     *)
(* with has no process but one that was noted, and nobody starts it again.    *)
StopInv ==
    /\ serial <=> permit = Main
    /\ phase \in {"up", "signalled"} => ~serial
    /\ phase \in {"up", "signalled", "collect"} => left = {} /\ found = {}
    /\ phase = "gone" => left = {}
    /\ left \subseteq found /\ found \subseteq Installed
    /\ IF phase \in StopStages \ {"collect", "next"}
         THEN current \in found \ left /\ life[current] = "stopping"
         ELSE current = None
    /\ (found \ left) \cap alive \subseteq
          lingering \cup IF phase \in {"drain", "stop", "kill"} THEN {current} ELSE {}
    /\ ShutdownDrains

(* With the permit StopAll owns what is registered and has yet to stop it.    *)
SerialInv ==
    serial =>
        /\ left \subseteq Registered
        /\ phase # "collect" => Registered \subseteq left \cup {current}
        /\ phase \in {"drain", "stop", "kill", "revert", "deregister"} => current \in Registered
        /\ phase = "release" => current \notin Registered
        /\ alive \subseteq Registered \cup lingering
        /\ used = {port[i] : i \in Registered \cup ({current} \ {None})}
        /\ \A i, j \in Registered \cup ({current} \ {None}) : i # j => port[i] # port[j]

ShutdownInv ==
    /\ ShutdownTypeOK
    /\ BesideInv
    /\ phase \in {"up", "signalled"} => IndInv /\ NotedInv
    /\ StopInv
    /\ SerialInv
=============================================================================
