-------------------------- MODULE CoordinatorShutdown --------------------------
(***************************************************************************)
(* The end of a server in swap mode: main's signal handler                 *)
(* (cmd/jukebox/main.go) cancels the context of Coordinator.Run and closes *)
(* the listener, at which main calls StopCurrent (coordinator.go) and      *)
(* returns.  StopCurrent runs beside the swap in progress, if there is     *)
(* one: both may call Manager.Stop on one process, whose exit result only  *)
(* one of them receives.                                                   *)
(*                                                                         *)
(* Main is a member of Requests that sends none: it lends its name to the  *)
(* call of Stop that StopCurrent makes.  A request that reaches            *)
(* EnsureModel once Run has ended waits for ever; none of its steps is     *)
(* left, and main does not wait for it.                                    *)
(***************************************************************************)
EXTENDS CoordinatorProperties

CONSTANTS Main

ASSUME MainAssumption == Main \in Requests

VARIABLES
    phase,      \* "up", "signalled", StopCurrent's stages, and "gone"
    looping,    \* Run has not ended
    was,        \* StopCurrent's currentModel
    seen,       \* history: the process that StopCurrent's Stop found
    outcome,    \* history: what that Stop returned
    disturbed   \* history: a swap was in progress beside StopCurrent

stopVars == <<was, seen, outcome>>
allVars  == <<vars, phase, looping, stopVars, disturbed>>

StopStages == {"read", "stopping", "reverting", "stopped"}

ShutdownInit ==
    /\ Init
    /\ model[Main] = CHOOSE m \in Models : TRUE
    /\ phase = "up"
    /\ looping = TRUE
    /\ was = None
    /\ seen = None
    /\ outcome = "none"
    /\ disturbed = FALSE

-----------------------------------------------------------------------------
(* Anything but main: Run takes a request only while it lasts. *)
Serve ==
    /\ phase # "gone"
    /\ Next
    /\ req'[Main] = "new"
    /\ looping \/ \A r \in Requests : req[r] = "new" => req'[r] = "new"
    /\ disturbed' = (disturbed \/ (phase \in StopStages /\ swapping'))
    /\ UNCHANGED <<phase, looping, stopVars>>

(* The other Stop has received the exit result: this one kills what is gone   *)
(* and gives up two seconds later.                                            *)
StopRobbed(c) ==
    /\ phase # "gone"
    /\ call[c].stage = "kill"
    /\ proc[call[c].of] \in {"reported", "cleared"} /\ call[c].of \notin waitCh
    /\ call' = [call EXCEPT ![c].stage = "failed"]
    /\ UNCHANGED <<cmd, proc, waitCh, coordVars, reqVars, swap, limited>>
    /\ UNCHANGED <<phase, looping, stopVars, disturbed>>

(* SIGINT or SIGTERM: cancel, and the listener is closed. *)
Signal ==
    /\ phase = "up"
    /\ phase' = "signalled"
    /\ UNCHANGED <<vars, looping, stopVars, disturbed>>

(* Run's select may still prefer requests for a while, and a request that it  *)
(* has taken is answered first.                                               *)
RunEnds ==
    /\ phase \notin {"up", "gone"} /\ looping
    /\ \A r \in Requests : req[r] # "received"
    /\ looping' = FALSE
    /\ UNCHANGED <<vars, phase, stopVars, disturbed>>

(* StopCurrent *)
ReadCurrentModel ==
    /\ phase = "signalled"
    /\ phase' = "read"
    /\ was' = current
    /\ disturbed' = swapping
    /\ UNCHANGED <<vars, looping, seen, outcome>>

\* Fault: only a coordinator that is ready has something to stop.
StopProcessWhenReady ==
    /\ phase = "read"
    /\ IF state = "ready"
         THEN StopBegins(Main)
         ELSE call' = [call EXCEPT ![Main].stage = "stopped"] /\ UNCHANGED <<cmd, proc, waitCh>>
    /\ seen' = cmd
    /\ phase' = "stopping"
    /\ UNCHANGED <<coordVars, reqVars, swap, limited, looping, was, outcome, disturbed>>

(* mgr.Stop, whatever the state says. *)
StopProcess ==
    /\ phase = "read"
    /\ StopBegins(Main)
    /\ seen' = cmd
    /\ phase' = "stopping"
    /\ UNCHANGED <<coordVars, reqVars, swap, limited, looping, was, outcome, disturbed>>

StopReturns ==
    /\ phase = "stopping"
    /\ call[Main].stage \in {"stopped", "failed"}
    /\ call' = [call EXCEPT ![Main] = NoCall]
    /\ outcome' = call[Main].stage
    /\ phase' = IF outcome' = "stopped" /\ was # None THEN "reverting" ELSE "stopped"
    /\ UNCHANGED <<cmd, proc, waitCh, coordVars, reqVars, swap, limited, looping, was, seen,
                   disturbed>>

RevertCurrent ==
    /\ phase = "reverting"
    /\ Revert(was)
    /\ phase' = "stopped"
    /\ UNCHANGED <<mgrVars, coordVars, reqVars, swap, looping, stopVars, disturbed>>

\* Fault: main first waits for the requests that are being proxied.
MainReturnsWhenDrained ==
    /\ phase = "stopped"
    /\ tracked = {}
    /\ phase' = "gone"
    /\ UNCHANGED <<vars, looping, stopVars, disturbed>>

(* main returns, and every goroutine ends with it. *)
MainReturns ==
    /\ phase = "stopped"
    /\ phase' = "gone"
    /\ UNCHANGED <<vars, looping, stopVars, disturbed>>

Gone == phase = "gone" /\ UNCHANGED allVars

StopStep == ReadCurrentModel \/ StopProcess \/ StopReturns \/ RevertCurrent \/ MainReturns

ShutdownNext ==
    \/ Serve
    \/ \E c \in Requests : StopRobbed(c)
    \/ Signal \/ RunEnds \/ StopStep \/ Gone

ShutdownSpec == ShutdownInit /\ [][ShutdownNext]_allVars

-----------------------------------------------------------------------------
(* Properties *)

(* When jukebox is gone, so is the process that StopCurrent found, unless it  *)
(* outlived SIGKILL; and every process is, when no swap was in progress       *)
(* beside StopCurrent: only a swap can leave a process behind.                *)
NoProcessLeft ==
    phase = "gone" /\ outcome = "stopped" =>
        /\ seen \notin Running
        /\ ~disturbed => Running = {}

(* Shutdown waits for no request, for no swap and for no lock of theirs: what *)
(* main calls can go on, if only by its deadlines.                            *)
MainNeverWaits ==
    phase \in {"signalled"} \cup StopStages =>
        ENABLED (StopStep \/ StopRobbed(Main)
                    \/ StopReceives(Main) \/ StopDeadline(Main) \/ StopGivesUp(Main))

-----------------------------------------------------------------------------
(* The inductive invariant behind NoProcessLeft.  CoordInd does not hold here: *)
(* main's Stop is nobody's swap, and it may take the exit result that a swap's *)
(* Stop waits for.                                                             *)

(* Every variable has its type. *)
EndTypeOK ==
    /\ CoordTypeOK
    /\ phase \in {"up", "signalled", "gone"} \cup StopStages
    /\ looping \in BOOLEAN /\ disturbed \in BOOLEAN
    /\ was \in Models \cup {None}
    /\ seen \in Procs \cup {None}
    /\ outcome \in {"none", "stopped", "failed"}

Over == {"reported", "cleared"}

(* An exit result exists of processes that are over, and so does a Stop that  *)
(* received one.                                                              *)
ExitInv ==
    /\ \A p \in waitCh : proc[p] \in Over
    /\ \A c \in Procs :
          call[c].stage = "stopped" => call[c].of = None \/ proc[call[c].of] \in Over

(* Main sends no request, and its call of Stop lasts from StopProcess to      *)
(* StopReturns.                                                               *)
MainInv ==
    /\ req[Main] = "new" /\ swap[Main] = "none"
    /\ call[Main].stage # "idle" <=> phase = "stopping"

(* What became of the process that StopCurrent's Stop found. *)
FoundInv ==
    /\ phase = "stopping" => call[Main].of = seen
    /\ phase = "reverting" => outcome = "stopped"
    /\ phase \in {"reverting", "stopped", "gone"} /\ outcome = "stopped" =>
          seen = None \/ proc[seen] \in Over

(* A StopCurrent that no swap disturbs finds the only process there is, and   *)
(* no other is started.                                                       *)
AloneInv ==
    ~disturbed =>
        /\ phase \in StopStages \cup {"gone"} => ~swapping
        /\ phase \in {"stopping", "reverting", "stopped", "gone"} => Running \subseteq {seen}

EndInv ==
    /\ EndTypeOK
    /\ SwapsSerialized
    /\ SnapInv
    /\ CmdInv
    /\ ExitInv
    /\ MainInv
    /\ FoundInv
    /\ AloneInv
=============================================================================
