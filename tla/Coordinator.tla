----------------------------- MODULE Coordinator -----------------------------
(***************************************************************************)
(* Swap mode: one process at a time, whose model jukebox.Coordinator       *)
(* (internal/jukebox/coordinator.go) swaps on demand, behind LegacyRouter  *)
(* (legacy_router.go), which tracks each request it routes.                *)
(*                                                                         *)
(* A request that triggers a swap lends its name to the performSwap        *)
(* goroutine, to the call of Stop that goroutine makes, and to the process *)
(* it starts.  handleEnsure, which the Run goroutine executes one request  *)
(* at a time, reads the coordinator's fields under c.mu and decides later, *)
(* on what it read and on whether a process is there.                      *)
(***************************************************************************)
EXTENDS Manager

CONSTANTS
    Models,
    Requests,
    GPUs,
    gpusOf,         \* [Models -> SUBSET GPUs]: models.<name>.gpus
    limitedGPUs,    \* those with a model power limit, and a default to revert to
    PowerRequired,  \* gpu_power.required: a failed limit fails the swap
    MayRefuse       \* whether nvidia-smi may refuse to set or to revert a limit

ASSUME CoordinatorAssumption ==
    /\ Procs = Requests
    /\ gpusOf \in [Models -> SUBSET GPUs]
    /\ limitedGPUs \in [Models -> SUBSET GPUs]
    /\ \A m \in Models : limitedGPUs[m] \subseteq gpusOf[m]
    /\ PowerRequired \in BOOLEAN
    /\ MayRefuse \in BOOLEAN
    /\ None \notin Models

VARIABLES
    model,      \* the model each request asks for, resolved
    req,        \* where each request is in AcquireRoute and the proxy
    swap,       \* where the performSwap goroutine of each request is
    state,      \* c.state
    current,    \* c.currentModel
    swapping,   \* c.swapInProgress
    failures,   \* c.failureCount
    cooling,    \* less than swap_cooldown has passed since the last swap
    backingOff, \* less than backoffDelay has passed since the last failure
    snap,       \* handleEnsure's copy of the coordinator's fields
    tracked,    \* the requests the global in-flight tracker counts
    limited     \* the GPUs under a model power limit

coordVars == <<state, current, swapping, failures, cooling, backingOff>>
reqVars   == <<model, req, snap, tracked>>
vars      == <<mgrVars, coordVars, reqVars, swap, limited>>

RequestStages == {"new", "received", "waiting", "ensured", "tracked", "serving", "finished",
                  "swap_in_progress", "backoff", "cooldown", "wait_timeout", "error"}

Answered == RequestStages \ {"new", "received", "waiting"}

(* The stages of performSwap between handleEnsure and handleSwapDone. *)
SwapStages == {"drain", "stop", "kill", "stopping", "revert", "starting", "power",
               "start", "record", "verify", "unwind", "undo", "done", "failed"}

Swapping(r) == swap[r] \in SwapStages

Blank == [state |-> "idle", current |-> None, swapping |-> FALSE, failures |-> 0]

Fields == [state |-> state, current |-> current, swapping |-> swapping,
           failures |-> failures]

(* backoffDelay, in seconds. *)
BackoffDelay(n) ==
    IF n <= 1 THEN 0 ELSE IF n = 2 THEN 5 ELSE IF n = 3 THEN 15 ELSE IF n = 4 THEN 30 ELSE 60

Init ==
    /\ MgrInit
    /\ model \in [Requests -> Models]
    /\ req = [r \in Requests |-> "new"]
    /\ swap = [r \in Requests |-> "none"]
    /\ state = "idle"
    /\ current = None
    /\ swapping = FALSE
    /\ failures = 0
    /\ cooling = FALSE
    /\ backingOff = FALSE
    /\ snap = Blank
    /\ tracked = {}
    /\ limited = {}

-----------------------------------------------------------------------------
(* handleEnsure *)

(* Run takes a request, and handleEnsure reads the fields under c.mu. *)
Receive(r) ==
    /\ req[r] = "new"
    /\ \A q \in Requests : req[q] # "received"
    /\ req' = [req EXCEPT ![r] = "received"]
    /\ snap' = Fields
    /\ UNCHANGED <<mgrVars, coordVars, swap, model, tracked, limited>>

Ready(m) == snap.state = "ready" /\ snap.current = m /\ cmd # None

(* The model is current but its process is gone. *)
Crashed(m) == snap.state = "ready" /\ snap.current = m /\ cmd = None

\* Fault: a swap may start before the previous one is over.
BusyOnStateOnly == snap.state = "stopping"

Busy == snap.swapping \/ snap.state \in {"starting", "stopping"}

InBackoff == snap.state = "error" /\ snap.failures > 0 /\ backingOff

\* Fault: any crash lifts the cooldown, whatever model is asked for.
CooldownLiftedByCrash(m) == cooling /\ cmd # None

InCooldown(m) == cooling /\ ~Crashed(m)

EnsureReply(r) ==
    LET m == model[r] IN
    IF Ready(m) THEN "ensured"
    ELSE IF Busy THEN "swap_in_progress"
    ELSE IF InBackoff THEN "backoff"
    ELSE IF InCooldown(m) THEN "cooldown"
    ELSE "waiting"

(* The reply, and with "waiting" the start of performSwap.  doSwap stops the  *)
(* old process exactly when the state was ready, crashed or not.              *)
HandleEnsure(r) ==
    /\ req[r] = "received"
    /\ req' = [req EXCEPT ![r] = EnsureReply(r)]
    /\ IF EnsureReply(r) = "waiting"
         THEN /\ swapping' = TRUE
              /\ state' = IF snap.state = "ready" THEN "stopping" ELSE "starting"
              /\ swap' = [swap EXCEPT ![r] = IF snap.state = "ready" THEN "drain" ELSE "starting"]
         ELSE UNCHANGED <<swapping, state, swap>>
    /\ snap' = Blank
    /\ UNCHANGED <<mgrVars, current, failures, cooling, backingOff, model, tracked,
                   limited>>

-----------------------------------------------------------------------------
(* performSwap and doSwap *)

SwapTo(r, stage) == swap' = [swap EXCEPT ![r] = stage]

(* RevertModelLimits logs a failed nvidia-smi call and goes on. *)
Revert(m) ==
    \E stuck \in SUBSET (IF MayRefuse THEN gpusOf[m] \cap limited ELSE {}) :
        limited' = (limited \ gpusOf[m]) \cup stuck

\* Fault: the drain has no deadline.
EndDrainUnbounded(r) ==
    /\ swap[r] = "drain"
    /\ tracked = {}
    /\ SwapTo(r, "stop")
    /\ UNCHANGED <<mgrVars, coordVars, reqVars, limited>>

(* WaitForDrain: the count is zero, or drain_timeout. *)
EndDrain(r) ==
    /\ swap[r] = "drain"
    /\ SwapTo(r, IF tracked = {} THEN "stop" ELSE "kill")
    /\ UNCHANGED <<mgrVars, coordVars, reqVars, limited>>

StopOld(r) ==
    /\ swap[r] \in {"stop", "kill"}
    /\ StopBegins(r)
    /\ SwapTo(r, "stopping")
    /\ UNCHANGED <<coordVars, reqVars, limited>>

(* A stop that failed ends the swap. *)
OldStopped(r) ==
    /\ swap[r] = "stopping"
    /\ call[r].stage \in {"stopped", "failed"}
    /\ call' = [call EXCEPT ![r] = NoCall]
    /\ SwapTo(r, IF call[r].stage = "stopped" THEN "revert" ELSE "failed")
    /\ UNCHANGED <<cmd, proc, waitCh, coordVars, reqVars, limited>>

\* Fault: the limits reverted are the new model's.
RevertOldOfNew(r) ==
    /\ swap[r] = "revert"
    /\ Revert(model[r])
    /\ SwapTo(r, "starting")
    /\ UNCHANGED <<mgrVars, coordVars, reqVars>>

(* RevertModelLimits of the old model's GPUs. *)
RevertOld(r) ==
    /\ swap[r] = "revert"
    /\ Revert(current)
    /\ SwapTo(r, "starting")
    /\ UNCHANGED <<mgrVars, coordVars, reqVars>>

BeginStart(r) ==
    /\ swap[r] = "starting"
    /\ state' = "starting"
    /\ SwapTo(r, "power")
    /\ UNCHANGED <<mgrVars, current, swapping, failures, cooling, backingOff, reqVars, limited>>

(* ApplyModelLimits sets each GPU in turn and goes on after a failure.  When  *)
(* limits are required a failure ends the swap, with the others in force.     *)
ApplyLimits(r) ==
    /\ swap[r] = "power"
    /\ \E refused \in SUBSET (IF MayRefuse THEN limitedGPUs[model[r]] ELSE {}) :
        /\ limited' = limited \cup (limitedGPUs[model[r]] \ refused)
        /\ SwapTo(r, IF refused # {} /\ PowerRequired THEN "failed" ELSE "start")
    /\ UNCHANGED <<mgrVars, coordVars, reqVars>>

(* mgr.Start, in its two steps. *)
Start(r) ==
    /\ \/ swap[r] = "start" /\ Spawn(r) /\ SwapTo(r, "record")
       \/ swap[r] = "record" /\ Record(r) /\ SwapTo(r, "verify")
    /\ UNCHANGED <<coordVars, reqVars, limited>>

(* Start refuses while m.cmd is set, and fails when the binary does. *)
StartFails(r) ==
    /\ swap[r] = "start"
    /\ SwapTo(r, "undo")
    /\ UNCHANGED <<mgrVars, coordVars, reqVars, limited>>

(* The process answers /health and lists the model. *)
VerifySucceeds(r) ==
    /\ swap[r] = "verify"
    /\ cmd # None /\ proc[cmd] = "running" /\ model[cmd] = model[r]
    /\ SwapTo(r, "done")
    /\ UNCHANGED <<mgrVars, coordVars, reqVars, limited>>

(* A timeout, an early exit or a wrong model: the process is stopped. *)
VerifyFails(r) ==
    /\ swap[r] = "verify"
    /\ StopBegins(r)
    /\ SwapTo(r, "unwind")
    /\ UNCHANGED <<coordVars, reqVars, limited>>

(* The error of this stop is dropped. *)
Unwound(r) ==
    /\ swap[r] = "unwind"
    /\ call[r].stage \in {"stopped", "failed"}
    /\ call' = [call EXCEPT ![r] = NoCall]
    /\ SwapTo(r, "undo")
    /\ UNCHANGED <<cmd, proc, waitCh, coordVars, reqVars, limited>>

(* RevertModelLimits of the new model's GPUs after a failed start. *)
UndoLimits(r) ==
    /\ swap[r] = "undo"
    /\ Revert(model[r])
    /\ SwapTo(r, "failed")
    /\ UNCHANGED <<mgrVars, coordVars, reqVars>>

(* handleSwapDone with an error: the current model stays what it was. *)
SwapFailed(r) ==
    /\ swap[r] = "failed"
    /\ swapping' = FALSE
    /\ state' = "error"
    /\ failures' = failures + 1
    /\ backingOff' = (BackoffDelay(failures + 1) > 0)
    /\ SwapTo(r, "error")
    /\ UNCHANGED <<mgrVars, reqVars, limited, current, cooling>>

\* Fault: the new model is not recorded.
SwapSucceededUnrecorded(r) ==
    /\ swap[r] = "done"
    /\ swapping' = FALSE
    /\ state' = "ready"
    /\ failures' = 0
    /\ cooling' = TRUE
    /\ backingOff' = FALSE
    /\ SwapTo(r, "ok")
    /\ UNCHANGED <<mgrVars, reqVars, limited, current>>

(* handleSwapDone: the new model is current and ready. *)
SwapSucceeded(r) ==
    /\ swap[r] = "done"
    /\ swapping' = FALSE
    /\ state' = "ready"
    /\ current' = model[r]
    /\ failures' = 0
    /\ cooling' = TRUE
    /\ backingOff' = FALSE
    /\ SwapTo(r, "ok")
    /\ UNCHANGED <<mgrVars, reqVars, limited>>

-----------------------------------------------------------------------------
(* The request: EnsureModel's wait, LegacyRouter, the proxy *)

(* performSwap's result arrives on the channel, after handleSwapDone. *)
Await(r) ==
    /\ req[r] = "waiting"
    /\ swap[r] \in {"ok", "error"}
    /\ req' = [req EXCEPT ![r] = IF swap[r] = "ok" THEN "ensured" ELSE "error"]
    /\ UNCHANGED <<mgrVars, coordVars, swap, model, snap, tracked, limited>>

(* swap_wait_timeout, or the client is gone; the swap goes on. *)
WaitTimesOut(r) ==
    /\ req[r] = "waiting"
    /\ req' = [req EXCEPT ![r] = "wait_timeout"]
    /\ UNCHANGED <<mgrVars, coordVars, swap, model, snap, tracked, limited>>

(* LegacyRouter tracks the request once EnsureModel has returned. *)
Track(r) ==
    /\ req[r] = "ensured"
    /\ req' = [req EXCEPT ![r] = "tracked"]
    /\ tracked' = tracked \cup {r}
    /\ UNCHANGED <<mgrVars, coordVars, swap, model, snap, limited>>

(* The proxy connects to the one port there is, whoever listens on it. *)
Forward(r) ==
    /\ req[r] = "tracked"
    /\ Running # {}
    /\ req' = [req EXCEPT ![r] = "serving"]
    /\ UNCHANGED <<mgrVars, coordVars, swap, model, snap, tracked, limited>>

(* Route.Done: the response has ended, or no connection was made. *)
Finish(r) ==
    /\ req[r] \in {"tracked", "serving"}
    /\ req' = [req EXCEPT ![r] = "finished"]
    /\ tracked' = tracked \ {r}
    /\ UNCHANGED <<mgrVars, coordVars, swap, model, snap, limited>>

-----------------------------------------------------------------------------
(* Time *)

CooldownPasses ==
    /\ cooling
    /\ cooling' = FALSE
    /\ UNCHANGED <<mgrVars, reqVars, swap, limited, state, current, swapping, failures,
                   backingOff>>

BackoffPasses ==
    /\ backingOff
    /\ backingOff' = FALSE
    /\ UNCHANGED <<mgrVars, reqVars, swap, limited, state, current, swapping, failures,
                   cooling>>

(* The process and its manager move on without the coordinator. *)
Alone(A) == A /\ UNCHANGED <<coordVars, reqVars, swap, limited>>

ManagerMoves ==
    \/ \E p \in Procs : Alone(Exit(p)) \/ Alone(Report(p)) \/ Alone(Clear(p))
    \/ \E c \in Procs :
          Alone(StopReceives(c)) \/ Alone(StopDeadline(c)) \/ Alone(StopGivesUp(c))

(* Every request has been answered and every swap is over: the server idles.  *)
Quiet ==
    /\ \A r \in Requests : req[r] \in Answered \ {"ensured", "tracked", "serving"}
    /\ \A r \in Requests : ~Swapping(r)
    /\ UNCHANGED vars

Perform(r) ==
    \/ EndDrain(r) \/ StopOld(r) \/ OldStopped(r) \/ RevertOld(r) \/ BeginStart(r)
    \/ ApplyLimits(r) \/ Start(r) \/ StartFails(r) \/ VerifySucceeds(r) \/ VerifyFails(r)
    \/ Unwound(r) \/ UndoLimits(r) \/ SwapFailed(r) \/ SwapSucceeded(r)

Next ==
    \/ \E r \in Requests :
          \/ Receive(r) \/ HandleEnsure(r) \/ Perform(r)
          \/ Await(r) \/ WaitTimesOut(r) \/ Track(r) \/ Forward(r) \/ Finish(r)
    \/ CooldownPasses \/ BackoffPasses
    \/ ManagerMoves
    \/ Quiet

Spec == Init /\ [][Next]_vars

Killed(p) == \E c \in Procs : call[c] = [stage |-> "kill", of |-> p]

(* performSwap waits for nvidia-smi, which the code starts with a context that *)
(* never ends: nothing ends a call that hangs.                                 *)
InNvidiaSmi(r) ==
    \/ swap[r] = "revert" /\ gpusOf[current] \cap limited # {}
    \/ swap[r] = "power" /\ limitedGPUs[model[r]] # {}
    \/ swap[r] = "undo" /\ gpusOf[model[r]] \cap limited # {}

(* performSwap runs on outside nvidia-smi: the drain and the calls of Start,   *)
(* VerifyReady and Stop it makes have deadlines; the waiter runs on once its   *)
(* process has exited, which SIGKILL brings about.  Nothing else bounds the    *)
(* life of a process, and nothing is assumed of proxied requests.              *)
Fairness ==
    \A r \in Requests :
        /\ WF_vars(~InNvidiaSmi(r) /\ Perform(r))
        /\ WF_vars(Await(r) \/ WaitTimesOut(r))
        /\ WF_vars(Alone(Killed(r) /\ Exit(r)))
        /\ WF_vars(Alone(Report(r) \/ Clear(r)))
        /\ WF_vars(Alone(StopReceives(r) \/ StopDeadline(r) \/ StopGivesUp(r)))

FairSpec == Spec /\ Fairness
=============================================================================
