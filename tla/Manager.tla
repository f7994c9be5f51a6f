------------------------------- MODULE Manager -------------------------------
(***************************************************************************)
(* The life of one runtime process under vllm.Manager                      *)
(* (internal/vllm/runtime.go): Start, the goroutine that waits for the     *)
(* exit, and Stop.  The module has actions and no specification of its     *)
(* own: its caller (Coordinator) conjoins them with its own steps.         *)
(*                                                                         *)
(* Stop learns of the exit from waitCh, which the waiter fills before it   *)
(* takes m.mu to clear m.cmd; Start and CurrentPID look at m.cmd.          *)
(***************************************************************************)
EXTENDS Naturals, FiniteSets

CONSTANTS
    Procs,      \* the processes that may be started, and the callers of Stop
    MayLinger,  \* whether a process may outlive SIGKILL by two seconds
    MayGarble,  \* whether copying a process's output may fail
    None

ASSUME ManagerAssumption ==
    MayLinger \in BOOLEAN /\ MayGarble \in BOOLEAN /\ None \notin Procs

VARIABLES
    cmd,        \* m.cmd, m.pid, m.waitCh and m.exitCh, set and cleared together
    proc,       \* what has become of each process and of its waiter
    waitCh,     \* the processes whose exit result lies in their channel
    call        \* each caller's Stop: its stage and the process it read

mgrVars == <<cmd, proc, waitCh, call>>

ProcStates == {"unborn", "started", "running", "exited", "reported", "cleared"}
CallStages == {"idle", "term", "kill", "stopped", "failed"}

NoCall == [stage |-> "idle", of |-> None]

(* The processes there are, recorded or not. *)
Running == {p \in Procs : proc[p] \in {"started", "running"}}

MgrInit ==
    /\ cmd = None
    /\ proc = [p \in Procs |-> "unborn"]
    /\ waitCh = {}
    /\ call = [c \in Procs |-> NoCall]

-----------------------------------------------------------------------------
(* Start *)

\* Fault: Start does not ask whether a process is there.
MayStartAlways == TRUE

MayStart == cmd = None

(* The test under m.mu and, with the lock released, cmd.Start. *)
Spawn(p) ==
    /\ MayStart
    /\ proc[p] = "unborn"
    /\ proc' = [proc EXCEPT ![p] = "started"]
    /\ UNCHANGED <<cmd, waitCh, call>>

(* The fields are set under m.mu, whatever they hold, and the waiter started. *)
(* A process that has exited by then is as one that exits right after.        *)
Record(p) ==
    /\ proc[p] = "started"
    /\ cmd' = p
    /\ proc' = [proc EXCEPT ![p] = "running"]
    /\ UNCHANGED <<waitCh, call>>

-----------------------------------------------------------------------------
(* The waiter goroutine *)

(* The process exits, on its own or because it was told to. *)
Exit(p) ==
    /\ proc[p] = "running"
    /\ proc' = [proc EXCEPT ![p] = "exited"]
    /\ UNCHANGED <<cmd, waitCh, call>>

(* waitCh <- err, on a channel with room for it. *)
Report(p) ==
    /\ proc[p] = "exited"
    /\ proc' = [proc EXCEPT ![p] = "reported"]
    /\ waitCh' = waitCh \cup {p}
    /\ UNCHANGED <<cmd, call>>

(* The fields are cleared under m.mu, unless a newer process has them. *)
Clear(p) ==
    /\ proc[p] = "reported"
    /\ proc' = [proc EXCEPT ![p] = "cleared"]
    /\ cmd' = IF cmd = p THEN None ELSE cmd
    /\ UNCHANGED <<waitCh, call>>

-----------------------------------------------------------------------------
(* Stop, called by c *)

\* Fault: Stop does not ask whether a process is there.
StopBeginsUnchecked(c) ==
    /\ call[c].stage = "idle"
    /\ call' = [call EXCEPT ![c] = [stage |-> "term", of |-> cmd]]
    /\ UNCHANGED <<cmd, proc, waitCh>>

(* No process: nothing to do.  Otherwise SIGTERM to the group read under m.mu. *)
StopBegins(c) ==
    /\ call[c].stage = "idle"
    /\ call' = [call EXCEPT ![c] = IF cmd = None THEN [stage |-> "stopped", of |-> None]
                                   ELSE [stage |-> "term", of |-> cmd]]
    /\ UNCHANGED <<cmd, proc, waitCh>>

(* The exit result arrives before the deadline, or after SIGKILL, when it is  *)
(* dropped.  Stop passes on an error that is not the exit status of the       *)
(* process: that its output could not be copied to the tails or to the log.   *)
StopReceives(c) ==
    /\ call[c].stage \in {"term", "kill"}
    /\ call[c].of \in waitCh
    /\ waitCh' = waitCh \ {call[c].of}
    /\ \/ call' = [call EXCEPT ![c].stage = "stopped"]
       \/ MayGarble /\ call[c].stage = "term" /\ call' = [call EXCEPT ![c].stage = "failed"]
    /\ UNCHANGED <<cmd, proc>>

(* shutdown_timeout: SIGKILL to the process group. *)
StopDeadline(c) ==
    /\ call[c].stage = "term"
    /\ call' = [call EXCEPT ![c].stage = "kill"]
    /\ UNCHANGED <<cmd, proc, waitCh>>

(* Two seconds after SIGKILL the process is still there. *)
StopGivesUp(c) ==
    /\ MayLinger
    /\ call[c].stage = "kill"
    /\ call[c].of \notin waitCh
    /\ call' = [call EXCEPT ![c].stage = "failed"]
    /\ UNCHANGED <<cmd, proc, waitCh>>
=============================================================================
