---------------------------- MODULE ProxyRequests ----------------------------
(***************************************************************************)
(* The life of a request outside AcquireRoute: the two proxy handlers      *)
(* (internal/httpserver/handlers_proxy.go, handlers_anthropic.go), the     *)
(* forwarder (internal/proxy/proxy.go), and the in-flight trackers         *)
(* (internal/inflight/tracker.go) that Route.Done gives a slot back to,    *)
(* with the drains that wait for them.                                     *)
(*                                                                         *)
(* The router is what the handlers see of it: it grants a route to some    *)
(* instance, at any time, or rejects.  Both handlers take the same steps   *)
(* and differ in the wording of errors only.  The calls into a tracker are *)
(* critical sections of its lock; everything between them may meet the     *)
(* steps of other requests and of the drains.                              *)
(***************************************************************************)
EXTENDS Integers, FiniteSets

CONSTANTS
    Requests,
    Instances,      \* each with a tracker of its own
    Total,          \* the tracker of all requests
    Drainers,       \* the callers of WaitForDrain
    Waits,          \* the retry-after times a rejection may carry, in ms
    None

ASSUME ProxyAssumption ==
    /\ Total \notin Instances
    /\ Waits \subseteq Nat
    /\ IsFiniteSet(Requests)

VARIABLES
    pc,         \* where each request is
    target,     \* the instance each request is routed to
    once,       \* the sync.Once of each request's slot in each tracker
    reply,      \* what a rejected request is told, by either handler
    count,      \* Tracker.count
    waiters,    \* Tracker.waiters: the drains with a channel in the list
    closed,     \* the drains whose channel has been closed
    drain,      \* where each drain is
    drains      \* the tracker it drains

reqVars     == <<pc, target, reply>>
trackerVars == <<once, count, waiters, closed>>
vars        == <<reqVars, trackerVars, drain, drains>>

Trackers == Instances \cup {Total}

(* A failed forward, a buffered body and a finished stream all lead to Done,  *)
(* which is called by the handler, by ForwardFiber and by the stream writer   *)
(* in a goroutine of its own.                                                 *)
Over == {"failed", "read", "streamed"}

HalfDone(stage) == CASE stage = "failed"   -> "half_failed"
                     [] stage = "read"     -> "half_read"
                     [] stage = "streamed" -> "half_streamed"

Halves == {"half_failed", "half_read", "half_streamed"}

Stages == {"received", "routing", "half_routed", "routed", "reading", "streaming",
           "sending", "answered", "bad_request", "rejected"} \cup Over \cup Halves

Ended == {"answered", "bad_request", "rejected"}

NoReply == [status |-> 0, retry |-> 0, wait |-> 0]

Init ==
    /\ pc = [r \in Requests |-> "received"]
    /\ target \in [Requests -> Instances]
    /\ once = [r \in Requests |-> [t \in Trackers |-> "none"]]
    /\ reply = [r \in Requests |-> NoReply]
    /\ count = [t \in Trackers |-> 0]
    /\ waiters = [t \in Trackers |-> {}]
    /\ closed = {}
    /\ drain = [d \in Drainers |-> "idle"]
    /\ drains = [d \in Drainers |-> None]

Goto(r, stage) == pc' = [pc EXCEPT ![r] = stage]

-----------------------------------------------------------------------------
(* Before the route *)

(* The body has a model the configuration knows, or the answer is 400. *)
Parse(r) ==
    /\ pc[r] = "received"
    /\ \/ Goto(r, "routing")
       \/ Goto(r, "bad_request")
    /\ UNCHANGED <<target, reply, trackerVars, drain, drains>>

(* What the routers reject with, and the milliseconds to wait they give.      *)
FixedWait == {"swap_in_progress", "no_capacity"}
TimedWait == {"backoff", "cooldown", "min_uptime"}
NoWait    == {"wait_timeout", "pinned_conflict", "insufficient", "no_rejection"}

WaitsFor(reason) ==
    IF reason \in FixedWait THEN {5000} ELSE IF reason \in TimedWait THEN Waits ELSE {0}

\* Fault: the seconds are cut off, and a short wait becomes none.
RetryAfterTruncated(wait) == wait \div 1000

(* To the nearest second, and never 0 when there is a time to wait. *)
RetryAfter(wait) ==
    LET seconds == (wait + 500) \div 1000 IN
    IF wait > 0 /\ seconds = 0 THEN 1 ELSE seconds

(* mapEnsureError, mapAnthropicError: backoff and errors are 500, all else 503. *)
ErrorReply(reason, wait) ==
    [status |-> IF reason \in {"backoff", "no_rejection"} THEN 500 ELSE 503,
     retry  |-> RetryAfter(wait), wait |-> wait]

Reject(r) ==
    /\ pc[r] = "routing"
    /\ \E reason \in FixedWait \cup TimedWait \cup NoWait : \E wait \in WaitsFor(reason) :
          reply' = [reply EXCEPT ![r] = ErrorReply(reason, wait)]
    /\ Goto(r, "rejected")
    /\ UNCHANGED <<target, trackerVars, drain, drains>>

-----------------------------------------------------------------------------
(* The tracker *)

(* Track: a slot, and a function that gives it back once. *)
Track(r, t) ==
    /\ count' = [count EXCEPT ![t] = @ + 1]
    /\ once' = [once EXCEPT ![r][t] = "armed"]
    /\ UNCHANGED <<waiters, closed>>

(* done: the first call takes one off the count, and the one that reaches     *)
(* zero closes every waiting drain's channel.                                 *)
Done(r, t) ==
    LET first == once[r][t] = "armed"
        last  == first /\ count[t] = 1
    IN
    /\ once' = [once EXCEPT ![r][t] = "fired"]
    /\ count' = [count EXCEPT ![t] = IF first /\ @ > 0 THEN @ - 1 ELSE @]
    /\ closed' = IF last THEN closed \cup waiters[t] ELSE closed
    /\ waiters' = IF last THEN [waiters EXCEPT ![t] = {}] ELSE waiters

\* Fault: a drain that finds nothing in flight at once still takes a channel.
AskToDrainAlways(d, t) ==
    /\ drain[d] = "idle"
    /\ drains' = [drains EXCEPT ![d] = t]
    /\ drain' = [drain EXCEPT ![d] = "waiting"]
    /\ waiters' = [waiters EXCEPT ![t] = @ \cup {d}]
    /\ UNCHANGED <<reqVars, once, count, closed>>

(* WaitForDrain up to its select. *)
AskToDrain(d, t) ==
    /\ drain[d] = "idle"
    /\ drains' = [drains EXCEPT ![d] = t]
    /\ IF count[t] = 0
         THEN drain' = [drain EXCEPT ![d] = "drained"] /\ UNCHANGED waiters
         ELSE /\ drain' = [drain EXCEPT ![d] = "waiting"]
              /\ waiters' = [waiters EXCEPT ![t] = @ \cup {d}]
    /\ UNCHANGED <<reqVars, once, count, closed>>

Drained(d) ==
    /\ drain[d] = "waiting"
    /\ d \in closed
    /\ drain' = [drain EXCEPT ![d] = "drained"]
    /\ UNCHANGED <<reqVars, trackerVars, drains>>

(* drain_timeout; the channel stays in the list. *)
DrainTimesOut(d) ==
    /\ drain[d] = "waiting"
    /\ drain' = [drain EXCEPT ![d] = "timed_out"]
    /\ UNCHANGED <<reqVars, trackerVars, drains>>

-----------------------------------------------------------------------------
(* The route and the proxy *)

(* routeForInstance: the instance's tracker, then that of all requests. *)
RouteGranted(r) ==
    /\ pc[r] = "routing"
    /\ Track(r, target[r])
    /\ Goto(r, "half_routed")
    /\ UNCHANGED <<target, reply, drain, drains>>

RouteComplete(r) ==
    /\ pc[r] = "half_routed"
    /\ Track(r, Total)
    /\ Goto(r, "routed")
    /\ UNCHANGED <<target, reply, drain, drains>>

(* ForwardFiber up to the response's headers.  No request can be built, or no *)
(* answer comes: an error.  An event stream is left to a writer of its own.   *)
Forward(r) ==
    /\ pc[r] = "routed"
    /\ \E stage \in {"failed", "reading", "streaming"} : Goto(r, stage)
    /\ UNCHANGED <<target, reply, trackerVars, drain, drains>>

(* The buffered response has been read, or has broken off. *)
ReadEnds(r) ==
    /\ pc[r] = "reading"
    /\ \E stage \in {"failed", "read"} : Goto(r, stage)
    /\ UNCHANGED <<target, reply, trackerVars, drain, drains>>

(* The stream has ended, broken off, or lost its client. *)
StreamEnds(r) ==
    /\ pc[r] = "streaming"
    /\ Goto(r, "streamed")
    /\ UNCHANGED <<target, reply, trackerVars, drain, drains>>

\* Fault: the handler leaves Done to the proxy, which does not call it on errors.
DoneInstanceByProxy(r) ==
    /\ pc[r] \in Over
    /\ IF pc[r] = "failed"
         THEN UNCHANGED trackerVars
         ELSE Done(r, target[r])
    /\ Goto(r, HalfDone(pc[r]))
    /\ UNCHANGED <<target, reply, drain, drains>>

(* Route.Done: the instance's slot first, then the total's. *)
DoneInstance(r) ==
    /\ pc[r] \in Over
    /\ Done(r, target[r])
    /\ Goto(r, HalfDone(pc[r]))
    /\ UNCHANGED <<target, reply, drain, drains>>

DoneTotal(r) ==
    /\ pc[r] \in Halves
    /\ Done(r, Total)
    /\ Goto(r, IF pc[r] = "half_read" THEN "sending" ELSE "answered")
    /\ UNCHANGED <<target, reply, drain, drains>>

(* The buffered body is sent after Done; an error of it makes the handler     *)
(* call Done a second time.                                                   *)
Send(r) ==
    /\ pc[r] = "sending"
    /\ \E stage \in {"answered", "failed"} : Goto(r, stage)
    /\ UNCHANGED <<target, reply, trackerVars, drain, drains>>

(* Everything has been answered and drained: the server idles. *)
Quiet ==
    /\ \A r \in Requests : pc[r] \in Ended
    /\ \A d \in Drainers : drain[d] \in {"drained", "timed_out"}
    /\ UNCHANGED vars

(* What the request's goroutine does without waiting for anyone. *)
Proceed(r) ==
    Parse(r) \/ Reject(r) \/ RouteGranted(r) \/ RouteComplete(r)
        \/ DoneInstance(r) \/ DoneTotal(r) \/ Send(r)

Next ==
    \/ \E r \in Requests : Proceed(r) \/ Forward(r) \/ ReadEnds(r) \/ StreamEnds(r)
    \/ \E d \in Drainers :
          Drained(d) \/ DrainTimesOut(d) \/ \E t \in Trackers : AskToDrain(d, t)
    \/ Quiet

Spec == Init /\ [][Next]_vars

(* The goroutines run on.  Nothing is assumed of the upstream, whose answer   *)
(* has no deadline (Forward, ReadEnds, StreamEnds).                           *)
Fairness ==
    \A r \in Requests :
        WF_vars(RouteComplete(r) \/ DoneInstance(r) \/ DoneTotal(r) \/ Send(r))

FairSpec == Spec /\ Fairness
=============================================================================
