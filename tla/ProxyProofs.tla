----------------------------- MODULE ProxyProofs -----------------------------
(***************************************************************************)
(* Theorems about the in-flight accounting, for every number of requests,  *)
(* instances and drains.                                                   *)
(***************************************************************************)
EXTENDS ProxyProperties, FiniteSetTheorems, TLAPS

-----------------------------------------------------------------------------
(* Counting the holders of a slot *)

(* The holders of a tracker's slots are finitely many.                        *)
LEMMA HoldersFinite ==
    ASSUME NEW t PROVE IsFiniteSet(Holders(t)) /\ Cardinality(Holders(t)) \in Nat
<1>1. Holders(t) \subseteq Requests
  BY DEF Holders
<1>2. IsFiniteSet(Requests)
  BY ProxyAssumption
<1>3. IsFiniteSet(Holders(t))
  BY <1>1, <1>2, FS_Subset
<1> QED
  BY <1>3, FS_CardinalityType

(* Track makes its request a holder and counts it.                            *)
LEMMA TrackHolders ==
    ASSUME ProxyInd, NEW r \in Requests, NEW t \in Trackers,
           once[r][t] # "armed", Track(r, t)
    PROVE  /\ Holders(t)' = Holders(t) \cup {r}
           /\ \A u \in Trackers \ {t} : Holders(u)' = Holders(u)
           /\ CountIsHolders'
<1> USE DEF ProxyInd
<1>1. Holders(t)' = Holders(t) \cup {r}
  BY DEF Holders, Track, ProxyTypeOK
<1>2. \A u \in Trackers \ {t} : Holders(u)' = Holders(u)
  BY DEF Holders, Track, ProxyTypeOK
<1>3. Cardinality(Holders(t) \cup {r}) = Cardinality(Holders(t)) + 1
  <2>1. r \notin Holders(t)
    BY DEF Holders
  <2> QED
    BY <2>1, HoldersFinite, FS_AddElement
<1>4. CountIsHolders'
  <2> SUFFICES ASSUME NEW u \in Trackers PROVE count'[u] = Cardinality(Holders(u)')
    BY DEF CountIsHolders
  <2>1. CASE u = t
    BY <2>1, <1>1, <1>3 DEF Track, ProxyTypeOK, CountIsHolders
  <2>2. CASE u # t
    BY <2>2, <1>2 DEF Track, ProxyTypeOK, CountIsHolders
  <2> QED
    BY <2>1, <2>2
<1> QED
  BY <1>1, <1>2, <1>4

(* The first call of a done function takes the holder and one off the count,  *)
(* which was not zero; a second call does nothing to either.                  *)
LEMMA DoneHolders ==
    ASSUME ProxyInd, NEW r \in Requests, NEW t \in Trackers, Done(r, t)
    PROVE  /\ Holders(t)' = Holders(t) \ {r}
           /\ \A u \in Trackers \ {t} : Holders(u)' = Holders(u)
           /\ CountIsHolders'
           /\ once[r][t] = "armed" => count[t] > 0
<1> USE DEF ProxyInd
<1>1. Holders(t)' = Holders(t) \ {r}
  BY DEF Holders, Done, ProxyTypeOK
<1>2. \A u \in Trackers \ {t} : Holders(u)' = Holders(u)
  BY DEF Holders, Done, ProxyTypeOK
<1>3. count[t] = Cardinality(Holders(t)) /\ IsFiniteSet(Holders(t)) /\ count[t] \in Nat
  BY HoldersFinite DEF CountIsHolders
<1>4. ASSUME once[r][t] = "armed" PROVE count[t] > 0 /\ Cardinality(Holders(t) \ {r}) = count[t] - 1
  <2>1. r \in Holders(t)
    BY <1>4 DEF Holders
  <2>2. Cardinality(Holders(t) \ {r}) = Cardinality(Holders(t)) - 1
    BY <2>1, <1>3, FS_RemoveElement
  <2>3. Holders(t) # {}
    BY <2>1
  <2>4. Cardinality(Holders(t)) # 0
    BY <2>3, <1>3, FS_EmptySet
  <2> QED
    BY <1>3, <2>2, <2>4
<1>5. ASSUME once[r][t] # "armed" PROVE Holders(t) \ {r} = Holders(t)
  BY <1>5 DEF Holders
<1>6. count'[t] = Cardinality(Holders(t)')
  BY <1>1, <1>3, <1>4, <1>5 DEF Done, ProxyTypeOK
<1>7. CountIsHolders'
  <2> SUFFICES ASSUME NEW u \in Trackers PROVE count'[u] = Cardinality(Holders(u)')
    BY DEF CountIsHolders
  <2>1. CASE u = t
    BY <2>1, <1>6
  <2>2. CASE u # t
    BY <2>2, <1>2 DEF Done, ProxyTypeOK, CountIsHolders
  <2> QED
    BY <2>1, <2>2
<1> QED
  BY <1>1, <1>2, <1>4, <1>7

-----------------------------------------------------------------------------
(* The inductive invariant *)

(* A server that has just started has no request in flight.                   *)
LEMMA InitProxy == Init => ProxyInd
<1> SUFFICES ASSUME Init PROVE ProxyInd
  OBVIOUS
<1>1. ProxyTypeOK
  BY DEF Init, ProxyTypeOK, Stages, Over, Halves
<1>2. CountIsHolders
  <2>1. \A t \in Trackers : Holders(t) = {}
    BY DEF Init, Holders
  <2> QED
    BY <2>1, FS_EmptySet DEF Init, CountIsHolders
<1>3. SlotInv /\ DrainInv /\ NoLostWakeup
  BY DEF Init, SlotInv, SlotsOf, DrainInv, NoLostWakeup, Over, Halves, Ended
<1> QED
  BY <1>1, <1>2, <1>3 DEF ProxyInd

(* What a request does between its calls of the trackers.                     *)
LEMMA QuietStep ==
    ASSUME ProxyInd, NEW r \in Requests,
           Parse(r) \/ Reject(r) \/ Forward(r) \/ ReadEnds(r) \/ StreamEnds(r) \/ Send(r)
    PROVE  ProxyInd'
<1> USE DEF ProxyInd
<1>1. UNCHANGED <<target, trackerVars, drain, drains>> /\ \E stage \in Stages : Goto(r, stage)
  BY DEF Parse, Reject, Forward, ReadEnds, StreamEnds, Send, Stages, Over, Halves
<1>2. ProxyTypeOK'
  BY <1>1 DEF ProxyTypeOK, Goto, trackerVars
<1>3. CountIsHolders' /\ DrainInv' /\ NoLostWakeup'
  BY <1>1 DEF CountIsHolders, Holders, DrainInv, NoLostWakeup, trackerVars
<1>4. \A q \in Requests : SlotsOf(q)' = SlotsOf(q) /\ target'[q] = target[q]
  BY <1>1 DEF SlotsOf, trackerVars
<1>5. SlotInv'
  <2> SUFFICES ASSUME NEW q \in Requests
      PROVE /\ pc'[q] \in {"received", "routing", "sending"} \cup Ended => SlotsOf(q)' = {}
            /\ pc'[q] = "half_routed" => SlotsOf(q)' = {target'[q]}
            /\ pc'[q] \in {"routed", "reading", "streaming"} => SlotsOf(q)' = {target'[q], Total}
            /\ pc'[q] \in Over => SlotsOf(q)' \subseteq {target'[q], Total}
            /\ pc'[q] \in Halves => SlotsOf(q)' \subseteq {Total}
    BY DEF SlotInv
  <2>1. CASE q # r
    BY <2>1, <1>1, <1>4 DEF SlotInv, Goto, ProxyTypeOK
  <2>2. CASE q = r
    BY <2>2, <1>4 DEF SlotInv, Goto, ProxyTypeOK, Parse, Reject, Forward, ReadEnds, StreamEnds,
       Send, Over, Halves, Ended
  <2> QED
    BY <2>1, <2>2
<1> QED
  BY <1>2, <1>3, <1>5

(* A route takes its two slots one after the other.                           *)
LEMMA TrackStep ==
    ASSUME ProxyInd, NEW r \in Requests, RouteGranted(r) \/ RouteComplete(r)
    PROVE  ProxyInd'
<1> USE DEF ProxyInd
<1> DEFINE t == IF pc[r] = "routing" THEN target[r] ELSE Total
<1>1. /\ t \in Trackers /\ Track(r, t)
      /\ pc' = [pc EXCEPT ![r] = IF pc[r] = "routing" THEN "half_routed" ELSE "routed"]
      /\ pc[r] \in {"routing", "half_routed"}
      /\ UNCHANGED <<target, reply, drain, drains>>
  BY DEF RouteGranted, RouteComplete, Goto, Trackers, ProxyTypeOK
<1>2. once[r][t] # "armed" /\ target[r] # Total
  BY <1>1, ProxyAssumption DEF SlotInv, SlotsOf, ProxyTypeOK
<1>3. CountIsHolders' /\ \A u \in Trackers : u # t => Holders(u)' = Holders(u)
  <2> HIDE DEF t
  <2> QED
    BY <1>1, <1>2, TrackHolders
<1>4. /\ once' = [once EXCEPT ![r][t] = "armed"]
      /\ count' = [count EXCEPT ![t] = @ + 1]
      /\ UNCHANGED <<waiters, closed>>
  BY <1>1 DEF Track
<1>5. ProxyTypeOK'
  <2> HIDE DEF t
  <2> QED
    BY <1>1, <1>4 DEF ProxyTypeOK, Stages, Over, Halves
<1>6. SlotsOf(r)' = SlotsOf(r) \cup {t} /\ \A q \in Requests : q # r => SlotsOf(q)' = SlotsOf(q)
  <2> HIDE DEF t
  <2> QED
    BY <1>1, <1>4 DEF SlotsOf, ProxyTypeOK
<1>7. SlotInv'
  BY <1>1, <1>6 DEF SlotInv, ProxyTypeOK, Over, Halves, Ended
<1>8. DrainInv'
  BY <1>1, <1>4 DEF DrainInv
<1>9. NoLostWakeup'
  <2> HIDE DEF t
  <2> QED
    BY <1>1, <1>4 DEF NoLostWakeup, DrainInv, ProxyTypeOK
<1> QED
  BY <1>3, <1>5, <1>7, <1>8, <1>9

(* What Done does to the drains: the call that empties the tracker closes the *)
(* channels of all that wait, and any other call leaves the tracker with      *)
(* requests in flight.                                                        *)
LEMMA DoneDrains ==
    ASSUME ProxyInd, NEW r \in Requests, NEW t \in Trackers, Done(r, t),
           UNCHANGED <<drain, drains>>
    PROVE  DrainInv' /\ NoLostWakeup'
<1> USE DEF ProxyInd
<1>1. once[r][t] = "armed" => count[t] > 0
  BY DoneHolders
<1>2. DrainInv'
  BY DEF Done, DrainInv, ProxyTypeOK
<1>3. NoLostWakeup'
  <2> SUFFICES ASSUME NEW d \in Drainers, drain[d] = "waiting", d \notin closed'
               PROVE  d \in waiters'[drains[d]] /\ count'[drains[d]] > 0
    BY DEF NoLostWakeup
  <2>1. /\ d \notin closed /\ drains[d] \in Trackers
        /\ d \in waiters[drains[d]] /\ count[drains[d]] > 0 /\ count[drains[d]] \in Nat
    BY DEF Done, NoLostWakeup, DrainInv, ProxyTypeOK
  <2>2. CASE drains[d] # t
    BY <2>1, <2>2 DEF Done, ProxyTypeOK
  <2>3. CASE drains[d] = t
    BY <2>1, <2>3 DEF Done, ProxyTypeOK
  <2> QED
    BY <2>2, <2>3
<1> QED
  BY <1>2, <1>3

(* Done gives the two slots back one after the other.                         *)
LEMMA DoneStep ==
    ASSUME ProxyInd, NEW r \in Requests, DoneInstance(r) \/ DoneTotal(r)
    PROVE  ProxyInd'
<1> USE DEF ProxyInd
<1> DEFINE t == IF pc[r] \in Over THEN target[r] ELSE Total
           stage == IF pc[r] \in Over THEN HalfDone(pc[r])
                    ELSE IF pc[r] = "half_read" THEN "sending" ELSE "answered"
<1>1. /\ t \in Trackers /\ Done(r, t)
      /\ pc' = [pc EXCEPT ![r] = stage]
      /\ pc[r] \in Over \cup Halves /\ Over \cap Halves = {}
      /\ pc[r] \in Over => stage \in Halves
      /\ UNCHANGED <<target, reply, drain, drains>>
  BY DEF DoneInstance, DoneTotal, Goto, Trackers, ProxyTypeOK, Over, Halves, HalfDone
<1>2. CountIsHolders' /\ DrainInv' /\ NoLostWakeup'
  <2> HIDE DEF t, stage
  <2> QED
    BY <1>1, DoneHolders, DoneDrains
<1>3. /\ once' = [once EXCEPT ![r][t] = "fired"]
      /\ waiters' \in [Trackers -> SUBSET Drainers] /\ closed' \subseteq Drainers
      /\ count' \in [Trackers -> Nat]
  <2> HIDE DEF t, stage
  <2> QED
    BY <1>1 DEF Done, ProxyTypeOK
<1>4. ProxyTypeOK'
  <2>1. stage \in Stages
    BY <1>1 DEF Stages, Over, Halves
  <2> HIDE DEF t, stage
  <2> QED
    BY <1>1, <1>3, <2>1 DEF ProxyTypeOK
<1>5. SlotsOf(r)' = SlotsOf(r) \ {t} /\ \A q \in Requests : q # r => SlotsOf(q)' = SlotsOf(q)
  <2> HIDE DEF t, stage
  <2> QED
    BY <1>1, <1>3 DEF SlotsOf, ProxyTypeOK
<1>6. SlotInv'
  BY <1>1, <1>5 DEF SlotInv, ProxyTypeOK, Over, Halves, Ended, HalfDone
<1> QED
  BY <1>2, <1>4, <1>6

(* WaitForDrain's own steps.                                                  *)
LEMMA DrainStep ==
    ASSUME ProxyInd, NEW d \in Drainers,
           Drained(d) \/ DrainTimesOut(d) \/ \E t \in Trackers : AskToDrain(d, t)
    PROVE  ProxyInd'
<1> USE DEF ProxyInd
<1>1. UNCHANGED <<reqVars, once, count, closed>>
  BY DEF Drained, DrainTimesOut, AskToDrain, trackerVars
<1>2. CountIsHolders' /\ SlotInv'
  BY <1>1 DEF CountIsHolders, Holders, SlotInv, SlotsOf, reqVars
<1>3. CASE \E t \in Trackers : AskToDrain(d, t)
  <2>1. PICK t \in Trackers : AskToDrain(d, t)
    BY <1>3
  <2>2. ProxyTypeOK'
    <3>1. waiters' \in [Trackers -> SUBSET Drainers]
      BY <2>1 DEF AskToDrain, ProxyTypeOK
    <3>2. drain' \in [Drainers -> {"idle", "waiting", "drained", "timed_out"}]
      BY <2>1 DEF AskToDrain, ProxyTypeOK
    <3>3. drains' \in [Drainers -> Trackers \cup {None}]
      BY <2>1 DEF AskToDrain, ProxyTypeOK
    <3> QED
      BY <1>1, <3>1, <3>2, <3>3 DEF ProxyTypeOK, reqVars
  <2>3. DrainInv'
    BY <1>1, <2>1 DEF AskToDrain, ProxyTypeOK, DrainInv
  <2>4. NoLostWakeup'
    BY <1>1, <2>1 DEF AskToDrain, ProxyTypeOK, DrainInv, NoLostWakeup, CountIsHolders
  <2> QED
    BY <1>2, <2>2, <2>3, <2>4
<1>4. CASE Drained(d) \/ DrainTimesOut(d)
  <2>1. UNCHANGED <<waiters, drains>> /\ drain[d] = "waiting"
        /\ drain' \in [Drainers -> {"idle", "waiting", "drained", "timed_out"}]
        /\ drain'[d] \in {"drained", "timed_out"}
        /\ \A e \in Drainers : e # d => drain'[e] = drain[e]
    BY <1>4 DEF Drained, DrainTimesOut, ProxyTypeOK, trackerVars
  <2>2. ProxyTypeOK'
    BY <1>1, <2>1 DEF ProxyTypeOK, reqVars
  <2>3. DrainInv' /\ NoLostWakeup'
    BY <1>1, <2>1 DEF DrainInv, NoLostWakeup
  <2> QED
    BY <1>2, <2>2, <2>3
<1> QED
  BY <1>3, <1>4

(* No step breaks the invariant.                                              *)
LEMMA NextProxy == ProxyInd /\ [Next]_vars => ProxyInd'
<1> SUFFICES ASSUME ProxyInd, [Next]_vars PROVE ProxyInd'
  OBVIOUS
<1>1. ASSUME NEW r \in Requests, Proceed(r) \/ Forward(r) \/ ReadEnds(r) \/ StreamEnds(r)
      PROVE  ProxyInd'
  BY <1>1, QuietStep, TrackStep, DoneStep DEF Proceed
<1>2. ASSUME NEW d \in Drainers,
             Drained(d) \/ DrainTimesOut(d) \/ \E t \in Trackers : AskToDrain(d, t)
      PROVE  ProxyInd'
  BY <1>2, DrainStep
<1>3. CASE UNCHANGED vars
  BY <1>3 DEF vars, reqVars, trackerVars, ProxyInd, ProxyTypeOK, CountIsHolders, Holders,
     SlotInv, SlotsOf, DrainInv, NoLostWakeup
<1> QED
  BY <1>1, <1>2, <1>3 DEF Next, Quiet

-----------------------------------------------------------------------------
(* Theorems *)

(* The invariant holds in every reachable state; in particular a tracker's    *)
(* counter is the number of its holders, so the clamp at zero has nothing to  *)
(* do.                                                                        *)
THEOREM ProxyInductive == Spec => []ProxyInd
<1>1. Init => ProxyInd
  BY InitProxy
<1>2. ProxyInd /\ [Next]_vars => ProxyInd'
  BY NextProxy
<1> QED
  BY <1>1, <1>2, PTL DEF Spec

(* Every path of a response gives both slots back, once each, before the      *)
(* request is over, and a request that is proxied holds both.                 *)
THEOREM SlotsAreReturned == Spec => []SlotsReturned
<1>1. ProxyInd => SlotsReturned
  BY DEF ProxyInd, SlotInv, SlotsOf, SlotsReturned, Ended
<1> QED
  BY <1>1, ProxyInductive, PTL

(* A drain that waits on an open channel is in the list, and a request is     *)
(* left that will close it.                                                   *)
THEOREM WakeupsArrive == Spec => []NoLostWakeup
<1>1. ProxyInd => NoLostWakeup
  BY DEF ProxyInd
<1> QED
  BY <1>1, ProxyInductive, PTL

-----------------------------------------------------------------------------
(* What a rejected request is told *)

(* Rounding to the nearest second, and up to one.                             *)
LEMMA RetryAfterFacts ==
    ASSUME NEW wait \in Nat
    PROVE  /\ RetryAfter(wait) \in Nat
           /\ RetryAfter(wait) = 0 <=> wait = 0
           /\ 1000 * RetryAfter(wait) >= wait - 500
           /\ RetryAfter(wait) # 1 => 1000 * RetryAfter(wait) <= wait + 500
<1> DEFINE seconds == (wait + 500) \div 1000
<1>1. seconds \in Nat /\ 1000 * seconds <= wait + 500 /\ wait + 500 < 1000 * seconds + 1000
  OBVIOUS
<1>2. RetryAfter(wait) = IF wait > 0 /\ seconds = 0 THEN 1 ELSE seconds
  BY DEF RetryAfter
<1> HIDE DEF seconds
<1> QED
  BY <1>1, <1>2

HintInv ==
    /\ reply \in [Requests -> [status : Nat, retry : Nat, wait : Nat]]
    /\ RetryHintSane

(* A reply is written once, by the rejection itself.                          *)
LEMMA HintStep ==
    ASSUME ProxyTypeOK, HintInv, [Next]_vars
    PROVE  HintInv'
<1> USE DEF ProxyTypeOK, HintInv
<1>1. ASSUME NEW r \in Requests, Reject(r) PROVE HintInv'
  <2>1. PICK reason \in FixedWait \cup TimedWait \cup NoWait :
           \E wait \in WaitsFor(reason) :
              reply' = [reply EXCEPT ![r] = ErrorReply(reason, wait)]
    BY <1>1 DEF Reject
  <2>2. PICK wait \in Nat : reply' = [reply EXCEPT ![r] = ErrorReply(reason, wait)]
    <3>1. WaitsFor(reason) \subseteq Nat
      BY ProxyAssumption DEF WaitsFor
    <3> QED
      BY <2>1, <3>1
  <2>3. pc' = [pc EXCEPT ![r] = "rejected"]
    BY <1>1 DEF Reject, Goto
  <2> DEFINE retry == RetryAfter(wait)
  <2>4. /\ retry \in Nat /\ (retry = 0 <=> wait = 0)
        /\ 1000 * retry >= wait - 500
        /\ retry # 1 => 1000 * retry <= wait + 500
    BY RetryAfterFacts
  <2> DEFINE status == IF reason \in {"backoff", "no_rejection"} THEN 500 ELSE 503
  <2>5. reply' = [reply EXCEPT ![r] = [status |-> status, retry |-> retry, wait |-> wait]]
    BY <2>2 DEF ErrorReply
  <2>6. status \in Nat
    OBVIOUS
  <2> HIDE DEF retry, status
  <2> DEFINE told == [status |-> status, retry |-> retry, wait |-> wait]
  <2>7. told \in [status : Nat, retry : Nat, wait : Nat] /\ told.retry = retry /\ told.wait = wait
    BY <2>4, <2>6
  <2>8. reply' \in [Requests -> [status : Nat, retry : Nat, wait : Nat]]
    BY <2>5, <2>7
  <2>9. RetryHintSane'
    <3> SUFFICES ASSUME NEW q \in Requests, pc'[q] = "rejected"
                 PROVE  /\ reply'[q].retry = 0 <=> reply'[q].wait = 0
                        /\ 1000 * reply'[q].retry >= reply'[q].wait - 500
                        /\ reply'[q].retry # 1 =>
                              1000 * reply'[q].retry <= reply'[q].wait + 500
      BY DEF RetryHintSane
    <3>1. CASE q = r
      <4>1. reply'[q].retry = retry /\ reply'[q].wait = wait
        BY <2>5, <2>7, <3>1
      <4> QED
        BY <2>4, <4>1
    <3>2. CASE q # r
      BY <2>3, <2>5, <3>2 DEF RetryHintSane
    <3> QED
      BY <3>1, <3>2
  <2> QED
    BY <2>8, <2>9
<1>2. ASSUME UNCHANGED reply, \A q \in Requests : pc'[q] = "rejected" => pc[q] = "rejected"
      PROVE  HintInv'
  BY <1>2 DEF RetryHintSane
<1>3. ASSUME NEW r \in Requests,
             Parse(r) \/ RouteGranted(r) \/ RouteComplete(r) \/ DoneInstance(r)
               \/ DoneTotal(r) \/ Send(r) \/ Forward(r) \/ ReadEnds(r) \/ StreamEnds(r)
      PROVE  UNCHANGED reply /\ \E stage \in Stages \ {"rejected"} : Goto(r, stage)
  BY <1>3 DEF Parse, RouteGranted, RouteComplete, DoneInstance, DoneTotal, Send, Forward,
     ReadEnds, StreamEnds, Stages, Over, Halves, HalfDone
<1>4. ASSUME NEW d \in Drainers,
             Drained(d) \/ DrainTimesOut(d) \/ \E t \in Trackers : AskToDrain(d, t)
      PROVE  UNCHANGED reqVars
  BY <1>4 DEF Drained, DrainTimesOut, AskToDrain
<1> QED
  BY <1>1, <1>2, <1>3, <1>4 DEF Next, Proceed, Quiet, Goto, vars, reqVars

(* A rejection that knows when to come back says so in whole seconds, at most *)
(* half a second early and never "at once".                                   *)
THEOREM HintsAreSane == Spec => []RetryHintSane
<1>1. Init => HintInv
  BY DEF Init, HintInv, RetryHintSane, NoReply
<1>2. ProxyInd => ProxyTypeOK
  BY DEF ProxyInd
<1>3. HintInv => RetryHintSane
  BY DEF HintInv
<1> QED
  BY <1>1, <1>2, <1>3, HintStep, ProxyInductive, PTL DEF Spec

-----------------------------------------------------------------------------
(* Each tracker implements the abstract one *)

(* A server that has just started is an abstract tracker nobody has entered.  *)
LEMMA InitRefines ==
    ASSUME Init, NEW t \in Trackers PROVE Abstract(t)!Init
<1>1. Holders(t) = {} /\ drainOf(t) = [d \in Drainers |-> "idle"]
  BY DEF Init, Holders, drainOf
<1> QED
  BY <1>1 DEF Abstract!Init

(* A new slot in a tracker is an Enter of it, and nothing to the others.      *)
LEMMA TrackRefines ==
    ASSUME ProxyInd, NEW r \in Requests, NEW u \in Trackers, NEW t \in Trackers,
           once[r][u] # "armed", Track(r, u), UNCHANGED <<drain, drains>>
    PROVE  [Abstract(t)!Next]_(Abstract(t)!vars)
<1>1. drainOf(t)' = drainOf(t)
  BY DEF Track, drainOf
<1>2. Holders(u)' = Holders(u) \cup {r} /\ \A v \in Trackers \ {u} : Holders(v)' = Holders(v)
  BY TrackHolders
<1>3. r \notin Holders(u)
  BY DEF Holders
<1>4. CASE t = u
  BY <1>1, <1>2, <1>3, <1>4 DEF Abstract!Next, Abstract!Enter
<1>5. CASE t # u
  BY <1>1, <1>2, <1>5 DEF Abstract!vars
<1> QED
  BY <1>4, <1>5

(* The first call of done is a Leave; a second one is nothing.  Whoever waits *)
(* when the last one leaves is told, and nobody else.                         *)
LEMMA DoneRefines ==
    ASSUME ProxyInd, NEW r \in Requests, NEW u \in Trackers, NEW t \in Trackers,
           Done(r, u), UNCHANGED <<drain, drains>>
    PROVE  [Abstract(t)!Next]_(Abstract(t)!vars)
<1> USE DEF ProxyInd
<1>1. /\ Holders(u)' = Holders(u) \ {r}
      /\ \A v \in Trackers \ {u} : Holders(v)' = Holders(v)
      /\ CountIsHolders'
  BY DoneHolders
<1>2. CASE t # u
  <2>1. \A d \in Drainers : drains[d] = t => (d \in closed' <=> d \in closed)
    BY <1>2 DEF Done, DrainInv, ProxyTypeOK
  <2>2. drainOf(t)' = drainOf(t)
    BY <2>1 DEF drainOf
  <2> QED
    BY <1>1, <1>2, <2>2 DEF Abstract!vars
<1>3. CASE t = u /\ once[r][u] # "armed"
  <2>1. drainOf(t)' = drainOf(t)
    BY <1>3 DEF Done, drainOf
  <2>2. Holders(t)' = Holders(t)
    BY <1>1, <1>3 DEF Holders
  <2> QED
    BY <2>1, <2>2 DEF Abstract!vars
<1>4. CASE t = u /\ once[r][u] = "armed"
  <2>1. r \in Holders(t) /\ Holders(t)' = Holders(t) \ {r}
    BY <1>1, <1>4 DEF Holders
  <2>2. Holders(t)' = {} <=> count[t] = 1
    <3>1. count'[t] = Cardinality(Holders(t)') /\ IsFiniteSet(Holders(t)')
      <4>1. IsFiniteSet(Holders(t) \ {r})
        BY HoldersFinite, FS_Subset
      <4> QED
        BY <1>1, <2>1, <4>1 DEF CountIsHolders
    <3>2. count'[t] = count[t] - 1 /\ count[t] \in Nat
      BY <1>4, DoneHolders DEF Done, ProxyTypeOK
    <3>3. Holders(t)' = {} <=> count'[t] = 0
      BY <3>1, FS_EmptySet
    <3> QED
      BY <3>2, <3>3
  <2>3. closed' = IF Holders(t)' = {} THEN closed \cup waiters[t] ELSE closed
    BY <1>4, <2>2 DEF Done
  <2>4. ASSUME NEW d \in Drainers
        PROVE  drainOf(t)'[d] = IF Holders(t)' = {} /\ drainOf(t)[d] = "waiting"
                                  THEN "empty" ELSE drainOf(t)[d]
    <3>1. drain[d] = "waiting" /\ drains[d] = t /\ d \notin closed => d \in waiters[t]
      BY DEF NoLostWakeup
    <3> QED
      BY <2>3, <3>1 DEF drainOf, ProxyTypeOK
  <2>5. drainOf(t)' = [d \in Drainers |->
            IF Holders(t)' = {} /\ drainOf(t)[d] = "waiting" THEN "empty" ELSE drainOf(t)[d]]
    BY <2>4 DEF drainOf
  <2> QED
    BY <2>1, <2>5 DEF Abstract!Next, Abstract!Leave
<1> QED
  BY <1>2, <1>3, <1>4

(* The steps of a drain are Ask, Learn and GiveUp of the tracker it drains.   *)
LEMMA DrainRefines ==
    ASSUME ProxyInd, NEW d \in Drainers, NEW t \in Trackers,
           Drained(d) \/ DrainTimesOut(d) \/ \E u \in Trackers : AskToDrain(d, u)
    PROVE  [Abstract(t)!Next]_(Abstract(t)!vars)
<1> USE DEF ProxyInd
<1>1. Holders(t)' = Holders(t)
  BY DEF Drained, DrainTimesOut, AskToDrain, Holders, trackerVars
<1>2. ASSUME NEW u \in Trackers, AskToDrain(d, u) PROVE [Abstract(t)!Next]_(Abstract(t)!vars)
  <2>1. Holders(t) = {} <=> count[t] = 0
    BY HoldersFinite, FS_EmptySet DEF CountIsHolders
  <2>2. drainOf(t)[d] = "idle" /\ d \notin closed /\ closed' = closed
    BY <1>2 DEF AskToDrain, drainOf, DrainInv
  <2>3. CASE t # u
    <3>1. drainOf(t)' = drainOf(t)
      BY <1>2, <2>2, <2>3 DEF AskToDrain, drainOf, ProxyTypeOK
    <3> QED
      BY <1>1, <3>1 DEF Abstract!vars
  <2>4. CASE t = u
    <3>1. drainOf(t)' = [drainOf(t) EXCEPT ![d] = IF Holders(t) = {} THEN "drained" ELSE "waiting"]
      <4>1. /\ drains' = [drains EXCEPT ![d] = t]
            /\ drain' = [drain EXCEPT ![d] = IF Holders(t) = {} THEN "drained" ELSE "waiting"]
        BY <1>2, <2>1, <2>4 DEF AskToDrain
      <4>2. drains'[d] = t /\ drain'[d] = IF Holders(t) = {} THEN "drained" ELSE "waiting"
        BY <4>1 DEF ProxyTypeOK
      <4>3. ASSUME NEW e \in Drainers, e # d PROVE drains'[e] = drains[e] /\ drain'[e] = drain[e]
        BY <4>1, <4>3 DEF ProxyTypeOK
      <4>4. \A e \in Drainers : drainOf(t)'[e] =
              IF e = d THEN IF Holders(t) = {} THEN "drained" ELSE "waiting" ELSE drainOf(t)[e]
        BY <2>2, <4>2, <4>3 DEF drainOf
      <4> QED
        BY <4>4 DEF drainOf
    <3>2. Abstract(t)!Ask(d)
      BY <1>1, <2>2, <3>1 DEF Abstract!Ask
    <3> QED
      BY <3>2 DEF Abstract!Next
  <2> QED
    BY <2>3, <2>4
<1>3. CASE Drained(d) \/ DrainTimesOut(d)
  <2>1. /\ UNCHANGED <<closed, drains>> /\ drain[d] = "waiting"
        /\ \/ drain' = [drain EXCEPT ![d] = "drained"] /\ d \in closed
           \/ drain' = [drain EXCEPT ![d] = "timed_out"]
    BY <1>3 DEF Drained, DrainTimesOut, trackerVars
  <2>2. CASE drains[d] # t
    <3>1. drainOf(t)' = drainOf(t)
      BY <2>1, <2>2 DEF drainOf, ProxyTypeOK
    <3> QED
      BY <1>1, <3>1 DEF Abstract!vars
  <2>3. CASE drains[d] = t /\ drain' = [drain EXCEPT ![d] = "drained"] /\ d \in closed
    <3>1. drainOf(t)[d] = "empty" /\ drainOf(t)' = [drainOf(t) EXCEPT ![d] = "drained"]
      BY <2>1, <2>3 DEF drainOf, ProxyTypeOK
    <3> QED
      BY <1>1, <3>1 DEF Abstract!Next, Abstract!Learn
  <2>4. CASE drains[d] = t /\ drain' = [drain EXCEPT ![d] = "timed_out"]
    <3>1. /\ drainOf(t)[d] \in {"waiting", "empty"}
          /\ drainOf(t)' = [drainOf(t) EXCEPT ![d] = "timed_out"]
      BY <2>1, <2>4 DEF drainOf, ProxyTypeOK
    <3> QED
      BY <1>1, <3>1 DEF Abstract!Next, Abstract!GiveUp
  <2> QED
    BY <2>1, <2>2, <2>3, <2>4
<1> QED
  BY <1>2, <1>3

(* Every other step of a request is invisible to the trackers.                *)
LEMMA NextRefines ==
    ASSUME ProxyInd, [Next]_vars, NEW t \in Trackers
    PROVE  [Abstract(t)!Next]_(Abstract(t)!vars)
<1>1. ASSUME NEW r \in Requests, RouteGranted(r) \/ RouteComplete(r)
      PROVE  [Abstract(t)!Next]_(Abstract(t)!vars)
  <2>1. \E u \in Trackers : once[r][u] # "armed" /\ Track(r, u) /\ UNCHANGED <<drain, drains>>
    BY <1>1, ProxyAssumption
       DEF RouteGranted, RouteComplete, Trackers, ProxyInd, ProxyTypeOK, SlotInv, SlotsOf
  <2> QED
    BY <2>1, TrackRefines
<1>2. ASSUME NEW r \in Requests, DoneInstance(r) \/ DoneTotal(r)
      PROVE  [Abstract(t)!Next]_(Abstract(t)!vars)
  <2>1. \E u \in Trackers : Done(r, u) /\ UNCHANGED <<drain, drains>>
    BY <1>2 DEF DoneInstance, DoneTotal, Trackers, ProxyInd, ProxyTypeOK
  <2> QED
    BY <2>1, DoneRefines
<1>3. ASSUME NEW d \in Drainers,
             Drained(d) \/ DrainTimesOut(d) \/ \E u \in Trackers : AskToDrain(d, u)
      PROVE  [Abstract(t)!Next]_(Abstract(t)!vars)
  BY <1>3, DrainRefines
<1>4. CASE UNCHANGED <<trackerVars, drain, drains>>
  <2>1. Holders(t)' = Holders(t) /\ drainOf(t)' = drainOf(t)
    BY <1>4 DEF trackerVars, Holders, drainOf
  <2> QED
    BY <2>1 DEF Abstract!vars
<1>5. ASSUME NEW r \in Requests,
             Parse(r) \/ Reject(r) \/ Forward(r) \/ ReadEnds(r) \/ StreamEnds(r) \/ Send(r)
      PROVE  UNCHANGED <<trackerVars, drain, drains>>
  BY <1>5 DEF Parse, Reject, Forward, ReadEnds, StreamEnds, Send
<1> QED
  BY <1>1, <1>2, <1>3, <1>4, <1>5 DEF Next, Proceed, Quiet, vars

(* Every tracker, counter, channels and sync.Once, implements the one that    *)
(* only knows who holds a slot: a drain hears "drained" only if nobody held   *)
(* one at some moment after it asked.                                         *)
THEOREM TrackersImplement == Spec => ImplementsInFlight
<1>1. Init => \A t \in Trackers : Abstract(t)!Init
  BY InitRefines
<1>2. ProxyInd /\ [Next]_vars =>
        [\A t \in Trackers : [Abstract(t)!Next]_(Abstract(t)!vars)]_vars
  BY NextRefines
<1> QED
  BY <1>1, <1>2, ProxyInductive, PTL DEF Spec, ImplementsInFlight
=============================================================================
