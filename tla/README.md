# A verification of vllm-jukebox in TLA+

vllm-jukebox is an HTTP proxy, written in Go, in front of vLLM and llama.cpp
servers. It starts the server of the model a request names, stops others to make
room for it, and forwards the request. It runs in one of two modes:

* **swap mode** (no `scheduler` section in the configuration): one process at a
  time, exchanged on demand by a coordinator;
* **scheduler mode**: several processes, each on the GPUs its model is configured
  for, started and evicted by the multi-instance GPU scheduler.

This directory holds TLA+ models of both modes and of what they share, TLC configurations
that check them on small instances, and TLAPS proofs for any number of models, requests,
GPUs, ports and files.

## The system

| part | code | state it keeps | operations | modelled in |
|---|---|---|---|---|
| GPU scheduler | `internal/jukebox/scheduler.go` | `instances` by model, each with state, draining mark, port, `startedAt`, `lastUsedAt`; the token channel `sched`; `waiters` | `AcquireRoute`, `tryRouteReady`, `acquireSchedulingPermitOrReject`, `evictConflicts`, `ensureFreeVRAM`, `drainAndStopInstance`, `StopAll` | `Scheduler`, `SchedulerShutdown` |
| port pool | `internal/ports/pool.go` | `used` | `Acquire`, `Release` | `Scheduler` |
| swap coordinator | `internal/jukebox/coordinator.go` | `state`, `currentModel`, `swapInProgress`, failures and times | `EnsureModel`, `Run`/`handleEnsure`, `performSwap`/`doSwap`, `handleSwapDone`, `StopCurrent` | `Coordinator`, `CoordinatorShutdown` |
| legacy router | `internal/jukebox/legacy_router.go` | none | `AcquireRoute` | `Coordinator` |
| runtime manager | `internal/vllm/runtime.go` | `cmd`, `pid`, `waitCh`, `exitCh` under `m.mu` | `Start` and the goroutine it leaves behind, `Stop`, `VerifyReady`, `CurrentPID` | `Manager`; as `alive` in `Scheduler` |
| in-flight tracker | `internal/inflight/tracker.go` | `count`, `waiters` | `Track`, its `done`, `WaitForDrain` | `ProxyRequests`; as sets of requests elsewhere |
| power manager | `internal/gpu/power.go` | `current` limits, `defaults` | `ApplyStartupLimits`, `ApplyModelLimits`, `RevertModelLimits` | `Startup`; as `limited` in `Scheduler` and `Coordinator` |
| proxy, handlers | `internal/proxy`, `internal/httpserver/handlers_proxy.go`, `handlers_anthropic.go` | the `OnDone` of a request | parse, route, forward, stream, give back the route, map rejections | `ProxyRequests` |
| configuration | `internal/config/config.go` | none | `applyDefaults`, `Validate`, `ResolveModel` | `ConfigRules` |
| log writer | `internal/vllm/logwriter.go` | file, size | `openFile`, `Write`, `rotate`, `Close` | `RotatingLog` |
| entry point | `cmd/jukebox/main.go` | none | start-up, preload, signal handler, deferred stop | `Startup`, `SchedulerShutdown`, `CoordinatorShutdown` |

### Not modelled

Status, health, model lists, metrics, authentication and request logging report what
they read and change nothing. The runtime adapters build command lines and parse model
lists; the rewriting of model names in bodies and event streams and the parsing of
`nvidia-smi` are text processing too. None of them keeps state or decides anything but
by its result, which the models take to be any of those possible. Listen errors of the
HTTP server, which end jukebox by `os.Exit` without the deferred stop (`main.go:245`),
and two models that are given one `log_file` by hand are outside the models as well.

### How the parts interact

Every HTTP request runs in a goroutine of its own and calls `Router.AcquireRoute`.

*Scheduler mode.* If a ready instance is registered, the request is routed to it in one
critical section of `s.mu`. Otherwise the request needs the one token of `s.sched`; at
most one more request per model waits for it. The holder of the token evicts the
instances whose GPUs its model needs (mark, drain, stop, revert limits, deregister,
release the port), takes a port, applies limits, starts the process, verifies it,
registers it, and hands out a route. Meanwhile other requests are routed to registered
instances, responses end, processes die, and time passes.

*Swap mode.* Requests send to the `Run` goroutine, which decides in `handleEnsure` and
starts a `performSwap` goroutine. That goroutine drains, stops, reverts, applies,
starts, verifies, and reports in `handleSwapDone`; the request waits for it with a
timeout. Only after `EnsureModel` has returned does the legacy router count the request
as in flight. The manager's waiter goroutine notices exits on its own.

*The rest.* `main` loads the configuration, sets the GPUs' default limits, and in
scheduler mode checks that the GPUs exist, before it listens. A handler takes a route,
forwards, and gives the route back: itself after an error, the proxy after a buffered
response, the stream writer in a goroutine of its own after a streamed one. A drain waits
for the tracker to count nobody. A signal cancels `Run`, closes the listener, and stops
the processes from `main`, next to whatever is in progress. Each process writes to a
rotating log through two copying goroutines.

### What is hard about it

The hazards are listed one by one, with their lines, in `PROJECT.json`. In groups:

* decisions on a snapshot used much later: `max_instances` tested minutes before the
  install, one uptime clock for several evictions, a clock read before the lock and stored
  under it, `lastUsedAt` read by the sort without the lock, in-flight requests counted only after the decision to let them in;
* five exits of `AcquireRoute` that give back a port, a power limit and a token, with an
  unconditional `Release`;
* failures whose error is dropped: `Stop`, `RevertModelLimits`, renames of a rotation, and
  limits that are set on some of the GPUs only;
* a process that outlives SIGKILL, or dies at any moment;
* clients that never finish, against drains and waits that must still end, and an
  `nvidia-smi` that has no deadline at all;
* two goroutines that both know of a process exit, in an order nobody fixed;
* a shutdown that goes on beside the request or the swap in progress, with or without the
  token;
* a drain that begins while the last request leaves;
* jukebox itself killed: the GPUs keep their limits, the log files their names.

## The modules

| module | what it is |
|---|---|
| `Placement` | abstract: models take all of their GPUs at once or none, a GPU has one holder, only a serving model that is not pinned is evicted |
| `Scheduler` | scheduler mode, one action per atomic step of the code |
| `SchedulerProperties` | its invariants, action properties, liveness, the refinement mapping to `Placement`, and the inductive invariant `IndInv` |
| `SchedulerShutdown` | composes `Scheduler` with the signal handler and `StopAll`; its properties and the inductive invariant `ShutdownInv` |
| `Manager` | the life of one runtime process: actions without a specification of their own |
| `Coordinator` | swap mode: extends `Manager` with the coordinator and the legacy router |
| `CoordinatorProperties` | its invariants, action properties and liveness, and the inductive invariant `CoordInd` |
| `CoordinatorShutdown` | composes `Coordinator` with the signal handler, the end of `Run` and `StopCurrent`; its properties and the inductive invariant `EndInv` |
| `InFlight` | abstract: who holds a slot of a tracker, and when a drain may be told that nobody does |
| `ProxyRequests` | a request from its arrival to its answer: handlers, proxy, trackers and drains |
| `ProxyProperties` | its properties, the refinement mapping to `InFlight`, and the inductive invariant `ProxyInd` |
| `ConfigRules` | defaults, validation and name resolution, as operators on a configuration |
| `Startup` | `main` up to serving, and the power manager over loads, unloads, kills and restarts |
| `StartupProperties` | its properties, with a reference definition of a usable configuration, and the inductive invariant `PowerInv` |
| `RotatingLog` | the log of one model, system call by system call |
| `RotatingLogProperties` | what a reader of the log may rely on |
| `SchedulerProofs` | theorems about the scheduler, from `IndInv` |
| `SchedulerCountProofs` | those that count: slots, waiters, instances, ports |
| `PlacementProofs` | the scheduler's steps are steps of `Placement` |
| `SchedulerShutdownProofs` | theorems about `StopAll`, from `ShutdownInv` |
| `CoordinatorProofs` | theorems about swap mode, from `CoordInd`, and about its end, from `EndInv` |
| `ProxyProofs`, `StartupProofs`, `RotatingLogProofs` | theorems about the other parts |
| `MCScheduler`, `MCShutdown`, `MCCoordinator`, `MCSwapShutdown`, `MCProxyRequests`, `MCStartup`, `MCRotatingLog` | values of the constants for TLC |

Operators with a comment that starts with `Fault:` are plausible bugs of the definition
after them. No specification uses them; `PROJECT.json` names, for each checked property,
the one that breaks it.

### Scheduler

An action is a critical section of `s.mu`, a reading of the clock, an operation on
`s.sched`, or one call that `AcquireRoute` makes to the pool, to the power manager, to the
GPU inventory or to the instance manager; its early returns go through the same calls, one
by one, before the deferred `GiveBack`. `ApplyModelLimits` and `RevertModelLimits` set one
GPU after the other, and are one action each: nobody else touches the limits of GPUs that
the token's holder, or `StopAll` for an instance it has marked, has in hand, and no
property looks at the half-way state. Which of the GPUs fail is chosen freely, so the
outcomes of a call that fails part-way are all there. `pc[r]` says where the goroutine of
request `r` is. A request is one-shot and builds at most one instance, so an instance
carries the name of the request that builds it.

| code | model |
|---|---|
| `tryRouteReady`, on arrival and under the permit | `ReadClock`, `RouteReady`, `RouteMiss` |
| `acquireSchedulingPermitOrReject` | `TryPermit`, `JoinWaiters`, `WaiterGetsPermit`, `WaitTimesOut`, `LeaveWaiters`; the deferred receive is `GiveBack` |
| `max_instances`; `ensureGPUsExist` | `Admit`; `CheckGPUs` |
| `evictConflicts` | `ScanConflicts`, `SortConflicts`, `EvictNext`, `Rescan`, `EvictDone` |
| `drainAndStopInstance`, and the same steps for a replaced instance | `EndDrain`, `StopVictim`, `RevertVictim`, `Deregister`, `ReleaseVictim` |
| `ensureFreeVRAM`, `ports.Acquire`, limits, `Start`, `VerifyReady` | `CheckVRAM`, `AcquirePort`, `ApplyLimits`, `StartProcess`/`StartFails`, `VerifySucceeds`/`VerifyFails` |
| the ways out of a start that failed | `StopUnverified`, `ReleaseOwnPort`, `RevertOwnLimits` |
| install and replacement; route to the new instance | `ReadClock`, `Install`, `Handout` |
| `Route.Done`; exit of a process; time | `Finish`; `Crash`; `GrowOld` |

What is abstracted:

* Time is a set `aged` of instances up for `min_instance_uptime`, and a clock that counts
  the uses recorded so far. `tryRouteReady` and the install read the clock before they take
  `s.mu` (`scheduler.go:363`, `286`), so what `lastUsedAt` is set to is any earlier reading,
  and `lastUsedAt` may go backwards. The history variable `routed` is which of all recorded
  uses was an instance's last. Every timeout may fire at any moment.
* `nvidia-smi` is external. It may fail, report any amount of memory, or hang.
* `sort.Slice` reads `lastUsedAt` while arriving requests write it. If a conflict was touched
  since the scan, the comparisons may contradict each other, and the model lets the sort
  leave the conflicts in any order.
* `Faults` names what may go wrong beyond crashes and timeouts: `"linger"` (a process
  survives SIGKILL by two seconds, and the error of `Stop` is dropped), `"apply"` (a limit
  is refused), `"revert"` (a revert is refused).
* A GPU under a limit is one whose limit has a default to go back to. Without one
  `RevertToDefault` does nothing; that case, and the record that tells which limits to
  revert, are in `Startup`.
* The context of a request is not cancelled between the permit and the route: the
  handlers pass one that outlives the request. The waiter's timeout covers cancellation
  while waiting.

The constants carry what `Validate` establishes: every model has a GPU, and the range of
ports is finite. `max_instances` need not fit in the range; the property that needs this
says so.

### Manager and Coordinator

`Manager` keeps `cmd` (with `pid`, `waitCh` and `exitCh`, which change with it), the fate
of each process, the results that lie in a `waitCh`, and each caller's `Stop`. `Start` is
two steps, `Spawn` (the test of `m.cmd` and `cmd.Start`) and `Record` (the fields, under
`m.mu`): in between the process runs and `Stop` does not know of it. The waiter
goroutine is two steps, `Report` (the send on `waitCh`) and `Clear` (the reset under
`m.mu`), because `Stop` returns after the first and `Start` looks at what the second does.

`Coordinator` gives the `performSwap` goroutine of a request, the call of `Stop` it makes
and the process it starts the name of that request. `handleEnsure` is two steps: `Receive`
copies the fields under `c.mu`, and `HandleEnsure` decides on the copy and on whether there
is a process then, while a swap may end in between. `doSwap` is one action for each call it
makes; the calls of `nvidia-smi` for several GPUs are one action as in `Scheduler`.

| code | model |
|---|---|
| `EnsureModel` and `handleEnsure` | `Receive`, `HandleEnsure`, `Await`, `WaitTimesOut` |
| `doSwap` | `EndDrain`, `StopOld`, `OldStopped`, `RevertOld`, `BeginStart`, `ApplyLimits`, `Start`/`StartFails`, `VerifySucceeds`/`VerifyFails`, `Unwound`, `UndoLimits` |
| `handleSwapDone` | `SwapSucceeded`, `SwapFailed` |
| `LegacyRouter.AcquireRoute` after `EnsureModel`; proxy; `Route.Done` | `Track`; `Forward`; `Finish` |
| cooldown and backoff | `CooldownPasses`, `BackoffPasses` |
| `Manager.Start`, its waiter, `Manager.Stop` | `Spawn`, `Record`, `Exit`, `Report`, `Clear`, `StopBegins`, `StopReceives`, `StopDeadline`, `StopGivesUp` |

`MayLinger` and `MayRefuse` switch on processes that survive SIGKILL, and limits that are
refused or cannot be reverted; `PowerRequired` says whether a refusal ends the swap.
`MayGarble` switches on output that could not be copied, to the tails or to the log: the
error of `cmd.Wait` is then not an exit status, and `Stop` reports a failed stop of a process
that is gone (`runtime.go:299`). `doSwap` returns at that (`coordinator.go:453-455`), before
it reverts the old model's limits, which stay in force until a later swap reverts them.

### The two shutdowns

`SchedulerShutdown` and `CoordinatorShutdown` take the next-state relation of the mode as
it is (`Serve`) and add the steps of `main`: `Signal`, then the stop function, then the
end of every goroutine. Requests go on arriving on accepted connections until then.

| code | model |
|---|---|
| `StopAll`: the permit if it is there; the copy of the map; each instance | `StopAllBegins`; `Collect`; `StopNext`, `EndStopDrain`, `StopCurrentInstance`, `RevertCurrent`, `DeregisterCurrent`, `ReleaseCurrent` |
| `Run`'s `ctx.Done()` | `RunEnds`, after which no request is taken |
| `StopCurrent` | `ReadCurrentModel`, `StopProcess`, `StopReturns`, `RevertCurrent` |
| a second `Stop` on a process whose result another has received | `StopRobbed` |
| `main` returns | `Exit`, `MainReturns` |

`main` waits for `StopCurrent` or `StopAll`, called by the signal handler or by its own
deferred call, whichever is first (`sync.Once` makes the other wait). A request whose
`EnsureModel` meets a `Run` that has ended waits for ever: none of its steps is left in
the model, and `main` does not wait for it.

### ProxyRequests

Both handlers take the same steps. A stage of `pc[r]` ends where the code calls a tracker,
or waits for the upstream, or leaves the rest to another goroutine. `once[r][t]` is the
`sync.Once` of the function `Track` returned; `Route.Done` is two steps, the instance's
tracker (`DoneInstance`) and the total's (`DoneTotal`), as in `routeForInstance`. The
upstream's answer is out of jukebox's hands: it may fail, break off, or never come
(`Forward`, `ReadEnds`, `StreamEnds` have no fairness). `reply` keeps the wait a rejection
carries and what the client is told of it.

### ConfigRules and Startup

A configuration is a record with what decisions depend on; a section or number that is
left out is `None`. `Validate` is the conjunction of the code's checks, one operator each;
`Hops` is the walk of `validateAliases` as a function. `Startup` draws a configuration from
`Configs`, loads it, and goes on as `main` does; `SetLimits` is `SetLimit` for several GPUs,
each of which takes the limit, or fails, or fails with the limit set. Models are loaded
and unloaded in any order the router permits. `Restart` is a kill, or an exit, and a new
start: the limits in force remain, `PowerManager.current` does not.

### RotatingLog

The contents of a file are the places its bytes have in the log, and `written` is how many
bytes have been put into a file, so that the order and the loss of output can be seen.
`Write` is one step when the file has room, else
`RotationBegins`, `ShiftBackup` for each backup, `RenameCurrent`, `Reopen` and
`WriteAfterRotation`, with `Killed` between any two of them. Each of them may fail as
`Faults` permits. A stream whose write fails is copied no more: `exec` gives up at the
first error.

## What the runs check

| run | size | what varies | properties |
|---|---|---|---|
| `placement` | 4 requests, 3 models | evictions of two instances for a third model, which is pinned; clocks read at any moment before their use | `TypeOK`, `GPUExclusive`, `DrainedStaysDrained`, `NoOrphanProcess`, `InstallIsFresh`, `WaitersAccounted`, `PortsAccounted`, `YoungStays`, `PinnedStays`, `LeastRecentFirst` |
| `progress` | 3 requests, 2 models | fairness, but none for `nvidia-smi`; a limit on every GPU; one model, which is pinned, evicts the other; `Placement` | `LimitsOwned`, `EveryRequestAnswered`, `PermitReturns`, `ImplementsPlacement` |
| `shutdown` | 3 requests, 3 models, room for 2 | a signal; lingering processes, and refused limits that are required | `SlotsAccounted`, `CapacityRespected`, `NothingFoundSurvives`, `SerialShutdownIsAlone`, `ShutdownDrains`, `StopNeverWaits` |
| `swaps` | 3 requests, 2 models | lingering processes, copy errors, refused limits | `CoordTypeOK`, `OneProcess`, `ReadyIsTruthful`, `SwapsSerialized`, `SwapsPaced` |
| `swap_progress` | 2 requests | fairness, but none for `nvidia-smi`; none of these failures | `SwapLimitsOwned`, `SwapEnds` |
| `swap_shutdown` | 2 requests | a signal; lingering processes, copy errors, refused limits | `NoProcessLeft`, `MainNeverWaits` |
| `requests` | 2 requests, 2 drains, 3 trackers | fairness of jukebox's own goroutines | `SlotsReturned`, `NoLostWakeup`, `RetryHintSane`, `SlotsComeBack`, `ImplementsInFlight` |
| `startup` | 16 thousand configurations, 2 GPUs | failures of `nvidia-smi`, kills and restarts | `LoadedIsUsable`, `LimitsAsWanted` |
| `logs` | 13 bytes, 3 backups of 3 bytes | every failure, and kills | `SizeBounded`, `LosesOldestFirst`, `LosesOnlyForRoom`, `DegradesGracefully` |

They show, within those bounds:

* **Scheduler mode keeps its promise.** No GPU runs two processes, no process escapes the
  map and the token holder, ports, in-flight slots and waiters are accounted for on every
  path, and `max_instances` holds although it is tested long before the install. Every
  step is a step of `Placement`.
* **Eviction is orderly.** A pinned model that runs is never a victim, a young one neither.
  Victims go in LRU order as far as the clocks can tell: an instance whose last use was
  recorded before the clock was read for the victim's is never spared for it, but one whose
  uses overlapped the victim's may be, and so may any when a request touched one of the
  conflicts while they were sorted. Victims take no new requests once marked, and are not cut short unless the
  drain timed out.
* **The crash-replace branch of `AcquireRoute` (lines 295-333) has nothing to do.**
  `InstallIsFresh`: the eviction has already removed the model's own dead instance, because
  its GPUs overlap its own. The branch is modelled, and unreachable.
* **Swap mode never runs two processes**, even if one outlives SIGKILL or `Stop` fails:
  `cmd` stays set until its process is gone, and `Start` refuses. A process is out of
  `Stop`'s reach only between `cmd.Start` and its record, in the swap that starts it. `swapInProgress` and the
  two transient states agree and are always left, unless `nvidia-smi` hangs.
* **Shutdown stops what it finds.** With the token `StopAll` is alone, and no process
  survives but one that outlives SIGKILL. Without it, whatever it found in the map is
  gone; an instance that a request was building survives jukebox, and one that was handed
  out after its drain is stopped under that one request. `StopCurrent` leaves no process
  behind unless a swap runs beside it, which may start another after it. Neither waits for
  a client, a swap or the token, although two callers of `Stop` share one exit result.
  While `StopAll` runs without the token, an evictor may stop the same instance; the port
  is then released twice, the second time perhaps under its new owner.
* **Routes come back once.** Whatever becomes of a response, each slot is given back, and
  no drain that waits misses the last one. `Retry-After` is within half a second of the
  wait, and at least one second.
* **What `Validate` accepts can be used.** Of every name and of the default model one hop
  leads to a model that can be started; the scheduler has a port for each instance and
  distinct GPUs for each model; the limits that reach `nvidia-smi` are positive and none in a
  model's map is passed over; the log has room. This is no equivalence, and it is not all a
  user may want: `server.port` equal to `vllm.port`, which
  `docs/plans/2026-07-08-correctness-security-hardening-design.md:158` names as a check that
  is missing, a port range that contains `server.port`, a model's limits without `gpus`, and
  a `power_limits` map that is empty are accepted, and the property does not claim otherwise.
* **Limits are the ones wanted**, kills and restarts included, because `ApplyStartupLimits`
  sets every default again. What a failed call or a refused start left behind stays until
  the next success.
* **The log loses the oldest output first**, and only for room. A rename that fails lets
  the file grow, and never ends the copying of a stream, in its own rotation or in a later
  one. A file that cannot be opened or written does (see below).

### Where the code and the documents part

Three runs end in a counterexample; each checks one statement of the documents.
`PROJECT.json` quotes the statements under `findings`.

* `refused_limits`: when a required limit is refused, the limits already set on the
  model's other GPUs are not reverted. `doSwap` has the same gap.
* `swap_gap`: in swap mode a request is counted as in flight only after `EnsureModel`
  returned. A swap that begins in between drains nothing and stops the process under it.
* `restart_race`: `Stop` may return before the waiter has cleared `m.cmd`; the `Start` that
  follows then fails with "runtime process already running".

More follow from single definitions of the models and need no run:

* A pinned model whose process died is never restarted (`ScanConflicts`): its dead
  instance is a pinned conflict with its own model, where `docs/spec.md:903` has the next
  request attempt a restart. It also keeps other models off its GPUs, where the scheduler
  design (line 47) protects pinned models "if running". `PinnedStays` claims only the latter.
* The first conflict too young to evict ends the request (`EvictNext`); the scheduler
  design (`docs/plans/2025-12-15-multi-instance-gpu-scheduler-design.md:182`) skips it and
  goes on to the others.
* With `default_power_limit`, a failed listing of the GPUs is only logged
  (`LoadConfig`, `main.go:78-79`), even if `power_limit_required` is set, where
  `docs/plans/2025-12-24-gpu-power-limits-design.md:80-81` has required limits fail the
  start.
* A log file that can be neither opened nor written after a rotation, or a write that fails,
  ends the copying of its stream (`Reopen`, `WriteEnds`; `logwriter.go:73-76`), tail buffers
  included, where `docs/plans/2025-12-24-vllm-log-file-design.md:103-104` promises to log a
  warning and to continue. `DegradesGracefully` holds the code to the promise for renames and
  shifts of backups; a cut needs an open or a write that itself failed last.
* An eviction does not always take the least recently used instance (`ReadClock`,
  `RouteReady`, `SortConflicts`), where the scheduler design (line 48) says LRU: the clock is
  read before the lock, and the sort reads without it.

`GPUExclusive` and `NoOrphanProcess` are claimed only for processes that exit when killed.
`drainAndStopInstance` drops the error of `Stop` and deregisters the instance, so a
process that lingers shares its GPUs with the next one. No document says otherwise.

### Bounds

Requests are one-shot; a client that asks again is another request. So `clock`, the
readings of it, the in-flight sets and the number of instances are bounded by the number of requests and no
counter needs a bound of its own. Four requests are enough for two registered instances,
a third model that needs the GPUs of both, and a fourth request that arrives at, waits
for, or races the eviction. A run with fewer takes away what its question does not need.
In swap mode three requests are enough for a first swap, a second one that meets it, and
a third that arrives at any moment or restarts the model after a crash; the failures that
start the backoff also need two. `swap_shutdown` has two, because a signal takes the part
of the third: one swap in progress, or one ended, and a request beside it. Liveness runs
are smaller, and use no symmetry: `progress` has one small model less, which leaves a placement
that evicts another and a third request that meets either. The one that evicts is pinned
there, so that the third request may also be refused for it.

In the safety runs requests are interchangeable. In `placement` the two small models are as
well, together with their GPUs (it is the large one that is pinned); in `shutdown` all three
models are, with theirs. Models that differ in their GPU sets never are.

`shutdown` gives each of three models a GPU of its own and room for two: the placement
`placement` explores is not its question, the token, the map and the capacity are.
`requests` has two requests that share an instance or do not, and two drains that may wait
for one tracker or for different ones: the last request out, and one that is not the last.
`Waits` are a wait that rounds to nothing, one that rounds down, and a whole minute.
`logs` has files of three bytes and writes of one or two, so that a file can be full, one
short of full, or overrun by one; thirteen bytes fill a log of three backups and the
current file, and make it drop one and rotate again after a failure. `startup` draws from
four families of configurations: all maps of three names to models and aliases, scheduler
sections at the edges of their ranges, power limits of each kind alone and together, and
everything else.

Deadlock is checked in every run but where `Gone`, `Refused`, `Idle` and `Quiet` say that
there is nothing left to do; each of them requires it.

### Fairness

`Fairness` in `Scheduler` is weak fairness of the steps of each goroutine that is inside
`AcquireRoute`, while it does not wait for `nvidia-smi`. The code justifies it: each of the
other blocking calls carries a deadline (`swap_wait_timeout`, `drain_timeout`,
`shutdown_timeout` and two seconds, `startup_timeout`) and the Go scheduler runs every
goroutine. Nothing is assumed of clients (`Finish`), processes (`Crash`) or arrivals.

`nvidia-smi` has no deadline: it runs under the request's context, which nobody cancels, or
under `context.Background()` (`inventory.go:68`, `power.go:39`; `scheduler.go:267`, `281`,
`325`, `601`; `coordinator.go:459`, `469`, `479`, `493`). `InNvidiaSmi(r)` says that such a
call is under way, and fairness leaves those steps out. One that hangs keeps the permit, or
the swap, for ever. `EveryRequestAnswered`, `PermitReturns` and `SwapEnds` therefore end in
"or for ever in `nvidia-smi`": they say that nothing else, no client, process, timeout or
other request, can hold up a request, the permit or a swap.

`Fairness` in `Coordinator` is the same for `performSwap` and for waiting requests. It adds
that a process exits after SIGKILL, that its waiter runs on, and that `Stop` returns by one
of its cases. It does not assume that a proxied request ends or that a process exits
unless killed.

`Fairness` in `ProxyRequests` is that of the steps a goroutine takes without waiting for
anyone: after a route is granted, and after a response is over. Clients and upstreams owe
nothing. The shutdown properties about waiting (`StopNeverWaits`, `MainNeverWaits`) need no
fairness: they say that the next step is enabled. `StopAll` and `StopCurrent` call
`RevertModelLimits` too, and an `nvidia-smi` that hangs there holds up the shutdown.

## What is proved

### Scheduler mode

`SchedulerProofs` proves, for every value of the constants that satisfies the four
assumptions in `Scheduler` (`ModelAssumption`, `PortAssumption`, `CapacityAssumption`,
`FaultAssumption`):

| theorem | states | needs |
|---|---|---|
| `TypeCorrect` | `TypeOK` | |
| `Inductive` | `IndInv` | |
| `PortsSafe` | `PortsAccounted` | |
| `FreshInstall` | `InstallIsFresh` | |
| `CleanStops` | `DrainedStaysDrained` | |
| `NoOrphans` | `NoOrphanProcess` | `"linger" \notin Faults` |
| `Exclusion` | `GPUExclusive` | `"linger" \notin Faults` |
| `YoungNeverEvicted` | `YoungStays` | |
| `PinnedNeverEvicted` | `PinnedStays` | |
| `StoppingNotRouted` | `NoRouteToStopping` | |
| `LimitsReverted` | `LimitsOwned` | `"revert" \notin Faults`, and `"apply" \notin Faults` if limits are required |
| `LeastRecent` | `LeastRecentFirst` | |

None of these properties is inductive. `GPUExclusive`, say, is preserved by `StartProcess`
only if no process runs on the new instance's GPUs, which needs: only the holder of the
token schedules (`PermitInv`); after the eviction no registered instance overlaps the
placement (`ClearedInv`); the map's entries are disjoint (`MapInv`); and every running
process is registered or in the holder's hands (`ProcessInv`). That in turn needs to know
where the instance on its way out is (`VictimInv`, `PlanInv`), and in which state
(`LifeInv`). `PortsAccounted` is in `IndInv` itself: an `Acquire` is fresh because `used`
is exactly the ports of the owners, and a `Release` frees no other's port because the
owners' ports differ. `IndInv` is the conjunction of these parts with `TypeOK`, which is
`ServerTypeOK` and the type of the permit: `ServerTypeOK` holds whoever has the permit, so
that the proofs about `StopAll` can take it over, as they do `BesideInv` (below).

The proof that a step preserves `IndInv` goes by groups of actions: `RoutingStep`,
`PermitStep`, `EvictionStep`, `BuildStep`, `EnvironmentStep`. `NextInd` joins them.
`OverlapFacts` (every model overlaps itself, and overlap is symmetric) and `NoConflicts`
(what an empty set of conflicts says of the map) are all they need of the GPU sets; the
first is where "every model has a GPU" is used.

`LimitsReverted` needs `LimitInv` beside `IndInv`: a limit has an owner, and the GPUs of
an instance that has been stopped are under none, so that it can give up its ownership in
`Deregister` and `ReleaseVictim`. Its assumptions leave out exactly the run
`refused_limits` and a revert that fails.

`LeastRecent` needs `RankInv` beside `IndInv`: a registered instance that is not the victim
is ready, and a reading of the clock is older than the record of the use it was read for, in
the instances and in the ranks that the scan took from them. The victim has the least rank
of what is left, which is thus before the last record of every other. Nothing here assumes
that times grow; conflicts that were touched while they were sorted rank 0, and the theorem
says nothing of their order. `PlannedIsReady` follows: what the plan has left is registered, ready, and not the victim.

`SchedulerCountProofs` adds, from `IndInv` and `FiniteSetTheorems`:

| theorem | states |
|---|---|
| `SlotsBalance` | `SlotsAccounted` |
| `WaitersBalance` | `WaitersAccounted` |
| `CapacityHolds` | `CapacityRespected` |
| `PortAlwaysFree` | `PortNeverExhausted` |

The first two follow from invariants about sets, `SlotInv` and `WaitInv`, that say which
one member the set has. `RoomInv` is behind the other two. It charges for the owners of
ports and for what the eviction plan has left (`Charged`). Between the admission and the
port those of other models than the request's are fewer than `max_instances`, since only the
request that was admitted can add one. `AdmitCounts` shows that what `Admit` counts is the
owners, `AcquireCounts` that at the port there are no others. `Validate` demands that
`max_instances` fit in the port range (`config.go:315-323`), so that by `PortNeverExhausted`
a scheduler that has one never answers "no free ports available".

`PlacementProofs` proves `PlacementImplemented`, `Spec => P!Spec`, which is
`ImplementsPlacement`. It assumes a finite set of models if there is no `max_instances`,
because `Placement` then counts them. `HolderInv` says that a GPU is held by the one model
placed on it. `AcquirePort` is the claim, `Install` the beginning of service, `EvictNext`
the eviction; `Deregister` and the failures after the port vacate; every other step
stutters.

### Shutdown of scheduler mode

`SchedulerShutdownProofs` proves, under the assumptions of `Scheduler` and that `Main` is no
request, with faults of every kind allowed:

| theorem | states |
|---|---|
| `ShutdownInductive` | `ShutdownInv` |
| `NothingSurvives` | `NothingFoundSurvives` |
| `SerialIsAlone` | `SerialShutdownIsAlone` |
| `DrainsBeforeStops` | `ShutdownDrains` |
| `SlotsToTheEnd`, `CapacityToTheEnd` | `SlotsAccounted`, `CapacityRespected`, of `ShutdownSpec` |

Until `StopAll` begins, `IndInv` holds, and with it `NotedInv`: a process that is neither
registered nor in the builder's hands was noted when a `Stop` left it running. From then on
`IndInv` may fail: without the permit `StopAll` deletes keys that an evictor or a builder
counts on. What remains of it is `BesideInv` (`BesideWeaker`: the one implies the other),
which `BesideServes` and `BesideStops` show to survive the steps of either side. It still
says that the builder's instance is nobody else's and that no two requests build.

`StopInv` is about what `StopAll` has in hand. It was installed once, so no builder can
start it again; it is marked; and when `StopAll` is done with it, its process is gone or
noted. `NothingFoundSurvives` follows. `SerialInv` is about the `StopAll` that got the
permit: every process is registered or noted, every registered instance is still to be
stopped, and the ports in use are those of the registered instances and of the one in hand.
A request that waits for the permit, or routes to an instance that is left, changes none of
this (`SerialServes`). The two counts follow from `SlotInv` and `RoomInv` again. That
`RoomInv` charges a request for what its plan has left, and not only for the owners, is
needed here alone: `StopAll` may have taken a planned instance from the map.

### Swap mode

`CoordinatorProofs` proves, under `ManagerAssumption` and `CoordinatorAssumption`:

| theorem | states | needs |
|---|---|---|
| `SwapTypeCorrect` | `CoordTypeOK` | |
| `SwapInductive` | `CoordInd` | |
| `NeverTwoProcesses` | `OneProcess` | |
| `OneSwap` | `SwapsSerialized` | |
| `ReadyTruth` | `ReadyIsTruthful` | |
| `SwapsKeepPace` | `SwapsPaced` | |
| `LimitsFollowSwaps` | `SwapLimitsOwned` | `~MayLinger`, `~MayGarble`, `~MayRefuse` |

`CoordInd` joins `SwapsSerialized` and `ReadyIsTruthful` with four parts. `CmdInv`: `cmd`
is the one process whose waiter has not cleared it, and one that has started and is not yet
recorded is alone, so a second process cannot start. `SnapInv`: what `handleEnsure` has read
is still so when it decides, unless a swap was in progress and the request is refused.
`StageInv`: what a swap's stage says of its process and of its call of `Stop`; it is why a
swap that reaches `done` finds no process but its own behind `cmd`. `LimitInv`: whose
limits are in force at each stage. The proof comes in two layers. `CoreInv` (types,
`SwapsSerialized`, `SnapInv`, `CmdInv`) is inductive by itself, `NextCore`. `UpperInv`
(`ReadyIsTruthful`, `StageInv`, `LimitInv`) rests on it; its lemmas follow `doSwap`:
`EnsureStep`, `StopOldStep`, `StartStep`, `DoneStep`, then `RequestStep` and `ManagerStep`
for what goes on beside it.

With `MainAssumption` it proves of `ShutdownSpec`, the coordinator beside the shutdown:

| theorem | states |
|---|---|
| `EndInductive` | `EndInv` |
| `LeavesNoProcess` | `NoProcessLeft` |
| `OneProcessToTheEnd` | `OneProcess` |
| `OneSwapToTheEnd` | `SwapsSerialized` |

`UpperInv` does not hold there: `StopCurrent` calls `Stop` outside of any swap, and may
receive the exit that a swap's `Stop` waits for. `CoreInv` does, and `EndInv` adds what
`main` needs. `ExitInv`: an exit result is of a process that is over, and so is a `Stop`
that received one. `MainInv` and `FoundInv`: `main`'s call lasts from `StopProcess` to
`StopReturns` and is of the process `StopCurrent` found, which is over if the call
succeeded. `AloneInv`: while no swap disturbs it, the process found is the only one there
is, because only a swap starts one (`OnlySwapsStart`).

### Proxy and trackers

`ProxyProofs` proves, under `ProxyAssumption`:

| theorem | states |
|---|---|
| `ProxyInductive` | `ProxyInd` |
| `SlotsAreReturned` | `SlotsReturned` |
| `WakeupsArrive` | `NoLostWakeup` |
| `TrackersImplement` | `Spec => ImplementsInFlight` |
| `HintsAreSane` | `RetryHintSane` |

`ProxyInd` says that a tracker's count is the number of requests whose `sync.Once` for it
is armed (`CountIsHolders`), at which stages a request holds which slots (`SlotInv`), and
that a drain is in the list of its own tracker only and until its channel is closed
(`DrainInv`, `NoLostWakeup`). The count is a cardinality, so that the lemmas on `Track` and
`Done` rest on `FiniteSetTheorems`. The refinement takes each step to an `Enter`, `Leave`,
`Ask`, `Learn` or `GiveUp` of the abstract tracker, or to a stutter: a `Done` that finds the
`sync.Once` fired changes nothing. `HintsAreSane` is `RetryAfterFacts`, what the rounding
makes of every wait, carried from the rejection to the end (`HintInv`): a reply is written
once.

### Start-up and power limits

`StartupProofs` proves `PowerInductive` (`PowerInv`) and `LimitsKept` (`LimitsAsWanted`) for
every configuration, number of GPUs and order of loads, unloads, failures, kills and
restarts. `KnownInv` is the heart: on a GPU that no failure has touched, what the power
manager has in `current` is in force, a GPU with a default is in `current`, and the limit in
force is the one wanted. A `Load` or an `Unload` changes several GPUs at once; that it gives
each the limit of the right model needs the loaded models to be apart (`ApartInv`). After a
kill `current` is empty and the limits on the GPUs are anybody's; `MainInv` says that nothing
is loaded and every default is pending until they are set again.

The same module proves `ValidIsUsable`: a configuration that `Validate` accepts, once
`applyDefaults` has run, is usable; and from it `LoadedUsable`
(`LoadedIsUsable`), which `LoadedInv` carries over kills and restarts. It assumes
`WellFormed`, which is what the types of `Config` leave a user to write: finitely many names,
whole numbers, lists of whole numbers. There is one lemma for each group of users
(`NamesFollow`, `InstancesFollow`, `LimitsFollow`), and three facts behind them are not just logic. `PortFacts`: an interval has enough ports for
`max_instances` exactly if its length says so. `NoneTwice`: a list without a GPU twice is one
whose set is as large as the list is long. `AliasExact`: the walk of `validateAliases` from
name to name accepts an alias exactly when one hop leads to a model. The walk is a recursive
function. That there is one (`WalkExists`), so that its definition means what it says
(`HopFacts`), is an induction over its length: `SetInduction` states it of sets instead of
predicates, which makes it a lemma the provers can use, and proves it from the
well-foundedness of the natural numbers.

### Rotating log

`RotatingLogProofs` proves, under `LogAssumption`, `LogInductive` (the inductive invariant),
`SizeIsBounded` (`SizeBounded`), `SizeIsTracked` (the size that `Write` tests is the file's)
and `RotationDegrades` (`DegradesGracefully`). The bound is inductive only with
`SizeTracked` and `RotationInv`: a file is closed until it has been reopened, and what is
appended after a rotation is empty unless the renaming failed, so that the write in hand
fits (`MaxChunk <= MaxBytes`). `RotationDegrades` needs `CutInv`: output is copied into a
closed file only after a reopen that failed, which `err`, the error of the last open or
write, still shows when a write cuts a stream off.

`OldestIsLostFirst` (`LosesOldestFirst`) and `LostOnlyForRoom` (`LosesOnlyForRoom`) are about
the contents of the log. As a byte is its place in the log, what a reader finds needs no
concatenation: `Held` are the places in the files, `InOrder` compares two of them, and
`Unbroken` says that what follows a held byte is held. `OldestInd` adds that only written
bytes are held, and that a rotation renames a backup to a name that is free or that of the
last one. `RenamedBytes` is what a rename makes of all this, `WrittenBytes` what a write does.
`LostOnlyForRoom` needs `RoomInv` as well: a rotation begins with a full file only; the
backups have no gap but the name that the rotation under way has just made free; and a byte
is lost only when there was no other.

### Only model-checked

Liveness under fairness (`EveryRequestAnswered`, `PermitReturns`, `SwapEnds`,
`SlotsComeBack`) and `ENABLED` (`StopNeverWaits`, `MainNeverWaits`) are out of the prover's
reach. Every other property of a passing run is also a theorem.

## What is left, in order

1. `StopAll` without the token beside an evictor of the same instance: what the double
   release can do before `main` returns.
2. The read-only handlers, if their snapshots are ever used for decisions.

## Running it

    tlc -config MCScheduler_placement.cfg MCScheduler.tla
    tlc -config MCScheduler_progress.cfg MCScheduler.tla
    tlc -config MCShutdown_shutdown.cfg MCShutdown.tla
    tlc -config MCCoordinator_swaps.cfg MCCoordinator.tla
    tlc -config MCCoordinator_swap_progress.cfg MCCoordinator.tla
    tlc -config MCSwapShutdown_swap_shutdown.cfg MCSwapShutdown.tla
    tlc -config MCProxyRequests_requests.cfg MCProxyRequests.tla
    tlc -config MCStartup_startup.cfg MCStartup.tla
    tlc -config MCRotatingLog_logs.cfg MCRotatingLog.tla
    tlapm SchedulerProofs.tla
    tlapm SchedulerCountProofs.tla
    tlapm PlacementProofs.tla
    tlapm SchedulerShutdownProofs.tla
    tlapm CoordinatorProofs.tla
    tlapm ProxyProofs.tla
    tlapm StartupProofs.tla
    tlapm RotatingLogProofs.tla
