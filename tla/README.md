# A verification of chaosblade-box-agent in TLA+

The agent runs on a host or in a Kubernetes cluster, registers with a chaosblade-box server,
sends heartbeats and cluster data to it, and carries out the chaos experiments the server asks
for, with the `blade` program or with litmus. The modules here model its concurrent and
fault-prone parts, TLC checks them on small instances, and TLAPS proves the central safety
properties for every instance. All definitions are translated from the source; PROJECT.json maps
each one to its lines.

## The system

| Part | State | Operations | Module |
|---|---|---|---|
| chaosblade handler (`web/handler/chaosblade.go`, `pkg/bash`) | `ch.running`, `ch.mutex`, goroutines | create, prepare, destroy, revoke; wait for the K8s operator; status checkers | ChaosbladeHandler, ExperimentRegister |
| pod and service collectors (`collector/kubernetes`) | `identifiers` (md5, cid, Curr), indexers, `selectors` | Report, handlePodIncrement, sweep, reset, SetSelector | PodCollector, PodReplica |
| metric ticker (`conn/metric`) | ticker per collector | Start | PodCollector |
| heartbeat and monitor (`conn/heartbeat`, `pkg/tools/limitedlist.go`, `monitor`) | bounded list of results, `hbAlreadyStoped` | sendHeartbeat, check | HeartbeatMonitor, HeartbeatVerdict |
| registration, requests, shutdown (`conn`, `transport`, `pkg/tools/auth.go`, `signal.go`) | `Opts.Cid`, the two keys | Start, NewRequest, Invoke, Hold, Shutdown | AgentSession |
| start-up (`cmd/chaos_agent.go`, `build/cmd/chaosctl.sh`, `chaosrcv.sh`, `web/handler/uninstallAgent.go`) | processes, port, pid file, installed files, cron entry | start, stop, restart, install, uninstall, recovery; main, listener | AgentStartup |
| web server and API (`web/server`, `web/api`, `transport/interceptor.go`) | a goroutine per request | Handle, the two interceptors, ping | WebRequest |
| chart cache (`pkg/helm3`, `pkg/helm3/registry`) | blobs, `index.json`, `cache.ociStore` | PullChartToCache, LoadChart, init, FetchReference, AddManifest | ChartCache |
| litmus handlers (`web/handler/litmuschaos`, `conn/asyncreport`) | litmus version, helm release, objects of the cluster, engines | install, uninstall, create, destroy, AsyncHandlerResultStatus | LitmusHandler |
| application information (`pkg/options`, `web/handler/updateApplication.go`) | two options, `.chaos.app`, its mutex | InitApplicationInfo, updateApplication, RecordMapToFile | ApplicationInfo |
| conversions (`registry/reference.go`, `pod.go`, `bladeoptions.go`, `options.go`, `service.go`) | none, or the agent's address | ParseReference, getPodState, the version of blade, the agent's address | ChartReference, PodState, BladeVersion, AgentAddress |

The parts meet in few places. Outgoing requests go through NewRequest and the interceptors
(AgentSession); the results of heartbeats go through the bounded list to the monitor; the
collector and the checkers use the same transport and see it as a request that may fail.
Incoming requests go through the interceptors to the handlers (WebRequest). chaosctl.sh, cron and
the agent meet in the process table, the port, the pid file and the installed files. The litmus
handlers meet in helm's release, the litmus version and the cluster. AgentHandlers composes
WebRequest, ChartCache, LitmusHandler and ApplicationInfo into one process that may crash.

What is hard here: requests, checkers and reports that interleave; a blade process that is slow,
killed or left behind; reports that fail on either side of the server; overlapping reports; keys
that appear while requests are being built; a pid file with several writers; a cache and a
version without a lock; a role that is deleted before it is created again; files that a crash cuts
short; restarts that lose memory. PROJECT.json lists these hazards with their lines and the
properties that cover them.

## The modules

**ChaosbladeHandler / ExperimentRegister.** A request is a goroutine with a program counter: `Handle`, then `exec`
(`BladeExit`, `ExecTimeout`), for K8s creates the wait loop (`K8sTick`, `K8sQueryReturns`,
`K8sRecheckReturns`, `K8sTimeout`), then the critical section (`Lock`, `RecordRunning`,
`RemoveRunning`, `RevokeQueryReturns`). A request may start a checker (`SpawnChecker`,
`CheckerTick`, `CheckerQueryReturns`, `DeleteCallback`, `ReportStatus`). A command line is its
operation, target, uid and async flag; a result of blade is its kind (a string, an object, a
refusal, garbage) and its uid. blade is external: it owns a status per uid.
A panic in a handler ends the request only (net/http recovers) and runs the deferred unlock.
`acked` and `ackedAt` are history: which uids were answered, and when a request arrived.
ExperimentRegister is what `ch.running` promises: a book in which an experiment is entered once in the life
of the process, under the request that created it and when the server is told of it, and from which
it is struck out only after it has ended. `ImplementsRegister` is the refinement: the book is `running`,
`told` is `acked`, `author` is `maker`, and `Life` sorts blade's statuses into none, active and ended.

**PodCollector / PodReplica.** A reporter runs Report: `Tick`, `List`, `handlePodIncrement` pod by pod, `Post`,
the server, the cids of the answer one by one, `Sweep` and the report of the deleted pods. Several
reporters are the overlapping goroutines of the metric ticker. A missing entry of the cache is
one with md5 `NoData`. A failed post may fail before or after the server handled it.
The md5 stands for the data it is taken of. A request that failed is not handled later on. A
cluster without a client set makes Report return at once, which changes nothing.
PodReplica is what the reports promise: a collector without cache, md5, cids or sweep that sends
everything it saw each time. `ImplementsReplica` is the refinement for one reporter: `cluster` is
`pods`, `seen` the last list of the reporter, `exist` and `copy` the server's fields; `List` is a
look, `ServerHandles` receives, `ServerHandlesGone` drops, all else stutters.

**HeartbeatMonitor / HeartbeatVerdict.** HeartbeatMonitor has the bounded list, the walk of
`checkHeartBeat` and the flag. HeartbeatVerdict is what the walk promises: a monitor that counts
runs of failures and successes as they happen. `ImplementsVerdict` is the refinement, with the
runs computed from the list. The agent's `main` does not start the monitor at present.

**AgentSession.** The registration sets cid and keys in separate steps, the keys in either order,
since the assignments are not under the lock their readers take. The senders build, read the keys,
sign and send. A registration is a number that stands for its cid and keys. Each signal starts a
closer goroutine; SIGQUIT also runs Shutdown, and the process goes on.

**AgentStartup.** Scripts step through the functions of chaosctl.sh; agents have a main and a
listener thread that write the pid file in two steps (open, write). The content of the file is a
sequence of characters because a write without O_TRUNC overlays the old content. An open file that
was removed is written in vain. `disk` holds the files a script looks for. chaosrcv.sh and the
uninstall handler are further ways to start a script; `Overlaps` says which commands may run at
the same time: in the runs an uninstall, which the server may ask for at any time, and any other
command but install.

**WebRequest.** A goroutine is idle or at a place (`pc`) of the handler of its request (`req`). The
other handler modules extend this one and add their places. The form of a request is reduced to
what the interceptors look at. An answer is not kept; a panic ends the goroutine without one.

**ChartCache.** PullChart by PullChart: `CacheIsInit` or `NewOCIStore` and `SetStore`,
`FetchReference`, `Pull` (oras, external), `AddReference`, `SaveIndex`, and the write of
`index.json` in two steps, `TruncateIndex` and `WriteIndex`. Two goroutines may make a store each,
since `Cache.init` takes no lock; `stores` has them all.

**LitmusHandler.** Installation and removal are split at helm: the release is external, the version
is the agent's. Create goes through experiment, account, role, binding and engine, and each call may
fail with or without its effect. An engine has a number for its uid; `Reporter` is the goroutine that
looks for its result and reports once. `torn` is history: experiments that a failed request left
without their role.

**ApplicationInfo.** The two options and the file. A writer (main or a handler) takes the mutex,
truncates the file and writes its lines one at a time, in any order, as Go ranges over a map.
`recorded` (history) is the set of records that calls have written or are about to write; `cut`
says that the last record did not get to its end.

**AgentHandlers.** The composition: one Next over the four modules, `Crash` for all of them. `mixed`
is history: requests that install or remove litmus overlapped since the process was started.

**Conversions.** ChartReference, PodState, BladeVersion and AgentAddress are operators; Conversions
runs them on every input of a set and compares them with reference definitions written
differently (`ReferenceIsLossless` puts the parts together again, `PodStateIsFirst` names the
container that decides, `VersionIsStated` looks for the line). The loops of getPodState and of the
search for the version are recursive functions, one turn (`InitTurn`, `Turn`, `PassTurn`) per element;
the references have no loop. The address changes with the services that come in and is a state
(`indexed` are the services, `ip` is `Opts.Ip`). Of addresses that the code joins with commas only the
first is kept, which is the one setAgentExternalIp takes.

MC modules give the constants of the larger modules their values; HeartbeatMonitor and
AgentSession are checked as they are.

## What the runs check

| Run | Result | Shows |
|---|---|---|
| Chaosblade | holds | `ch.running` is the book of the register: entries made once and genuine, none lost while active, none resurrected, failed installations forgotten; one holder of the mutex; truthful reports; every request and every checker ends when blade answers |
| ChaosbladeStale | violated | a destroy that overtakes the bookkeeping of its create leaves a stopped experiment recorded |
| Collector | holds | one report at a time: reporting by increments implements sending everything (PodReplica); keys only for data the server has, no live pod reported as gone; live pods converge in spite of faults, deleted ones when reports arrive |
| CollectorOverlap | holds | cache and server agree whenever no report is on its way |
| CollectorOverlapGone | violated | overlapping sweeps report a live pod as gone |
| Heartbeat | holds | the bounded list gives the verdicts of an unbounded one; outage and recovery are noticed |
| Startup | holds | at most one agent; stop and time-out clean up; a failed restart is true; an uninstalled agent does not come back, though starts, restarts, stops and the recovery of cron run beside the uninstall; every script ends |
| StartupSuccess | violated | the pid file gives a false success |
| Session | holds | no request mixes keys; the cid is missed at most once; a registered agent is heard; SIGTERM ends the process |
| SessionFailedRegistration | violated | a failed registration does not end the process |
| Handlers | holds | names of charts have their blobs, a pulled chart is found; the version is that of the release; engines keep their rights; `.chaos.app` is one record; every engine is reported |
| Conversions | holds | four conversions agree with their references on all small inputs |

A violated run is a disagreement between the code and a comment, a message or a usage text of
the repository, quoted under "findings" in PROJECT.json. Every property of a run that holds is
broken by a mutant of the code (`..._Skipped`, `..._NoCompare` and so on), defined just before
the definition it mutates.

**Limits of what holds.** These are behaviours of the code that the properties leave room for.

* Two scripts that overlap may both find no agent and both launch one, so AtMostOneAgent fails when
  `Overlaps` has a pair of starts, although the usage text of start says "skip if it is already
  started". An install that overlaps with an uninstall may add its cron entry after the uninstall
  removed it, so UninstallIsFinal is about uninstalls without one. RestartFailureIsTrue is about restart and install because a plain start reads the -1 an
  earlier agent left in the pid file. An uninstall that fails half-way ("uninstall failed") can
  leave an agent that no script stops, and one asked for by the server is never answered.
* Under `AgentFairSpec`, where blade need not answer, EveryRequestEnds fails: ExecScript's time-out
  does not apply to callers that pass `context.TODO()`, and a revoke calls it with the mutex held.
* Two first uses of the chart cache may make two stores, and a chart added to the one is not found
  in the other: PulledIsFound is about one store.
* After a restart the litmus version is empty while helm's release is there: experiments and a new
  installation are refused until litmus is removed. VersionIsReleased allows an empty version.
* The files of the litmus hub are created empty and read back, so that a second create of an
  experiment fails where the hub directory exists.
* FileIsOneRecord says that the file is one record, not that it is the newest: updates that overlap
  may write in another order than they set the options. InitApplicationInfo reads the file and
  drops what it reads, so an update is lost with a restart.
* In a chart reference without a port, a tag that is a number is taken for a port, and the
  reference definition of ReferenceIsLossless does the same.

**Bounds.** The goroutines, uids, pods, reporters, scripts and experiments are one, two or three: the
properties relate at most a create, its checker and a destroy, two reports on one pod, or two
requests and what a third leaves behind. Counters of faults (`MaxFailures`, `MaxCrashes`,
`MaxChanges`, `MaxRestarts`, `MaxSignals`) limit the outside, `Tries` the ten polls of start0,
`Attempts` the ninety looks at a result, `MaxRequests` the requests of a behaviour, `MaxServices` the
changes of services. A behaviour of Handlers has one of three workloads (litmus is installed
and removed; experiments are run; the application is updated), since the handlers share nothing
else than the goroutines; within a workload every order and overlap happens. In HeartbeatMonitor the
list has 6 places for thresholds 3 and 2, and at most 4 heartbeats pass between two checks; the
assumption `MaxBeats + StopThreshold <= Cap + 1` is tight there (one heartbeat more and the
refinement fails). The code has 26, 12 and 3, which allows 15 heartbeats per check; a heartbeat
takes 5 s and a check 10 s. Runs of systems that may come to rest (no more requests, scripts or
faults) do not check deadlock.

**Fairness.** Goroutines, tickers and shell commands go on (weak fairness). A `sync.Mutex` hands
itself to a waiter that has starved, hence strong fairness of `Lock`. `FairSpec` of the
handler also assumes that blade answers. In AgentSession a request sent time
and again is answered at some point (strong fairness of `Answer`), but not the close request. In
AgentHandlers only the goroutine of a report is fair: the cluster and the server answer its calls,
with an error or without. That is an assumption, since client.Do has no deadline.
Faults, signals, crashes, requests and changes of the cluster are never fair.

## What is proved

Each proof rests on an inductive invariant, proved one action at a time.

* **ChaosbladeHandlerTypes**: ReportsTruthful, for any sets of requests and uids. After the types
  and what a goroutine carries (`Shape`) comes `Truth`, which follows a checker from its request's end to
  its report: while it waits it knows no final status, it leaves the loop without one only at the
  time-out, and a final status it has read is one blade stays in or stops from (`Ahead`).
* **ChaosbladeHandlerProofs**: TypeCorrect, MutexHeld, EntriesGenuine, ActiveTracked, Stopped,
  FailedForgotten and RegisterKept. The invariant `IInv`, with one lemma per kind of step, adds to the properties what is
  known at each program counter: a request in the critical section holds the mutex and has a success of
  blade in hand, a uid has one maker, a checker belongs to its request. RegisterKept, the refinement of
  ExperimentRegister, follows from it step by step: a run of blade begins or ends an experiment; the request that
  records a uid is its maker and has not ended, so that the uid is not told yet; a destroy in the critical
  section, and a checker with a failed installation, strike out what has ended.
* **ServerProofs**, about AgentSession: SessionTypeCorrect, KeysAgree, CidMissedOnce, for any senders, restarts
  and signals. The invariant says that no key is set before the cid, that what a sender holds is
  empty or current, and that past GetSecureKey both keys were set.
* **ServerProofs**, about PodCollector: TypeCorrect and CacheAgrees for any overlap of reports; KeyOnlyCurrent and
  LiveNotGone under the assumption `Sequential` (one reporter), which CollectorOverlapGone shows to
  be needed for the latter; Increments, that one reporter implements PodReplica. For CacheAgrees an entry is "clean" (the server has its data or
  will get it from a report on its way) or "doomed" (a sweep or reset that must still come
  removes it). For Increments, `Complete` adds that a report holds exactly the pods it listed, so
  that a key stands for data the server has (KeyOnlyCurrent) and nothing listed is missing.
* **LoopProofs**, about HeartbeatMonitor: MonitorTypes and MonitorImplementsVerdict, the refinement
  of HeartbeatVerdict, for every capacity and all thresholds that leave room for the heartbeats between two
  checks. Three arguments meet. The walk, a recursive function, ends at the last run of results that
  decides: `Walked` says after each of its steps that it is there, or that no run that decides begins
  behind it and its counts are the run it is in (`WalkFinds`). A heartbeat shifts the list, and the last
  run stays the last one as long as it is there (`LastShifts`). The invariant `MonitorInv` says that the
  flag agrees with the last run that the last check saw and that is still in the list: a run is dropped
  only when a check has seen it, which is where the room is needed, and then the flag stands for it.
* **LoopProofs**, about Conversions: ReferencesLossless, PodStateFirst, VersionStated and AddressKept, for
  texts with any number of components, pods with any number of containers, outputs of blade with any number
  of lines and any sequence of changes of the services. `ConversionInv` says that the output is what the
  conversion gives for the input and that the address is kept up (`AddressInv`); the rest is about the
  operators. A recursive function is a CHOOSE, so `LoopDefined` first shows that a function with the
  equations of the loop exists, by induction on the number of turns; then another induction
  (`Upwards`) carries what is known after each turn: for the init containers `InitSeen`, that the reason
  is the one the loop was given and none so far is unfinished, or that it is that of the first unfinished one
  and stays; for the containers `ContainersSeen`, where the loop runs from the last to the first, so
  that the reason set last is that of the first; for the version `Passed`, that the loop has returned the
  first line with a label or has seen none. `VersionFound` puts the passes together. ParseReference
  has no loop, and goes by the number of components (`PortParsed`, `NameParsed`). `SetText` says that a text
  setAgentExternalIp sets is none of the placeholders.
* **AgentHandlersProofs**: FileOneRecord, VersionReleased. `AppInv` says that the holder of the mutex is
  the only writer, that what is in the file are lines of its record, and that the file counts as
  cut until the last one. `WebInv` is about the requests: a busy goroutine has one of the workload,
  and each step is the step of one goroutine (`Moved`); the other two modules use it. `VersionInv`
  adds that a goroutine between helm and the version installs, and without overlap the release
  is the one it wants. `RightsInv`, for AgentLitmusProofs, begins here.
* **AgentCacheProofs**: IndexBacked, PulledFound. `CacheInv` says that every store, the index and every
  list of names on its way have only names with blobs, that AddReference is reached with the
  blobs of its chart, and that with one store the names that were added are in it.
* **AgentLitmusProofs**: EnginesHaveRights, HandlerTypes. `RightsInv` says that a request past the account, the role and
  the binding has them, that accounts and bindings are never removed, and that a role is there,
  torn, or about to be created (`RoleCared`); only an engine that exists is destroyed, since the
  server knows its name from a report. HandlerTypes, the type invariant of the composition, needs what the
  types of one component take from the others: `ChartNames`, that every name of a chart in a store, in
  index.json, in a pull on its way, in helm or in the options is one of a request, and `Attempting`, that a
  report that still tries has an attempt left.
* **AgentStartupProofs**: for any number of scripts, agents and crashes. StartupTypes holds whatever
  overlaps. OneAgent, StopIsClean, TimeoutIsClean and RestartFailureIsOwn have the hypothesis
  `OnlyUninstallOverlaps` (of two scripts that run at the same time one is an uninstall), UninstallStays
  has `InstallWaits` (no install beside an uninstall) and allows every other overlap. The hypotheses
  are needed: see the limits above for the schedules that break the properties without them. `Cleared` says what
  a script can rely on by its place: no agent is alive where it launches one, the only one alive is its
  own while it polls, and after the stop of a restart the pid file is gone until the agent of the restart
  writes it, so that a file that begins with "-" is its own failure. `Ended` keeps the result of the
  last stop or time-out true while nothing runs. `Removed` says what an uninstall has removed at each
  of its steps, and that nothing else puts it back: without the directory no script begins, and of those
  that run only an install adds a file.

The proofs about AgentHandlers hold for any number of goroutines, requests, charts, experiments and
crashes. The assumptions on the constants are those of the modules (natural bounds, distinct null
values, flags that are not empty, requests with a handler that is registered and a version of litmus
or none, pids that are digits). A new engine has any number that is not used: numbers stand for
the uuids of the cluster, and nothing depends on their order.

Every invariant, action property and refinement that a run checks is also proved. Liveness is model-checked
only, since the prover has neither fairness nor ENABLED. Induction is not taken from the library, whose
induction theorems have an operator as a parameter, which the provers do not instantiate: LoopProofs derives it
from the least element of a set of numbers (`Least`, `Greatest`, `Upwards`).

## Plan

The actions of doMonitor composed with HeartbeatMonitor and the metric ticker, should `main` start the
monitor again.

## Not modelled

* Parts that the agent does not use: the collectors other than pods and services, which repeat the
  pod collector's scheme; the virtual node collector; the gateway server; the watch of several
  namespaces; Stop and CloseEnable of the metric ticker and the actions of doMonitor; saving,
  listing, removing and pushing charts and the login at a registry. Nothing in `main` constructs or
  calls them, so that no state of theirs is one the program can be in.
* Input and output without state of their own: logging, downloads, the environment, uuids, the
  encoding and the compression of request bodies.
* In the parts that are modelled: wording of messages, torn reads of Go strings (a crash covers the
  worst of them), the second reflector that two first reports may start, a failed request that the
  server handles only after the agent has given up on it, and two `index.json` writers whose writes
  mix within the file.
