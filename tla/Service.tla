-------------------------------- MODULE Service --------------------------------
(***************************************************************************)
(* The life of the service (SysmonUser/src/service.cpp, config.cpp): the   *)
(* worker thread that loads the configuration, connects to the driver,     *)
(* starts the optional sources and reads events; the monitor thread that   *)
(* reloads the configuration on a change of the registry; the query        *)
(* workers; the control handler and the main thread.                       *)
(*                                                                         *)
(* Running and StopEvent are read without a lock.  Config and RuleRuntime  *)
(* are swapped under ConfigLock, the sources are started and stopped under *)
(* OptionalSourceLock; a critical section of either is one step.           *)
(***************************************************************************)
EXTENDS Naturals, FiniteSets

CONSTANTS
    SourceKinds,      \* optional sources of the service
    Restartable,      \* the ETW ones, which report a fault and back off
    QueryThreads,     \* SYSMON_QUERY_WORKER_COUNT
    MaxChanges,       \* bound: changes of the registry
    MaxHiccups        \* bound: faults of sources and starts that fail

ASSUME ServiceAssumption ==
    /\ Restartable \subseteq SourceKinds
    /\ {QueryThreads, MaxChanges, MaxHiccups} \subseteq Nat

\* A configuration: whether its rules load, and the sources it asks for.
Configs == [rules : {"good", "bad"}, wants : SUBSET SourceKinds]
NoConfig == [rules |-> "none", wants |-> {}]

VARIABLES
    running, stopEvent,  \* g_ServiceCtx.Running and StopEvent
    stored,              \* the registry: config, Stop value, changes made
    serviceConfig,       \* g_ServiceCtx.Config and RuleRuntime
    sources,             \* the optional sources that exist
    faulted, backingOff, \* ...TraceFaulted, ...TraceRetryAfterTick not reached
    worker, monitor,     \* where the threads are, with what they hold
    queries,             \* query workers alive
    mainThread, handler, \* the thread that waits for the end; the SCM's
    hiccups,             \* faults and failed starts so far
    owed                 \* the last change came when the monitor was listening

lifeVars == <<running, stopEvent>>
sourceVarsOfService == <<sources, faulted, backingOff, hiccups>>
serviceVars == <<running, stopEvent, stored, serviceConfig, sources, faulted, backingOff,
                 worker, monitor, queries, mainThread, handler, hiccups, owed>>

Stopping == ~running \/ stopEvent

\* SysmonComputeOptionalSourceMask; with neither runtime nor rules, nothing.
SourceMask(config) == IF config.rules = "good" THEN config.wants ELSE {}

ServiceInit ==
    /\ running = TRUE /\ stopEvent = FALSE
    /\ stored \in [config : Configs, stop : {FALSE}, changes : {0}]
    /\ serviceConfig = NoConfig
    /\ sources = {} /\ faulted = {} /\ backingOff = {}
    /\ worker = [at |-> "start", config |-> NoConfig, mask |-> {}]
    /\ monitor = [at |-> "start", config |-> NoConfig, mask |-> {}, notified |-> FALSE]
    /\ queries = 0
    /\ mainThread = "wait" /\ handler = "idle"
    /\ hiccups = 0 /\ owed = FALSE

-----------------------------------------------------------------------------
(* SysmonApplyOptionalSourceMask, one critical section.                    *)

\* Faulty variant, for the mutation runs: the stop is not tested again.
MaskNow(mask) == mask

\* A service that is stopping wants no source, tested under the lock.
MaskUnlessStopping(mask) == IF Stopping THEN {} ELSE mask

\* A source that is not wanted is stopped; a faulted one is stopped and
\* started again; one that is missing is started unless it backs off, and a
\* restartable one that does not start backs off.
ApplyMask(mask) ==
    LET wanted == MaskUnlessStopping(mask)
        restarted == faulted \cap wanted
        kept == (sources \cap wanted) \ restarted
        dropped == sources \ wanted
        missing == (wanted \ kept) \ backingOff
    IN
    \E failing \in SUBSET missing :
        /\ hiccups + Cardinality(failing) <= MaxHiccups
        /\ sources' = kept \cup (missing \ failing)
        /\ faulted' = faulted \ wanted
        /\ backingOff' = (backingOff \ dropped) \cup (failing \cap Restartable)
        /\ hiccups' = hiccups + Cardinality(failing)

-----------------------------------------------------------------------------
(* ServiceWorkerThread.                                                    *)

WorkerAt(from, to) == worker.at = from /\ worker' = [worker EXCEPT !.at = to]

\* SysmonConfigLoad reads the registry value by value into Config.
WorkerReads ==
    /\ worker.at = "start"
    /\ worker' = [worker EXCEPT !.at = "install", !.config = stored.config]
    /\ UNCHANGED <<lifeVars, stored, serviceConfig, sourceVarsOfService, monitor, queries,
                   mainThread, handler, owed>>

\* Faulty variant, for the mutation runs: nobody is told.
FailsSilently == running' = FALSE /\ UNCHANGED stopEvent

\* The worker fails: the flag is cleared and the main thread woken.
FailsLoudly == running' = FALSE /\ stopEvent' = TRUE

\* The startup load takes no lock.  Rules that do not load end the thread at
\* once, past its cleanup.
WorkerInstalls ==
    /\ worker.at = "install"
    /\ IF worker.config.rules = "good"
       THEN /\ worker' = [worker EXCEPT !.at = "connect", !.config = NoConfig]
            /\ serviceConfig' = worker.config
            /\ UNCHANGED lifeVars
       ELSE /\ worker' = [worker EXCEPT !.at = "failed", !.config = NoConfig]
            /\ serviceConfig' = NoConfig
            /\ FailsLoudly
    /\ UNCHANGED <<stored, sourceVarsOfService, monitor, queries, mainThread, handler, owed>>

\* SysmonTransportInit and SysmonTransportConnect; a failure of the second
\* leaves Running as it is.  The query workers that can be made are started.
WorkerConnects ==
    /\ \/ /\ WorkerAt("connect", "pipeline")
          /\ queries' \in 0..QueryThreads
          /\ UNCHANGED lifeVars
       \/ /\ WorkerAt("connect", "cleanup")
          /\ running' \in {running, FALSE} /\ stopEvent' = TRUE
          /\ UNCHANGED queries
    /\ UNCHANGED <<stored, serviceConfig, sourceVarsOfService, monitor, mainThread, handler,
                   owed>>

\* SysmonPipelineInit, and later the event buffer: each may fail.
WorkerPrepares(from, to) ==
    /\ \/ WorkerAt(from, to) /\ UNCHANGED lifeVars
       \/ WorkerAt(from, "cleanup") /\ FailsLoudly
    /\ UNCHANGED <<stored, serviceConfig, sourceVarsOfService, monitor, queries, mainThread,
                   handler, owed>>

\* Faulty variant, for the mutation runs: later passes keep what runs.
MaskComputedOnce == IF worker.at = "mask" THEN SourceMask(serviceConfig) ELSE sources

\* The mask of the configuration in force.
MaskInForce == SourceMask(serviceConfig)

\* The wanted sources are computed under ConfigLock and applied after it.
WorkerComputesMask(from, to) ==
    /\ worker.at = from
    /\ worker' = [worker EXCEPT !.at = to, !.mask = MaskInForce]
    /\ UNCHANGED <<lifeVars, stored, serviceConfig, sourceVarsOfService, monitor, queries,
                   mainThread, handler, owed>>

WorkerAppliesMask(from, to) ==
    /\ worker.at = from
    /\ worker' = [worker EXCEPT !.at = to, !.mask = {}]
    /\ ApplyMask(worker.mask)
    /\ UNCHANGED <<lifeVars, stored, serviceConfig, monitor, queries, mainThread, handler, owed>>

\* The head of the event loop; SysmonRefreshOptionalSourceHealth follows.
WorkerLoops ==
    /\ WorkerAt("loop", IF running THEN "health" ELSE "cleanup")
    /\ UNCHANGED <<lifeVars, stored, serviceConfig, sourceVarsOfService, monitor, queries,
                   mainThread, handler, owed>>

\* SysmonRecvEvent: an event or the health tick, which a stop overrides; an
\* error of the driver; the stop; or the driver lost for good.
WorkerReceives ==
    /\ \/ WorkerAt("receive", "loop") /\ UNCHANGED lifeVars
       \/ stopEvent /\ WorkerAt("receive", "cleanup") /\ UNCHANGED lifeVars
       \/ WorkerAt("receive", "cleanup") /\ stopEvent' = TRUE /\ UNCHANGED running
    /\ UNCHANGED <<stored, serviceConfig, sourceVarsOfService, monitor, queries, mainThread,
                   handler, owed>>

\* The query workers are waited for, then the sources stopped for good.
WorkerStopsSources ==
    /\ WorkerAt("cleanup", "teardown") /\ queries = 0
    /\ sources' = {} /\ faulted' = {} /\ backingOff' = {}
    /\ UNCHANGED <<lifeVars, stored, serviceConfig, monitor, queries, mainThread, handler,
                   hiccups, owed>>

\* Pipeline, output and transport are closed, the configuration freed, all
\* without ConfigLock.
WorkerTearsDown ==
    /\ WorkerAt("teardown", "done")
    /\ serviceConfig' = NoConfig /\ stopEvent' = TRUE
    /\ UNCHANGED <<running, stored, sourceVarsOfService, monitor, queries, mainThread, handler,
                   owed>>

ServiceWorker ==
    \/ WorkerReads \/ WorkerInstalls \/ WorkerConnects
    \/ WorkerPrepares("pipeline", "mask")
    \/ WorkerComputesMask("mask", "apply") \/ WorkerAppliesMask("apply", "buffer")
    \/ WorkerPrepares("buffer", "loop")
    \/ WorkerLoops
    \/ WorkerComputesMask("health", "refresh") \/ WorkerAppliesMask("refresh", "receive")
    \/ WorkerReceives
    \/ WorkerStopsSources \/ WorkerTearsDown

\* QueryWorkerThread: a stop ends it, and so does a handle that went bad.
QueryThreadStops ==
    /\ queries > 0 /\ Stopping
    /\ queries' = queries - 1
    /\ UNCHANGED <<lifeVars, stored, serviceConfig, sourceVarsOfService, worker, monitor,
                   mainThread, handler, owed>>

QueryThreadBreaks ==
    /\ queries > 0 /\ ~Stopping
    /\ queries' = queries - 1
    /\ UNCHANGED <<lifeVars, stored, serviceConfig, sourceVarsOfService, worker, monitor,
                   mainThread, handler, owed>>

-----------------------------------------------------------------------------
(* SysmonConfigMonitorThread.                                              *)

MonitorAt(from, to) == monitor.at = from /\ monitor' = [monitor EXCEPT !.at = to]
MonitorLeavesAlone == UNCHANGED <<worker, queries, mainThread, handler, owed>>

\* The key is opened and the first notification asked for, or neither works.
MonitorRegisters ==
    /\ \E to \in {"wait", "done"} : MonitorAt("start", to)
    /\ UNCHANGED <<lifeVars, stored, serviceConfig, sourceVarsOfService>> /\ MonitorLeavesAlone

\* A change made while the monitor is busy is reported by its next request.
MonitorWakes ==
    /\ monitor.at = "wait"
    /\ \/ stopEvent /\ MonitorAt("wait", "done")
       \/ /\ ~stopEvent /\ monitor.notified
          /\ monitor' = [monitor EXCEPT !.at = "read", !.notified = FALSE]
    /\ UNCHANGED <<lifeVars, stored, serviceConfig, sourceVarsOfService>> /\ MonitorLeavesAlone

\* A Stop value stops the service by its event alone; rules that do not load
\* leave the old configuration in force.
MonitorReads ==
    /\ monitor.at = "read"
    /\ IF stored.stop
       THEN /\ MonitorAt("read", "done")
            /\ stored' = [stored EXCEPT !.stop = FALSE] /\ stopEvent' = TRUE
       ELSE /\ monitor' = [monitor EXCEPT
                  !.at = IF stored.config.rules = "good" THEN "test" ELSE "wait",
                  !.config = IF stored.config.rules = "good" THEN stored.config ELSE @]
            /\ UNCHANGED <<stopEvent, stored>>
    /\ UNCHANGED <<running, serviceConfig, sourceVarsOfService>> /\ MonitorLeavesAlone

MonitorTests ==
    /\ monitor.at = "test"
    /\ monitor' = IF Stopping THEN [monitor EXCEPT !.at = "done", !.config = NoConfig]
                  ELSE [monitor EXCEPT !.at = "swap"]
    /\ UNCHANGED <<lifeVars, stored, serviceConfig, sourceVarsOfService>> /\ MonitorLeavesAlone

\* SysmonServiceApplyReloadedConfig: swap and mask under ConfigLock; then the
\* stop is tested, and the mask applied under the other lock.
MonitorSwaps ==
    /\ monitor.at = "swap"
    /\ serviceConfig' = monitor.config
    /\ monitor' = [monitor EXCEPT !.at = "retest", !.config = NoConfig,
                                  !.mask = SourceMask(monitor.config)]
    /\ UNCHANGED <<lifeVars, stored, sourceVarsOfService>> /\ MonitorLeavesAlone

MonitorRetests ==
    /\ monitor.at = "retest"
    /\ monitor' = IF Stopping THEN [monitor EXCEPT !.at = "wait", !.mask = {}]
                  ELSE [monitor EXCEPT !.at = "apply"]
    /\ UNCHANGED <<lifeVars, stored, serviceConfig, sourceVarsOfService>> /\ MonitorLeavesAlone

MonitorApplies ==
    /\ monitor.at = "apply"
    /\ monitor' = [monitor EXCEPT !.at = "wait", !.mask = {}]
    /\ ApplyMask(monitor.mask)
    /\ UNCHANGED <<lifeVars, stored, serviceConfig>> /\ MonitorLeavesAlone

ConfigMonitor ==
    \/ MonitorRegisters \/ MonitorWakes \/ MonitorReads \/ MonitorTests
    \/ MonitorSwaps \/ MonitorRetests \/ MonitorApplies

-----------------------------------------------------------------------------
(* The main thread, the control handler and the environment.               *)

MainWakes ==
    /\ mainThread = "wait" /\ stopEvent
    /\ running' = FALSE /\ mainThread' = "join"
    /\ UNCHANGED <<stopEvent, stored, serviceConfig, sourceVarsOfService, worker, monitor,
                   queries, handler, owed>>

MainEnds ==
    /\ mainThread = "join"
    /\ worker.at \in {"done", "failed"} /\ monitor.at = "done"
    /\ mainThread' = "ended"
    /\ UNCHANGED <<lifeVars, stored, serviceConfig, sourceVarsOfService, worker, monitor,
                   queries, handler, owed>>

\* SysmonServiceCtrlHandler and SysmonConsoleCtrlHandler: flag, then event.
StopRequested ==
    /\ handler = "idle" /\ mainThread = "wait"
    /\ running' = FALSE /\ handler' = "set"
    /\ UNCHANGED <<stopEvent, stored, serviceConfig, sourceVarsOfService, worker, monitor,
                   queries, mainThread, owed>>

StopSignalled ==
    /\ handler = "set"
    /\ stopEvent' = TRUE /\ handler' = "idle"
    /\ UNCHANGED <<running, stored, serviceConfig, sourceVarsOfService, worker, monitor,
                   queries, mainThread, owed>>

\* A change is heard of once the monitor has asked for the first time.
Heard == monitor.at \notin {"start", "done"}

RegistryChanges ==
    /\ stored.changes < MaxChanges
    /\ \E config \in Configs, stop \in BOOLEAN :
          stored' = [config |-> config, stop |-> stop, changes |-> stored.changes + 1]
    /\ monitor' = [monitor EXCEPT !.notified = @ \/ Heard]
    /\ owed' = (Heard /\ worker.at \notin {"start", "install"})
    /\ UNCHANGED <<lifeVars, serviceConfig, sourceVarsOfService, worker, queries, mainThread,
                   handler>>

\* The trace of a source ends on its own: its thread marks the source.
SourceFaults ==
    /\ hiccups < MaxHiccups
    /\ \E kind \in sources \cap Restartable : faulted' = faulted \cup {kind}
    /\ hiccups' = hiccups + 1
    /\ UNCHANGED <<lifeVars, stored, serviceConfig, sources, backingOff, worker, monitor,
                   queries, mainThread, handler, owed>>

\* A second has passed since the start that failed.
BackoffEnds ==
    /\ backingOff # {}
    /\ \E kind \in backingOff : backingOff' = backingOff \ {kind}
    /\ UNCHANGED <<lifeVars, stored, serviceConfig, sources, faulted, hiccups, worker, monitor,
                   queries, mainThread, handler, owed>>

Ended == mainThread = "ended" /\ UNCHANGED serviceVars

ServiceNext ==
    \/ ServiceWorker \/ QueryThreadStops \/ QueryThreadBreaks
    \/ ConfigMonitor
    \/ MainWakes \/ MainEnds \/ StopRequested \/ StopSignalled
    \/ RegistryChanges \/ SourceFaults \/ BackoffEnds \/ Ended

\* Threads are scheduled, the handler finishes what it began, time passes and
\* a receive returns at the latest with the health tick.
ServiceFairness ==
    /\ WF_serviceVars(ServiceWorker) /\ WF_serviceVars(ConfigMonitor)
    /\ WF_serviceVars(QueryThreadStops)
    /\ WF_serviceVars(MainWakes) /\ WF_serviceVars(MainEnds)
    /\ WF_serviceVars(StopSignalled) /\ WF_serviceVars(BackoffEnds)

ServiceSpec == ServiceInit /\ [][ServiceNext]_serviceVars /\ ServiceFairness

-----------------------------------------------------------------------------
\* Once the worker has stopped the sources none is started again, though the
\* monitor may still be at work on a change that came before the stop.
SourcesStayStopped == worker.at \in {"teardown", "done"} => sources = {}

\* The sources settle to what the registry asks for: a change the monitor can
\* hear of is taken over although the worker may apply an older mask after it,
\* and a source that faults or does not start is there again later.
SourcesFollowTheConfig ==
    <>[](\/ Stopping \/ ~owed \/ stored.config.rules = "bad" \/ monitor.at = "done"
         \/ sources = stored.config.wants /\ sources \cap faulted = {})

\* A stop ends the service: however it is asked for, every thread ends.
ServiceEnds == (stopEvent \/ ~running) ~> (mainThread = "ended")
=============================================================================
