--------------------------- MODULE SigningPipeline ---------------------------
(* The signing queue of the service (SysmonUser/src/pipeline.cpp).  The      *)
(* event loop of the service hands image and driver loads to a queue of work *)
(* items, one per file, and a pool of threads verifies the file's signature  *)
(* and dispatches the item's events.  Two lists (queued items, active        *)
(* items), two counters kept beside them, a manual-reset event, and a stop   *)
(* during which workers may be anywhere.                                     *)
(*                                                                           *)
(* The threads are the service's worker thread, which is the one that        *)
(* initialises the pipeline, dispatches driver events and cleans up, the     *)
(* signing workers, and whoever sets the service's stop event.  A step is a  *)
(* section under g_SigningQueueLock, or one access to a flag or an event.    *)
EXTENDS Naturals, Sequences, FiniteSets, FiniteSetsExt, SequencesExt

CONSTANTS
    SignProcessors,    \* dwNumberOfProcessors
    ConfiguredWorkers, \* Config.SigningWorkerCount; 0 leaves it to the code
    Files,             \* the keys of work items: path, revocation, hash mask
    ImageEvents,       \* bound: events 1 .. ImageEvents arrive
    SigningQueueSize,  \* Config.SigningQueueSize
    MaxPerItem,        \* SYSMON_MAX_PENDING_ENRICHMENT_EVENTS_PER_WORK_ITEM
    MaxPending         \* SYSMON_MAX_PENDING_ENRICHMENT_EVENTS

ASSUME SigningAssumption ==
    /\ SignProcessors \in Nat \ {0} /\ ConfiguredWorkers \in Nat
    /\ ImageEvents \in Nat /\ SigningQueueSize \in Nat \ {0}
    /\ MaxPerItem \in Nat \ {0} /\ MaxPending \in Nat \ {0}

VARIABLES
    signMain,    \* where the service's worker thread is
    signRun,     \* g_SigningWorkerRunning
    signSignal,  \* g_SigningQueueEvent, manual-reset
    stopSignal,  \* g_ServiceCtx.StopEvent, manual-reset
    signQueue,   \* g_SigningQueueList
    signActive,  \* g_SigningActiveList
    signItem,    \* the work items ever made: their file and pending events
    signDepth,   \* g_SigningQueueDepth
    signPending, \* g_SigningPendingEventDepth
    signWorker,  \* the workers: where they are, their item and their batch
    arrived,     \* the files of the events so far
    sent,        \* the events dispatched: number, and whether enriched
    freed        \* the events accepted and freed without dispatch

signVars == <<signMain, signRun, signSignal, stopSignal, signQueue, signActive,
              signItem, signDepth, signPending, signWorker, arrived, sent, freed>>

DefaultSigningWorkers == 2     \* SYSMON_DEFAULT_SIGNING_WORKERS
MaxSigningWorkers == 8         \* SYSMON_MAX_SIGNING_WORKERS

\* One worker below eight processors, the default number of workers above.
DeterminedWorkers ==
    IF SignProcessors < 8 THEN 1 ELSE Min({SignProcessors, DefaultSigningWorkers, MaxSigningWorkers})

WorkerTotal ==
    IF ConfiguredWorkers = 0 THEN DeterminedWorkers
    ELSE Min({ConfiguredWorkers, MaxSigningWorkers})

SignWorkers == 1 .. WorkerTotal
NoWorkItem == 0

SignInit ==
    /\ signMain = "start" /\ signRun = TRUE /\ signSignal = FALSE
    /\ stopSignal = FALSE
    /\ signQueue = <<>> /\ signActive = <<>> /\ signItem = <<>>
    /\ signDepth = 0 /\ signPending = 0
    /\ signWorker = [w \in SignWorkers |->
                       [at |-> "none", item |-> NoWorkItem, batch |-> <<>>]]
    /\ arrived = <<>> /\ sent = <<>> /\ freed = {}

InSign(w, at) == signWorker[w].at = at
SignMoves(w, at) == signWorker' = [signWorker EXCEPT ![w].at = at]

-----------------------------------------------------------------------------
(* SysmonPipelineInit *)

\* CreateThread, for one worker after the other.
StartWorker(w) ==
    /\ signMain = "start" /\ InSign(w, "none")
    /\ \A v \in 1 .. w - 1 : ~InSign(v, "none")
    /\ SignMoves(w, "test")
    /\ signMain' = IF w = WorkerTotal THEN "dispatch" ELSE "start"
    /\ UNCHANGED <<signRun, signSignal, stopSignal, signQueue, signActive, signItem,
                   signDepth, signPending, arrived, sent, freed>>

\* CreateThread fails: the workers made so far are stopped and waited for, with
\* no limit; StopEvent is only set when SysmonPipelineInit has returned.
StartFails ==
    /\ signMain = "start"
    /\ signMain' = "failed" /\ signRun' = FALSE /\ signSignal' = TRUE
    /\ UNCHANGED <<stopSignal, signQueue, signActive, signItem, signDepth,
                   signPending, signWorker, arrived, sent, freed>>

SignWorkersGone == \A w \in SignWorkers : signWorker[w].at \in {"none", "done"}

StartFailureEnds ==
    /\ signMain = "failed" /\ SignWorkersGone
    /\ signMain' = "stopped"
    /\ UNCHANGED <<signRun, signSignal, stopSignal, signQueue, signActive, signItem,
                   signDepth, signPending, signWorker, arrived, sent, freed>>

-----------------------------------------------------------------------------
(* SysmonPipelineDispatch and SysmonQueueImageSignatureEnrichment *)

\* The first of the items that is the file's.
FirstOf(items, file) ==
    LET at == {k \in DOMAIN items : signItem[items[k]].file = file}
    IN  IF at = {} THEN NoWorkItem ELSE items[Min(at)]

FindQueuedOnly(file) == FirstOf(signQueue, file)

\* The item of a file: the queue first, then the active items.
FindItem(file) == FirstOf(signQueue \o signActive, file)

\* The queue refuses: the raw event is dispatched at once (for a driver load
\* after an enrichment on this thread).
DispatchRaw(e) ==
    /\ sent' = Append(sent, [event |-> e, enriched |-> FALSE])
    /\ UNCHANGED <<signMain, signQueue, signItem, signDepth, signPending>>

JoinItem(i, e) ==
    /\ signItem' = [signItem EXCEPT ![i].pending = Append(@, e)]
    /\ signPending' = signPending + 1
    /\ signMain' = "signal"
    /\ UNCHANGED <<signQueue, signDepth, sent>>

NewItem(file, e) ==
    /\ signItem' = Append(signItem, [file |-> file, pending |-> <<e>>])
    /\ signQueue' = Append(signQueue, Len(signItem) + 1)
    /\ signPending' = signPending + 1 /\ signDepth' = signDepth + 1
    /\ signMain' = "signal"
    /\ UNCHANGED sent

SigningQueueFull == signDepth >= SigningQueueSize \/ signPending >= MaxPending

ItemFull(i) ==
    Len(signItem[i].pending) >= MaxPerItem \/ signPending >= MaxPending

\* An event that the rules did not reject; it joins its file's item, opens a
\* new one, or finds the queue at one of its limits.
ImageEvent(file) ==
    LET e == Len(arrived) + 1
        found == FindItem(file)
    IN /\ signMain = "dispatch" /\ e <= ImageEvents
       /\ arrived' = Append(arrived, file)
       /\ IF found # NoWorkItem
          THEN IF ItemFull(found) THEN DispatchRaw(e) ELSE JoinItem(found, e)
          ELSE IF SigningQueueFull THEN DispatchRaw(e) ELSE NewItem(file, e)
       /\ UNCHANGED <<signRun, signSignal, stopSignal, signActive, signWorker, freed>>

\* SetEvent, after the lock is left.
SignalWorkers ==
    /\ signMain = "signal"
    /\ signSignal' = TRUE /\ signMain' = "dispatch"
    /\ UNCHANGED <<signRun, stopSignal, signQueue, signActive, signItem, signDepth,
                   signPending, signWorker, arrived, sent, freed>>

-----------------------------------------------------------------------------
(* SysmonSigningWorkerThreadMain *)

\* The loop's condition.
WorkerTests(w) ==
    /\ InSign(w, "test")
    /\ SignMoves(w, IF signRun THEN "wait" ELSE "done")
    /\ UNCHANGED <<signMain, signRun, signSignal, stopSignal, signQueue, signActive,
                   signItem, signDepth, signPending, arrived, sent, freed>>

WaitsForWorkOnly(w) ==
    /\ InSign(w, "wait") /\ signSignal /\ SignMoves(w, "pop")
    /\ UNCHANGED <<signMain, signRun, signSignal, stopSignal, signQueue, signActive,
                   signItem, signDepth, signPending, arrived, sent, freed>>

\* WaitForMultipleObjects: the queue's event, and with lower rank StopEvent.
WorkerWakes(w) ==
    /\ InSign(w, "wait")
    /\ signSignal \/ stopSignal
    /\ SignMoves(w, IF signSignal THEN "pop" ELSE "done")
    /\ UNCHANGED <<signMain, signRun, signSignal, stopSignal, signQueue, signActive,
                   signItem, signDepth, signPending, arrived, sent, freed>>

\* SysmonPopQueuedEnrichmentWorkItem: the event is reset when the queue is, or
\* becomes, empty.
WorkerPops(w) ==
    /\ InSign(w, "pop")
    /\ IF signQueue = <<>>
       THEN /\ SignMoves(w, "test")
            /\ UNCHANGED <<signQueue, signActive, signDepth>>
       ELSE /\ signWorker' = [signWorker EXCEPT ![w].at = "detach", ![w].item = Head(signQueue)]
            /\ signActive' = Append(signActive, Head(signQueue))
            /\ signQueue' = Tail(signQueue)
            /\ signDepth' = signDepth - 1
    /\ signSignal' = (signSignal /\ signQueue' # <<>>)
    /\ UNCHANGED <<signMain, signRun, stopSignal, signItem, signPending, arrived,
                   sent, freed>>

DetachUncounted(w) ==
    LET i == signWorker[w].item
    IN /\ signWorker' = [signWorker EXCEPT ![w].at = "enrich", ![w].batch = signItem[i].pending]
       /\ signItem' = [signItem EXCEPT ![i].pending = <<>>]
       /\ UNCHANGED <<signPending, signActive>>

\* The events of the item are taken off it and off the counter.
DetachEvents(w) ==
    LET i == signWorker[w].item
    IN /\ signWorker' = [signWorker EXCEPT ![w].at = "enrich", ![w].batch = signItem[i].pending]
       /\ signItem' = [signItem EXCEPT ![i].pending = <<>>]
       /\ signPending' = signPending - Len(signItem[i].pending)
       /\ UNCHANGED signActive

\* No event is left: the item leaves the active list and is freed.
RetireItem(w) ==
    /\ signWorker' = [signWorker EXCEPT ![w].at = "yield", ![w].item = NoWorkItem]
    /\ \E k \in DOMAIN signActive :
          /\ signActive[k] = signWorker[w].item
          /\ signActive' = RemoveAt(signActive, k)
    /\ UNCHANGED <<signItem, signPending>>

\* One turn of SysmonProcessQueuedEnrichmentWorkItem under the lock.
WorkerDetaches(w) ==
    /\ InSign(w, "detach")
    /\ IF signItem[signWorker[w].item].pending = <<>>
       THEN RetireItem(w) ELSE DetachEvents(w)
    /\ UNCHANGED <<signMain, signRun, signSignal, stopSignal, signQueue, signDepth,
                   arrived, sent, freed>>

\* The event's signature and hashes are known; is the service still running?
WorkerEnriches(w) ==
    /\ InSign(w, "enrich")
    /\ IF signRun
       THEN SignMoves(w, "send") /\ UNCHANGED freed
       ELSE /\ freed' = freed \cup {Head(signWorker[w].batch)}
            /\ signWorker' = [signWorker EXCEPT
                 ![w].batch = Tail(@),
                 ![w].at = IF Len(signWorker[w].batch) = 1 THEN "detach" ELSE "enrich"]
    /\ UNCHANGED <<signMain, signRun, signSignal, stopSignal, signQueue, signActive,
                   signItem, signDepth, signPending, arrived, sent>>

\* SysmonDispatchPreparedEvent.
WorkerSends(w) ==
    /\ InSign(w, "send")
    /\ sent' = Append(sent, [event |-> Head(signWorker[w].batch), enriched |-> TRUE])
    /\ signWorker' = [signWorker EXCEPT
         ![w].batch = Tail(@),
         ![w].at = IF Len(signWorker[w].batch) = 1 THEN "detach" ELSE "enrich"]
    /\ UNCHANGED <<signMain, signRun, signSignal, stopSignal, signQueue, signActive,
                   signItem, signDepth, signPending, arrived, freed>>

\* The item is freed: the next one, unless the service stops.
WorkerYields(w) ==
    /\ InSign(w, "yield")
    /\ SignMoves(w, IF signRun THEN "pop" ELSE "test")
    /\ UNCHANGED <<signMain, signRun, signSignal, stopSignal, signQueue, signActive,
                   signItem, signDepth, signPending, arrived, sent, freed>>

WorkerStep(w) ==
    \/ WorkerTests(w) \/ WorkerWakes(w) \/ WorkerPops(w) \/ WorkerDetaches(w)
    \/ WorkerEnriches(w) \/ WorkerSends(w) \/ WorkerYields(w)

-----------------------------------------------------------------------------
(* The stop *)

\* The service's control handler, the monitor's Stop value, a failed receive.
SetStopEvent ==
    /\ ~stopSignal /\ stopSignal' = TRUE
    /\ UNCHANGED <<signMain, signRun, signSignal, signQueue, signActive, signItem,
                   signDepth, signPending, signWorker, arrived, sent, freed>>

\* SysmonPipelineCleanup, up to the wait for the workers.
PipelineCleanup ==
    /\ signMain = "dispatch"
    /\ signMain' = "stopping" /\ signRun' = FALSE /\ signSignal' = TRUE
    /\ UNCHANGED <<stopSignal, signQueue, signActive, signItem, signDepth,
                   signPending, signWorker, arrived, sent, freed>>

EventsOf(items) == UNION {ToSet(signItem[i].pending) : i \in items}

\* All workers have exited: what is left on the lists is freed.
PipelineCleaned ==
    /\ signMain = "stopping" /\ SignWorkersGone
    /\ signMain' = "stopped"
    /\ freed' = freed \cup EventsOf(ToSet(signQueue) \cup ToSet(signActive))
    /\ signQueue' = <<>> /\ signActive' = <<>>
    /\ signDepth' = 0 /\ signPending' = 0 /\ signSignal' = FALSE
    /\ signItem' = <<>>
    /\ UNCHANGED <<signRun, stopSignal, signWorker, arrived, sent>>

SignNext ==
    \/ \E w \in SignWorkers : StartWorker(w) \/ WorkerStep(w)
    \/ StartFails \/ StartFailureEnds
    \/ \E file \in Files : ImageEvent(file)
    \/ SignalWorkers \/ SetStopEvent \/ PipelineCleanup \/ PipelineCleaned

SignSpec == SignInit /\ [][SignNext]_signVars

\* A worker that can go on does, the file being verified at
\* last, and the thread that cleans up goes on once it has begun.
SignFairness ==
    /\ \A w \in SignWorkers : WF_signVars(WorkerStep(w))
    /\ WF_signVars(SignalWorkers)
    /\ WF_signVars(PipelineCleaned) /\ WF_signVars(StartFailureEnds)
    /\ WF_signVars(signMain = "stopping" /\ SetStopEvent)

-----------------------------------------------------------------------------

SignListed == ToSet(signQueue) \cup ToSet(signActive)
SignDispatched == {sent[k].event : k \in DOMAIN sent}
SignBatches == UNION {ToSet(signWorker[w].batch) : w \in SignWorkers}

\* The counters agree with the lists, no two items are of the same file, and
\* every event that arrived is in one place: waiting on an item, in a worker's
\* batch, dispatched once, or freed; after the cleanup nothing waits and no
\* worker is left to touch the output (pipeline.cpp 2259-2544, 2778-2848).
SignEventsAccounted ==
    /\ signDepth = Len(signQueue)
    /\ signPending = MapThenSumSet(LAMBDA i : Len(signItem[i].pending), SignListed)
    /\ Cardinality({signItem[i].file : i \in SignListed}) = Len(signQueue) + Len(signActive)
    /\ 1 .. Len(arrived) = EventsOf(SignListed) \cup SignBatches \cup SignDispatched \cup freed
    /\ Len(arrived) = Cardinality(EventsOf(SignListed)) + Cardinality(SignBatches)
                        + Len(sent) + Cardinality(freed)
    /\ signMain = "stopped" => SignWorkersGone /\ SignListed = {}

\* The events of a file that go through the queue are dispatched in the order
\* in which they came, whichever workers take its work items (pipeline.cpp
\* 2235-2257, 2455-2467).
FileEventsInOrder ==
    \A j, k \in DOMAIN sent :
        /\ j < k /\ sent[j].enriched /\ sent[k].enriched
        /\ arrived[sent[j].event] = arrived[sent[k].event]
        => sent[j].event < sent[k].event

\* A cleanup comes to its end: StopEvent wakes the workers that missed the
\* queue's event (pipeline.cpp 2546-2598, 2778-2808).
CleanupComesToEnd == (signMain = "stopping") ~> (signMain = "stopped")

=============================================================================
