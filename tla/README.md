# OpenSysmon: TLA+ models, checks and proofs

OpenSysmon is a Windows activity monitor. A kernel driver (`src/SysmonDrv`)
hooks process, thread, image, handle, registry and file activity, filters the
resulting events by rules and queues them. A user-mode service
(`src/SysmonUser`) takes them from the driver, adds those of its own sources
(ETW network and DNS traces, WMI, clipboard), verifies signatures, enriches the
events and writes them out.

This directory holds TLA+ models of that code, TLC configurations that check
them on small instances, and TLAPS proofs for every instance. `PROJECT.json`
is the index: components, runs, theorems, hazards, findings, and for each
definition the lines of source it models.

## 1. Inventory

### The driver (`src/SysmonDrv/src`)

| Component | State | Operations | Hard behaviours | What makes it correct | Modules |
|---|---|---|---|---|---|
| Event queue (`queue.c`) | list of blobs, `Count`, `TotalSize`, spin lock | enqueue with eviction, dequeue, purge | two limits at once; counters kept by hand | counters agree with the list; FIFO; only the oldest are evicted | `DriverQueue` |
| Event channel (`communication.c`, dispatch in `driver.c`) | CSQ of pended `GET_EVENT` IRPs, consumer file object, `CapturePaused` | `GET_EVENT`, `INIT`, `STOP`, cancel, `CLEANUP`, publish | producers, requests, cancellation, STOP and shutdown interleave over three locks | each IRP completed once; each event delivered at most once; one consumer | `IrpChannel`, `EventChannel`, `LossyStream` |
| Query channel (`communication.c`) | pending records on their askers' stacks, query queue, pended `GET_QUERY` IRPs | submit and wait, `GET_QUERY`, `QUERY_ANSWER` | a late answer crosses the time-out | the record is signalled only while its frame lives; the answer is the asker's own | `QueryChannel` |
| Lifecycle (`driver.c`) | `RunDownRef`, `ShutdownStarted`, registered sources, `RegistrationLock` | `DriverEntry`, `SyncMonitoringRegistration`, cleanup on unload | shutdown at any moment; lock order | nobody inside after the wait; nothing left pended, queued or registered; an unload ends | `IrpChannel`, `RuleRuntime` |
| Rule runtime (`registry_data.c`) | current runtime with its own rundown, producer flags, access filter | load, validate, swap, release | swap under concurrent readers; failure half-way | old runtime freed once, after its last reader; flags are those of the runtime in force | `RuleRuntime` |
| Rule evaluation (`rules.c`) | none | validate a blob, index it, match an event, derive what to collect | include/exclude precedence, AND/OR groups, fields filled in late | agrees with what the configuration file says; shortcuts do not change a verdict | `RuleEvaluation`, `RuleConditions` |
| Processes (`process.c`) | pending creations, identity cache, finalize worker | create, finalize, terminate callbacks | four kinds of finalizers; pid reuse | a creation is reported once, as itself; nothing of it outlives its process | `ProcessCreate` |
| Threads, process access (`thread.c`, `obcallback.c`) | list of items, queued flag, idle event | callback, worker, unregistration | flag and event outside the list's lock | work item queued once; no item without a worker; an unregistration ends | `SourceWorker` |
| Images (`image.c`) | per-processor lists, item count, worker slots, idle event | callback, workers, unregistration | lock-free reservation of workers, idle detection | no item stranded; teardown only when idle | `ImageWorkers` |
| Tampering (`tampering.c`) | tracked processes with a retry budget, shared work items | track, check, bounded wait, delayed retry | the late worker after the 500 ms wait; retry against tracking | one report for a process; a work item is freed by the last of its two users | `Tampering` |
| Minifilter (`minifilter.c`) | context of a file object, archive directory | creation, set-information, write, cleanup, close | others write between any two steps; a copy takes long | the filter acts on an executable it has found in the file; a deleted file is in the archive | `FileBlock` |
| File data (`fileinfo.c`, `hash.c`) | cache set up by its first caller | look up, compute, merge, evict | files replaced and algorithm reconfigured meanwhile | one entry for a path; hashes are those of its mask and file | `FileInformation` |
| Process data (`processinfo.c`), registry callback (`registry.c`), event construction (`event.c`, `utils.c`) | none between two calls | translate, build payloads | I/O, layout | - | - |
| Stubs (`pipe.c`, `network.c`, `dns.c`, `clipboard.c`, `wmi.c`) | none | none | - | - | - |

### The service (`src/SysmonUser/src`)

| Component | State | Operations | Hard behaviours | What makes it correct | Modules |
|---|---|---|---|---|---|
| Transport (`protocol.cpp`) | device handle, one overlapped read | receive with a 1 s time-out, control calls, reconnect | the time-out races the answer | no event taken twice | the client of `IrpChannel`, a step of `Service` |
| Service (`service.cpp`, `config.cpp`) | configuration, running sources, threads, stop event | start, reload, health check, stop | reload, health check and stop race | sources stay stopped after the stop; follow the last configuration; every thread ends | `Service` |
| Signing queue (`pipeline.cpp`) | work items by file with waiting events, depth counters, worker pool | coalesce, pop, dispatch, start, stop | two bounds; stop during verification | every event in one place; order of a file's events; a cleanup ends | `SigningPipeline` |
| Enrichment and its caches (`pipeline.cpp`, `path_cache.cpp`) | three hash tables in arrays, device map | convert a path, verify, hash, rebuild the event | victims in the middle of other chains; files replaced during a verification | chains are well linked; an event carries the verdict on its own file | `SlotCache`, `ImageEnrichment` |
| Network source (`network_trace.cpp`) | recent connections, name cache, pool work items | ETW callback, lookup, expiry | reservation before queueing; two clocks | no duplicates; a reserved name is being resolved | `Network` |
| Process store (`process_store.cpp`, `source_common.cpp`) | instances by pid and time, activity heap, DNS answers | look up, insert, touch, evict | pid reuse, insertion in any order, stale heap entries | lookup returns the instance alive at that time; idle nodes are swept | `ProcessStore` |
| Rules (`xml_config.cpp`, `rules.cpp`) | none | merge a file's groups, write the blob, evaluate, early rejection | a second implementation of the driver's evaluation | the driver accepts what is written and means the same | `RuleEvaluation`, `RuleConditions` |
| Other sources (`dns_trace.cpp`, `wmi_trace.cpp`, `clipboard_monitor.cpp`) | session handles | start, stop, callback | stop during callback | - | sources of `Service` |
| Output (`output*.cpp`, `event*.cpp`, `hash_compat.cpp`) | log handles | render, write | - | - | - |
| Installer, command line (`installer.cpp`, `cli.cpp`, `main.cpp`, `common.cpp`) | none | sequential | - | - | - |

### How they interact

Kernel callbacks (process, thread, image, handle, registry, file) build an
event and call `SysmonPublishEventWithFilterState`, which takes the driver's
rundown, asks the rule runtime, and hands the event to a pended `GET_EVENT`
request or queues it. Callbacks that may not block leave a context on a list
and queue a system work item, which builds and publishes later; image loads
also start the checks for tampering. A process creation is left pending until
whoever needs it first finalizes it. The service's worker thread reads events
in a loop through `protocol.cpp` and passes them to the pipeline; image and
driver loads go through the signing workers, which use the caches. The sources
of the service look processes up in the process store, which asks the driver.
The service writes a new configuration to the registry and sends
`CONFIG_NOTIFY`; the driver loads a new rule runtime and registers or
unregisters sources to match, while the monitor thread of the service takes the
change over and restarts its own sources. Unloading sets `ShutdownStarted`,
unregisters sources, waits for the rundown, drains the pended requests and
purges the queues.

## 2. Plan

| Step | Modules | What they cover |
|---|---|---|
| 1 (done) | `DriverQueue`, `IrpChannel`, `EventChannel`, `LossyStream`, `SequenceLemmas`, `ChannelProofs` | the path of an event from a callback to a client, under STOP, close and shutdown |
| 2 (done) | `ImageWorkers`, `ImageWorkersProofs` | the worker pool of the image-load source, its registration and teardown |
| 3 (done) | `RuleRuntime`, `SourceWorker`, `ProcessCreate`, `QueryChannel` | the swap of the rules, the driver's other asynchronous work, process events, queries |
| 4 (done) | `Tampering`, `FileBlock`, `FileInformation` | bounded wait and retries; blocking and archiving; the cache of hashes |
| 5 (done) | `RuleEvaluation`, `RuleConditions` | pure algorithms against a reference definition |
| 6 (done) | `SigningPipeline`, `SlotCache`, `ImageEnrichment`, `ProcessStore`, `Network`, `Service` | the service's workers, caches, reload and stop |
| 7 (done) | `ChannelProofs`, `RuleProofs`, `DeferredWorkProofs`, `FileProofs`, `SigningProofs`, `ServiceProofs` | what of steps 3 to 6 holds for every instance |
| left | the minifilter's other events; the fields of ETW records | - |

Composition: `EventChannel` extends `IrpChannel`, which extends `DriverQueue`,
and they share variables, because producers and requests meet over the queue;
`ImageEnrichment` is built from `SlotCache`. The other components of the driver
meet the channel only when they publish, which never waits for them, and each
other through flags and lookups that the modules leave free. They are therefore
checked one at a time: `MCDriver`, `MCLiveness` and `MCService` put several
components into one run, and the variable `part` says which of them a behaviour
is a behaviour of.

## 3. The modules

### `DriverQueue`: `queue.c`

`nodes`, `count`, `total` are `Head`, `Count`, `TotalSize`; `lock` is the
thread inside `Queue->Lock`, needed because the eviction loop is taken turn by
turn (`EvictOldest`, then `AppendBlob`). `SizeOf` gives each blob its size. The
event builders never make an event of no size or one larger than the queue, so
the size checks of `SysmonEnqueueEvent` do not arise.

### `IrpChannel`: the requests, `communication.c` and `driver.c`

Each request has a place (`irpPc`): `acquire`, `dequeue` in
`SysmonHandleGetEvent`; `enter`, `claim`, `insert` in `SysmonPendGetEventIrp`;
`pended` in the CSQ; `owned` by a producer that took it out; `done`. Each step
is one critical section or one interlocked access. `ctl[h]` is the control
thread of handle `h`: STOP and close set `CapturePaused` or nothing, then run
`SysmonCancelPendingIrpsForFileObject` (rundown, cancel one by one, release the
consumer). `sd` is the thread of `SysmonDriverCleanupInternal`, from
`ShutdownStarted` to the deletion of the device. `SerialClient` says whether a
client keeps control calls and requests in one thread, as the service does.

### `EventChannel`: the producers

`pubPc[p]` walks through `SysmonPublishEventWithFilterState`: the
`CapturePaused` test, rundown and rules (`Filter`: the verdict is free), the
CSQ removal (`TakeIrp`), then either the copy and completion (`HandOver`) or
the enqueue, which may fail for memory, evict, or store. `fate` and `delivered`
are history variables: they say what became of each event and steer nothing.

### `LossyStream`: the promise

An abstract FIFO: an event is passed straight to a reader, waits in line, or is
lost; the line gives up its oldest only, or everything at shutdown.
`ImplementsStream` maps the queue's list to the line, the delivered events to
what readers received, and events with a lost fate to the lost ones.

### `ImageWorkers`: the pool of `image.c`

`list[q]` is the `WorkList` of a processor, `itemCount`, `active` and `claimed`
are `g_ImageWorkItemCount`, `g_ImageActiveWorkers` and the set flags of
`g_ImageWorkerQueued`; `accepting`, `idleEvent` and `initialized` keep their
names. A step is one critical section or one interlocked access.

* A callback (`Producers`) goes `depth`, `insert` through
  `SysmonQueueImageWorkContext`, then through `SysmonReserveImageWorkers`:
  `pending` reads the counter, `place` takes a place among the active workers,
  `claim` tries the slots one by one, `clear` resets the idle event, `submit`
  queues the work items.
* A system thread (`Threads`) that takes a work item goes through
  `SysmonImageIoWorkItemCallback`: `look` and `process` in turn until all lists
  are found empty, `release` of the slot, `retire` from the place, `again` and
  `more` to look once more and reserve, `stopping` and `discard` when work is no
  longer accepted, `idle`, `empty` and `signal` for the idle event, `submit`.
* `reg` is the thread that registers and unregisters under `RegistrationLock`:
  `StopAccepting`, the two reads of the idle test (`active`, `items`), the wait,
  `DrainLists`, `FreeWorkItems`.

Reading `g_ImageActiveWorkers` and the compare-exchange that follows are one
step, because a failed exchange reads again. Workers visit the lists from a
shared rolling cursor; the model lets them visit in any order.
`PsRemoveLoadImageNotifyRoutine` is external: it returns once the running
callbacks have returned. When work items are freed while a worker still runs
or is about to run (`freedBusy`), what follows is undefined and the model
stops there; all invariants speak of the time before.

### `RuleRuntime`: `registry_data.c`, `driver.c`, `CONFIG_NOTIFY`

`runtimes` has a record for each runtime created, with its readers, the flags
derived from it and whether it was freed; `runtime`, `producerFlags`,
`accessFilter`, `regLock` are `g_Context.RuleRuntime`, `ProducerFlags`, the
filter of process accesses and `RegistrationLock`; `armed` are the callbacks
registered with the kernel. `loader[t]` is a thread of `CONFIG_NOTIFY`,
`DriverEntry` (`Entry`) or `SysmonDriverCleanupInternal` (`Unload`). It goes
through `SysmonLoadConfiguration` (`LoadDwords`, `LoadValues`, `LoadRules`,
`ApplyConfig`, and from each either on or to `LoadFails`), swaps under
`RuleLock` (`LoadSwap`), applies the access filter, waits for the readers of
the old runtime and frees it (`FreeOld`), and brings the registrations in line
(`SyncDrop`, `SyncWait`, `SyncAdd`). `reader[c]` is a callback: registered
(`CallbackEnter`), the two tests of the flags one after another, the snapshot
of the runtime and its release. What the registry holds is chosen again at
every value, because the service writes it value by value. A value of the
wrong type is read as the code reads it (section 7).

### `SourceWorker`: `thread.c`, `obcallback.c`

`waiting` counts the list, `counted`, `flag`, `idle` are the worker's item
count, queued flag and idle event; `handedOver` says how often the work item is
in the system's queue. A callback (`notifier`) goes through the filter, the
bound, the count, the list, and the exchange of the flag; the routine
(`workThread`) takes and handles items until it finds none, resets the flag and
sets the event. `control` registers, removes the callback, waits for the event,
drains and frees. `source` says which of the two files is meant: they differ in
the callback's filters and in a failed registration.

### `ProcessCreate`: `process.c`

A process is a number, its stage says which callbacks it has been through.
`pending` has one entry for a process id, as the code finds entries by id;
`finalizer` are the four that may finalize it (the worker, the thread callback,
an event of another source that is enriched with it, the exit callback), each
through `SysmonPopulate...`, the identity cache, the publication and
`CompletePending`. `cache` is one bucket, the latest used last. `flags` is what
the two producer flags say, which the callbacks ask first (`Producing`) and a
reload changes before it registers or unregisters the hook (`FlagsChange`,
`UnregisterProcess`): an exit callback that finds them cleared returns at once
and leaves what is pending to the cleanup. `reusedEarly` is a history variable:
a process id was used again while a finalizer of the former process was at work.

### `Tampering`: `tampering.c`

`tracked[p]` is the budget of a tracked process. `load[l]` is an image-load
callback that shares its work item with the worker (`refs`, `freed`), waits at
most 500 ms (`LoadWakes` may come at any time) and leaves; `check[w]` is the
check run by a work item: `open`, `capture`, `query`, `compare`, `file`,
`report`, with the outcomes of the system's calls chosen, or back on the list
with a smaller budget and a delayed retry. `SameImage` and `PathsEqual` are the
comparisons of the code over small sets of images and paths.

### `QueryChannel`: the queries of `communication.c` and `queue.c`

`pendingQuery[a]` is the record on the stack of asker `a`; `queryLock` is
`g_PendingQueryLock`, held by `AnswerQuery` until `SignalQuery` has set the
record's event. An asker links its record, sends it to a waiting request or
queues it, waits (`answered` or `timeout`), unlinks and leaves. A worker takes
a query, pends, may be cancelled, and answers by id.

### `FileBlock`: `minifilter.c`

`context[o]` is the context of file object `o`, `content[f]` says whether file
`f` is an executable and how often it was written. Creation and set-information
arm the object (`PreCreate`, `PostCreate`, `PreSetInfo`, `PostSetInfo`), writes
mark it (`PreWrite`, `PostWriteMarks`, `PostWriteReadsHeader`), cleanup or
close finalizes it: `EvaluateRules`, `Revalidate` against the file's present
header, archive by rename or by a copy chunk by chunk between two readings of
the identity, delete, and publish Event 27 or 29. `OthersWrite` may come
between any two steps, and every call of the file system may fail.

### `FileInformation`: `fileinfo.c`

`setUp` has the states of the cache, of its event and of the event's content,
set by the first callers. A collector asks for a path (`Asks`), looks the bucket
up, maps or reads the file, perhaps reopening it, and stores: `ExactMatches`,
`StalePaths`, `Invalid` and `Oldest` are the code's four choices of a slot, and
`Merged` unites what two callers computed. Files are replaced (`Replaced`), the
algorithm is changed (`Reconfigured`).

### `RuleEvaluation`, `RuleConditions`: `xml_config.cpp`, `rules.cpp`, `rules.c`

`xml` is the `EventFiltering` element of a configuration file; the actions of
`RuleEvaluation` write one element more, so that every file of bounded size is
a state. `RuleSet` merges it as the parser does, `Serialize` writes the blob,
`DriverAccepts` and `LoadRuleRuntime` read it, `DriverCapture` evaluates it and
`ServiceCapture` does so in the service. `DriverCanProduceLogs`, `NeedsVersion`
and `EarlyReject` are the shortcuts. An expression is a kind of field with its
truth for the field's value and for an empty field. `Meant` is the reference
definition, taken from `docs/configuration.md` and the comment at
`rules.c:1773-1777`; other texts of the repository disagree with these two
(section 7). In `RuleConditions` every field
text and rule text of bounded length is a state; `Scan` and `Tokens` are the
driver's loop over a rule's value, `DriverCondition` cuts a token to its buffer,
and `Documented` is the reference, from the installer's help text.

### `SigningPipeline`: the signing queue of `pipeline.cpp`

`signQueue` and `signActive` are the two lists of work items, `signDepth` and
`signPending` the counters beside them, `signSignal` and `stopSignal` the two
events. A step is a section under `g_SigningQueueLock`. The service's worker
thread starts the workers (one start may fail), hands events in (`JoinItem`,
`NewItem`, or raw dispatch at a bound) and cleans up; a worker tests, waits,
pops, detaches a batch, enriches, sends, and yields or retires the item.

### `SlotCache`, `ImageEnrichment`: caches and enrichment

`SlotCache` is the array of slots with bucket chains and a round-robin victim
that three caches of the service share; its operators take a cache and return
one. `ImageEnrichment` uses three of them. A thread begins with an event
(`FilterLoad`, `BeginEnrichment`: conversion of the path, caches). The
verification has a step for each time it opens the file, without a lock: the
hint of an embedded signature (`TryHint`), the embedded signature
(`TryEmbedded`), the catalog (`TryCatalog`), and, if the event's own action
names nobody, the generic action (`TryGeneric`, `TryGenericCatalog`). Then the
thread stores the verdict, hashes the file, stores the bundle and rebuilds the
event, while files get new contents, between any two steps, and volumes are
mounted.

### `ProcessStore`: `process_store.cpp`, `source_common.cpp`

`storeNode` are the nodes with their instances, latest first, `storeHeap` the
array of the binary heap with the code's sift up and down. Each operation holds
the store's lock; a source that finds nothing asks the driver without it
(`CollectLooksUp`, `CollectAsks`, `CollectInserts`, or `CollectFails` when there
is no memory for the instance). The heap may fail to grow: the activity then has
no entry, and `unrecorded` is a history variable that says of which nodes this
is so.

### `Network`: `network_trace.cpp`

`recent` is the table of recent connections, scanned turn by turn with its swap
removal; `nameCache` and `nameWork` are the names and the count of work items.
A record is parsed by its layout or by TDH, or by neither and is dropped
(`PackedParse`, `Parsed`); its fields are not modelled. The ETW thread goes
through the keys of a connection: look up, count, reserve, queue or undo. `tick`
never goes back, `wall` may.

### `Service`: `service.cpp`, `config.cpp`

`worker`, `monitor`, `mainThread`, `handler` and `queries` are the threads;
`running` and `stopEvent` are read without a lock; `sources` are the optional
sources that run. The worker loads, connects, prepares, computes and applies a
mask of sources, and then loops: receive, compute, refresh. The monitor waits
for the registry, reads, tests, swaps and applies. A stop may come from the
control handler, the registry's `Stop` value, a failed connection or bad rules.

### The MC modules

`MCEventChannel`, `MCImageWorkers`, `MCRuleRuntime` and `MCRules` give values to
constants. `MCDriver`, `MCLiveness` and `MCService` extend several components
and let `part` choose one of them at the start.

Definitions marked "Faulty variant" are used by nothing: each is what a
plausible slip of the code would make of the definition after it, and the
property named in `PROJECT.json` is violated when it takes that definition's
place.

## 4. The runs

| Run | Instance | What it shows |
|---|---|---|
| `event_delivery` | 2 producers, 4 events (one fills the queue), 2 requests on one handle, queue of 2 nodes / 3 bytes | counters, one place for each request and event, the stream is implemented |
| `event_control` | 1 producer, 1 event, 2 requests on 2 handles, INIT/STOP/close/shutdown at any time, requests overlap control calls | no rundown reference lost; nothing survives the drain |
| `single_consumer` | as above, serial clients | only the consumer's handle receives events |
| `channel_liveness` | 1 producer, 2 events, 1 request, queue of 1 | a queued event moves on; a shutdown ends |
| `driver` | the eight parts of `MCDriver` (below) | the driver's sources, caches and control calls, each under every interleaving |
| `liveness` | the five parts of `MCLiveness` | queued image contexts are served; a cleanup, an unload, an unregistration, the signing queue's cleanup and the service's stop end; sources follow the last configuration |
| `service` | the ten parts of `MCService` (below) | rules, conditions, signing queue, caches and enrichment, process store, network tables, stopped sources |
| `second_handle_drains` (violation) | as `single_consumer`, clients not serial | STOP between check and dequeue lets a second handle drain |
| `stranded_event` (violation) | 1 producer, 2 events, 2 requests | an event stays queued beside a waiting request |
| `image_freed_busy` (violation) | 2 callbacks, 2 system threads, 2 contexts, pool of 2 | the idle test lets the work items be freed under a worker |
| `mixed_flags` (violation) | 2 reloads, 1 callback, 3 contents of the registry | a callback acts on flags of two configurations |
| `pruned_version` (violation) | files with one rule of two fields | the version shortcut changes a verdict |

### Bounds, and why they are enough

*The channel.* Two producers and two requests give every pairwise race over the
CSQ, the queue and the consumer; a third actor adds no new shared variable. A
queue of two nodes and three bytes makes each limit bind on its own, a large
event evict two nodes in one enqueue, and a small buffer truncate. Events are
not reused, so histories are finite; four of them overflow the queue twice. The
events of equal size are symmetric. `event_control` and `single_consumer` use
one event because their questions are about requests and handles.

*`driver`* (about a million states):

* images: two callbacks and one system thread that may run several routines one
  after another, depth 1, so that the check outside the lock is overrun, which
  is what `ItemsAccounted` bounds; two slots, so that a search passes one that
  is given back behind it; a second registration meets the tail of the first;
* rule runtime: two reloads, three runtimes (DriverEntry's and one of each
  reload), one callback; the two contents of the registry differ in every switch
  and one of them has a value of the wrong type. With two reloads the lock is
  contended, a failed reload follows a good one, and the unload meets one;
* deferred work: two callbacks and two system threads, so that the routine
  starts a second time before the first run has ended; two items at most;
* processes: one id used twice, a bucket of one entry: reuse under a finalizer
  and eviction of the identity both happen, and reloads may clear and set the
  flags at any time;
* tampering: two loads and one retry at the same time on one process, budget 1,
  two attempts to settle;
* queries: two askers, two workers, queue of one, three request ids, so that
  an answer comes after its time-out while the next query of the same asker
  waits, and a queue overflows;
* files: one file object, others writing up to three times, two chunks to copy;
  with a second object that shares the file, one chunk and two versions, the
  property holds too (1.6 million states), too many for the run it is part of;
* file information: two collectors, one path, a bucket of two entries, two
  files, two calls: set-up race, replacement and merging happen.

*`service`* (about 490 thousand states), in ten parts:

* `rules`: files of up to two groups, two event elements, two fields and one
  `Rule`, with fields that are true before or after they are filled in, but not
  both, which is what tells the shortcuts from full evaluation;
* `text`: texts of two letters, field values of two and rule values of five,
  with a token buffer of two, so that every edge of the tokenizer is reached;
* `signing`: two workers, two files, three events, with one item queued and two
  events an item, so that each bound binds;
* `caches` and `replacement`, which divide the behaviours of the enrichment: two
  files on two volumes, one mounted late, caches of two slots in two buckets.
  In the first the caches fill and evict, in the second a file is replaced while
  it is verified. Of the three contents one has no signature directory, one
  names its signer to the generic action alone, one has an expired signature;
* `sweep`, `instances` and `answers`, which divide those of the process store:
  two sources, two process ids, times up to three, a heap of three. In `sweep`
  nodes of both ids become due, and entries fail for memory; in `instances` two
  sources insert processes of one id in any order, also between two others; in
  `answers` three answers meet a limit of two;
* `network`: three connections of which two share a host, tables of two;
* `service`: one source, one change of the registry, one fault.

*`liveness`* has the smaller instances of the same parts: a pool of one image
worker makes the size guard bind, so that a callback leaves its context to a
worker about to retire; one reload that an unload has to wait for.

What the runs check of safety, invariants and action properties, is proved for
every instance as well (section 6).

`CHECK_DEADLOCK FALSE` appears where the system stops: after an unload, after a
service has ended, or, in the runs with parts, when a part has reached its
bounds.

## 5. Fairness

*The channel.* `FairSpec` assumes that a thread inside the driver runs on
(kernel code between two lock operations is never suspended for ever); that the
client's loop reissues its request (`ServiceWorkerThread`) and cancels one that
waited a second (`SYSMON_EVENT_TIMEOUT` in `protocol.cpp`); that cancellation
and shutdown, once begun, go on. It assumes nothing of callbacks, STOP, close or
unload. Without the client's time-out `QueuedEventMoves` is false, which is what
its mutant shows and what the `stranded_event` run is about.

*Images.* A callback in progress returns, each system thread takes work items
while some wait and runs them (the system's work queue), and an unregistration
goes on once it has removed the callback routine.

*Rule runtime.* Threads inside a reload, inside a callback, `DriverEntry` and
the unload go on. `RegistrationLock` is a fast mutex, which hands itself to its
waiters in turn: `NotifyLock` is the one action with strong fairness, since
others may take and release the lock for as long as they like.

*Deferred work.* Callbacks and system threads go on; the unregistration goes on
once it has removed the callback.

*Signing queue.* The workers run, the service's thread signals them after an
insertion, and a service that stops sets its stop event. That event is the
reason why the cleanup ends; nothing is assumed of arriving events.

*Service.* Its threads run, the control handler that has been called signals,
and the back-off of a faulted source expires. It is not assumed that the
registry changes, that anyone asks for a stop, or that a driver is there.
`SourcesFollowTheConfig` speaks of changes the monitor can hear of (`owed`):
one that comes between the load and the first `RegNotifyChangeKeyValue` is
missed by the code (section 7).

In `MCLiveness` the conditions of a component are those above, each while the
component is the part of the behaviour.

## 6. The proofs

Every theorem rests on nothing but the named assumptions on the constants: that
bounds are natural numbers, that some sets of threads are finite and disjoint,
that the files, names, registries and expressions of an instance are records of
their kind, and that letters are numbers. Together the listed theorems state
every safety property of the passing runs.

*The channel* (`ChannelProofs`; from `QueueLimits`, `RequestsOfHandles`,
`DistinctThreads` and the assumptions of `EventChannel`):

* `TypeCorrect`, `RequestsSafe`, `EventsSafe`, `RundownSafe`, `ShutdownIsSafe`:
  the invariants hold of every behaviour of `Spec`;
* `QueueIsAccounted`: `Count` and `TotalSize` are those of the list. The bytes
  of a list are written as a sum along it (`SumAlong`), of which
  `SequenceLemmas` says what an append and a removal do to it;
* `ChannelImplementsStream`: every step is a step or a stutter of `LossyStream`;
* `OnlyTheConsumerDrains`: with serial clients an event goes to the consumer
  only. A handle under control has no request on its way (`ControlIsQuiet`),
  and a request that has passed the ownership check is of the consumer until a
  shutdown has taken the queue (`OwnersConsume`).

The inductive invariant `Inv` joins the five with `CountIsLength` (without it
the limit on `count` does not survive a dequeue) and `HoldingsFit` (a producer
holds an event exactly between its callback and its last step, and a request
exactly while it copies; without it `HandOver` could complete a request that is
not its own). None of the five is inductive alone: that a request is completed
once needs the rundown argument, because the drain must not meet a producer in
the middle of a hand-over, and the rundown argument needs the program counters.

*The image pool* (`ImageWorkersProofs`; from `PoolParameters`): `PlacesSafe`,
`SlotsSafe`, `ClaimIsSafe`. `ClaimSucceeds` is the hard one. A thread tries the
slots in order while others take and return slots, before and behind it; that it
always finds one is not visible from its own state. The invariant adds
`SearchFits`: for every position `i`, the slots held from `i` on and the threads
searching from `i` on are together no more than the slots from `i` on. A thread
moves past `i` only when slot `i` is held, so one of the two counts below `i`
grows with it. `ItemsSafe` is about the contexts: each is on one list or in one
hand (`ListsFit`, `HandsFit`, `FatesFit`), the counter follows them until the
cleanup empties the lists, when no callback is left to add to them
(`CountFits`, `CallbacksOut`), and the bound holds because a callback adds at
most the one context it was let in with (`Bounded`). All of this ends, as the
property says, at the premature free that `image_freed_busy` shows.

*The rule runtime* (`RuleProofs`; from `ThreadsAssumption`):
`RuntimesAreAlwaysSafe`, which is the invariant `RuntimesAreSafe` of the
`driver` run. `RuntimesAccounted` is not inductive: that a runtime not freed is
in force or in one thread's hands needs that only one thread at a time is
between a creation and the free that follows (`Exclusive`, from
`RegistrationLock`, the order of `DriverEntry` and the unload's wait); that the
wait for readers is enough needs that callbacks get hold of the runtime in force
only (`Readers`); that the unload leaves none behind needs that nobody is inside
a callback when it takes the last runtime (`Quiet`). Finiteness of the set of
callbacks is there because readers are counted. `FlagsAreAlwaysInForce` adds
`FlagsInv`: the flags go with the runtime (`FlagsAreOfTheRuntime`), the access
filter and the registrations catch up while the loader still holds the lock
(`FilterFollows`, `RegistrationsFollow`), and `DriverEntry`, which registers
without it, is alone with its own runtime (`FirstRuntime`).

*The rules* (`RuleProofs`; from the assumption of `RuleEvaluation`):
`RulesAlwaysArrive` and `ShortcutsAlwaysKeepTheVerdict`, for every file of
rules. The invariant is small: every element of the file is one the parser
accepts (`XmlTyped`, `FileStaysTyped`). The work is in the stages that follow,
each of which is put in closed form and carried back to the file. `FlattenSeq`
lays its parts out side by side and `Before` counts what comes before each
(`FlattenLaysOut`, `PartsInOrder`), so a range in the blob holds the children of
one element and of no other (`IsBlob`); the bucket of the index refers to each
event rule for image loads once, by group (`IsBucket`), which is why a scan that
closes a group when the next begins sees each group whole; the folds of
`GroupVerdict` and `Partial` are a conjunction or a disjunction over what is
there (`VerdictIsAnyOrAll`, `PartialIsCautious`). For the early rejection each
level of the three-valued evaluation is shown to say true or false only when the
complete one does, whatever else is filled in later (`GroupIsForeseen`,
`EarlyIsFinal`); a hash that a rule asks for and that comes later is outside of
it, as the property says. The proof corrected the
model in one place: the two arms of a `CASE` in `GroupVerdict` overlapped, so
that it had a meaning only because TLC takes the first arm that fits.

*The conditions* (`RuleProofs`; from `TextAssumption`):
`ConditionsAreAlwaysAsDocumented`. The reference says where the values of a text
are without scanning it: between two separators, or an end, blanks left out. The
scan keeps, letter by letter, the values of the spans that have ended and the
span that is open (`ScannedTo`, `ScanAdvances`), and each value is what is left
of exactly one span (`SpanHasValue`, `ValueHasSpan`), so that the tokens are the
values (`TokensAreTheValues`). What the conditions then do with a value, from
its occurrence at some place to the comparison of the first letter that
differs, is compared with the documented meaning one by one
(`ConditionIsDocumented`); it needs that no token is cut, as the property says.

*Deferred work* (`DeferredWorkProofs`; from `SourceAssumption`,
`TamperingAssumption`, `ProcessAssumption`): `WorkIsAccounted` and
`HandoffIsAlwaysSafe`, both arguments about counters. `FlagMeansOne` says that
the set flag is one token, held by a callback that has exchanged it, the
system's queue or the running routine; `RefsAreExact` and `RundownIsExact` say
whose the references to a check's work item and to the driver are.
`CreationsReportedOnce` needs only that a creation allows one of a place on the
list, a check and a report (`Left`), and that each step moves it from one to the
next. `CreationsAlwaysReported` needs to know what the finalizers are at
(`ProcessInv`): a pending entry is of the process that has its id until the exit
callback drops it (`EntriesFit`), or until the cleanup does where that callback
found the flags cleared, a finalizer at work has its entry to itself,
and what may still be begun is not published (`PublishedOnce`). Like the
property, the last holds until a process id is used again while a finalizer of
the old process runs.

*Queries* (`ChannelProofs`; from `QueryAssumption`): `AnswersAreTheAskers`.
The record an answer has found stays on its asker's stack because the worker
between the two has the lock (`LockIsHeld`), and the answer is the asker's own
because ids are given out once (`IdsAreDistinct`).

*Files* (`FileProofs`; from `FileBlockAssumption`, `FileInformationAssumption`):
`BlockingIsAlwaysSound` and `FileInfoIsAlwaysSound`. A copy is compared with its
source only by what is captured at both ends; `BlockInv` follows it chunk by
chunk: each chunk read so far has a version between the captured one and the
present one, so equal versions at the ends leave no room for a change between.
`InfoInv` says what each call has read so far and what each entry holds
(`CallFits`, `EntryFits`): what was computed belongs to the identity that was
read from the same handle. The assumption that there are at least as many files
as paths says that paths have files to name at the start.

*Signing* (`SigningProofs`; from `SigningAssumption`): `SignEventsAreAccounted`
and `FilesAreInOrder`. A file has one item at a time (`SignListsFit`), an item
is on the queue or with one worker (`SignWorkersFit`), a waiting event is on its
file's item or in the batch taken from it, in order (`SignEventsFit`,
`SignPlacesDiffer`), and whatever was sent of the file came before
(`SentIsOlder`). `PendingCounted` writes the count of waiting events as a sum
over the items.

*The service* (`ServiceProofs`; from `ServiceAssumption`):
`SourcesAreStoppedForGood`. The monitor may apply a mask computed before the
stop; what makes it empty is that a service that stops goes on stopping
(`StopIsFinal`) and that the worker stops the sources only then
(`CleanupMeansStopping`).

*The network source* (`ServiceProofs`; from `NetworkAssumption`):
`NetworkIsAlwaysSound`. The search of the table, which expires entries on its
way by moving the last one into their place, is a fold; `ScanFits` says that it
has a turn left for every entry it has not looked at, so that a connection it
did not meet is not there. A reserved entry of the name cache has its work item
or the thread that is about to start it, and the count is a sum over the names
(`WorkCounted`).

*The process store* (`ServiceProofs`; from the assumption of `ProcessStore`):
`StoreIsAlwaysSwept` and `LookupAlwaysFindsTheInstance`. While the heap of
activities is being sorted, the entry that rises or sinks is the only one out of
order, and its neighbours above and below are in order with each other; `HeapKnows`
says that the latest activity of every node has an entry, whatever stale ones
there are beside it, so that an eviction that stops at the first entry not due
leaves no node that is. Nodes in `unrecorded`, whose entry found no memory, are
left out of both. The instances of a process id are in the order of their
creation, each ending where the next begins (`Successive`), and the insertion
keeps that in whatever order the sources come.

*The caches and the enrichment* (`SigningProofs`; from the assumptions of
`SlotCache` and `ImageEnrichment`): `CachesStayLinked` and
`EnrichmentIsAlwaysOfTheFile`. The first says that the chain of each bucket is a
sequence of slots without repetition that holds exactly the slots in use of that
bucket, and that keys differ (`CacheInv`); unlinking and linking a slot shorten
and lengthen one chain and leave the others (`UnlinkKeeps`, `PutKeeps`). With
it a lookup answers what was stored under its key and nothing else (`Knows`,
`KnownIs`). The second then follows what is in each cache and in the hands of
each thread (`EnrichInv`): hashes that the file of the key has had, and verdicts
that follow from what the attempts of that kind of verification read of it. A
content is known by its place in the file's history, and a thread in the middle
of a verification has readings for the attempts behind it, none of an older
content than the one before; each attempt adds the present content as the
latest (`StageFits`, `StageReads`, `AttemptKeeps`), and at the end the readings
are those the property asks for (`Readings`). A thread converts the name of its event several
times, and the answers agree because the map of drives is filled once, by the
first device name (`Settled`, `PlainName`), although volumes are mounted later.

Each proof has one lemma for each action, or for each group of actions that
touch the same variables, and frames out the rest. `SequenceLemmas` holds the
facts about sequences without repetition, and about sums, folds and filtered
lists; those that need an induction get it from the well-founded order of
strict inclusion on finite sets.

*Only model-checked.* The liveness properties, which are out of the prover's
reach. Every invariant of the runs is stated by a theorem. `SelectSeq` of the
standard modules cannot be expanded by the prover, nor `@@`: a module that is
proved about filters a list by other means (`Picked`, `WithToken`).

## 7. Findings

### Shown by a run

* `second_handle_drains`: the comment in `communication.c:41-44` says a second
  handle can never drain queued events. The check and the dequeue are two
  critical sections, and STOP on the same handle releases the queue in between.
* `stranded_event`: the comment in `communication.c:522-523` says an available
  event completes the pended request. A request pended between a producer's CSQ
  lookup and its enqueue waits beside the event, until the next event overtakes
  or the client's time-out.
* `image_freed_busy`: the comment in `image.c:974-977` says that the worker's
  discarding lets the cleanup wait for a real idle state.
  `SysmonCleanupImageWorkers` reads the active workers and then the items. A
  worker that gave its place up while work was still accepted takes a new place
  after the first read and discards the items before the second: the cleanup
  finds the pool idle and frees the work item this worker is about to queue. A
  `KeSetEvent` or `KeClearEvent` that comes late misleads the wait in the same
  way.
* `mixed_flags`: `registry_data.c:1143-1145` says a producer can never observe a
  mix of two generations of flags. They are replaced in one exchange, but the
  callbacks read the word once for each flag they ask about.
* `pruned_version`: `rules.c:1557-1560` says that leaving the version resource
  unread preserves behaviour. The decision is made before the hashes of the
  event are there (`image.c:796-809`), so that a condition on the hash counts as
  false and the rule as decided.

### Met while modelling

No run shows these; the models have the behaviour of the code. First, where a
text of the repository disagrees with the code or with another text, and a
property that holds takes the side of the code:

* Elements without fields. `Meant`, and with it `RulesArrive`, has an event
  element without fields match every event, as the driver does and says
  (`rules.c:1772-1778`). The service has it match none and says so
  (`rules.cpp:1643-1648`: "Empty include means "log nothing""), and the sample
  configuration writes `<ProcessTerminate onmatch="include" />` under "Do not
  log process termination" (`installer.cpp:1258-1259`).
* Combination of fields. `Meant` combines the fields of an event element by the
  element's own `groupRelation`, "or" if it has none, as the parser does
  (`xml_config.cpp:1591-1595`). The help says that a `RuleGroup` "allows the
  rule combine type for one or more events to be set explicitly", and gives an
  example with `groupRelation="and"` at the group of which it says that both
  fields must match (`installer.cpp:1399-1411`); with this parser one is enough.
* Empty blobs. `FlagsInForce` lets the DWORDs of the registry decide when the
  rules have no event rule. The comment at `registry_data.c:1104-1107` says that
  the blob is authoritative and the DWORDs "only a fallback when no Rules blob
  exists"; but `SysmonDeriveConfigFromRules` returns at 766 when the blob has no
  event rule, and such a blob is accepted (`rules.c:242,565`).

Second, what no text of the repository rules out. Where a property leaves a case
out for this reason, its comment says so:

* Early rejection. `SysmonCanEarlyRejectImageEvent` takes an empty `Hashes` field
  for final. The service hashes a driver load itself, or finds an image's hash
  in its cache, only later (`pipeline.cpp:1676-1708`, against the call at 2956),
  so a load that a rule on its hash includes may be dropped. The comment before
  the call (2950-2955) speaks of raw fields only; `ShortcutsKeepTheVerdict`
  leaves out the loads without a hash when a rule asks for one.
* Switched-off events. `SysmonRuleRuntimeEventCanProduceLogs`
  (`rules.c:869-907`) is unsound for `groupRelation="and"` with an exclusion
  without fields beside a specific one, the one exception of
  `ShortcutsKeepTheVerdict`.
* Rules. Blank rule values and tokens longer than
  259 characters differ between driver and service.
* Configuration of the driver. `SysmonReadRegDword` returns success without a
  value for one of the wrong type, so that the caller uses the value read before.
  `DriverEntry` registers callbacks without looking at `Enabled`
  (`driver.c:152-243`). `obcallback.c`'s header speaks of duplicated handles,
  but only creation is registered (827, 964).
* Deferred work. The idle event of threads and accesses may be set while the
  work item is queued (exchange at `thread.c:400` between the reset at 457 and
  `KeSetEvent` at 459), and an unregistration then frees it under a worker
  (`freedWhileBusy`); the routine's branch that queues itself again is dead.
* Processes. A process id used again under a finalizer can drop, duplicate or
  mix an Event 1 (`process.c:470-509`), which `CreationsAreReported` leaves out;
  an exit callback between a reload that clears the flags and the removal of the
  hook returns at once (1088-1090), and the entry of its process outlives it
  until the cleanup; a finalizer caches the identity of a
  process that has ended (943); a cache miss of threads and accesses invents a
  creation time.
* Tampering. A file whose name is not found is reported as locked, tracked
  entries of processes that ended stay, a process without PEB has an empty path,
  and a path without volume equals that on any volume.
* Minifilter. The comment at `minifilter.c:3088-3094` speaks of caching negative
  results, which are detected again (2507-2520). A write that completes after
  the cleanup is not noted, a failed copy leaves a part in the archive and the
  original is deleted all the same (1654-1691, 1800), a retry at close can delete
  the archived file, two objects that copy one content share the archive's file,
  and Event 23 says "archived" when nothing was (2101-2116).
* File information. Entries live until they are evicted, though the file is
  overwritten in place; the content of a reopened file is stored under the id
  of the first open; the race of the lazy set-up (`fileinfo.c:68-72` against
  192-195) uses an event that is not initialised, which the model has as the
  outcome `crashed`.
* Signing and enrichment. A start that fails with three or more workers waits
  for them for ever (`pipeline.cpp:2688-2773`); a driver load's own hashes are
  lost on the asynchronous path (2486-2494); caches are not invalidated when a
  file is replaced, and the device map is filled once. A file replaced between
  two attempts of one verification (1474-1531) may get, and keep in the caches,
  a verdict that none of its contents has: `EnrichmentIsOfTheFile` asks that
  each attempt's answer was one of the file's.
* Process store. It hears of no exits; `SysmonRefreshSourceRuleRuntime` tells
  rules apart by address and size. When the heap of activities cannot grow
  (`process_store.cpp:361-363`) the node has its new time already (383, 776) and
  no entry in the heap: the sweep misses it until its next activity.
* Network. A reservation evicts the name that expires first, live or pending,
  whenever there is one, though a slot is free (`network_trace.cpp:141-161`). Apart from this, the comment at 612-615 says that
  only truncated records are rejected and longer ones kept with a diagnostic; the
  code that follows rejects every size but the known one (619-631), and the
  record goes to TDH.
* Queries. An answer that is taken between the time-out and the unlinking is
  acknowledged, but the asker returns a time-out; a query queued after a worker
  found the queue empty waits for the next `GET_QUERY`.
* Service. The configuration is freed and first loaded without `ConfigLock`
  (against the comment at `service.cpp:256-259`); a change between the load and
  the first notification is missed; rules that do not load at the start end the
  worker without stopping the sources (640-652); query workers leave after
  `CancelIo` without waiting (471-475, 511).
* Images. The tail of a worker of one registration may throw away contexts of
  the next. They are counted out, but their events are lost.

## 8. Not modelled

`PROJECT.json` lists every component with its status. Left out on purpose:

* pure I/O and text processing without state between two calls: PE parsing,
  digests, XML, rendering to logs, installation, the command line, the address
  space and token of a process (`processinfo.c`), the translation of registry
  notifications (`registry.c`), the payloads of events (`event.c`, `utils.c`);
* the stubs of the driver, which do nothing;
* the fields of ETW records (which parser takes a record, and that neither may,
  is in `Network`), WMI and clipboard sessions: adapters whose start, fault and
  stop are in `Service`;
* the minifilter's events without state (2, 9, 11, 15, 17, 18, 23, 26);
* failures to allocate the image pool's work items at registration, and what
  an event contains, which none of the properties tells apart.

Partly modelled components and what is missing of each are in their notes.
