---------------------------- MODULE ProcessCreate ----------------------------
(***************************************************************************)
(* Event 1 and Event 5 (SysmonDrv/src/process.c).  The create callback     *)
(* only leaves a pending entry and a piece of work; whoever comes first    *)
(* finalizes it: the worker, the thread callback, a worker of another      *)
(* source that enriches its event, or the exit callback, which drops what  *)
(* is left.  Entries are found by process id, so that a finalizer that is  *)
(* late can meet the entry of the next process with that id.               *)
(*                                                                         *)
(* Processes are told apart by a number; strings and identity of an event  *)
(* are the number of the process they were taken from.                     *)
(***************************************************************************)
EXTENDS Integers, FiniteSets, Sequences, SequencesExt

CONSTANTS
    Pids,         \* process ids
    MaxProcesses, \* bound: processes created
    PerBucket     \* entries of a bucket of the identity cache, 16 in the code

ASSUME ProcessAssumption == IsFiniteSet(Pids) /\ Pids # {}

Finalizers == {"worker", "thread", "enrich", "exit"}

VARIABLES
    process,    \* by pid: the number of the process and its stage
    pending,    \* by pid: the pending entry
    cache,      \* a bucket of the identity cache, the latest used last
    finalizer,  \* what each finalizer is at
    workList,   \* g_ProcessCreateFinalizeWorkList
    workFlag,   \* ...WorkerQueued, which also clears and sets the idle event
    submit,     \* a create callback between the lock and IoQueueWorkItem
    inSystem,   \* the work item is in the system's queue
    taking,     \* ...AcceptingWork
    worker,     \* where the worker's routine is
    hook,       \* the registration of the process callback
    flags,      \* ENABLED and PROCESS_NOTIFY: see the switches below
    eventOnes,  \* Event 1: strings and identity, in order of publication
    reusedEarly \* a pid was used again before its last entry and finalizer had gone

processVars == <<process, pending, cache, finalizer, workList, workFlag, submit, inSystem,
                 taking, worker, hook, flags, eventOnes, reusedEarly>>

NoEntry == [of |-> 0, busy |-> FALSE]
Out == [pc |-> "out", pid |-> CHOOSE p \in Pids : TRUE, strings |-> 0, identity |-> 0,
        consume |-> FALSE]

ProcessInit ==
    /\ process = [p \in Pids |-> [number |-> 0, stage |-> "gone"]]
    /\ pending = [p \in Pids |-> NoEntry]
    /\ cache = <<>>
    /\ finalizer = [f \in Finalizers |-> Out]
    /\ workList = <<>> /\ workFlag = FALSE /\ submit = {} /\ inSystem = FALSE
    /\ taking = TRUE /\ worker = "idle" /\ hook = "registered"
    /\ flags \in {"on", "disabled"} /\ eventOnes = <<>> /\ reusedEarly = FALSE

NextNumber == 1 + Max({process[p].number : p \in Pids})

-----------------------------------------------------------------------------
(* The identity cache: one entry for a pid, at most PerBucket of them, the *)
(* least recently used goes.                                               *)

Without(entries, p) == SelectSeq(entries, LAMBDA e : e.pid # p)

\* SysmonCacheProcessEventIdentity: the process is asked once more.
Cached(p, identity) ==
    LET others == Without(cache, p)
        room == IF Len(others) >= PerBucket /\ Len(others) = Len(cache)
                THEN Tail(others) ELSE others
    IN Append(room, [pid |-> p, of |-> identity])

\* SysmonLookupCachedProcessMetadata renews the entry's tick.
Looked(p) ==
    LET found == SelectSeq(cache, LAMBDA e : e.pid = p)
    IN Without(cache, p) \o found

-----------------------------------------------------------------------------
(* The life of a process and its callbacks.                                *)

Alive(p) == process[p].stage # "gone"
AtWorkOn(p) == {f \in Finalizers : finalizer[f].pc # "out" /\ finalizer[f].pid = p}
Stage(p, s) == process' = [process EXCEPT ![p].stage = s]

\* SysmonIsProducerEnabled, asked for both flags: no reload leaves them mixed
\* without unregistering the callback first.
Producing == flags \in {"on", "late"}
InCallback == {"create", "queue", "finalize", "consume", "terminate"}

\* The create callback returns at once unless both flags are set.
CreateEnter(p) ==
    /\ ~Alive(p) /\ NextNumber <= MaxProcesses
    /\ process' = [process EXCEPT ![p] = [number |-> NextNumber,
                     stage |-> IF hook = "registered" /\ Producing THEN "create" ELSE "created"]]
    /\ reusedEarly' = (reusedEarly \/ AtWorkOn(p) # {} \/ pending[p].of # 0)
    /\ UNCHANGED <<pending, cache, finalizer, workList, workFlag, submit, inSystem, taking,
                   worker, hook, flags, eventOnes>>

\* SysmonCachePendingProcessCreate: an entry that is there is written over and
\* stays busy; without memory nothing is kept and nothing queued.
CreateCaches(p) ==
    /\ process[p].stage = "create"
    /\ \E memory \in BOOLEAN :
         /\ pending' = IF memory THEN [pending EXCEPT ![p].of = process[p].number] ELSE pending
         /\ Stage(p, IF memory THEN "queue" ELSE "created")
    /\ UNCHANGED <<cache, finalizer, workList, workFlag, submit, inSystem, taking,
                   worker, hook, flags, eventOnes, reusedEarly>>

\* SysmonQueuePendingProcessCreateFinalize: not without memory, not while the
\* work is being cleaned up, one piece of work for a pid.
QueueFinalize(p) ==
    /\ process[p].stage = "queue"
    /\ Stage(p, "created")
    /\ \/ UNCHANGED <<workList, workFlag, submit>>
       \/ /\ taking /\ ~Contains(workList, p)
          /\ workList' = Append(workList, p)
          /\ workFlag' = TRUE
          /\ submit' = IF workFlag THEN submit ELSE submit \cup {p}
    /\ UNCHANGED <<pending, cache, finalizer, inSystem, taking, worker, hook, flags,
                   eventOnes, reusedEarly>>

QueueSubmit(p) ==
    /\ p \in submit
    /\ submit' = submit \ {p}
    /\ inSystem' = TRUE
    /\ UNCHANGED <<process, pending, cache, finalizer, workList, workFlag, taking,
                   worker, hook, flags, eventOnes, reusedEarly>>

-----------------------------------------------------------------------------
(* SysmonTryFinalizePendingProcessCreateEx.                                *)

\* SysmonBeginPendingProcessCreateFinalize: one finalizer for an entry.
Begin(f, p) ==
    IF pending[p].of # 0 /\ ~pending[p].busy
    THEN /\ finalizer' = [finalizer EXCEPT ![f] = [Out EXCEPT !.pc = "populate", !.pid = p,
                                                        !.strings = pending[p].of]]
         /\ pending' = [pending EXCEPT ![p].busy = TRUE]
    ELSE UNCHANGED <<finalizer, pending>>

FinalizerTo(f, record) == finalizer' = [finalizer EXCEPT ![f] = record]

\* No event, a process that is gone, a payload that does not fit: not consumed.
\* Otherwise the identity is that of the process that has the pid now.
FinalizePopulate(f) ==
    LET at == finalizer[f] IN
    /\ at.pc = "populate"
    /\ \/ FinalizerTo(f, [at EXCEPT !.pc = "complete"])
       \/ /\ Alive(at.pid)
          /\ FinalizerTo(f, [at EXCEPT !.pc = "cache", !.identity = process[at.pid].number])
    /\ UNCHANGED <<process, pending, cache, workList, workFlag, submit, inSystem,
                   taking, worker, hook, flags, eventOnes, reusedEarly>>

FinalizeCache(f) ==
    LET at == finalizer[f] IN
    /\ at.pc = "cache"
    /\ cache' = Cached(at.pid, at.identity) \/ UNCHANGED cache
    /\ FinalizerTo(f, [at EXCEPT !.pc = "publish"])
    /\ UNCHANGED <<process, pending, workList, workFlag, submit, inSystem, taking,
                   worker, hook, flags, eventOnes, reusedEarly>>

\* Published, or filtered, which also consumes; or the publication fails.
FinalizePublish(f) ==
    LET at == finalizer[f] IN
    /\ at.pc = "publish"
    /\ \/ /\ eventOnes' = Append(eventOnes, [strings |-> at.strings, identity |-> at.identity])
          /\ FinalizerTo(f, [at EXCEPT !.pc = "complete", !.consume = TRUE])
       \/ /\ FinalizerTo(f, [at EXCEPT !.pc = "complete", !.consume = TRUE])
          /\ UNCHANGED eventOnes
       \/ FinalizerTo(f, [at EXCEPT !.pc = "complete"]) /\ UNCHANGED eventOnes
    /\ UNCHANGED <<process, pending, cache, workList, workFlag, submit, inSystem,
                   taking, worker, hook, flags, reusedEarly>>

\* SysmonCompletePendingProcessCreateFinalize: whatever entry the pid has.
CompletePending(p, consume) ==
    IF pending[p].of = 0 THEN pending
    ELSE [pending EXCEPT ![p] = IF consume THEN NoEntry ELSE [@ EXCEPT !.busy = FALSE]]

FinalizeComplete(f) ==
    LET at == finalizer[f] IN
    /\ at.pc = "complete"
    /\ pending' = CompletePending(at.pid, at.consume)
    /\ FinalizerTo(f, Out)
    /\ UNCHANGED <<process, cache, workList, workFlag, submit, inSystem, taking,
                   worker, hook, flags, eventOnes, reusedEarly>>

-----------------------------------------------------------------------------
(* The finalizers.                                                         *)

\* ThreadNotifyCallback, for the first thread of a process and for others; not
\* without the flags, which it may have read before they were cleared.
ThreadCreated(p) ==
    /\ process[p].stage \in {"created", "running"} /\ finalizer["thread"].pc = "out"
    /\ Stage(p, "running")
    /\ \/ Begin("thread", p)
       \/ ~Producing /\ UNCHANGED <<finalizer, pending>>
    /\ UNCHANGED <<cache, workList, workFlag, submit, inSystem, taking, worker, hook, flags,
                   eventOnes, reusedEarly>>

\* Workers of events 7, 8 and 10 look the identity up and, where it is not
\* complete, finalize first.
Enrich(p) ==
    /\ process[p].number > 0 /\ finalizer["enrich"].pc = "out"
    /\ cache' = Looked(p)
    /\ Begin("enrich", p)
    /\ UNCHANGED <<process, workList, workFlag, submit, inSystem, taking, worker,
                   hook, flags, eventOnes, reusedEarly>>

WorkerStarts ==
    /\ inSystem /\ worker = "idle"
    /\ inSystem' = FALSE /\ worker' = "take"
    /\ UNCHANGED <<process, pending, cache, finalizer, workList, workFlag, submit,
                   taking, hook, flags, eventOnes, reusedEarly>>

WorkerTakes ==
    /\ worker = "take" /\ workList # <<>> /\ finalizer["worker"].pc = "out"
    /\ workList' = Tail(workList)
    /\ Begin("worker", Head(workList))
    /\ UNCHANGED <<process, cache, workFlag, submit, inSystem, taking, worker, hook, flags,
                   eventOnes, reusedEarly>>

\* Flag and event change under the lock under which the list was found empty.
WorkerEnds ==
    /\ worker = "take" /\ workList = <<>> /\ finalizer["worker"].pc = "out"
    /\ workFlag' = FALSE
    /\ worker' = "idle"
    /\ UNCHANGED <<process, pending, cache, finalizer, workList, submit, inSystem,
                   taking, hook, flags, eventOnes, reusedEarly>>

\* The exit callback, which returns at once unless both flags are set, and is
\* not there while none is registered.
ExitEnter(p) ==
    /\ process[p].stage \in {"created", "running"}
    /\ \A q \in Pids : process[q].stage \notin {"finalize", "consume", "terminate"}
    /\ finalizer["thread"].pc = "out" \/ finalizer["thread"].pid # p
    /\ Stage(p, IF hook = "registered" /\ Producing THEN "finalize" ELSE "gone")
    /\ UNCHANGED <<pending, cache, finalizer, workList, workFlag, submit, inSystem, taking,
                   worker, hook, flags, eventOnes, reusedEarly>>

\* A last attempt, the entry dropped, Event 5.
ExitFinalize(p) ==
    /\ process[p].stage = "finalize" /\ finalizer["exit"].pc = "out"
    /\ Stage(p, "consume")
    /\ Begin("exit", p)
    /\ UNCHANGED <<cache, workList, workFlag, submit, inSystem, taking, worker, hook,
                   flags, eventOnes, reusedEarly>>

\* Faulty variant: the last attempt is trusted, the entry is left.
ExitLeaves(p) ==
    /\ process[p].stage = "consume" /\ finalizer["exit"].pc = "out"
    /\ Stage(p, "terminate")
    /\ UNCHANGED <<pending, cache, finalizer, workList, workFlag, submit, inSystem,
                   taking, worker, hook, flags, eventOnes, reusedEarly>>

ExitConsume(p) ==
    /\ process[p].stage = "consume" /\ finalizer["exit"].pc = "out"
    /\ pending' = CompletePending(p, TRUE)
    /\ Stage(p, "terminate")
    /\ UNCHANGED <<cache, finalizer, workList, workFlag, submit, inSystem, taking,
                   worker, hook, flags, eventOnes, reusedEarly>>

\* Event 5 takes the identity out of the cache, where it is configured and
\* there is memory for it.
ExitTerminates(p) ==
    /\ process[p].stage = "terminate"
    /\ cache' = Without(cache, p) \/ UNCHANGED cache
    /\ Stage(p, "gone")
    /\ UNCHANGED <<pending, finalizer, workList, workFlag, submit, inSystem, taking,
                   worker, hook, flags, eventOnes, reusedEarly>>

-----------------------------------------------------------------------------
(* The flags and the registration.  DriverEntry registers the callback      *)
(* without a look at ENABLED ("disabled"), so that a reload may set it with *)
(* the callback in place.  A reload that clears a flag unregisters the      *)
(* callback before another reload can set it ("off"); the unload clears     *)
(* ENABLED outside of the lock of the reloads ("cleared"), so that a reload *)
(* under way may set it once more ("late") before the unload unregisters.   *)

FlagsChange ==
    /\ hook = "registered"
    /\ \/ flags = "on" /\ flags' \in {"off", "cleared"}
       \/ flags = "disabled" /\ flags' \in {"on", "off", "cleared"}
       \/ flags \in {"cleared", "late"} /\ flags' \in {"off", "late"}
    /\ UNCHANGED <<process, pending, cache, finalizer, workList, workFlag, submit,
                   inSystem, taking, worker, hook, eventOnes, reusedEarly>>

\* SysmonUnregisterProcessNotify: the kernel waits for the callbacks that run.
UnregisterProcess ==
    /\ hook = "registered" /\ flags \in {"off", "cleared", "late"}
    /\ \A p \in Pids : process[p].stage \notin InCallback /\ p \notin submit
    /\ hook' = "cleanup" /\ taking' = FALSE
    /\ UNCHANGED <<process, pending, cache, finalizer, workList, workFlag, submit,
                   inSystem, worker, flags, eventOnes, reusedEarly>>

\* SysmonCleanupProcessCreateFinalizeInfrastructure waits for the idle event;
\* then both caches are drained.
CleanupFinalize ==
    /\ hook = "cleanup" /\ ~workFlag
    /\ hook' = "unregistered"
    /\ workList' = <<>> /\ cache' = <<>>
    /\ pending' = [p \in Pids |-> NoEntry]
    /\ UNCHANGED <<process, finalizer, workFlag, submit, inSystem, taking, worker, flags,
                   eventOnes, reusedEarly>>

\* SysmonRegisterProcessNotify, by the reload that has set the flags.
RegisterProcess ==
    /\ hook = "unregistered" /\ flags = "off"
    /\ hook' = "registered" /\ taking' = TRUE /\ flags' = "on"
    /\ UNCHANGED <<process, pending, cache, finalizer, workList, workFlag, submit,
                   inSystem, worker, eventOnes, reusedEarly>>

-----------------------------------------------------------------------------

FinalizerStep(f) ==
    FinalizePopulate(f) \/ FinalizeCache(f) \/ FinalizePublish(f) \/ FinalizeComplete(f)

ProcessNext ==
    \/ \E p \in Pids :
         \/ CreateEnter(p) \/ CreateCaches(p) \/ QueueFinalize(p) \/ QueueSubmit(p)
         \/ ThreadCreated(p) \/ Enrich(p)
         \/ ExitEnter(p) \/ ExitFinalize(p) \/ ExitConsume(p) \/ ExitTerminates(p)
    \/ \E f \in Finalizers : FinalizerStep(f)
    \/ WorkerStarts \/ WorkerTakes \/ WorkerEnds
    \/ FlagsChange \/ UnregisterProcess \/ CleanupFinalize \/ RegisterProcess

ProcessSpec == ProcessInit /\ [][ProcessNext]_processVars

-----------------------------------------------------------------------------
(* Properties.                                                             *)

\* A pending entry belongs to a process that has not ended: "so failed
\* finalizations do not leak indefinitely" (process.c 1138-1143).  Where the
\* exit callback has returned at once for want of a flag (1088-1090) entries of
\* processes that have ended are left, but only on the way to unregistration,
\* which drops them.
PendingHasAProcess ==
    \A p \in Pids : pending[p].of # 0 =>
      \/ Alive(p) /\ pending[p].of = process[p].number
      \/ flags # "on" /\ hook # "unregistered"

\* A creation is reported once and with the identity of its own process, unless
\* a pid was used again before its last entry and finalizer had gone: then the
\* code does mix the two (process.c 397-470, 470-509).
OneEventPerCreation ==
    ~reusedEarly =>
      /\ \A i, j \in DOMAIN eventOnes :
           eventOnes[i].strings = eventOnes[j].strings => i = j
      /\ \A i \in DOMAIN eventOnes : eventOnes[i].strings = eventOnes[i].identity

\* The work item is freed when it is neither queued nor running, and nobody is
\* about to queue it; no entry is left then (process.c 561-727, 1347-1382).
FinalizeQuiet ==
    hook = "unregistered" =>
      /\ ~inSystem /\ submit = {} /\ worker = "idle" /\ workList = <<>>
      /\ \A p \in Pids : pending[p].of = 0

\* Nothing of a pending creation outlives its process or the callback, and a
\* creation is reported once, as itself.
CreationsAreReported == PendingHasAProcess /\ FinalizeQuiet /\ OneEventPerCreation
=============================================================================
