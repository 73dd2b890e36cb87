---------------------------- MODULE SourceWorker ----------------------------
(***************************************************************************)
(* The deferred worker of thread creations (SysmonDrv/src/thread.c) and of *)
(* process accesses (SysmonDrv/src/obcallback.c): a notification callback  *)
(* puts an item on a list and queues one work item of the kernel, whose    *)
(* routine empties the list.  The flag that says "queued" and the event    *)
(* that says "idle" change outside the list's lock; the unregistration     *)
(* waits for the event and frees the work item.                            *)
(*                                                                         *)
(* Items are counted, not told apart.  The two sources differ in what the  *)
(* callback lets through and in how a failed registration ends.            *)
(***************************************************************************)
EXTENDS Integers, FiniteSets

CONSTANTS
    Notifiers,   \* threads that can be inside the notification callback
    WorkThreads, \* system threads that run queued work items
    MaxQueued    \* the callback's limit, 512 in the code

ASSUME SourceAssumption == IsFiniteSet(Notifiers) /\ IsFiniteSet(WorkThreads)

VARIABLES
    source,        \* "thread" or "access"
    hooked,        \* the callback is registered
    item,          \* the work item: "none", "allocated"
    ready,         \* g_...WorkerInitialized
    waiting,       \* items on the list
    counted,       \* g_...WorkItemCount
    flag,          \* g_...WorkerQueued
    idle,          \* g_...WorkerIdleEvent
    handedOver,    \* times the work item is in the system's queue
    notifier,      \* where each callback is
    workThread,    \* where each system thread is
    control,       \* the thread that registers and unregisters
    freedWhileBusy \* the work item was freed while queued or running

sourceVars == <<source, hooked, item, ready, waiting, counted, flag, idle, handedOver,
                notifier, workThread, control, freedWhileBusy>>

SourceInit ==
    /\ source \in {"thread", "access"}
    /\ hooked = FALSE /\ item = "none" /\ ready = FALSE
    /\ waiting = 0 /\ counted = 0 /\ flag = FALSE /\ idle = TRUE /\ handedOver = 0
    /\ notifier = [n \in Notifiers |-> "out"]
    /\ workThread = [w \in WorkThreads |-> "free"]
    /\ control = "unregistered"
    /\ freedWhileBusy = FALSE

\* The routine holds the list's lock from finding the list empty to its end.
ListFree == \A w \in WorkThreads : workThread[w] # "ending"

-----------------------------------------------------------------------------
(* ThreadNotifyCallback and SysmonObPostOperationCallback.                 *)

StepTo(n, pc) == notifier' = [notifier EXCEPT ![n] = pc]

CallbackBegins(n) ==
    /\ hooked /\ notifier[n] = "out"
    /\ StepTo(n, "filter")
    /\ UNCHANGED <<source, hooked, item, ready, waiting, counted, flag, idle, handedOver,
                   workThread, control, freedWhileBusy>>

\* A producer that is off, an exit, a creation claimed for Event 1, the system
\* process, a system thread, a thread of one's own process.
ThreadCallbackFilters(n) ==
    /\ source = "thread" /\ notifier[n] = "filter"
    /\ StepTo(n, "out") \/ StepTo(n, "bound")
    /\ UNCHANGED <<source, hooked, item, ready, waiting, counted, flag, idle, handedOver,
                   workThread, control, freedWhileBusy>>

\* A producer that is off, another object type or operation, a kernel handle, a
\* handle to one's own process.
AccessCallbackFilters(n) ==
    /\ source = "access" /\ notifier[n] = "filter"
    /\ StepTo(n, "out") \/ StepTo(n, "bound")
    /\ UNCHANGED <<source, hooked, item, ready, waiting, counted, flag, idle, handedOver,
                   workThread, control, freedWhileBusy>>

\* The limit is tested outside any lock; the allocation may fail.
CallbackBounds(n) ==
    /\ notifier[n] = "bound"
    /\ \/ counted < MaxQueued /\ ready /\ item = "allocated" /\ StepTo(n, "count")
       \/ StepTo(n, "out")
    /\ UNCHANGED <<source, hooked, item, ready, waiting, counted, flag, idle, handedOver,
                   workThread, control, freedWhileBusy>>

CallbackCounts(n) ==
    /\ notifier[n] = "count"
    /\ counted' = counted + 1
    /\ StepTo(n, "insert")
    /\ UNCHANGED <<source, hooked, item, ready, waiting, flag, idle, handedOver,
                   workThread, control, freedWhileBusy>>

CallbackInserts(n) ==
    /\ notifier[n] = "insert" /\ ListFree
    /\ waiting' = waiting + 1
    /\ StepTo(n, "exchange")
    /\ UNCHANGED <<source, hooked, item, ready, counted, flag, idle, handedOver,
                   workThread, control, freedWhileBusy>>

\* SysmonQueueThreadWorker, SysmonQueueObWorker: three steps without a lock.
QueueExchanges(n) ==
    /\ notifier[n] = "exchange"
    /\ flag' = TRUE
    /\ StepTo(n, IF flag THEN "out" ELSE "clear")
    /\ UNCHANGED <<source, hooked, item, ready, waiting, counted, idle, handedOver,
                   workThread, control, freedWhileBusy>>

QueueClears(n) ==
    /\ notifier[n] = "clear"
    /\ idle' = FALSE
    /\ StepTo(n, "submit")
    /\ UNCHANGED <<source, hooked, item, ready, waiting, counted, flag, handedOver,
                   workThread, control, freedWhileBusy>>

QueueSubmits(n) ==
    /\ notifier[n] = "submit"
    /\ handedOver' = handedOver + 1
    /\ StepTo(n, "out")
    /\ UNCHANGED <<source, hooked, item, ready, waiting, counted, flag, idle,
                   workThread, control, freedWhileBusy>>

-----------------------------------------------------------------------------
(* SysmonThreadWorkItemCallback and SysmonObWorkItemCallback.              *)

WorkStarts(w) ==
    /\ handedOver > 0 /\ workThread[w] = "free"
    /\ handedOver' = handedOver - 1
    /\ workThread' = [workThread EXCEPT ![w] = "take"]
    /\ UNCHANGED <<source, hooked, item, ready, waiting, counted, flag, idle,
                   notifier, control, freedWhileBusy>>

WorkTakes(w) ==
    /\ workThread[w] = "take" /\ ListFree /\ waiting > 0
    /\ waiting' = waiting - 1
    /\ workThread' = [workThread EXCEPT ![w] = "handle"]
    /\ UNCHANGED <<source, hooked, item, ready, counted, flag, idle, handedOver,
                   notifier, control, freedWhileBusy>>

\* The event is published, filtered or not built: the item is done with.
WorkHandles(w) ==
    /\ workThread[w] = "handle"
    /\ counted' = counted - 1
    /\ workThread' = [workThread EXCEPT ![w] = "take"]
    /\ UNCHANGED <<source, hooked, item, ready, waiting, flag, idle, handedOver,
                   notifier, control, freedWhileBusy>>

\* Faulty variant, for the mutation runs: the worker forgets that it was queued.
WorkKeepsFlag(w) ==
    /\ workThread[w] = "take" /\ ListFree /\ waiting = 0
    /\ workThread' = [workThread EXCEPT ![w] = "ending"]
    /\ UNCHANGED <<source, hooked, item, ready, waiting, counted, flag, idle, handedOver,
                   notifier, control, freedWhileBusy>>

\* The list is found empty under its lock, which is kept until WorkEnds.
WorkFindsNone(w) ==
    /\ workThread[w] = "take" /\ ListFree /\ waiting = 0
    /\ flag' = FALSE
    /\ workThread' = [workThread EXCEPT ![w] = "ending"]
    /\ UNCHANGED <<source, hooked, item, ready, waiting, counted, idle, handedOver,
                   notifier, control, freedWhileBusy>>

\* Faulty variant: the worker ends without a word.
WorkEndsSilently(w) ==
    /\ workThread[w] = "ending"
    /\ workThread' = [workThread EXCEPT ![w] = "free"]
    /\ UNCHANGED <<source, hooked, item, ready, waiting, counted, flag, idle, handedOver,
                   notifier, control, freedWhileBusy>>

\* The second look at the list is under the same lock, so that the branch that
\* queues the worker again is never taken.
WorkEnds(w) ==
    /\ workThread[w] = "ending"
    /\ idle' = TRUE
    /\ workThread' = [workThread EXCEPT ![w] = "free"]
    /\ UNCHANGED <<source, hooked, item, ready, waiting, counted, flag, handedOver,
                   notifier, control, freedWhileBusy>>

-----------------------------------------------------------------------------
(* Registration and unregistration, one at a time under RegistrationLock.  *)

\* SysmonRegisterThreadNotify: a work item left by a failed attempt is kept.
ThreadRegisters ==
    /\ source = "thread" /\ control = "unregistered"
    /\ \/ UNCHANGED <<item, ready, hooked, control>>                 \* no memory
       \/ /\ item' = "allocated" /\ ready' = TRUE
          /\ hooked' \in BOOLEAN
          /\ control' = IF hooked' THEN "registered" ELSE "unregistered"
    /\ UNCHANGED <<source, waiting, counted, flag, idle, handedOver, notifier,
                   workThread, freedWhileBusy>>

\* SysmonRegisterObCallbacks: the work item goes when the registration fails.
\* ready is set before the callback exists.
AccessAllocates ==
    /\ source = "access" /\ control = "unregistered"
    /\ item' = "allocated" /\ ready' = TRUE
    /\ control' = "registering"
    /\ UNCHANGED <<source, hooked, waiting, counted, flag, idle, handedOver, notifier,
                   workThread, freedWhileBusy>>

AccessRegisters ==
    /\ control = "registering"
    /\ \/ hooked' = TRUE /\ control' = "registered" /\ UNCHANGED <<item, ready>>
       \/ item' = "none" /\ ready' = FALSE /\ control' = "unregistered" /\ UNCHANGED hooked
    /\ UNCHANGED <<source, waiting, counted, flag, idle, handedOver, notifier,
                   workThread, freedWhileBusy>>

\* Without a callback the unregistration still frees a work item that is left.
Unhook ==
    /\ \/ control = "registered"
       \/ control = "unregistered" /\ item = "allocated"
    /\ hooked' = FALSE
    /\ control' = "unhooked"
    /\ UNCHANGED <<source, item, ready, waiting, counted, flag, idle, handedOver,
                   notifier, workThread, freedWhileBusy>>

\* The kernel waits for the callbacks that are running, then the driver for idle.
AwaitIdle ==
    /\ control = "unhooked"
    /\ \A n \in Notifiers : notifier[n] = "out"
    /\ idle
    /\ control' = "drain"
    /\ UNCHANGED <<source, hooked, item, ready, waiting, counted, flag, idle,
                   handedOver, notifier, workThread, freedWhileBusy>>

DrainAndFree ==
    /\ control = "drain" /\ ListFree
    /\ freedWhileBusy' = (handedOver > 0 \/ \E w \in WorkThreads : workThread[w] # "free")
    /\ waiting' = 0 /\ counted' = 0 /\ flag' = FALSE
    /\ item' = "none" /\ ready' = FALSE
    /\ control' = "unregistered"
    /\ UNCHANGED <<source, hooked, idle, handedOver, notifier, workThread>>

-----------------------------------------------------------------------------

NotifierStep(n) ==
    \/ ThreadCallbackFilters(n) \/ AccessCallbackFilters(n) \/ CallbackBounds(n)
    \/ CallbackCounts(n) \/ CallbackInserts(n)
    \/ QueueExchanges(n) \/ QueueClears(n) \/ QueueSubmits(n)

WorkStep(w) ==
    \/ WorkStarts(w) \/ WorkTakes(w) \/ WorkHandles(w) \/ WorkFindsNone(w) \/ WorkEnds(w)

\* What a freed work item does is no longer the driver's.
SourceNext ==
    /\ ~freedWhileBusy
    /\ \/ \E n \in Notifiers : CallbackBegins(n) \/ NotifierStep(n)
       \/ \E w \in WorkThreads : WorkStep(w)
       \/ ThreadRegisters \/ AccessAllocates \/ AccessRegisters
       \/ Unhook \/ AwaitIdle \/ DrainAndFree

SourceSpec == SourceInit /\ [][SourceNext]_sourceVars

\* A callback runs on, the system runs its work items, and a thread that waits
\* for the event is woken when it is set.
SourceFairness ==
    /\ \A n \in Notifiers : WF_sourceVars(~freedWhileBusy /\ NotifierStep(n))
    /\ \A w \in WorkThreads : WF_sourceVars(~freedWhileBusy /\ WorkStep(w))
    /\ WF_sourceVars(~freedWhileBusy /\ (AwaitIdle \/ DrainAndFree))

-----------------------------------------------------------------------------
(* Properties.                                                             *)

\* Every item counted is on the list, about to be, or being handled, until the
\* work item is freed (thread.c 449, 553; obcallback.c 735, 863).
CountIsExact ==
    counted = waiting + Cardinality({n \in Notifiers : notifier[n] = "insert"})
                      + Cardinality({w \in WorkThreads : workThread[w] = "handle"})

\* An item on the list has a worker coming for it: a queued one, a running one
\* that will look again, or a callback on its way to queue one (thread.c
\* 393-408, 410-467; obcallback.c 465-476, 633-765).
NoItemStranded ==
    waiting > 0 =>
      \/ handedOver > 0
      \/ \E w \in WorkThreads : workThread[w] \in {"take", "handle"}
      \/ \E n \in Notifiers : notifier[n] \in {"exchange", "clear", "submit"}

\* The work item is in the system's queue at most once, although its routine
\* may start a second time before the first run has ended.
SubmittedOnce ==
    handedOver + Cardinality({n \in Notifiers : notifier[n] \in {"clear", "submit"}}) <= 1

\* The source's work is accounted for until the item is freed under a worker,
\* which the idle event cannot rule out: a callback may queue the item between
\* the worker's reset of the flag and its KeSetEvent.
WorkAccounted == SubmittedOnce /\ (~freedWhileBusy => CountIsExact /\ NoItemStranded)

\* An unregistration ends: its wait for the idle event is not one for ever
\* (thread.c 642-650, obcallback.c 1024-1031).
UnregistrationEnds == control = "unhooked" ~> control = "unregistered"
=============================================================================
