----------------------------- MODULE ImageWorkers -----------------------------
(***************************************************************************)
(* The worker pool of the image-load source (SysmonDrv/src/image.c).  A    *)
(* load-image callback leaves a context on the list of its processor and   *)
(* reserves as many workers as there is work for; a worker is an I/O work  *)
(* item that empties the lists, gives its place up, and looks again.  The  *)
(* lists have a lock each; everything else is interlocked counters, flags  *)
(* and one event, which the unregistration waits for before it frees the   *)
(* work items.                                                             *)
(*                                                                         *)
(* A step is one critical section or one interlocked access.  The pair of  *)
(* reading g_ImageActiveWorkers and replacing it if it is still the same   *)
(* is one step: a failed exchange starts over.  The order in which a       *)
(* worker visits the lists rolls with a cursor all workers share; here it  *)
(* is any order.  What a worker does with a context is not modelled.       *)
(***************************************************************************)
EXTENDS Integers, SequencesExt

CONSTANTS
    Items,          \* contexts of image loads
    Producers,      \* threads in the load-image callback
    Threads,        \* system worker threads
    Queues,         \* the lists, one for each processor
    WorkerCount,    \* g_ImageWorkerCount of an initialized pool
    MaxDepth,       \* g_Context.SigningQueueSize
    Registrations,  \* bound: how often the source is registered
    NoItem

ASSUME PoolParameters ==
    /\ WorkerCount \in Nat \ {0}
    /\ MaxDepth \in Nat \ {0}
    /\ Registrations \in Nat
    /\ Producers \cap Threads = {}
    /\ NoItem \notin Items
    /\ IsFiniteSet(Items) /\ IsFiniteSet(Producers) /\ IsFiniteSet(Threads)

Slots == 1 .. WorkerCount
Actors == Producers \cup Threads

VARIABLES
    list,         \* list[q]: WorkList of q
    itemCount,    \* g_ImageWorkItemCount
    active,       \* g_ImageActiveWorkers
    claimed,      \* slots with g_ImageWorkerQueued set
    accepting,    \* g_ImageAcceptingWork
    idleEvent,    \* g_ImageWorkerIdleEvent
    initialized,  \* g_ImageWorkerInitialized
    submitted,    \* slots whose work item waits for a system thread
    pc, hand,     \* where each thread is, and the context it holds
    seen, pos,    \* SysmonReserveImageWorkers: pendingItems, the slot to try
    mine,         \* ... and the workers reserved so far
    slotOf,       \* the slot a worker runs for
    toScan,       \* the lists a worker has still to visit
    reg,          \* the thread that registers and unregisters the source
    registered,   \* bound: how often it has been registered
    fate,         \* history: what became of each context
    freedBusy     \* history: work items were freed under a worker

poolVars == <<itemCount, active, claimed, accepting, idleEvent, initialized,
              submitted>>
actorVars == <<pc, hand, seen, pos, mine, slotOf, toScan>>
regVars == <<reg, registered, freedBusy>>
reserveVars == <<seen, pos, mine>>
vars == <<list, poolVars, actorVars, regVars, fate>>

Init ==
    /\ list = [q \in Queues |-> <<>>]
    /\ itemCount = 0
    /\ active = 0
    /\ claimed = {}
    /\ accepting = FALSE
    /\ idleEvent = FALSE
    /\ initialized = FALSE
    /\ submitted = {}
    /\ pc = [a \in Actors |-> "out"]
    /\ hand = [a \in Actors |-> NoItem]
    /\ seen = [a \in Actors |-> 0]
    /\ pos = [a \in Actors |-> 1]
    /\ mine = [a \in Actors |-> {}]
    /\ slotOf = [t \in Threads |-> 1]
    /\ toScan = [t \in Threads |-> {}]
    /\ reg = "down"
    /\ registered = 0
    /\ fate = [i \in Items |-> "fresh"]
    /\ freedBusy = FALSE

Goto(a, l) == pc' = [pc EXCEPT ![a] = l]
Take(a, i) == hand' = [hand EXCEPT ![a] = i]
Drop(a) == hand' = [hand EXCEPT ![a] = NoItem]
Fate(i, f) == fate' = [fate EXCEPT ![i] = f]

\* Where a thread goes on when it has reserved its workers.
AfterReserve(a) == IF a \in Producers THEN "submit" ELSE "stopping"

-----------------------------------------------------------------------------
(* SysmonReserveImageWorkers, by a callback or by a worker.                *)

\* pendingItems is read.
ReadPending(a) ==
    /\ pc[a] = "pending"
    /\ seen' = [seen EXCEPT ![a] = itemCount]
    /\ Goto(a, "place")
    /\ UNCHANGED <<list, poolVars, hand, pos, mine, slotOf, toScan, regVars,
                   fate>>

\* Faulty variant: the search for a slot goes on where the last one ended.
TakePlaceResumes(a) ==
    /\ pc[a] = "place"
    /\ IF initialized /\ seen[a] > active /\ active < WorkerCount
       THEN active' = active + 1 /\ Goto(a, "claim")
       ELSE /\ Goto(a, IF mine[a] = {} THEN AfterReserve(a) ELSE "clear")
            /\ UNCHANGED active
    /\ UNCHANGED <<list, itemCount, claimed, accepting, idleEvent, initialized,
                   submitted, hand, reserveVars, slotOf, toScan, regVars, fate>>

\* There is no need or no room for one more worker, or its place is taken.
TakePlace(a) ==
    /\ pc[a] = "place"
    /\ IF initialized /\ seen[a] > active /\ active < WorkerCount
       THEN /\ active' = active + 1
            /\ pos' = [pos EXCEPT ![a] = 1]
            /\ Goto(a, "claim")
       ELSE /\ Goto(a, IF mine[a] = {} THEN AfterReserve(a) ELSE "clear")
            /\ UNCHANGED <<active, pos>>
    /\ UNCHANGED <<list, itemCount, claimed, accepting, idleEvent, initialized,
                   submitted, hand, seen, mine, slotOf, toScan, regVars, fate>>

\* Faulty variant: the slot is read and then set, with others in between.
ClaimUnlocked(a) ==
    /\ pc[a] = "claim"
    /\ \/ /\ pos[a] < WorkerCount
          /\ pos[a] \in claimed
          /\ pos' = [pos EXCEPT ![a] = @ + 1]
          /\ UNCHANGED <<active, claimed, mine, pc>>
       \/ /\ claimed' = claimed \cup {pos[a]}
          /\ mine' = [mine EXCEPT ![a] = @ \cup {pos[a]}]
          /\ Goto(a, "pending")
          /\ UNCHANGED <<active, pos>>
    /\ UNCHANGED <<list, itemCount, accepting, idleEvent, initialized, submitted,
                   hand, seen, slotOf, toScan, regVars, fate>>

\* SysmonClaimImageWorkerSlot tries one slot after the other; without one the
\* place is given back.
ClaimSlot(a) ==
    /\ pc[a] = "claim"
    /\ IF pos[a] > WorkerCount
       THEN /\ active' = active - 1
            /\ Goto(a, IF mine[a] = {} THEN AfterReserve(a) ELSE "clear")
            /\ UNCHANGED <<claimed, mine, pos>>
       ELSE IF pos[a] \in claimed
       THEN /\ pos' = [pos EXCEPT ![a] = @ + 1]
            /\ UNCHANGED <<active, claimed, mine, pc>>
       ELSE /\ claimed' = claimed \cup {pos[a]}
            /\ mine' = [mine EXCEPT ![a] = @ \cup {pos[a]}]
            /\ Goto(a, "pending")
            /\ UNCHANGED <<active, pos>>
    /\ UNCHANGED <<list, itemCount, accepting, idleEvent, initialized, submitted,
                   hand, seen, slotOf, toScan, regVars, fate>>

ClearIdle(a) ==
    /\ pc[a] = "clear"
    /\ idleEvent' = FALSE
    /\ Goto(a, AfterReserve(a))
    /\ UNCHANGED <<list, itemCount, active, claimed, accepting, initialized,
                   submitted, hand, reserveVars, slotOf, toScan, regVars, fate>>

\* IoQueueWorkItem of one reserved worker, or the end of the thread's work.
Submit(a) ==
    /\ pc[a] = "submit"
    /\ IF mine[a] = {}
       THEN Goto(a, "out") /\ UNCHANGED <<submitted, mine>>
       ELSE \E s \in mine[a] :
                /\ submitted' = submitted \cup {s}
                /\ mine' = [mine EXCEPT ![a] = @ \ {s}]
                /\ UNCHANGED pc
    /\ UNCHANGED <<list, itemCount, active, claimed, accepting, idleEvent,
                   initialized, hand, seen, pos, slotOf, toScan, regVars, fate>>

Reserve(a) ==
    ReadPending(a) \/ TakePlace(a) \/ ClaimSlot(a) \/ ClearIdle(a) \/ Submit(a)

-----------------------------------------------------------------------------
(* ImageNotifyCallback and SysmonQueueImageWorkContext.                    *)

\* A callback with a context; the first look at g_ImageAcceptingWork.
Notify(p, i) ==
    /\ reg = "up"
    /\ pc[p] = "out"
    /\ fate[i] = "fresh"
    /\ IF accepting
       THEN Take(p, i) /\ Goto(p, "depth") /\ Fate(i, "offered")
       ELSE Fate(i, "dropped") /\ UNCHANGED <<hand, pc>>
    /\ UNCHANGED <<list, poolVars, reserveVars, slotOf, toScan, regVars>>

\* The bound of the queue, looked at outside any lock.
CheckDepth(p) ==
    /\ pc[p] = "depth"
    /\ IF itemCount >= MaxDepth
       THEN Drop(p) /\ Goto(p, "out") /\ Fate(hand[p], "dropped")
       ELSE Goto(p, "insert") /\ UNCHANGED <<hand, fate>>
    /\ UNCHANGED <<list, poolVars, reserveVars, slotOf, toScan, regVars>>

\* Under the lock of the processor's list.
Insert(p) ==
    /\ pc[p] = "insert"
    /\ Drop(p)
    /\ IF accepting
       THEN /\ \E q \in Queues :
                   list' = [list EXCEPT ![q] = Append(@, hand[p])]
            /\ itemCount' = itemCount + 1
            /\ Fate(hand[p], "queued")
            /\ Goto(p, "pending")
       ELSE /\ Fate(hand[p], "dropped")
            /\ Goto(p, "out")
            /\ UNCHANGED <<list, itemCount>>
    /\ UNCHANGED <<active, claimed, accepting, idleEvent, initialized, submitted,
                   reserveVars, slotOf, toScan, regVars>>

Callback(p) ==
    \/ \E i \in Items : Notify(p, i)
    \/ CheckDepth(p)
    \/ Insert(p)
    \/ Reserve(p)

-----------------------------------------------------------------------------
(* SysmonImageIoWorkItemCallback.                                          *)

\* A system thread starts on a work item; it may be submitted again at once.
Start(t) ==
    /\ pc[t] = "out"
    /\ \E s \in submitted :
        /\ submitted' = submitted \ {s}
        /\ slotOf' = [slotOf EXCEPT ![t] = s]
    /\ toScan' = [toScan EXCEPT ![t] = Queues]
    /\ Goto(t, "look")
    /\ UNCHANGED <<list, itemCount, active, claimed, accepting, idleEvent,
                   initialized, hand, reserveVars, regVars, fate>>

\* SysmonTryDequeueImageWorkContext visits the next list; when all are found
\* empty the worker leaves its loop.
Look(t) ==
    /\ pc[t] = "look"
    /\ IF toScan[t] = {}
       THEN Goto(t, "release") /\ UNCHANGED <<list, hand, toScan, fate>>
       ELSE \E q \in toScan[t] :
                IF list[q] = <<>>
                THEN /\ toScan' = [toScan EXCEPT ![t] = @ \ {q}]
                     /\ UNCHANGED <<list, hand, pc, fate>>
                ELSE /\ list' = [list EXCEPT ![q] = Tail(@)]
                     /\ Take(t, Head(list[q]))
                     /\ Fate(Head(list[q]), "running")
                     /\ Goto(t, "process")
                     /\ UNCHANGED toScan
    /\ UNCHANGED <<poolVars, reserveVars, slotOf, regVars>>

\* The context is processed and counted out; the worker looks for the next.
Process(t) ==
    /\ pc[t] = "process"
    /\ Fate(hand[t], "processed")
    /\ Drop(t)
    /\ itemCount' = itemCount - 1
    /\ toScan' = [toScan EXCEPT ![t] = Queues]
    /\ Goto(t, "look")
    /\ UNCHANGED <<list, active, claimed, accepting, idleEvent, initialized,
                   submitted, reserveVars, slotOf, regVars>>

\* Faulty variant: the slot is given up and the place is not.
ReleaseKeepsPlace(t) ==
    /\ pc[t] = "release"
    /\ claimed' = claimed \ {slotOf[t]}
    /\ Goto(t, "again")
    /\ UNCHANGED <<list, itemCount, active, accepting, idleEvent, initialized,
                   submitted, hand, reserveVars, slotOf, toScan, regVars, fate>>

\* The slot is given up, then the place.
Release(t) ==
    /\ pc[t] = "release"
    /\ IF slotOf[t] \in claimed
       THEN claimed' = claimed \ {slotOf[t]} /\ Goto(t, "retire")
       ELSE Goto(t, "again") /\ UNCHANGED claimed
    /\ UNCHANGED <<list, itemCount, active, accepting, idleEvent, initialized,
                   submitted, hand, reserveVars, slotOf, toScan, regVars, fate>>

Retire(t) ==
    /\ pc[t] = "retire"
    /\ active' = active - 1
    /\ Goto(t, "again")
    /\ UNCHANGED <<list, itemCount, claimed, accepting, idleEvent, initialized,
                   submitted, hand, reserveVars, slotOf, toScan, regVars, fate>>

\* The last look: while work is accepted and something is left, reserve again.
\* Once it is not, throw away what is left.  With no place taken and nothing
\* left the pool is idle.
Decide(t, l, test, yes, no) ==
    /\ pc[t] = l
    /\ Goto(t, IF test THEN yes ELSE no)
    /\ UNCHANGED <<list, poolVars, hand, reserveVars, slotOf, regVars, fate>>

StillAccepting(t) ==
    Decide(t, "again", accepting, "more", "stopping") /\ UNCHANGED toScan

\* Faulty variant: the worker leaves without looking at the counter again.
LeavesAtOnce(t) ==
    Decide(t, "more", FALSE, "pending", "stopping") /\ UNCHANGED toScan

MoreItems(t) ==
    Decide(t, "more", itemCount # 0, "pending", "stopping") /\ UNCHANGED toScan

\* Faulty variant: what is left when the source stops stays on its list.
NeverDiscards(t) ==
    /\ Decide(t, "stopping", TRUE, "idle", "discard")
    /\ toScan' = [toScan EXCEPT ![t] = Queues]

NotAccepting(t) ==
    /\ Decide(t, "stopping", accepting, "idle", "discard")
    /\ toScan' = [toScan EXCEPT ![t] = Queues]

\* Faulty variant: contexts are thrown away and stay counted.
DiscardUncounted(t) ==
    /\ pc[t] = "discard"
    /\ IF toScan[t] = {}
       THEN Goto(t, "idle") /\ UNCHANGED <<list, toScan, fate>>
       ELSE \E q \in toScan[t] :
                /\ list' = [list EXCEPT ![q] = <<>>]
                /\ fate' = [i \in Items |->
                        IF i \in ToSet(list[q]) THEN "discarded" ELSE fate[i]]
                /\ toScan' = [toScan EXCEPT ![t] = @ \ {q}]
                /\ UNCHANGED pc
    /\ UNCHANGED <<poolVars, hand, reserveVars, slotOf, regVars>>

\* SysmonDiscardPendingImageWork empties one list after the other.
Discard(t) ==
    /\ pc[t] = "discard"
    /\ IF toScan[t] = {}
       THEN Goto(t, "idle") /\ UNCHANGED <<list, itemCount, toScan, fate>>
       ELSE \E q \in toScan[t] :
                /\ list' = [list EXCEPT ![q] = <<>>]
                /\ itemCount' = itemCount - Len(list[q])
                /\ fate' = [i \in Items |->
                        IF i \in ToSet(list[q]) THEN "discarded" ELSE fate[i]]
                /\ toScan' = [toScan EXCEPT ![t] = @ \ {q}]
                /\ UNCHANGED pc
    /\ UNCHANGED <<active, claimed, accepting, idleEvent, initialized, submitted,
                   hand, reserveVars, slotOf, regVars>>

NobodyActive(t) ==
    Decide(t, "idle", active = 0, "empty", "submit") /\ UNCHANGED toScan

NothingLeft(t) ==
    Decide(t, "empty", itemCount = 0, "signal", "submit") /\ UNCHANGED toScan

SignalIdle(t) ==
    /\ pc[t] = "signal"
    /\ idleEvent' = TRUE
    /\ Goto(t, "submit")
    /\ UNCHANGED <<list, itemCount, active, claimed, accepting, initialized,
                   submitted, hand, reserveVars, slotOf, toScan, regVars, fate>>

Worker(t) ==
    \/ Start(t)
    \/ Look(t)
    \/ Process(t)
    \/ Release(t)
    \/ Retire(t)
    \/ StillAccepting(t)
    \/ MoreItems(t)
    \/ NotAccepting(t)
    \/ Discard(t)
    \/ NobodyActive(t)
    \/ NothingLeft(t)
    \/ SignalIdle(t)
    \/ Reserve(t)

-----------------------------------------------------------------------------
(* SysmonRegisterImageNotify, SysmonUnregisterImageNotify and              *)
(* SysmonCleanupImageWorkers, which RegistrationLock keeps apart.          *)

InitPool ==
    IF initialized
    THEN UNCHANGED <<itemCount, active, claimed, idleEvent, initialized>>
    ELSE /\ itemCount' = 0
         /\ active' = 0
         /\ claimed' = {}
         /\ idleEvent' = TRUE
         /\ initialized' = TRUE

\* PsSetLoadImageNotifyRoutine may fail; the pool stays.
Register ==
    /\ reg = "down"
    /\ registered < Registrations
    /\ registered' = registered + 1
    /\ InitPool
    /\ \/ reg' = "up" /\ accepting' = TRUE
       \/ reg' = "down" /\ accepting' = FALSE
    /\ UNCHANGED <<list, submitted, actorVars, freedBusy, fate>>

\* PsRemoveLoadImageNotifyRoutine stops new callbacks ...
Unregister ==
    /\ reg \in {"up", "down"}
    /\ initialized
    /\ reg' = "remove"
    /\ UNCHANGED <<list, poolVars, actorVars, registered, freedBusy, fate>>

\* ... and waits for those that run.
StopAccepting ==
    /\ reg = "remove"
    /\ \A p \in Producers : pc[p] = "out"
    /\ accepting' = FALSE
    /\ reg' = "active"
    /\ UNCHANGED <<list, itemCount, active, claimed, idleEvent, initialized,
                   submitted, actorVars, registered, freedBusy, fate>>

CleanupTest(l, test, no) ==
    /\ reg = l
    /\ reg' = IF test THEN "wait" ELSE no
    /\ UNCHANGED <<list, poolVars, actorVars, registered, freedBusy, fate>>

AnyActive == CleanupTest("active", active # 0, "items")
AnyItems == CleanupTest("items", itemCount # 0, "drain")

WaitIdle ==
    /\ reg = "wait"
    /\ idleEvent
    /\ reg' = "drain"
    /\ UNCHANGED <<list, poolVars, actorVars, registered, freedBusy, fate>>

\* One list after the other is emptied.
DrainLists ==
    /\ reg = "drain"
    /\ IF \A q \in Queues : list[q] = <<>>
       THEN reg' = "free" /\ UNCHANGED <<list, fate>>
       ELSE \E q \in Queues :
                /\ list[q] # <<>>
                /\ list' = [list EXCEPT ![q] = <<>>]
                /\ fate' = [i \in Items |->
                        IF i \in ToSet(list[q]) THEN "discarded" ELSE fate[i]]
                /\ UNCHANGED reg
    /\ UNCHANGED <<poolVars, actorVars, registered, freedBusy>>

\* A worker is reserved, submitted or at work.
Busy ==
    \/ claimed # {}
    \/ \E a \in Actors : pc[a] \in {"claim", "retire"}

\* The work items are freed and the counters reset.  When a worker still has
\* one the outcome is undefined, and the model goes no further.
FreeWorkItems ==
    /\ reg = "free"
    /\ reg' = "down"
    /\ freedBusy' = Busy
    /\ initialized' = FALSE
    /\ itemCount' = 0
    /\ active' = 0
    /\ claimed' = {}
    /\ UNCHANGED <<list, accepting, idleEvent, submitted, actorVars, registered,
                   fate>>

Cleanup == AnyActive \/ AnyItems \/ WaitIdle \/ DrainLists \/ FreeWorkItems

Registration == Register \/ Unregister \/ StopAccepting \/ Cleanup

Next ==
    /\ ~freedBusy
    /\ \/ \E p \in Producers : Callback(p)
       \/ \E t \in Threads : Worker(t)
       \/ Registration

Spec == Init /\ [][Next]_vars

-----------------------------------------------------------------------------
Reserving == {"pending", "place", "claim", "clear", "submit"}

Fates == {"fresh", "offered", "queued", "running", "processed", "dropped",
          "discarded"}

TypeOK ==
    /\ list \in [Queues -> Seq(Items)]
    /\ itemCount \in Nat
    /\ active \in Nat
    /\ claimed \subseteq Slots
    /\ accepting \in BOOLEAN
    /\ idleEvent \in BOOLEAN
    /\ initialized \in BOOLEAN
    /\ submitted \subseteq Slots
    /\ pc \in [Actors -> Reserving \cup {"out", "depth", "insert", "look",
            "process", "release", "retire", "again", "more", "stopping",
            "discard", "idle", "empty", "signal"}]
    /\ hand \in [Actors -> Items \cup {NoItem}]
    /\ seen \in [Actors -> Nat]
    /\ pos \in [Actors -> 1 .. WorkerCount + 1]
    /\ mine \in [Actors -> SUBSET Slots]
    /\ slotOf \in [Threads -> Slots]
    /\ toScan \in [Threads -> SUBSET Queues]
    /\ reg \in {"down", "up", "remove", "active", "items", "wait", "drain", "free"}
    /\ registered \in 0 .. Registrations
    /\ fate \in [Items -> Fates]
    /\ freedBusy \in BOOLEAN

Claiming == {a \in Actors : pc[a] = "claim"}
Retiring == {t \in Threads : pc[t] = "retire"}
AtWork == {t \in Threads : pc[t] \in {"look", "process", "release"}}

\* The number of places taken is that of the slots held and of the threads on
\* their way to a slot or from one, and never exceeds the size of the pool.
PlacesAccounted ==
    ~freedBusy =>
        /\ active = Cardinality(claimed) + Cardinality(Claiming) + Cardinality(Retiring)
        /\ active <= WorkerCount

\* A claimed slot belongs to one reservation, or its work item is submitted, or
\* one thread runs it; so no work item is submitted twice, and a worker gives
\* up no slot but its own.
SlotsAccounted ==
    ~freedBusy =>
        /\ claimed = (UNION {mine[a] : a \in Actors}) \cup submitted
                        \cup {slotOf[t] : t \in AtWork}
        /\ \A a, b \in Actors : a # b => mine[a] \cap mine[b] = {}
        /\ \A a \in Actors : mine[a] \cap submitted = {}
        /\ \A t \in AtWork :
            /\ slotOf[t] \notin submitted
            /\ \A a \in Actors : slotOf[t] \notin mine[a]
            /\ \A u \in AtWork : slotOf[t] = slotOf[u] => t = u

\* A thread that has won a place finds a slot, although it tries them one by
\* one while others come and go; so SysmonReserveImageWorkers never gives up a
\* place it has taken, which nobody would make up for.
ClaimSucceeds == ~freedBusy => \A a \in Claiming : pos[a] <= WorkerCount

Inserting == {p \in Producers : pc[p] = "insert"}
InHands == {t \in Threads : hand[t] # NoItem}
Listed == UNION {ToSet(list[q]) : q \in Queues}

\* A context is offered by one callback, waits on one list, or is in the hands
\* of one worker; the counter kept beside the lists agrees with them, and the
\* bound checked outside the locks is overrun by the other callbacks at most.
ItemsAccounted ==
    ~freedBusy =>
        /\ \A q \in Queues : IsInjective(list[q])
        /\ \A q, r \in Queues : q # r => ToSet(list[q]) \cap ToSet(list[r]) = {}
        /\ Listed = {i \in Items : fate[i] = "queued"}
        /\ \A i \in Items : fate[i] \in {"offered", "running"}
                                <=> \E a \in Actors : hand[a] = i
        /\ \A a, b \in Actors : hand[a] = hand[b] => a = b \/ hand[a] = NoItem
        /\ reg \notin {"drain", "free"} =>
                itemCount = Cardinality(Listed) + Cardinality(InHands)
        /\ itemCount + Cardinality(Inserting) < MaxDepth + Cardinality(Producers)

\* Work items are freed only when no worker has one (image.c, the comment on the
\* discarding of pending items).
FreedOnlyWhenIdle == ~freedBusy

-----------------------------------------------------------------------------
(***************************************************************************)
(* Fairness.  Callbacks return, system threads take work items and run     *)
(* them, and an unregistration once begun goes on.  Nothing obliges an     *)
(* image to be loaded or the source to be registered or unregistered.      *)
(***************************************************************************)
Fairness ==
    /\ \A p \in Producers :
        WF_vars(~freedBusy /\ (CheckDepth(p) \/ Insert(p) \/ Reserve(p)))
    /\ \A t \in Threads : WF_vars(~freedBusy /\ Worker(t))
    /\ WF_vars(~freedBusy /\ (StopAccepting \/ Cleanup))

FairSpec == Spec /\ Fairness

\* No context is left behind on a list: although a callback that finds as many
\* workers as contexts reserves none, the workers that leave look again.
ItemsServed ==
    \A i \in Items : fate[i] = "queued" ~> fate[i] # "queued" \/ freedBusy

\* An unregistration ends: when the cleanup has to wait for the idle event, a
\* worker that sets it is still to come.
CleanupEnds == reg = "remove" ~> reg = "down"

=============================================================================
