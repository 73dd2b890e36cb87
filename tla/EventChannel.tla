----------------------------- MODULE EventChannel -----------------------------
(***************************************************************************)
(* The driver's event channel: the callbacks that publish events           *)
(* (SysmonPublishEventWithFilterState) beside the requests, handles and    *)
(* shutdown of IrpChannel.  A producer hands its event to a waiting        *)
(* request or, when it finds none, stores it in the queue; the two are     *)
(* separate critical sections under different locks.                       *)
(***************************************************************************)
EXTENDS IrpChannel

CONSTANTS
    Producers,   \* threads that run the driver's callbacks
    NoEvent,     \* a producer that publishes nothing
    NoIrp,
    Stoppable    \* whether runs include STOP, close and shutdown

ASSUME ProducerThreads ==
    /\ Producers \cap (Irps \cup Handles) = {}
    /\ Unlocked \notin Producers
    /\ NoEvent \notin Blobs
    /\ NoIrp \notin Irps
    /\ Stoppable \in BOOLEAN

VARIABLES
    pubPc,    \* where each producer is
    event,    \* the event it publishes
    taken     \* the request it took out of the CSQ

producerVars == <<pubPc, event, taken>>
vars == <<channelVars, producerVars>>

Init ==
    /\ ChannelInit
    /\ pubPc = [p \in Producers |-> "idle"]
    /\ event = [p \in Producers |-> NoEvent]
    /\ taken = [p \in Producers |-> NoIrp]

Fate(b, what) == fate' = [fate EXCEPT ![b] = what]

PubGoto(p, pc) == pubPc' = [pubPc EXCEPT ![p] = pc]

\* The producer is through with its event.
PubDone(p) ==
    /\ pubPc' = [pubPc EXCEPT ![p] = "idle"]
    /\ event' = [event EXCEPT ![p] = NoEvent]
    /\ taken' = [taken EXCEPT ![p] = NoIrp]

-----------------------------------------------------------------------------
(* Faulty variants of the operations below, for the mutation runs.         *)

\* An event handed to a request and stored in the queue as well.
HandOverAndStore(p) ==
    /\ pubPc[p] = "copy"
    /\ Deliver(taken[p], event[p])
    /\ Complete(taken[p])
    /\ PubGoto(p, "enqueue")
    /\ UNCHANGED <<queueVars, pended, cancelFlag, consumer, handleVars,
                   capturePaused, inside, shutdownVars, event, taken>>

\* A request looked at in the CSQ and not removed from it.
PeekIrp(p) ==
    /\ pubPc[p] = "match"
    /\ IF pended = <<>>
       THEN PubGoto(p, "enqueue") /\ UNCHANGED <<requestVars, taken>>
       ELSE /\ taken' = [taken EXCEPT ![p] = Head(pended)]
            /\ Goto(Head(pended), "owned")
            /\ PubGoto(p, "copy")
            /\ UNCHANGED <<pended, cancelFlag>>
    /\ UNCHANGED <<queueVars, consumer, handleVars, capturePaused, inside,
                   shutdownVars, historyVars, event>>

-----------------------------------------------------------------------------
(* SysmonPublishEventWithFilterState.                                      *)

\* A callback has built event b; a paused capture drops it at once.
Publish(p, b) ==
    /\ pubPc[p] = "idle"
    /\ fate[b] = "fresh"
    /\ IF capturePaused
       THEN Fate(b, "paused") /\ UNCHANGED producerVars
       ELSE /\ Fate(b, "held")
            /\ PubGoto(p, "checked")
            /\ event' = [event EXCEPT ![p] = b]
            /\ UNCHANGED taken
    /\ UNCHANGED <<queueVars, requestVars, consumer, handleVars,
                   capturePaused, inside, shutdownVars, delivered>>

\* Rundown protection, then the rules: the event is refused by a driver that
\* shuts down, filtered out, or goes on.
Filter(p) ==
    /\ pubPc[p] = "checked"
    /\ \/ /\ shutdownStarted
          /\ Fate(event[p], "refused")
          /\ PubDone(p)
          /\ UNCHANGED inside
       \/ /\ ~shutdownStarted
          /\ Fate(event[p], "filtered")
          /\ PubDone(p)
          /\ UNCHANGED inside
       \/ /\ AcquireDriverRundown(p)
          /\ PubGoto(p, "match")
          /\ UNCHANGED <<fate, event, taken>>
    /\ UNCHANGED <<queueVars, requestVars, consumer, handleVars,
                   capturePaused, shutdownVars, delivered>>

\* SysmonCompletePendingEventIrp takes the oldest waiting request.
TakeIrp(p) ==
    /\ pubPc[p] = "match"
    /\ IF pended = <<>>
       THEN PubGoto(p, "enqueue") /\ UNCHANGED <<requestVars, taken>>
       ELSE /\ RemoveIrp(1)
            /\ taken' = [taken EXCEPT ![p] = Head(pended)]
            /\ Goto(Head(pended), "owned")
            /\ PubGoto(p, "copy")
            /\ UNCHANGED cancelFlag
    /\ UNCHANGED <<queueVars, consumer, handleVars, capturePaused, inside,
                   shutdownVars, historyVars, event>>

\* ... copies the event into its buffer and completes it.
HandOver(p) ==
    /\ pubPc[p] = "copy"
    /\ Deliver(taken[p], event[p])
    /\ Complete(taken[p])
    /\ ReleaseDriverRundown(p)
    /\ PubDone(p)
    /\ UNCHANGED <<queueVars, pended, cancelFlag, consumer, handleVars,
                   capturePaused, shutdownVars>>

\* SysmonEnqueueEvent finds no memory for the node.
EnqueueFails(p) ==
    /\ pubPc[p] = "enqueue"
    /\ lock # p
    /\ Fate(event[p], "nomemory")
    /\ ReleaseDriverRundown(p)
    /\ PubDone(p)
    /\ UNCHANGED <<queueVars, requestVars, consumer, handleVars,
                   capturePaused, shutdownVars, delivered>>

EnqueueEvicts(p) ==
    /\ pubPc[p] = "enqueue"
    /\ EvictOldest(p, event[p])
    /\ Fate(Head(nodes), "evicted")
    /\ UNCHANGED <<requestVars, consumer, handleVars, capturePaused, inside,
                   shutdownVars, delivered, producerVars>>

EnqueueStores(p) ==
    /\ pubPc[p] = "enqueue"
    /\ AppendBlob(p, event[p])
    /\ Fate(event[p], IF Full(event[p]) THEN "quota" ELSE "queued")
    /\ ReleaseDriverRundown(p)
    /\ PubDone(p)
    /\ UNCHANGED <<requestVars, consumer, handleVars, capturePaused,
                   shutdownVars, delivered>>

Producer(p) ==
    \/ \E b \in Blobs : Publish(p, b)
    \/ Filter(p)
    \/ TakeIrp(p)
    \/ HandOver(p)
    \/ EnqueueFails(p)
    \/ EnqueueEvicts(p)
    \/ EnqueueStores(p)

-----------------------------------------------------------------------------
Requesting(r) ==
    (Issue(r) \/ Reap(r) \/ CancelIo(r) \/ GetEvent(r)) /\ UNCHANGED producerVars

Controlling(h) ==
    /\ Stoppable
    /\ HandleInit(h) \/ HandleStop(h) \/ Cleanup(h) \/ CancelForFile(h)
    /\ UNCHANGED producerVars

ShuttingDown == Stoppable /\ Shutdown /\ UNCHANGED producerVars

Next ==
    \/ \E p \in Producers : Producer(p)
    \/ \E r \in Irps : Requesting(r)
    \/ \E h \in Handles : Controlling(h)
    \/ ShuttingDown

Spec == Init /\ [][Next]_vars

-----------------------------------------------------------------------------
Publishing == {"match", "copy", "enqueue"}
Cancelling == {"cancel", "clear"}

IrpPcs == InDispatch \cup {"idle", "pended", "owned", "done"}

ShutdownPcs == {"running", "pause", "wait", "drain", "unclaim", "purge",
                "delete", "gone"}

\* Past the wait for the rundown.
Drained == {"drain", "unclaim", "purge", "delete", "gone"}

\* The types of the channel's state, and the limits of the queue's counters.
TypeOK ==
    /\ nodes \in Seq(Blobs)
    /\ count \in 0 .. MaxEvents
    /\ total \in Int /\ total <= MaxTotalSize
    /\ lock \in Producers \cup {Unlocked}
    /\ pended \in Seq(Irps)
    /\ consumer \in Handles \cup {NoHandle}
    /\ irpPc \in [Irps -> IrpPcs]
    /\ cancelFlag \subseteq Irps
    /\ ctl \in [Handles -> {"open", "enter"} \cup Cancelling]
    /\ closing \subseteq Handles
    /\ capturePaused \in BOOLEAN
    /\ shutdownStarted \in BOOLEAN
    /\ inside \subseteq Producers \cup Irps \cup Handles
    /\ sd \in ShutdownPcs
    /\ fate \in [Blobs -> Fates]
    /\ delivered \in Seq([irp : Irps, blob : Blobs])
    /\ pubPc \in [Producers -> {"idle", "checked"} \cup Publishing]
    /\ event \in [Producers -> Blobs \cup {NoEvent}]
    /\ taken \in [Producers -> Irps \cup {NoIrp}]

\* A request is in one place.  The CSQ lists exactly the requests that wait,
\* each once, and a request taken out of it belongs to exactly one producer;
\* so cancellation, producers, STOP and shutdown never complete it twice.
RequestsAccounted ==
    /\ IsInjective(pended)
    /\ ToSet(pended) = {r \in Irps : irpPc[r] = "pended"}
    /\ \A r \in Irps : irpPc[r] = "owned" <=> \E p \in Producers : taken[p] = r
    /\ \A p, q \in Producers : taken[p] = taken[q] => p = q \/ taken[p] = NoIrp

\* What the clients got, without the requests it came by.
Received == [i \in DOMAIN delivered |-> delivered[i].blob]

\* An event is in one place: in the hands of one producer, once in the queue,
\* or once in a client's buffer.  Nothing is delivered twice, and nothing
\* evicted, purged, filtered or refused is ever delivered.
EventsAccounted ==
    /\ IsInjective(nodes)
    /\ ToSet(nodes) = {b \in Blobs : fate[b] = "queued"}
    /\ IsInjective(Received)
    /\ ToSet(Received) = {b \in Blobs : fate[b] = "delivered"}
    /\ \A b \in Blobs : fate[b] = "held" <=> \E p \in Producers : event[p] = b
    /\ \A p, q \in Producers : event[p] = event[q] => p = q \/ event[p] = NoEvent

\* The references on RunDownRef are those of the threads between acquire and
\* release: no path of any handler keeps one, none gives one back twice.
RundownAccounted ==
    inside = {p \in Producers : pubPc[p] \in Publishing}
             \cup {r \in Irps : irpPc[r] \in {"claim", "insert"}}
             \cup {h \in Handles : ctl[h] \in Cancelling}

\* Once the shutdown has waited for the rundown nobody publishes, pends or
\* cancels; what it then drains and purges stays empty, so no request waits
\* on a deleted device and no node outlives the queue.
ShutdownSafe ==
    /\ sd # "running" => shutdownStarted
    /\ sd \in Drained => inside = {}
    /\ sd \in Drained \ {"drain"} =>
        pended = <<>> /\ \A r \in Irps : irpPc[r] \notin {"pended", "owned"}
    /\ sd \in {"delete", "gone"} => nodes = <<>>

\* A handle that does not own the queue never receives an event
\* (communication.c, the comment on SysmonTryAcquireQueueConsumer), until a
\* shutdown takes the queue from its owner.
OnlyConsumerDrains ==
    [][Len(delivered') > Len(delivered)
        => FileOf[Last(delivered').irp] = consumer \/ sd \in Drained]_vars

\* With nobody in the middle of anything, an event does not sit in the queue
\* while a request waits for one (communication.c, the comment on
\* SysmonHandleGetEvent).
NoStrandedEvent ==
    \/ pended = <<>>
    \/ nodes = <<>>
    \/ \E p \in Producers : pubPc[p] # "idle"
    \/ \E r \in Irps : irpPc[r] \in InDispatch

LostFates == {"truncated", "evicted", "purged", "quota", "nomemory", "paused",
              "filtered", "refused"}

Lost == {b \in Blobs : fate[b] \in LostFates}

Stream == INSTANCE LossyStream
            WITH Events <- Blobs, waiting <- nodes, received <- Received,
                 lost <- Lost

\* The channel implements the abstract stream: whatever the interleaving, an
\* event reaches a client at most once, events that were queued arrive in the
\* order they were queued, and a full queue gives up its oldest event only.
ImplementsStream == Stream!StreamSpec

-----------------------------------------------------------------------------
(***************************************************************************)
(* Fairness.  Threads inside the driver run on; a client's loop reissues   *)
(* its request and gives up on one that has waited for a second            *)
(* (SYSMON_EVENT_TIMEOUT of protocol.cpp), so a request that stays pended  *)
(* is cancelled.  Nothing obliges a callback to happen, a handle to be     *)
(* stopped or the driver to be unloaded.                                   *)
(***************************************************************************)
CancelWaiting(r) == irpPc[r] = "pended" /\ CancelIo(r) /\ UNCHANGED producerVars

PublishesOn(p) ==
    Filter(p) \/ TakeIrp(p) \/ HandOver(p) \/ EnqueueFails(p)
        \/ EnqueueEvicts(p) \/ EnqueueStores(p)

Fairness ==
    /\ \A p \in Producers : WF_vars(PublishesOn(p))
    /\ \A r \in Irps :
        /\ WF_vars(GetEvent(r) /\ UNCHANGED producerVars)
        /\ WF_vars((Issue(r) \/ Reap(r)) /\ UNCHANGED producerVars)
        /\ WF_vars(CancelWaiting(r))
    /\ \A h \in Handles : WF_vars(CancelForFile(h) /\ UNCHANGED producerVars)
    /\ WF_vars(sd # "running" /\ ShuttingDown)

FairSpec == Spec /\ Fairness

\* An event in the queue does not stay there: a client that keeps asking and
\* neither stops the capture nor goes away receives it, or it gives way to
\* newer ones.  A request that pends beside a queued event delays it only
\* until that request times out.
QueuedEventMoves ==
    \A b \in Blobs :
        fate[b] = "queued" ~> fate[b] # "queued" \/ capturePaused \/ closing # {}

\* A shutdown comes to its end whatever requests, producers and handles are
\* in the middle of: nobody it waits for waits for it.
ShutdownEnds == shutdownStarted ~> sd = "gone"

=============================================================================
