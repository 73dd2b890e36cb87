------------------------------ MODULE IrpChannel ------------------------------
(***************************************************************************)
(* The request side of the driver's event channel: GET_EVENT requests that *)
(* take a queued event or wait in the cancel-safe queue (CSQ), the single  *)
(* consumer of the queue, INIT / STOP / IRP_MJ_CLEANUP of a handle, and    *)
(* the shutdown of the driver (communication.c, driver.c).                 *)
(*                                                                         *)
(* A request (an IRP) belongs to the file object of a handle and may be    *)
(* issued again once it is completed, as the client's loop does.  Steps    *)
(* are the critical sections and interlocked operations of the code; what  *)
(* a thread computes between two of them is folded into the first.         *)
(***************************************************************************)
EXTENDS DriverQueue

CONSTANTS
    Irps, Handles,   \* GET_EVENT requests and file objects
    FileOf,          \* FileOf[r]: the file object of request r
    OutLen,          \* OutLen[r]: OutputBufferLength of r
    NoHandle,        \* EventConsumerFileObject == NULL
    SerialClient     \* each client keeps its control calls and its requests
                     \* in one thread, as ServiceWorkerThread does

ASSUME RequestsOfHandles ==
    /\ FileOf \in [Irps -> Handles]
    /\ OutLen \in [Irps -> Nat]
    /\ NoHandle \notin Handles
    /\ SerialClient \in BOOLEAN

ASSUME DistinctThreads == Irps \cap Handles = {} /\ Unlocked \notin Irps

VARIABLES
    pended,           \* EventQueue.PendingIrpList, oldest first
    consumer,         \* EventConsumerFileObject
    irpPc,            \* where the driver is with each request
    cancelFlag,       \* requests with Irp->Cancel set
    ctl,              \* what the control thread of each handle does
    closing,          \* file objects whose last handle is closed
    capturePaused,    \* g_Context.CapturePaused
    shutdownStarted,  \* g_Context.ShutdownStarted
    inside,           \* threads holding g_Context.RunDownRef
    sd,               \* the thread in SysmonDriverCleanupInternal
    fate,             \* what became of each blob
    delivered         \* history: blobs handed to clients, with the request

requestVars == <<pended, irpPc, cancelFlag>>
handleVars == <<ctl, closing>>
shutdownVars == <<shutdownStarted, sd>>
historyVars == <<fate, delivered>>
channelVars == <<queueVars, requestVars, consumer, handleVars, capturePaused,
                 inside, shutdownVars, historyVars>>

Fates == {"fresh", "held", "queued", "delivered", "truncated", "evicted",
          "purged", "quota", "nomemory", "paused", "filtered", "refused"}

ChannelInit ==
    /\ QueueInit
    /\ pended = <<>>
    /\ consumer = NoHandle
    /\ irpPc = [r \in Irps |-> "idle"]
    /\ cancelFlag = {}
    /\ ctl = [h \in Handles |-> "open"]
    /\ closing = {}
    /\ capturePaused = FALSE
    /\ shutdownStarted = FALSE
    /\ inside = {}
    /\ sd = "running"
    /\ fate = [b \in Blobs |-> "fresh"]
    /\ delivered = <<>>

\* SysmonAcquireDriverRundown: its second look at ShutdownStarted decides,
\* and no wait for the rundown begins before ShutdownStarted is set.
AcquireDriverRundown(t) == ~shutdownStarted /\ inside' = inside \cup {t}

ReleaseDriverRundown(t) == inside' = inside \ {t}

\* SysmonTryAcquireQueueConsumer, under the queue's spin lock.
MayConsume(h) == consumer \in {NoHandle, h}

\* IoCsqRemoveIrp of the request at position i of the CSQ.
RemoveIrp(i) == pended' = RemoveAt(pended, i)

\* SysmonCsqPeekNextIrp with a file object: i is the first request of h.
FirstOf(h, i) ==
    /\ FileOf[pended[i]] = h
    /\ \A j \in 1 .. i - 1 : FileOf[pended[j]] # h

Complete(r) == irpPc' = [irpPc EXCEPT ![r] = "done"]

Goto(r, pc) == irpPc' = [irpPc EXCEPT ![r] = pc]

\* The blob goes to r's buffer, or is lost when the buffer is too small.
Deliver(r, b) ==
    IF OutLen[r] >= SizeOf[b]
    THEN /\ fate' = [fate EXCEPT ![b] = "delivered"]
         /\ delivered' = Append(delivered, [irp |-> r, blob |-> b])
    ELSE /\ fate' = [fate EXCEPT ![b] = "truncated"]
         /\ UNCHANGED delivered

-----------------------------------------------------------------------------
(* The client of a handle.                                                 *)

InDispatch == {"acquire", "dequeue", "enter", "claim", "insert"}

Requests(h) == {r \in Irps : FileOf[r] = h}

\* DeviceIoControl(GET_EVENT).
Issue(r) ==
    /\ irpPc[r] = "idle"
    /\ FileOf[r] \notin closing
    /\ SerialClient => ctl[FileOf[r]] = "open"
    /\ Goto(r, "acquire")
    /\ cancelFlag' = cancelFlag \ {r}
    /\ UNCHANGED <<queueVars, pended, consumer, handleVars, capturePaused,
                   inside, shutdownVars, historyVars>>

\* The client takes the result of r and may use its buffer again.
Reap(r) ==
    /\ irpPc[r] = "done"
    /\ Goto(r, "idle")
    /\ UNCHANGED <<queueVars, pended, cancelFlag, consumer, handleVars,
                   capturePaused, inside, shutdownVars, historyVars>>

\* Faulty variant: a client that waits for ever in place of giving up.
NeverCancelled(r) == FALSE

\* CancelIoEx: a request that waits is taken out of the CSQ and completed,
\* one still in dispatch is marked, one already taken out goes its way.
CancelIo(r) ==
    /\ \/ /\ \E i \in DOMAIN pended : pended[i] = r /\ RemoveIrp(i)
          /\ Complete(r)
          /\ UNCHANGED cancelFlag
       \/ /\ irpPc[r] \in InDispatch
          /\ r \notin cancelFlag
          /\ cancelFlag' = cancelFlag \cup {r}
          /\ UNCHANGED <<pended, irpPc>>
    /\ UNCHANGED <<queueVars, consumer, handleVars, capturePaused, inside,
                   shutdownVars, historyVars>>

-----------------------------------------------------------------------------
(* Faulty variants of the operations below, for the mutation runs.         *)

\* The dequeue path without its single-consumer check.
AcquireByAnyone(r) ==
    /\ irpPc[r] = "acquire"
    /\ IF sd # "gone"
       THEN /\ consumer' = IF consumer = NoHandle THEN FileOf[r] ELSE consumer
            /\ Goto(r, "dequeue")
       ELSE Complete(r) /\ UNCHANGED consumer
    /\ UNCHANGED <<queueVars, pended, cancelFlag, handleVars, capturePaused,
                   inside, shutdownVars, historyVars>>

\* The early return of a refused request that keeps the rundown reference.
ClaimLeaksRundown(r) ==
    /\ irpPc[r] = "claim"
    /\ IF MayConsume(FileOf[r])
       THEN /\ consumer' = FileOf[r]
            /\ Goto(r, "insert")
       ELSE /\ Complete(r)
            /\ UNCHANGED consumer
    /\ UNCHANGED <<queueVars, pended, cancelFlag, handleVars, capturePaused,
                   inside, shutdownVars, historyVars>>

\* Pending a request without rundown protection.
EnterUnprotected(r) ==
    /\ irpPc[r] = "enter"
    /\ Goto(r, "claim")
    /\ inside' = inside \cup {r}
    /\ UNCHANGED <<queueVars, pended, cancelFlag, consumer, handleVars,
                   capturePaused, shutdownVars, historyVars>>

\* A request already cancelled is completed and keeps its reference.
InsertLeaksRundown(r) ==
    /\ irpPc[r] = "insert"
    /\ IF r \in cancelFlag
       THEN Complete(r) /\ UNCHANGED <<pended, inside>>
       ELSE /\ Goto(r, "pended")
            /\ pended' = Append(pended, r)
            /\ ReleaseDriverRundown(r)
    /\ UNCHANGED <<queueVars, cancelFlag, consumer, handleVars, capturePaused,
                   shutdownVars, historyVars>>

-----------------------------------------------------------------------------
(* GET_EVENT: SysmonHandleGetEvent, then SysmonPendGetEventIrp.            *)

\* The single-consumer check of SysmonHandleGetEvent, which claims the queue
\* for the first file object that asks.  Once the device is deleted there is
\* no extension to look at.
GetAcquire(r) ==
    /\ irpPc[r] = "acquire"
    /\ IF sd # "gone" /\ MayConsume(FileOf[r])
       THEN consumer' = FileOf[r] /\ Goto(r, "dequeue")
       ELSE Complete(r) /\ UNCHANGED consumer
    /\ UNCHANGED <<queueVars, pended, cancelFlag, handleVars, capturePaused,
                   inside, shutdownVars, historyVars>>

\* SysmonDequeueEvent: the oldest event goes to the client; without one the
\* dispatcher pends the request.
GetDequeue(r) ==
    /\ irpPc[r] = "dequeue"
    /\ \/ DequeueBlob /\ Deliver(r, Head(nodes)) /\ Complete(r)
       \/ FindEmpty /\ Goto(r, "enter") /\ UNCHANGED historyVars
    /\ UNCHANGED <<pended, cancelFlag, consumer, handleVars, capturePaused,
                   inside, shutdownVars>>

\* SysmonPendGetEventIrp enters the driver, unless it is shutting down.
PendEnter(r) ==
    /\ irpPc[r] = "enter"
    /\ \/ AcquireDriverRundown(r) /\ Goto(r, "claim")
       \/ shutdownStarted /\ Complete(r) /\ UNCHANGED inside
    /\ UNCHANGED <<queueVars, pended, cancelFlag, consumer, handleVars,
                   capturePaused, shutdownVars, historyVars>>

\* The single-consumer check again, before the request is pended.
PendClaim(r) ==
    /\ irpPc[r] = "claim"
    /\ IF MayConsume(FileOf[r])
       THEN /\ consumer' = FileOf[r]
            /\ Goto(r, "insert")
            /\ UNCHANGED inside
       ELSE /\ Complete(r)
            /\ ReleaseDriverRundown(r)
            /\ UNCHANGED consumer
    /\ UNCHANGED <<queueVars, pended, cancelFlag, handleVars, capturePaused,
                   shutdownVars, historyVars>>

\* IoCsqInsertIrpEx, which completes a request already cancelled.
PendInsert(r) ==
    /\ irpPc[r] = "insert"
    /\ IF r \in cancelFlag
       THEN Complete(r) /\ UNCHANGED pended
       ELSE Goto(r, "pended") /\ pended' = Append(pended, r)
    /\ ReleaseDriverRundown(r)
    /\ UNCHANGED <<queueVars, cancelFlag, consumer, handleVars, capturePaused,
                   shutdownVars, historyVars>>

GetEvent(r) ==
    GetAcquire(r) \/ GetDequeue(r) \/ PendEnter(r) \/ PendClaim(r)
        \/ PendInsert(r)

-----------------------------------------------------------------------------
(* INIT, STOP and the closing of a handle.                                 *)

Quiet(h) == \A r \in Requests(h) : irpPc[r] \in {"idle", "done"}

MayControl(h) == ctl[h] = "open" /\ (SerialClient => Quiet(h))

\* SysmonHandleInit resumes the capture for every client.
HandleInit(h) ==
    /\ MayControl(h)
    /\ h \notin closing
    /\ capturePaused
    /\ capturePaused' = FALSE
    /\ UNCHANGED <<queueVars, requestVars, consumer, handleVars, inside,
                   shutdownVars, historyVars>>

\* SysmonHandleStop pauses the capture, then cancels for its file object.
HandleStop(h) ==
    /\ MayControl(h)
    /\ h \notin closing
    /\ capturePaused' = TRUE
    /\ ctl' = [ctl EXCEPT ![h] = "enter"]
    /\ UNCHANGED <<queueVars, requestVars, consumer, closing, inside,
                   shutdownVars, historyVars>>

\* IRP_MJ_CLEANUP: the last handle of the file object is closed.
Cleanup(h) ==
    /\ MayControl(h)
    /\ h \notin closing
    /\ closing' = closing \cup {h}
    /\ ctl' = [ctl EXCEPT ![h] = "enter"]
    /\ UNCHANGED <<queueVars, requestVars, consumer, capturePaused, inside,
                   shutdownVars, historyVars>>

\* SysmonCancelPendingIrpsForFileObject.  It returns silently when the driver
\* is shutting down.
CancelEnter(h) ==
    /\ ctl[h] = "enter"
    /\ \/ AcquireDriverRundown(h) /\ ctl' = [ctl EXCEPT ![h] = "cancel"]
       \/ /\ shutdownStarted
          /\ ctl' = [ctl EXCEPT ![h] = "open"]
          /\ UNCHANGED inside
    /\ UNCHANGED <<queueVars, requestVars, consumer, closing, capturePaused,
                   shutdownVars, historyVars>>

\* One turn of the loop of SysmonCancelPendingIrpsInternal.
CancelNext(h) ==
    /\ ctl[h] = "cancel"
    /\ \E i \in DOMAIN pended :
        FirstOf(h, i) /\ RemoveIrp(i) /\ Complete(pended[i])
    /\ UNCHANGED <<queueVars, cancelFlag, consumer, handleVars, capturePaused,
                   inside, shutdownVars, historyVars>>

CancelLast(h) ==
    /\ ctl[h] = "cancel"
    /\ \A i \in DOMAIN pended : FileOf[pended[i]] # h
    /\ ctl' = [ctl EXCEPT ![h] = "clear"]
    /\ UNCHANGED <<queueVars, requestVars, consumer, closing, capturePaused,
                   inside, shutdownVars, historyVars>>

\* The file object gives up the queue, in a critical section of its own.
CancelClear(h) ==
    /\ ctl[h] = "clear"
    /\ consumer' = IF consumer = h THEN NoHandle ELSE consumer
    /\ ReleaseDriverRundown(h)
    /\ ctl' = [ctl EXCEPT ![h] = "open"]
    /\ UNCHANGED <<queueVars, requestVars, closing, capturePaused,
                   shutdownVars, historyVars>>

CancelForFile(h) ==
    CancelEnter(h) \/ CancelNext(h) \/ CancelLast(h) \/ CancelClear(h)

-----------------------------------------------------------------------------
(* SysmonDriverCleanupInternal.                                            *)

ShutdownStart ==
    /\ sd = "running"
    /\ shutdownStarted' = TRUE
    /\ sd' = "pause"
    /\ UNCHANGED <<queueVars, requestVars, consumer, handleVars,
                   capturePaused, inside, historyVars>>

ShutdownPause ==
    /\ sd = "pause"
    /\ capturePaused' = TRUE
    /\ sd' = "wait"
    /\ UNCHANGED <<queueVars, requestVars, consumer, handleVars, inside,
                   shutdownStarted, historyVars>>

\* ExWaitForRundownProtectionRelease.
ShutdownWait ==
    /\ sd = "wait"
    /\ inside = {}
    /\ sd' = "drain"
    /\ UNCHANGED <<queueVars, requestVars, consumer, handleVars,
                   capturePaused, inside, shutdownStarted, historyVars>>

\* SysmonDrainPendingEventIrps.
ShutdownDrain ==
    /\ sd = "drain"
    /\ IF pended = <<>>
       THEN sd' = "unclaim" /\ UNCHANGED <<pended, irpPc>>
       ELSE RemoveIrp(1) /\ Complete(Head(pended)) /\ UNCHANGED sd
    /\ UNCHANGED <<queueVars, cancelFlag, consumer, handleVars, capturePaused,
                   inside, shutdownStarted, historyVars>>

ShutdownUnclaim ==
    /\ sd = "unclaim"
    /\ consumer' = NoHandle
    /\ sd' = "purge"
    /\ UNCHANGED <<queueVars, requestVars, handleVars, capturePaused, inside,
                   shutdownStarted, historyVars>>

\* SysmonCleanupQueue.
ShutdownPurge ==
    /\ sd = "purge"
    /\ PurgeQueue
    /\ fate' = [b \in Blobs |->
                  IF b \in ToSet(nodes) THEN "purged" ELSE fate[b]]
    /\ sd' = "delete"
    /\ UNCHANGED <<requestVars, consumer, handleVars, capturePaused, inside,
                   shutdownStarted, delivered>>

\* SysmonDeleteDeviceAndLink.
ShutdownDelete ==
    /\ sd = "delete"
    /\ sd' = "gone"
    /\ UNCHANGED <<queueVars, requestVars, consumer, handleVars,
                   capturePaused, inside, shutdownStarted, historyVars>>

Shutdown ==
    \/ ShutdownStart
    \/ ShutdownPause
    \/ ShutdownWait
    \/ ShutdownDrain
    \/ ShutdownUnclaim
    \/ ShutdownPurge
    \/ ShutdownDelete

=============================================================================
