------------------------------ MODULE DriverQueue ------------------------------
(***************************************************************************)
(* SYSMON_EVENT_QUEUE of the driver (SysmonDrv/include/queue.h, queue.c):  *)
(* a FIFO of blobs bounded both by a number of nodes and by a number of    *)
(* bytes.  A producer that finds it full evicts the oldest nodes until its *)
(* own blob fits.  The whole loop runs under Queue->Lock; here each turn   *)
(* of the loop is a step that keeps the lock.                              *)
(*                                                                         *)
(* A node stands for its blob; SizeOf[b] is the node's EventSize.  The     *)
(* builders of event.c give every event a size between that of its header  *)
(* and that of SYSMON_EVENT_UNION, which is far below MaxTotalSize, so the *)
(* zero, short and oversized cases of SysmonEnqueueEvent do not arise, nor *)
(* STATUS_INVALID_BUFFER_SIZE of SysmonEnqueueBlob.                        *)
(***************************************************************************)
EXTENDS Integers, SequencesExt

CONSTANTS
    Blobs,         \* the blobs that may be queued
    SizeOf,        \* SizeOf[b]: bytes of b
    MaxEvents,     \* Queue->MaxEvents
    MaxTotalSize,  \* Queue->MaxTotalSize, in bytes
    Unlocked       \* nobody holds Queue->Lock

ASSUME QueueLimits ==
    /\ MaxEvents \in Nat \ {0}
    /\ MaxTotalSize \in Nat
    /\ SizeOf \in [Blobs -> 1 .. MaxTotalSize]

VARIABLES
    nodes,  \* Queue->Head, oldest first
    count,  \* Queue->Count
    total,  \* Queue->TotalSize
    lock    \* the thread inside Queue->Lock, or Unlocked

queueVars == <<nodes, count, total, lock>>

QueueInit ==
    /\ nodes = <<>>
    /\ count = 0
    /\ total = 0
    /\ lock = Unlocked

\* The queue has no room for b (the test that ends the eviction loop and
\* decides STATUS_QUOTA_EXCEEDED).
Full(b) == count >= MaxEvents \/ total + SizeOf[b] > MaxTotalSize

MustEvict(b) == nodes # <<>> /\ Full(b)

MayHoldLock(t) == lock \in {Unlocked, t}

-----------------------------------------------------------------------------
(* Faulty variants of the operations below, for the mutation runs.         *)

\* The node leaves the list and its bytes stay on the account.
EvictKeepsBytes(t, b) ==
    /\ MayHoldLock(t)
    /\ MustEvict(b)
    /\ lock' = t
    /\ nodes' = Tail(nodes)
    /\ count' = count - 1
    /\ total' = total

\* The eviction loop gives up the newest node in place of the oldest.
EvictNewest(t, b) ==
    /\ MayHoldLock(t)
    /\ MustEvict(b)
    /\ lock' = t
    /\ nodes' = Front(nodes)
    /\ count' = count - 1
    /\ total' = total - SizeOf[Last(nodes)]

-----------------------------------------------------------------------------
(* The operations.                                                         *)

\* One turn of the eviction loop of SysmonEnqueueBlob.
EvictOldest(t, b) ==
    /\ MayHoldLock(t)
    /\ MustEvict(b)
    /\ lock' = t
    /\ nodes' = Tail(nodes)
    /\ count' = count - 1
    /\ total' = total - SizeOf[Head(nodes)]

\* The end of SysmonEnqueueBlob: the blob is stored, or refused with
\* STATUS_QUOTA_EXCEEDED when even an emptied queue has no room for it.
AppendBlob(t, b) ==
    /\ MayHoldLock(t)
    /\ ~MustEvict(b)
    /\ lock' = Unlocked
    /\ IF Full(b)
       THEN UNCHANGED <<nodes, count, total>>
       ELSE /\ nodes' = Append(nodes, b)
            /\ count' = count + 1
            /\ total' = total + SizeOf[b]

\* SysmonDequeueBlob when it finds a node.
DequeueBlob ==
    /\ lock = Unlocked
    /\ nodes # <<>>
    /\ nodes' = Tail(nodes)
    /\ count' = count - 1
    /\ total' = total - SizeOf[Head(nodes)]
    /\ UNCHANGED lock

\* SysmonDequeueBlob when the queue is empty.
FindEmpty ==
    /\ lock = Unlocked
    /\ nodes = <<>>
    /\ UNCHANGED queueVars

\* SysmonCleanupEventQueue.
PurgeQueue ==
    /\ lock = Unlocked
    /\ nodes' = <<>>
    /\ count' = 0
    /\ total' = 0
    /\ UNCHANGED lock

-----------------------------------------------------------------------------
Bytes(s) == FoldLeft(LAMBDA n, b : n + SizeOf[b], 0, s)

\* The two counters the code keeps by hand agree with the list they count,
\* and both limits hold outside the lock: an enqueue that evicts and refuses
\* must not leave them apart.
QueueAccounting ==
    /\ count = Len(nodes)
    /\ total = Bytes(nodes)
    /\ count <= MaxEvents
    /\ total <= MaxTotalSize

=============================================================================
