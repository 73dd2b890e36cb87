----------------------------- MODULE ProcessStore -----------------------------
(* The process store of the service (process_store.cpp) and the lookup of an  *)
(* event's process that feeds it (source_common.cpp).  A node per process id  *)
(* holds the processes that have had the id, latest first; a binary heap of   *)
(* activity entries, several for a node and most of them out of date, tells   *)
(* which nodes have been idle for the whole window.                           *)
(*                                                                            *)
(* Each operation holds the store's lock.  The threads are the sources; one   *)
(* asks the driver between its lookup and its insertion, without the lock.    *)
EXTENDS Naturals, Sequences, FiniteSets, SequencesExt

CONSTANTS
    StorePids, Sources,
    Answers,     \* DNS answers: name, status and results
    StaleWindow, \* SYSMON_PROCESS_STORE_STALE_WINDOW
    DnsLimit,    \* SYSMON_DNS_DEDUP_PER_PROCESS_LIMIT
    MaxTime,     \* bound: of the clock
    MaxHeap      \* bound: of the entries of the heap

ASSUME StoreAssumption ==
    StaleWindow \in Nat /\ DnsLimit \in Nat \ {0} /\ MaxTime \in Nat /\ MaxHeap \in Nat

VARIABLES
    clock,     \* GetSystemTimeAsFileTime
    alive,     \* the creation time of each id's latest process, 0 for none
    storeNode, \* the node of an id, or none
    storeHeap, \* ActivityHeapBase .. ActivityHeapCurrent
    swept,     \* the time of the latest eviction
    unrecorded,\* the ids whose node had a latest activity the heap had no memory for
    source     \* the sources: idle, asking the driver, or about to insert

storeVars == <<clock, alive, storeNode, storeHeap, swept, unrecorded, source>>

NoNode == [last |-> 0, instances |-> <<>>]
Stored(pid) == storeNode[pid].instances # <<>>

StoreInit ==
    /\ clock = 1 /\ alive = [pid \in StorePids |-> 0]
    /\ storeNode = [pid \in StorePids |-> NoNode]
    /\ storeHeap = <<>> /\ swept = 0 /\ unrecorded = {}
    /\ source = [s \in Sources |-> [at |-> "idle"]]

-----------------------------------------------------------------------------
(* The heap: the entry at i has its parent at i \div 2 *)

Swapped(h, i, j) == [h EXCEPT ![i] = h[j], ![j] = h[i]]

\* What n turns of a loop make of its start.
Repeated(Turn(_), start, n) ==
    LET after[k \in 0 .. n] == IF k = 0 THEN start ELSE Turn(after[k - 1])
    IN after[n]

\* HeapifyUp: the entry at i rises while its parent is younger.
Rise(s) ==
    IF s.at > 1 /\ s.heap[s.at \div 2].time > s.heap[s.at].time
    THEN [heap |-> Swapped(s.heap, s.at \div 2, s.at), at |-> s.at \div 2]
    ELSE s

HeapifyUp(h, i) == Repeated(Rise, [heap |-> h, at |-> i], Len(h)).heap

\* The older of two entries, the first where the second is none.
Older(h, i, j) == IF j <= Len(h) /\ h[j].time < h[i].time THEN j ELSE i

\* HeapifyDown: the entry at i sinks below the older of its children.
Sink(s) ==
    LET smallest == Older(s.heap, Older(s.heap, s.at, 2 * s.at), 2 * s.at + 1)
    IN IF smallest = s.at THEN s
       ELSE [heap |-> Swapped(s.heap, s.at, smallest), at |-> smallest]

HeapifyDown(h, i) == Repeated(Sink, [heap |-> h, at |-> i], Len(h)).heap

\* SysmonProcessStoreRecordActivityLocked: without memory for a larger heap there
\* is no entry, and the caller is not told.
Recorded(h, pid, time, memory) ==
    IF memory THEN HeapifyUp(Append(h, [time |-> time, pid |-> pid]), Len(h) + 1) ELSE h

PoppedUnsifted(h) ==
    IF Len(h) = 1 THEN <<>> ELSE <<h[Len(h)]>> \o SubSeq(h, 2, Len(h) - 1)

\* SysmonProcessStorePopOldestActivityLocked: the last entry takes the root.
Popped(h) ==
    IF Len(h) = 1 THEN <<>>
    ELSE HeapifyDown(<<h[Len(h)]>> \o SubSeq(h, 2, Len(h) - 1), 1)

\* SysmonProcessStoreEvictStaleNodesLocked: entries older than the window are
\* popped; one that is its node's latest activity takes the node along.
EvictOne(s, now) ==
    IF s.heap = <<>> \/ s.heap[1].time + StaleWindow >= now THEN s
    ELSE [heap |-> Popped(s.heap),
          nodes |-> [s.nodes EXCEPT ![s.heap[1].pid] =
                        IF @.last = s.heap[1].time THEN NoNode ELSE @]]

Evicted(nodes, h, now) ==
    Repeated(LAMBDA s : EvictOne(s, now), [nodes |-> nodes, heap |-> h], Len(h))

\* The effect of an activity of pid at a time, with its eviction.
Swept(nodes, pid, now, memory) ==
    LET after == Evicted(nodes, Recorded(storeHeap, pid, now, memory), now)
    IN /\ storeNode' = after.nodes /\ storeHeap' = after.heap
       /\ unrecorded' = IF memory THEN unrecorded \ {pid} ELSE unrecorded \cup {pid}
       /\ swept' = now

-----------------------------------------------------------------------------
(* Instances *)

Covers(i, time) == time >= i.lower /\ (i.upper = 0 \/ time <= i.upper)

\* SysmonProcessStoreSelectInstanceLocked: the first instance whose bounds
\* hold the time; the latest one without a time (0 stands for NULL).
Covering(instances, time) ==
    {k \in DOMAIN instances : time = 0 \/ Covers(instances[k], time)}

First(S) == CHOOSE k \in S : \A m \in S : k <= m

Selected(instances, time) ==
    LET covering == Covering(instances, time)
    IN IF covering = {} THEN <<>> ELSE <<instances[First(covering)]>>

InsertedFirst(instances, create, now) ==
    <<[lower |-> create, upper |-> 0, seen |-> now, dns |-> <<>>]>> \o instances

\* The new instance goes between the later and the earlier ones, ends where
\* the next begins, and ends the one before it.
InsertedInOrder(instances, create, now) ==
    LET place == First({k \in DOMAIN instances : instances[k].lower <= create}
                          \cup {Len(instances) + 1})
        later == SubSeq(instances, 1, place - 1)
        earlier == SubSeq(instances, place, Len(instances))
        upper == IF later = <<>> THEN 0 ELSE Last(later).lower
        new == [lower |-> create, upper |-> upper, seen |-> now, dns |-> <<>>]
    IN IF earlier # <<>> /\ earlier[1].lower = create THEN instances
       ELSE later \o <<new>> \o
            (IF earlier = <<>> THEN <<>> ELSE [earlier EXCEPT ![1].upper = create])

Touched(instances, now) ==
    [k \in DOMAIN instances |-> [instances[k] EXCEPT !.seen = now]]

\* SysmonProcessStoreInsertProcessCacheResponse.
InsertResponse(pid, create, memory) ==
    LET instances == InsertedInOrder(storeNode[pid].instances, create, clock)
    IN Swept([storeNode EXCEPT ![pid] =
                [last |-> clock, instances |-> Touched(instances, clock)]], pid, clock, memory)

\* SysmonProcessStoreLookupProcessByPidAndTime: a hit records the time at which
\* the instance was last seen once more.
LookupRecords(pid, found, memory) ==
    /\ storeHeap' = IF found = <<>> THEN storeHeap
                    ELSE Recorded(storeHeap, pid, found[1].seen, memory)
    /\ UNCHANGED <<storeNode, swept, unrecorded>>

\* An entry that is made has room within the bound.
HasRoom(memory) == memory => Len(storeHeap) < MaxHeap

\* SysmonCollectProcessMetadataAtTime of an event at a time: the store first.
CollectLooksUp(s, pid, time, memory) ==
    /\ source[s].at = "idle" /\ HasRoom(memory)
    /\ LET found == Selected(storeNode[pid].instances, time)
       IN /\ LookupRecords(pid, found, memory)
          /\ source' = IF found # <<>> THEN source
                       ELSE [source EXCEPT ![s] = [at |-> "ask", pid |-> pid]]
    /\ UNCHANGED <<clock, alive>>

\* SysmonQueryProcessCache: the driver's answer, which may lack the process's
\* information, or none.
CollectAsks(s) ==
    /\ source[s].at = "ask"
    /\ LET pid == source[s].pid
       IN source' \in
            {[source EXCEPT ![s] = [at |-> "insert", pid |-> pid, create |-> c]] :
               c \in IF alive[pid] = 0 THEN {} ELSE {0, alive[pid]}}
            \cup {[source EXCEPT ![s] = [at |-> "idle"]]}
    /\ UNCHANGED <<clock, alive, storeNode, storeHeap, swept, unrecorded>>

CollectInserts(s, memory) ==
    /\ source[s].at = "insert" /\ HasRoom(memory)
    /\ InsertResponse(source[s].pid, source[s].create, memory)
    /\ source' = [source EXCEPT ![s] = [at |-> "idle"]]
    /\ UNCHANGED <<clock, alive>>

\* No memory for the node or the instance: nothing is inserted.
CollectFails(s) ==
    /\ source[s].at = "insert"
    /\ \A k \in DOMAIN storeNode[source[s].pid].instances :
         storeNode[source[s].pid].instances[k].lower # source[s].create
    /\ source' = [source EXCEPT ![s] = [at |-> "idle"]]
    /\ UNCHANGED <<clock, alive, storeNode, storeHeap, swept, unrecorded>>

-----------------------------------------------------------------------------
(* Repeated DNS answers *)

\* Room for one more answer: the oldest goes when the limit is reached.
Trimmed(dns) == IF Len(dns) >= DnsLimit THEN Tail(dns) ELSE dns

\* SysmonProcessStoreRememberDnsEvent: a repeated answer of the instance is
\* suppressed and counts as no activity; a new one does, kept or not for want of
\* memory.  Now is the event's time, where it has one.
RememberDns(pid, time, answer, kept, memory) ==
    LET instances == storeNode[pid].instances
        found == Selected(instances, time)
        now == IF time = 0 THEN clock ELSE time
    IN /\ found # <<>> /\ HasRoom(memory)
       /\ answer \notin ToSet(found[1].dns)
       /\ LET k == CHOOSE k \in DOMAIN instances : instances[k] = found[1]
              seen == [instances EXCEPT
                         ![k].dns = Trimmed(@) \o IF kept THEN <<answer>> ELSE <<>>,
                         ![k].seen = now]
          IN Swept([storeNode EXCEPT ![pid] = [last |-> now, instances |-> seen]],
                   pid, now, memory)
       /\ UNCHANGED <<clock, alive, source>>

-----------------------------------------------------------------------------
(* The system *)

StartProcess(pid) ==
    /\ alive' = [alive EXCEPT ![pid] = clock]
    /\ UNCHANGED <<clock, storeNode, storeHeap, swept, unrecorded, source>>

TickTime ==
    /\ clock < MaxTime /\ clock' = clock + 1
    /\ UNCHANGED <<alive, storeNode, storeHeap, swept, unrecorded, source>>

\* SysmonProcessStoreCleanup, when the sources are stopped.
CleanStore ==
    /\ \A s \in Sources : source[s].at = "idle"
    /\ storeNode' = [pid \in StorePids |-> NoNode] /\ storeHeap' = <<>>
    /\ unrecorded' = {}
    /\ UNCHANGED <<clock, alive, swept, source>>

StoreNext ==
    \/ \E s \in Sources :
          \/ \E pid \in StorePids, time \in 0 .. clock, memory \in BOOLEAN :
               CollectLooksUp(s, pid, time, memory)
          \/ \E memory \in BOOLEAN : CollectInserts(s, memory)
          \/ CollectAsks(s) \/ CollectFails(s)
    \/ \E pid \in StorePids, time \in 0 .. clock, answer \in Answers, kept, memory \in BOOLEAN :
          RememberDns(pid, time, answer, kept, memory)
    \/ \E pid \in StorePids : StartProcess(pid)
    \/ TickTime \/ CleanStore

StoreSpec == StoreInit /\ [][StoreNext]_storeVars

-----------------------------------------------------------------------------

\* The heap is one, each node's latest activity has an entry in it, so that the
\* node will be found when it is due, and after an eviction no node is left
\* that was due (process_store.cpp 181-261, 354-418).  Not so for a node whose
\* latest activity found no memory for its entry (361-363): LastActivityTime is
\* set already (383, 776), no entry bears that time, and the node stays until its
\* next activity or the cleanup.
StoreIsSwept ==
    /\ \A i \in 2 .. Len(storeHeap) : storeHeap[i \div 2].time <= storeHeap[i].time
    /\ \A pid \in StorePids \ unrecorded : Stored(pid) =>
          /\ [time |-> storeNode[pid].last, pid |-> pid] \in ToSet(storeHeap)
          /\ storeNode[pid].last + StaleWindow >= swept

\* At every time the lookup finds, among the processes that are stored for the
\* id, the one created last before it, in whatever order the sources inserted
\* them; and no answer is remembered twice (process_store.cpp 464-560, 638-719).
LookupFindsTheInstance ==
    \A pid \in StorePids :
        LET instances == storeNode[pid].instances
            before(time) == {i \in ToSet(instances) : i.lower <= time}
        IN /\ \A k \in DOMAIN instances : IsInjective(instances[k].dns)
           /\ \A time \in 1 .. MaxTime :
                IF before(time) = {} THEN Selected(instances, time) = <<>>
                ELSE Selected(instances, time) =
                     <<CHOOSE i \in before(time) :
                         \A j \in before(time) : j.lower <= i.lower>>

=============================================================================
