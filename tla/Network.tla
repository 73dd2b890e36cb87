-------------------------------- MODULE Network --------------------------------
(***************************************************************************)
(* The network source of the service (SysmonUser/src/network_trace.cpp).   *)
(* One ETW thread parses the connection records of the kernel provider,    *)
(* suppresses repeats with a small table of recent connections, and looks  *)
(* the names of both ends up in a cache.  A name that is not cached is     *)
(* reserved and left to a work item of the thread pool; the event itself   *)
(* is reported with what is known.  The cache is shared with the workers   *)
(* under a lock; the table of recent connections is the ETW thread's own.  *)
(***************************************************************************)
EXTENDS Integers, Sequences, FiniteSets, FiniteSetsExt, SequencesExt

CONSTANTS
    Connections,                             \* connections: process, ends, protocol and direction
    NamesOf,                                 \* the four keys a connection looks up, in order
    LookupResults,                           \* the names a lookup can come back with
    RecentCapacity,                          \* SYSMON_NETWORK_DEDUP_CAPACITY
    RecentWindow,                            \* SYSMON_NETWORK_DEDUP_WINDOW
    NameCapacity,                            \* SYSMON_NETWORK_NAME_CACHE_CAPACITY
    NameWorkLimit,                           \* SYSMON_NETWORK_NAME_WORK_LIMIT
    PendingTime, NegativeTime, PositiveTime, \* life times of a name
    MaxTick,                                 \* bound: clock ticks
    MaxSetBacks                              \* bound: times the wall clock is set back

Keys == UNION {ToSet(NamesOf[c]) : c \in Connections}

ASSUME NetworkAssumption ==
    /\ IsFiniteSet(Connections) /\ NamesOf \in [Connections -> Seq(Keys) \ {<<>>}]
    /\ RecentCapacity \in Nat \ {0} /\ NameCapacity \in Nat \ {0}
    /\ NameWorkLimit \in Nat \ {0}
    /\ RecentWindow \in Nat /\ MaxTick \in Nat /\ MaxSetBacks \in Nat
    /\ {PendingTime, NegativeTime, PositiveTime} \subseteq Nat \ {0}

VARIABLES
    tick,        \* GetTickCount64
    wall,        \* the wall clock and how often it was set back
    recent,      \* NetworkDedup, its first NetworkDedupCount entries
    nameCache,   \* g_NetworkNameCache
    nameWork,    \* g_NetworkNameWorkCount
    nameWorkers, \* work items of the pool by key, not finished
    etw          \* the ETW thread: keys left, and how far it is with the first

networkVars == <<tick, wall, recent, nameCache, nameWork, nameWorkers, etw>>

Unused == [key |-> "none", pending |-> FALSE, value |-> "none", expire |-> 0]
NameSlots == 1..NameCapacity
InUse(slot) == nameCache[slot] # Unused

-----------------------------------------------------------------------------
(* The table of recent connections.                                        *)

\* The last entry moves into the place of the one that is removed.
WithoutEntry(table, at) == Front([table EXCEPT ![at] = Last(table)])

\* A stale entry is removed, and its place is looked at again.
EntryRemoved(scan) == [scan EXCEPT !.table = WithoutEntry(scan.table, scan.at)]

\* One turn of the loop; a match is refreshed and ends it.
RecentTurn(now, conn, scan, turn) ==
    IF scan.hit \/ scan.at > Len(scan.table) THEN scan
    ELSE LET entry == scan.table[scan.at] IN
         IF now >= entry.seen /\ now - entry.seen > RecentWindow
         THEN EntryRemoved(scan)
         ELSE IF entry.conn = conn
         THEN [scan EXCEPT !.table[scan.at].seen = now, !.hit = TRUE]
         ELSE [scan EXCEPT !.at = @ + 1,
                           !.oldest = IF @ = 0 \/ entry.seen < scan.least
                                      THEN scan.at ELSE @,
                           !.least = IF scan.oldest = 0 \/ entry.seen < @
                                     THEN entry.seen ELSE @]

RecentScan(conn) ==
    FoldLeft(LAMBDA scan, turn : RecentTurn(wall.now, conn, scan, turn),
             [table |-> recent, at |-> 1, hit |-> FALSE, oldest |-> 0, least |-> 0],
             [turn \in 1..Len(recent) |-> turn])

\* SysmonNetworkEventIsDuplicate: the table after the record, and the verdict.
Refreshed(scan, conn) ==
    LET entry == [conn |-> conn, seen |-> wall.now] IN
    IF scan.hit THEN scan.table
    ELSE IF Len(scan.table) < RecentCapacity THEN Append(scan.table, entry)
    ELSE [scan.table EXCEPT ![scan.oldest] = entry]

-----------------------------------------------------------------------------
(* The name cache.                                                         *)

\* Keys are unique in the cache, so the first match is the match.
SlotOf(key) == {slot \in NameSlots : InUse(slot) /\ nameCache[slot].key = key}
Live(slot) == nameCache[slot].expire > tick

\* SysmonNetworkNameCacheLookup: an expired entry is cleared.
LookedUp(key) ==
    [slot \in NameSlots |-> IF slot \in SlotOf(key) /\ ~Live(slot)
                            THEN Unused ELSE nameCache[slot]]
NameFound(key) ==
    \E slot \in SlotOf(key) : /\ Live(slot) /\ ~nameCache[slot].pending
                              /\ nameCache[slot].value # "none"

\* The place SysmonNetworkNameCacheReserve ends on: the expired entry of the
\* key; else the entry in use that expires first, and a free place only if
\* none in use expires before the end of time, that is if none is in use.
ReserveSlot(key) ==
    IF SlotOf(key) # {} THEN CHOOSE slot \in SlotOf(key) : TRUE
    ELSE LET used == {slot \in NameSlots : InUse(slot)} IN
         IF used = {} THEN 1
         ELSE CHOOSE slot \in used : \A other \in used :
                  \/ nameCache[slot].expire < nameCache[other].expire
                  \/ nameCache[slot].expire = nameCache[other].expire /\ slot <= other

CanReserve(key) == \A slot \in SlotOf(key) : ~Live(slot)

WithReservation(key) ==
    [nameCache EXCEPT ![ReserveSlot(key)] =
        [key |-> key, pending |-> TRUE, value |-> "none", expire |-> tick + PendingTime]]

\* SysmonNetworkNameCacheStore: by key, whoever reserved it; "none" makes the
\* entry a negative one, in which an older value is not found any more, and the
\* value of a key evicted meanwhile is lost.
WithName(key, value) ==
    [slot \in NameSlots |->
        IF slot \notin SlotOf(key) THEN nameCache[slot]
        ELSE [nameCache[slot] EXCEPT !.pending = FALSE,
                 !.value = value,
                 !.expire = tick + IF value = "none" THEN NegativeTime ELSE PositiveTime]]

-----------------------------------------------------------------------------
Idle == [keys |-> <<>>, step |-> "idle"]

NetworkInit ==
    /\ tick = 1 /\ wall = [now |-> 1, back |-> 0]
    /\ recent = <<>>
    /\ nameCache = [slot \in NameSlots |-> Unused]
    /\ nameWork = 0
    /\ nameWorkers = [key \in Keys |-> 0]
    /\ etw = Idle

\* SysmonParseNetworkEventRecord: the packed layout of a supported id, only at
\* version 0 and only at exactly the known size; else the record is left to
\* TDH, which finds the properties or does not.
PackedParse(record) == record.version = 0 /\ record.size = "known"
Parsed(record) == PackedParse(record) \/ record.tdh

Records ==
    [conn : Connections, version : {0, 1}, size : {"short", "known", "longer"},
     tdh : BOOLEAN]

\* SysmonNetworkTraceRecordCallback and SysmonDispatchNetworkEvent up to the
\* names: the record is parsed, the option and the rules allow Event 3, and
\* it is no repeat.  With DnsLookup off no name is asked for.
EventArrives ==
    /\ etw.step = "idle"
    /\ \E record \in Records, allowed \in BOOLEAN, dnsLookup \in BOOLEAN :
          /\ Parsed(record) /\ allowed
          /\ LET scan == RecentScan(record.conn) IN
             /\ recent' = Refreshed(scan, record.conn)
             /\ etw' = IF scan.hit \/ ~dnsLookup THEN etw
                       ELSE [keys |-> NamesOf[record.conn], step |-> "lookup"]
    /\ UNCHANGED <<tick, wall, nameCache, nameWork, nameWorkers>>

NextKey == IF Len(etw.keys) = 1 THEN Idle
           ELSE [keys |-> Tail(etw.keys), step |-> "lookup"]

\* SysmonLookupNetworkNames, one key: a name that is not there is queued for.
LookupName ==
    /\ etw.step = "lookup"
    /\ LET key == Head(etw.keys) IN
       /\ nameCache' = LookedUp(key)
       /\ etw' = IF NameFound(key) THEN NextKey ELSE [etw EXCEPT !.step = "count"]
    /\ UNCHANGED <<tick, wall, recent, nameWork, nameWorkers>>

\* SysmonQueueNetworkNameLookup: the count is taken first and given back by
\* every way out.
CountName ==
    /\ etw.step = "count"
    /\ IF nameWork + 1 > NameWorkLimit
       THEN etw' = NextKey /\ UNCHANGED nameWork
       ELSE etw' = [etw EXCEPT !.step = "reserve"] /\ nameWork' = nameWork + 1
    /\ UNCHANGED <<tick, wall, recent, nameCache, nameWorkers>>

ReserveName ==
    /\ etw.step = "reserve"
    /\ IF CanReserve(Head(etw.keys))
       THEN /\ nameCache' = WithReservation(Head(etw.keys))
            /\ etw' = [etw EXCEPT !.step = "queue"]
            /\ UNCHANGED nameWork
       ELSE etw' = NextKey /\ nameWork' = nameWork - 1 /\ UNCHANGED nameCache
    /\ UNCHANGED <<tick, wall, recent, nameWorkers>>

\* Faulty variant, for the mutation runs: the reservation stays behind.
QueueFailsReserved ==
    /\ nameWork' = nameWork - 1
    /\ UNCHANGED <<nameCache, nameWorkers>>

\* No memory for the request, or the pool refuses it: a negative entry.
QueueFails ==
    /\ nameCache' = WithName(Head(etw.keys), "none")
    /\ nameWork' = nameWork - 1
    /\ UNCHANGED nameWorkers

QueueName ==
    /\ etw.step = "queue"
    /\ \/ /\ nameWorkers' = [nameWorkers EXCEPT ![Head(etw.keys)] = @ + 1]
          /\ UNCHANGED <<nameCache, nameWork>>
       \/ QueueFails
    /\ etw' = NextKey
    /\ UNCHANGED <<tick, wall, recent>>

\* SysmonNetworkNameWorker: the resolver answers when it likes.
WorkerResolves(key) ==
    /\ nameWorkers[key] > 0
    /\ \E value \in LookupResults \cup {"none"} : nameCache' = WithName(key, value)
    /\ nameWorkers' = [nameWorkers EXCEPT ![key] = @ - 1]
    /\ nameWork' = nameWork - 1
    /\ UNCHANGED <<tick, wall, recent, etw>>

\* The environment: time passes, and the wall clock is sometimes set back.
TimePasses ==
    /\ tick < MaxTick
    /\ tick' = tick + 1 /\ wall' = [wall EXCEPT !.now = @ + 1]
    /\ UNCHANGED <<recent, nameCache, nameWork, nameWorkers, etw>>

ClockSetBack ==
    /\ wall.back < MaxSetBacks
    /\ wall' = [now |-> wall.now - 1, back |-> wall.back + 1]
    /\ UNCHANGED <<tick, recent, nameCache, nameWork, nameWorkers, etw>>

NetworkNext ==
    \/ EventArrives \/ LookupName \/ CountName \/ ReserveName \/ QueueName
    \/ \E key \in Keys : WorkerResolves(key)
    \/ TimePasses \/ ClockSetBack

NetworkSpec == NetworkInit /\ [][NetworkNext]_networkVars

-----------------------------------------------------------------------------
\* A repeat is matched at the first entry of its connection, so the table must
\* never hold a connection twice, whatever was removed while it was searched.
RecentIsASet ==
    \A i, j \in DOMAIN recent : recent[i].conn = recent[j].conn => i = j

\* A reserved name is being resolved: while an entry is pending, a work item
\* for its key is out or the ETW thread is about to queue it, so no name stays
\* reserved with nobody to answer.  The count is that of the work items out.
ReservedNamesAreResolved ==
    /\ \A slot \in NameSlots : nameCache[slot].pending =>
          \/ nameWorkers[nameCache[slot].key] > 0
          \/ etw.step = "queue" /\ Head(etw.keys) = nameCache[slot].key
    /\ nameWork = MapThenSumSet(LAMBDA key : nameWorkers[key], Keys)
          + (IF etw.step \in {"reserve", "queue"} THEN 1 ELSE 0)
    /\ nameWork <= NameWorkLimit

\* The two tables of the network source are sound together.
NetworkTablesSound == RecentIsASet /\ ReservedNamesAreResolved
=============================================================================
