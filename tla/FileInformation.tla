--------------------------- MODULE FileInformation ---------------------------
(* Hashes and version information of a file (fileinfo.c): callers on many   *)
(* threads open the file by its path, ask a cache of fixed size, and on a   *)
(* miss map or read the file, compute, and store.  The cache is set up by   *)
(* the first caller.  While a caller works, files are replaced under the    *)
(* same path, and the hashing algorithm is reconfigured.  Of a content only *)
(* the file matters that it was read from: the code looks at nothing else   *)
(* that would tell a file from the same file rewritten in place.            *)
EXTENDS Naturals, FiniteSets, FiniteSetsExt

CONSTANTS
    Collectors,         \* the threads that collect the information of a file
    InfoPaths,          \* the paths, all of one bucket of the cache
    EntriesPerBucket,   \* SYSMON_FILEINFO_CACHE_ENTRIES_PER_BUCKET
    MaxFiles,           \* bound of the files that replace one another
    MaxCalls            \* bound of the calls

ASSUME FileInformationAssumption ==
    /\ EntriesPerBucket \in Nat \ {0}
    /\ MaxFiles \in Nat \ {0} /\ MaxCalls \in Nat
    /\ \E f \in [InfoPaths -> 1 .. MaxFiles] : \A p, q \in InfoPaths : f[p] = f[q] => p = q

VARIABLES
    fileAt,         \* fileAt[p]: the file at the path
    algorithm,      \* HashingAlgorithm: the configured hashes
    setUp,          \* the states of the cache, of its event and the event itself
    entries,        \* entries[i]: an entry of the bucket, or NoInfo
    clock,          \* the access clock of the bucket
    collect,        \* collect[c]: the call of the collector
    calls           \* the number of calls so far

infoVars == <<fileAt, algorithm, setUp, entries, clock, collect, calls>>
unchangedFilesystem == UNCHANGED <<fileAt, algorithm>>
unchangedCache == UNCHANGED <<entries, clock>>

Files == 1 .. MaxFiles
InfoSlots == 1 .. EntriesPerBucket
NoInfo == [valid |-> FALSE]
NoData == [file |-> 0, reopened |-> FALSE]
NoHashes == [mask |-> "none", of |-> NoData]
NoCall == [stage |-> "idle"]

FirstFile == CHOOSE f \in [InfoPaths -> Files] : \A p, q \in InfoPaths : f[p] = f[q] => p = q

InfoInit ==
    /\ fileAt = FirstFile
    /\ algorithm = "SHA256"
    /\ setUp = [cache |-> 0, flag |-> 0, event |-> "raw"]
    /\ entries = [i \in InfoSlots |-> NoInfo] /\ clock = 0
    /\ collect = [c \in Collectors |-> NoCall]
    /\ calls = 0

\* A crash of the system stops everything.
Crashed == setUp.event = "crashed"
StageOf(c) == collect[c].stage
To(c, s) == collect' = [collect EXCEPT ![c].stage = s]
Returns(c) == collect' = [collect EXCEPT ![c] = NoCall]

-----------------------------------------------------------------------------
(* The file system and the configuration, meanwhile.                        *)
Replaced(p) ==
    /\ \E f \in Files :
          /\ \A q \in InfoPaths : fileAt[q] < f
          /\ fileAt' = [fileAt EXCEPT ![p] = f]
    /\ UNCHANGED <<algorithm, setUp, collect>> /\ unchangedCache /\ UNCHANGED calls

Reconfigured ==
    /\ algorithm' \in {"default", "SHA256"} \ {algorithm}
    /\ UNCHANGED <<fileAt, setUp, collect>> /\ unchangedCache /\ UNCHANGED calls

-----------------------------------------------------------------------------
(* A call: SysmonCollectFileInfoByPathEx.                                   *)
Asks(c, p, request) ==
    /\ StageOf(c) = "idle" /\ calls < MaxCalls
    /\ calls' = calls + 1
    /\ collect' = [collect EXCEPT ![c] =
            [stage |-> "open", path |-> p, request |-> request,
             mask |-> IF "hashes" \in request THEN algorithm ELSE "none",
             hasId |-> FALSE, id |-> 0, handle |-> 0,
             hashes |-> NoHashes, info |-> NoData]]
    /\ UNCHANGED setUp /\ unchangedFilesystem /\ unchangedCache

\* The file identity may be unknown to the file system.  Once the cache is set up
\* the initialisation does nothing.
Opens(c, succeeds, hasId) ==
    /\ StageOf(c) = "open"
    /\ LET f == fileAt[collect[c].path] IN
       IF succeeds
       THEN collect' = [collect EXCEPT ![c].stage = IF setUp.cache = 2 /\ setUp.flag = 1
                                                   THEN "lookup" ELSE "claimEvent",
                  ![c].handle = f,                  ![c].hasId = hasId, ![c].id = IF hasId THEN f ELSE 0]
       ELSE Returns(c)
    /\ UNCHANGED <<calls, setUp>> /\ unchangedFilesystem /\ unchangedCache

-----------------------------------------------------------------------------
(* SysmonEnsureFileInfoCacheInitialized: the event is initialised by the    *)
(* one that claims it, which need not be the one that claims the cache.     *)
unchangedSetUp == UNCHANGED calls /\ unchangedFilesystem /\ unchangedCache

ClaimsEvent(c) ==
    /\ StageOf(c) = "claimEvent"
    /\ setUp' = [setUp EXCEPT !.flag = 1]
    /\ To(c, IF setUp.flag = 0 THEN "initEvent" ELSE "claimCache")
    /\ unchangedSetUp

InitializesEvent(c) ==
    /\ StageOf(c) = "initEvent"
    /\ setUp' = [setUp EXCEPT !.event = "clear"]
    /\ To(c, "claimCache") /\ unchangedSetUp

ClaimsCache(c) ==
    /\ StageOf(c) = "claimCache"
    /\ setUp' = [setUp EXCEPT !.cache = IF @ = 0 THEN 1 ELSE @]
    /\ To(c, CASE setUp.cache = 0 -> "initCache"
               [] setUp.cache = 1 -> "waitCache"
               [] OTHER -> "lookup")
    /\ unchangedSetUp

InitializesCache(c) ==
    /\ StageOf(c) = "initCache"
    /\ setUp' = [setUp EXCEPT !.cache = 2]
    /\ entries' = [i \in InfoSlots |-> NoInfo] /\ clock' = 0
    /\ To(c, "setEvent")
    /\ UNCHANGED calls /\ unchangedFilesystem

\* An event that nobody has initialised yet has no list of waiters.
SetsEvent(c) ==
    /\ StageOf(c) = "setEvent"
    /\ setUp' = [setUp EXCEPT !.event = IF @ = "raw" THEN "crashed" ELSE "set"]
    /\ To(c, "lookup") /\ unchangedSetUp

WaitsForCache(c) ==
    /\ StageOf(c) = "waitCache" /\ setUp.event # "clear"
    /\ setUp' = [setUp EXCEPT !.event = IF @ = "raw" THEN "crashed" ELSE @]
    /\ To(c, "claimCache") /\ unchangedSetUp

-----------------------------------------------------------------------------
SamePath(e, c) == e.valid /\ e.path = collect[c].path
SameFile(e, c) == e.hasId = collect[c].hasId /\ e.id = collect[c].id

\* SysmonLookupFileInfoCache
Answers(e, c) ==
    /\ SamePath(e, c) /\ SameFile(e, c)
    /\ collect[c].request \subseteq e.available
    /\ "hashes" \in collect[c].request => e.mask = collect[c].mask

Lookup(c) ==
    /\ StageOf(c) = "lookup"
    /\ \/ \E i \in InfoSlots :
            /\ Answers(entries[i], c)
            /\ \A j \in 1 .. i - 1 : ~Answers(entries[j], c)
            /\ clock' = clock + 1
            /\ entries' = [entries EXCEPT ![i].tick = clock + 1]
            /\ Returns(c)
       \/ /\ \A i \in InfoSlots : ~Answers(entries[i], c)
          /\ To(c, "map") /\ unchangedCache
    /\ UNCHANGED <<calls, setUp>> /\ unchangedFilesystem

\* Hashes, which are tried again from a buffer when the file was mapped, and the
\* version information are computed as far as they are asked for and can be had.
ComputesFrom(c, data, had) ==
    LET got == had \cap collect[c].request IN
    collect' = [collect EXCEPT ![c].stage = "store", ![c].handle = 0,
        ![c].hashes = IF "hashes" \in got THEN [mask |-> collect[c].mask, of |-> data]
                      ELSE NoHashes,
        ![c].info = IF "info" \in got THEN data ELSE NoData]

\* A file that cannot be mapped is opened again, by its path, and read.
Maps(c, succeeds, had) ==
    /\ StageOf(c) = "map"
    /\ IF succeeds THEN ComputesFrom(c, [file |-> collect[c].handle, reopened |-> FALSE], had)
       ELSE collect' = [collect EXCEPT ![c].stage = "reopen", ![c].handle = 0]
    /\ UNCHANGED setUp /\ unchangedFilesystem /\ unchangedCache /\ UNCHANGED calls

Reopens(c, succeeds, had) ==
    /\ StageOf(c) = "reopen"
    /\ IF succeeds
       THEN ComputesFrom(c, [file |-> fileAt[collect[c].path], reopened |-> TRUE], had)
       ELSE Returns(c)
    /\ UNCHANGED <<calls, setUp>> /\ unchangedFilesystem /\ unchangedCache

-----------------------------------------------------------------------------
(* SysmonStoreFileInfoCache                                                 *)
Available(c) ==
    (IF collect[c].hashes # NoHashes THEN {"hashes"} ELSE {})
    \cup (IF collect[c].info # NoData THEN {"info"} ELSE {})

ExactMatches(c) == {i \in InfoSlots : SamePath(entries[i], c) /\ SameFile(entries[i], c)}
StalePaths(c) == {i \in InfoSlots : SamePath(entries[i], c) /\ ~SameFile(entries[i], c)}
Invalid == {i \in InfoSlots : ~entries[i].valid}
Oldest == {i \in InfoSlots : entries[i].valid /\
              \A j \in InfoSlots : entries[j].valid => entries[i].tick <= entries[j].tick}

\* The slot that is taken: the same file's, another file's of the path, a free one.
KeepsStale(c) ==
    IF ExactMatches(c) # {} THEN Min(ExactMatches(c))
    ELSE IF Invalid # {} THEN Min(Invalid)
    ELSE Min(Oldest)
SlotFor(c) ==
    IF ExactMatches(c) # {} THEN Min(ExactMatches(c))
    ELSE IF StalePaths(c) # {} THEN Min(StalePaths(c))
    ELSE IF Invalid # {} THEN Min(Invalid)
    ELSE Min(Oldest)

\* What an entry of the same file has and the call has not is kept.
Merged(c, i) ==
    LET new == Available(c)
        kept == IF i \in ExactMatches(c) THEN entries[i].available \ new ELSE {}
    IN  [valid |-> TRUE, path |-> collect[c].path,
         hasId |-> collect[c].hasId, id |-> collect[c].id,
         available |-> new \cup kept,
         mask |-> IF "hashes" \in kept THEN entries[i].mask ELSE collect[c].hashes.mask,
         tick |-> clock + 1,
         hashes |-> IF "hashes" \in kept THEN entries[i].hashes ELSE collect[c].hashes,
         info |-> IF "info" \in kept THEN entries[i].info ELSE collect[c].info]

Stores(c) ==
    /\ StageOf(c) = "store"
    /\ IF Available(c) = {} THEN unchangedCache
       ELSE /\ entries' = [entries EXCEPT ![SlotFor(c)] = Merged(c, SlotFor(c))]
            /\ clock' = clock + 1
    /\ Returns(c)
    /\ UNCHANGED <<calls, setUp>> /\ unchangedFilesystem

-----------------------------------------------------------------------------
Requested == {{"hashes"}, {"info"}, {"hashes", "info"}}

CollectStep(c) ==
    \/ \E p \in InfoPaths, request \in Requested : Asks(c, p, request)
    \/ \E yes, hasId \in BOOLEAN : Opens(c, yes, hasId)
    \/ ClaimsEvent(c) \/ InitializesEvent(c) \/ ClaimsCache(c) \/ InitializesCache(c)
    \/ SetsEvent(c) \/ WaitsForCache(c)
    \/ Lookup(c) \/ Stores(c)
    \/ \E yes \in BOOLEAN, had \in SUBSET {"hashes", "info"} :
          \/ Maps(c, yes, had)
          \/ Reopens(c, yes, had)

InfoNext ==
    /\ ~Crashed
    /\ \/ \E p \in InfoPaths : Replaced(p)
       \/ Reconfigured
       \/ \E c \in Collectors : CollectStep(c)

InfoSpec == InfoInit /\ [][InfoNext]_infoVars

-----------------------------------------------------------------------------
\* What was computed is of the file with this identity, unless the identity is not
\* known or the file was opened again, by its path, to be read.
OfTheFile(data, id) == data = NoData \/ id = 0 \/ data.file = id \/ data.reopened

\* The cache holds one entry for a path, however the files at the path and the
\* hashing algorithm changed and however calls were interleaved and merged: its
\* hashes are those its mask names, and what it holds was computed from the file
\* whose identity it has.
FileInfoIsSound ==
    /\ \A i, j \in InfoSlots :
          entries[i].valid /\ entries[j].valid /\ entries[i].path = entries[j].path => i = j
    /\ \A i \in InfoSlots : LET e == entries[i] IN
          e.valid =>
            /\ "hashes" \in e.available => e.hashes # NoHashes /\ e.hashes.mask = e.mask
            /\ OfTheFile(e.hashes.of, e.id) /\ OfTheFile(e.info, e.id)
=============================================================================
