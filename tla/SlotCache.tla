------------------------------- MODULE SlotCache -------------------------------
(* The caches of the service: the signature and image-enrichment caches of    *)
(* pipeline.cpp and the path-conversion cache of path_cache.cpp.  All three   *)
(* have one shape: an array of slots, bucket heads, chains of slots through   *)
(* NextInBucket, and a victim counter that walks the array round robin.  The  *)
(* operators take a cache and return one; the callers hold the cache's lock.  *)
EXTENDS Integers, Sequences, FiniteSets, FiniteSetsExt, SequencesExt

CONSTANTS
    CacheCapacity,  \* SYSMON_..._CACHE_CAPACITY
    CacheBuckets,   \* SYSMON_..._CACHE_BUCKET_COUNT
    PathHash        \* SysmonComputeInsensitiveWideHash, of every name

ASSUME CacheAssumption ==
    CacheCapacity \in Nat \ {0} /\ CacheBuckets \in Nat \ {0}

Slots == 0 .. CacheCapacity - 1
Nil == -1

EmptyCache ==
    [slot   |-> [s \in Slots |-> [used |-> FALSE, next |-> Nil]],
     head   |-> [b \in 0 .. CacheBuckets - 1 |-> Nil],
     victim |-> 0]

BucketOf(key) == PathHash[key.name] % CacheBuckets

\* The slots of a bucket, from its head to the one without a successor.
Chain(c, b) ==
    LET visit[n \in 1 .. CacheCapacity] ==
            IF n = 1 THEN c.head[b]
            ELSE IF visit[n - 1] = Nil THEN Nil ELSE c.slot[visit[n - 1]].next
        length == Cardinality({n \in 1 .. CacheCapacity : visit[n] # Nil})
    IN [n \in 1 .. length |-> visit[n]]

\* The first slot of the chain whose whole key matches, or none: path, and for
\* the image caches the revocation setting, the kind of verification and the
\* hash mask.
Match(c, key) ==
    LET chain == Chain(c, BucketOf(key))
        at == {n \in DOMAIN chain : c.slot[chain[n]].key = key}
    IN IF at = {} THEN Nil ELSE chain[Min(at)]

Cached(c, key) == Match(c, key) # Nil
CachedValue(c, key) == c.slot[Match(c, key)].value

UnlinkHead(c, s) ==
    IF ~c.slot[s].used THEN c
    ELSE [c EXCEPT !.head[BucketOf(c.slot[s].key)] = c.slot[s].next,
                   !.slot[s].next = Nil]

\* Take a slot in use out of its chain: the head, or the slot before it, is
\* made to point past it.
UnlinkSlot(c, s) ==
    IF ~c.slot[s].used THEN c
    ELSE LET b == BucketOf(c.slot[s].key)
             before == {p \in ToSet(Chain(c, b)) : c.slot[p].next = s}
             past == IF c.head[b] = s THEN [c EXCEPT !.head[b] = c.slot[s].next]
                     ELSE IF before = {} THEN c
                     ELSE [c EXCEPT !.slot[CHOOSE p \in before : TRUE].next = c.slot[s].next]
         IN [past EXCEPT !.slot[s].next = Nil]

LinkSlot(c, s) ==
    LET b == BucketOf(c.slot[s].key)
    IN [c EXCEPT !.slot[s].next = c.head[b], !.head[b] = s]

\* A new value for a key that is there; otherwise the next victim's slot is
\* unlinked, filled and linked at the head of its bucket.
Put(c, key, value) ==
    IF Cached(c, key)
    THEN [c EXCEPT !.slot[Match(c, key)].value = value]
    ELSE LET s == c.victim % CacheCapacity
             filled == [UnlinkSlot(c, s) EXCEPT
                          !.slot[s] = [used |-> TRUE, next |-> Nil,
                                       key |-> key, value |-> value],
                          !.victim = (@ + 1) % CacheCapacity]
         IN LinkSlot(filled, s)

-----------------------------------------------------------------------------

\* The chains of a cache hold every slot in use exactly once, each in the
\* bucket of its key, end at a slot without a successor, and no key twice.
WellLinked(c) ==
    LET chains == [b \in DOMAIN c.head |-> Chain(c, b)]
        used == {s \in Slots : c.slot[s].used}
    IN /\ \A b \in DOMAIN chains : IsInjective(chains[b])
       /\ UNION {ToSet(chains[b]) : b \in DOMAIN chains} = used
       /\ \A b \in DOMAIN chains : \A s \in ToSet(chains[b]) :
             BucketOf(c.slot[s].key) = b
       /\ \A b \in DOMAIN chains :
             chains[b] # <<>> => c.slot[Last(chains[b])].next = Nil
       /\ \A s, t \in used : c.slot[s].key = c.slot[t].key => s = t

=============================================================================
