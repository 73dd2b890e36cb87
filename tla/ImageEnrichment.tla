---------------------------- MODULE ImageEnrichment ----------------------------
(* What the service adds to an image or driver load (pipeline.cpp,            *)
(* path_cache.cpp): the Win32 name of the file, the verdict on its signature, *)
(* its hashes and its version.  Three caches are consulted on the way, the    *)
(* verification takes long, several threads enrich at once, and the file may  *)
(* be replaced meanwhile.                                                     *)
(*                                                                            *)
(* A name is [file, volume, form]; the forms stand for the prefixes that      *)
(* SysmonConvertNtPathToWin32Path tells apart.  A file's content says what    *)
(* each verification answers: a status ("nosig" stands for the four that let  *)
(* the catalogs be tried) and the signer's name or "".                        *)
EXTENDS SlotCache

CONSTANTS
    Names,           \* raw names of loaded files
    Contents,        \* what a file may contain
    BootVolumes, MoreVolumes,  \* mounted from the start, or later
    EnrichWorkers,   \* signing workers; "dispatcher" is the service's thread
    HashMask,        \* Config.HashingAlgorithm, 0 or not
    MaxContents,     \* bound: how many contents the files have had in all
    MaxLoads         \* bound: how many loads are enriched

ASSUME EnrichmentAssumption ==
    /\ MaxContents \in Nat \ {0} /\ MaxLoads \in Nat
    /\ Names \subseteq [file : STRING, volume : STRING, form : STRING]
    /\ BootVolumes # {}
    /\ LET results == [status : STRING, signer : STRING]
           both == [driver : results, generic : results]
       IN Contents \subseteq [directory : BOOLEAN, hash : STRING \ {"", "-"},
                              embedded : both, catalog : both]

VARIABLES
    contents,      \* the contents of each file so far
    mounted,       \* the volumes of the system
    deviceMap,     \* g_DeviceMap: the volumes it knows
    pathCache, signatureCache, bundleCache,
    loads,         \* how many loads have begun
    enriching      \* the threads: where they are and their event

enrichVars == <<contents, mounted, deviceMap, pathCache, signatureCache,
                bundleCache, loads, enriching>>

EnrichThreads == EnrichWorkers \cup {"dispatcher"}
FilesOf(names) == {n.file : n \in names}

EnrichInit ==
    /\ contents = [f \in FilesOf(Names) |-> <<>>]
    /\ mounted = BootVolumes /\ deviceMap = {} /\ loads = 0
    /\ pathCache = EmptyCache /\ signatureCache = EmptyCache /\ bundleCache = EmptyCache
    /\ enriching = [t \in EnrichThreads |-> [at |-> "idle"]]

\* Bytes that nobody has put there yet stand for a file that does not exist.
Exists(f) == contents[f] # <<>>
ContentOf(f) == Last(contents[f])

-----------------------------------------------------------------------------
(* path_cache.cpp *)

Win32Name(n) == [n EXCEPT !.form = "drive"]

ASSUME NamesAreHashed ==
    \A n \in Names : PathHash[n] \in Nat /\ PathHash[Win32Name(n)] \in Nat

\* The map of drives is filled when it is empty, and then stays.
RefreshedMap == IF deviceMap = {} THEN mounted ELSE deviceMap

\* SysmonConvertNtPathToWin32Path: the name, and whether it was converted.  A
\* device name is looked up among the drives; other forms lose their prefix.
Convert(n) ==
    IF Cached(pathCache, [name |-> n])
    THEN [ok |-> TRUE, name |-> CachedValue(pathCache, [name |-> n]), asks |-> FALSE]
    ELSE IF n.form # "device" THEN [ok |-> TRUE, name |-> Win32Name(n), asks |-> FALSE]
    ELSE [ok |-> n.volume \in RefreshedMap, name |-> Win32Name(n), asks |-> TRUE]

\* A name that is not converted is used as it came.
Resolved(n) == IF Convert(n).ok THEN Convert(n).name ELSE n

\* SysmonStorePathConversionCache and the refresh of the map.
RemembersName(n) ==
    /\ pathCache' = IF Convert(n).ok
                    THEN Put(pathCache, [name |-> n], Convert(n).name) ELSE pathCache
    /\ deviceMap' = IF Convert(n).asks THEN RefreshedMap ELSE deviceMap

-----------------------------------------------------------------------------
(* The verification *)

ActionOf(kind) == IF kind = "DriverLoad" THEN "driver" ELSE "generic"

Fails == [status |-> "failed", signer |-> ""]
NoSignature == [status |-> "nosig", signer |-> ""]
Good(v) == v.status = "ok"
Named(v) == Good(v) /\ v.signer # ""

\* SysmonFileHasEmbeddedSignatureHint: a file that cannot be opened or parsed
\* is taken to have a signature.
HasSignatureHint(n) ==
    n.form = "device" \/ ~Exists(n.file) \/ ContentOf(n.file).directory

Embedded(n, action) ==
    IF n.form = "device" \/ ~Exists(n.file) THEN Fails
    ELSE ContentOf(n.file).embedded[action]

Catalog(n, action) ==
    IF n.form = "device" \/ ~Exists(n.file) THEN Fails
    ELSE ContentOf(n.file).catalog[action]

TriesCatalog(v) == v.status = "nosig" \/ (Good(v) /\ v.signer = "")

\* The catalog's verdict replaces one that failed, or one without a signer.
WithCatalog(n, action, v) ==
    LET c == Catalog(n, action)
    IN IF TriesCatalog(v) /\ Good(c) /\ (c.signer # "" \/ ~Good(v)) THEN c ELSE v

\* The generic action's verdict replaces one that is good but names nobody.
WithGeneric(own, generic) == IF Named(generic) THEN generic ELSE own

\* Where a verdict of the event's own action leads, and one of the generic action.
AfterOwn(action, v) ==
    IF Good(v) /\ v.signer = "" /\ action # "generic" THEN "generic" ELSE "store"

AfterEmbedded(action, v) == IF TriesCatalog(v) THEN "catalog" ELSE AfterOwn(action, v)

StatusText(status) ==
    CASE status = "ok" -> "Valid"
      [] status = "expired" -> "Expired"
      [] status = "revoked" -> "Revoked"
      [] OTHER -> "Unavailable"

Signature(v) ==
    [signed |-> Good(v), status |-> StatusText(v.status), signer |-> v.signer]

\* SysmonComputeFileHashes: no hashes for an empty mask or an unreadable file.
FileHashes(n) ==
    IF HashMask = 0 THEN "-"
    ELSE IF n.form = "device" \/ ~Exists(n.file) THEN ""
    ELSE ContentOf(n.file).hash

Placeholder(text) == text \in {"", "-"}

-----------------------------------------------------------------------------
(* One event on one thread *)

\* The event of a load: its hashes are those that the driver computed, if any.
LoadEvents ==
    UNION {[kind : {"DriverLoad", "ImageLoad"}, name : {n},
            own : {""} \cup {contents[n.file][k].hash : k \in DOMAIN contents[n.file]}] :
             n \in {n \in Names : Exists(n.file)}}

KeyOfName(name, kind) == [name |-> name, action |-> "any"]

\* The key of the image caches; revocation and hash mask are the same for all.
KeyOf(name, kind) == [name |-> name, action |-> ActionOf(kind)]
SignatureKey(e) == KeyOf(Resolved(e.name), e.kind)

\* SysmonTryNormalizeImageSignaturePathsForFiltering and the key of the work
\* item: the dispatcher converts the name of every load.
FilterLoad(n) ==
    /\ RemembersName(n)
    /\ UNCHANGED <<contents, mounted, signatureCache, bundleCache, loads, enriching>>

\* SysmonExtractImageSignatureInputs.  The worker passes no buffer for the
\* name, which makes the call fail: it never sees the event's own hashes.
ExistingHashes(t, e) == IF t = "dispatcher" THEN e.own ELSE ""

\* SysmonResolveImageEnrichmentBundle up to the lookup.  The dispatcher
\* enriches by itself only the driver loads that the queue refused.
BeginEnrichment(t, e) ==
    /\ enriching[t].at = "idle" /\ loads < MaxLoads /\ loads' = loads + 1
    /\ t = "dispatcher" => e.kind = "DriverLoad"
    /\ RemembersName(e.name)
    /\ LET existing == ExistingHashes(t, e)
           hit == CachedValue(bundleCache, SignatureKey(e))
       IN enriching' = [enriching EXCEPT ![t] =
            IF Cached(bundleCache, SignatureKey(e))
            THEN [at |-> "rebuild", event |-> e, signature |-> hit.signature,
                  hashes |-> IF ~Placeholder(existing) /\ Placeholder(hit.hashes)
                             THEN existing ELSE hit.hashes]
            ELSE [at |-> "verify", event |-> e]]
    /\ UNCHANGED <<contents, mounted, signatureCache, bundleCache>>

\* SysmonResolveSignatureResult up to the lookup of the cached verdict.
LookupSignature(t) ==
    LET e == enriching[t].event
        key == SignatureKey(e)
    IN /\ enriching[t].at = "verify"
       /\ RemembersName(e.name)
       /\ enriching' = [enriching EXCEPT ![t] =
            IF Cached(signatureCache, key)
            THEN [at |-> "hashes", event |-> e, name |-> Resolved(e.name),
                  signature |-> CachedValue(signatureCache, key)]
            ELSE [at |-> "hint", event |-> e, name |-> Resolved(e.name),
                  own |-> NoSignature, generic |-> NoSignature]]
       /\ UNCHANGED <<contents, mounted, signatureCache, bundleCache, loads>>

\* An attempt of the verification opens the file anew: between two of them it may
\* be replaced.
Attempts(t, place, after) ==
    /\ enriching[t].at = place
    /\ enriching' = [enriching EXCEPT ![t] = after]
    /\ UNCHANGED <<contents, mounted, deviceMap, pathCache, signatureCache,
                   bundleCache, loads>>

\* The verdict of the event's own action: a file without the hint is not asked for
\* a signature of its own.
TryHint(t) ==
    LET w == enriching[t]
    IN Attempts(t, "hint",
         [w EXCEPT !.at = IF HasSignatureHint(w.name) THEN "embedded" ELSE "catalog"])

TryEmbedded(t) ==
    LET w == enriching[t]
        action == ActionOf(w.event.kind)
        v == Embedded(w.name, action)
    IN Attempts(t, "embedded", [w EXCEPT !.at = AfterEmbedded(action, v), !.own = v])

TryCatalog(t) ==
    LET w == enriching[t]
        action == ActionOf(w.event.kind)
        v == WithCatalog(w.name, action, w.own)
    IN Attempts(t, "catalog", [w EXCEPT !.at = AfterOwn(action, v), !.own = v])

\* The verdict of the generic action.
TryGeneric(t) ==
    LET w == enriching[t]
        v == Embedded(w.name, "generic")
    IN Attempts(t, "generic",
         IF TriesCatalog(v) THEN [w EXCEPT !.at = "genericCatalog", !.generic = v]
         ELSE [w EXCEPT !.at = "store", !.own = WithGeneric(@, v)])

TryGenericCatalog(t) ==
    LET w == enriching[t]
        v == WithCatalog(w.name, "generic", w.generic)
    IN Attempts(t, "genericCatalog", [w EXCEPT !.at = "store", !.own = WithGeneric(@, v)])

\* SysmonMapSignatureStatus and SysmonStoreSignatureCache.
StoreSignature(t) ==
    LET w == enriching[t]
        signature == Signature(w.own)
    IN /\ w.at = "store"
       /\ signatureCache' = Put(signatureCache, KeyOf(w.name, w.event.kind), signature)
       /\ enriching' = [enriching EXCEPT ![t] =
            [at |-> "hashes", event |-> w.event, name |-> w.name, signature |-> signature]]
       /\ UNCHANGED <<contents, mounted, deviceMap, pathCache, bundleCache, loads>>

\* SysmonResolveEventHashes: only a driver load's file is hashed here.
EventHashes(e, existing, name) ==
    IF ~Placeholder(existing) \/ e.kind # "DriverLoad" THEN existing
    ELSE FileHashes(name)

\* SysmonStoreImageEnrichmentCache: an entry keeps the hashes it has when the
\* new ones say nothing.
StoredBundle(key, signature, hashes) ==
    [signature |-> signature,
     hashes |-> IF ~Placeholder(hashes) THEN hashes
                ELSE IF Cached(bundleCache, key) THEN CachedValue(bundleCache, key).hashes
                ELSE ""]

StoreBundle(t) ==
    LET w == enriching[t]
        e == w.event
        hashes == EventHashes(e, ExistingHashes(t, e), w.name)
        key == KeyOf(w.name, e.kind)
    IN /\ w.at = "hashes"
       /\ bundleCache' = Put(bundleCache, key, StoredBundle(key, w.signature, hashes))
       /\ enriching' = [enriching EXCEPT ![t] =
            [at |-> "rebuild", event |-> e, signature |-> w.signature,
             hashes |-> hashes]]
       /\ UNCHANGED <<contents, mounted, deviceMap, pathCache, signatureCache, loads>>

\* The version resources of the file fill the fields that the driver left out.
VersionInfo(e) ==
    IF e.kind # "ImageLoad" THEN ""
    ELSE IF e.own # "" THEN e.own ELSE ContentOf(e.name.file).hash

\* The driver load takes the hashes as resolved; the image load keeps its own
\* when nothing was resolved.
RebuiltHashes(e, hashes) ==
    IF e.kind = "ImageLoad" /\ Placeholder(hashes) /\ ~Placeholder(e.own)
    THEN e.own ELSE hashes

\* SysmonTryRebuildEnrichedImageSignatureEvent: a new event with the name
\* converted and the other fields as they were.
Rebuilt(t) ==
    LET w == enriching[t]
        e == w.event
    IN [kind |-> e.kind, name |-> Resolved(e.name), own |-> e.own,
        signature |-> w.signature, hashes |-> RebuiltHashes(e, w.hashes),
        version |-> VersionInfo(e)]

\* The rebuilt event is dispatched.
RebuildEvent(t) ==
    /\ enriching[t].at = "rebuild"
    /\ RemembersName(enriching[t].event.name)
    /\ enriching' = [enriching EXCEPT ![t] = [at |-> "idle"]]
    /\ UNCHANGED <<contents, mounted, signatureCache, bundleCache, loads>>

-----------------------------------------------------------------------------
(* The system *)

MountVolume(v) ==
    /\ v \notin mounted /\ mounted' = mounted \cup {v}
    /\ UNCHANGED <<contents, deviceMap, pathCache, signatureCache, bundleCache,
                   loads, enriching>>

WriteFile(f, c) ==
    /\ MapThenSumSet(LAMBDA g : Len(contents[g]), DOMAIN contents) < MaxContents
    /\ \A n \in Names : n.file = f => n.volume \in mounted
    /\ contents' = [contents EXCEPT ![f] = Append(@, c)]
    /\ UNCHANGED <<mounted, deviceMap, pathCache, signatureCache, bundleCache,
                   loads, enriching>>

EnrichNext ==
    \/ \E n \in Names : Exists(n.file) /\ FilterLoad(n)
    \/ \E t \in EnrichThreads :
          \/ \E e \in LoadEvents : BeginEnrichment(t, e)
          \/ LookupSignature(t) \/ TryHint(t) \/ TryEmbedded(t) \/ TryCatalog(t)
          \/ TryGeneric(t) \/ TryGenericCatalog(t) \/ StoreSignature(t)
          \/ StoreBundle(t) \/ RebuildEvent(t)
    \/ \E v \in MoreVolumes : MountVolume(v)
    \/ \E f \in DOMAIN contents, c \in Contents : WriteFile(f, c)

EnrichSpec == EnrichInit /\ [][EnrichNext]_enrichVars

-----------------------------------------------------------------------------

\* Whatever is stored, overwritten and evicted by whichever thread, the chains
\* of the three caches stay whole (pipeline.cpp 1255-1433, path_cache.cpp
\* 44-91, 214-274): a broken one loses entries or answers for a reused slot.
CachesAreWellLinked ==
    WellLinked(pathCache) /\ WellLinked(signatureCache) /\ WellLinked(bundleCache)

\* A verdict that content c gives for an action, told without the order of the
\* code's attempts: c is signed when its own signature or, failing that for
\* want of one, a catalog's is good; and if one of the verifications that may
\* be tried is good and names a signer, the verdict names one.
Signed(c, action) ==
    \/ c.directory /\ Good(c.embedded[action])
    \/ Good(c.catalog[action])
         /\ (c.directory => c.embedded[action].status \in {"ok", "nosig"})

SomebodyIsNamed(c, action) ==
    LET tried(a) == c.embedded[a].status \in {"ok", "nosig"}
    IN \/ c.directory /\ Named(c.embedded[action])
       \/ Named(c.catalog[action]) /\ (c.directory => tried(action))
       \/ action # "generic" /\ Named(c.embedded["generic"])
       \/ action # "generic" /\ Named(c.catalog["generic"]) /\ tried("generic")

VerdictOf(signature, c, action) ==
    /\ signature.signed <=> Signed(c, action)
    /\ signature.signed => (signature.signer # "" <=> SomebodyIsNamed(c, action))
    /\ ~signature.signed => signature.status # "Valid"

\* What the five attempts read of a file, none an older content than the one
\* before it; one and the same content where the file was not replaced meanwhile.
Readings(f) ==
    {r \in [1 .. 5 -> DOMAIN contents[f]] : \A i \in 1 .. 4 : r[i] <= r[i + 1]}

AsRead(f, r, action) ==
    LET read(i) == contents[f][r[i]]
    IN [directory |-> read(1).directory,
        embedded |-> [driver |-> read(2).embedded["driver"],
                      generic |-> read(IF action = "generic" THEN 2 ELSE 4).embedded["generic"]],
        catalog |-> [driver |-> read(3).catalog["driver"],
                     generic |-> read(IF action = "generic" THEN 3 ELSE 5).catalog["generic"]]]

\* A dispatched event carries the verdict and the hashes of its own file, as
\* it was at some time since the service started: never those of another file
\* or of the other kind of verification.  The verdict is the one that follows
\* from what each attempt read; a file replaced between two of them (pipeline.cpp
\* 1474, 1475, 1495, 1515, 1531 open it each for itself) may so get one that no
\* content of it has.  A file on a volume that the map of drives does not know
\* has no verdict; and an image load that came with hashes keeps them
\* (pipeline.cpp 1435-1554, 1591-1725, 1997-2072).
EnrichmentIsOfTheFile ==
    \A t \in EnrichThreads : enriching[t].at = "rebuild" =>
        LET e == Rebuilt(t)
            f == e.name.file
            action == ActionOf(e.kind)
        IN /\ IF e.name.form = "device" THEN ~e.signature.signed
              ELSE \E r \in Readings(f) : VerdictOf(e.signature, AsRead(f, r, action), action)
           /\ IF e.kind = "ImageLoad" THEN e.hashes = e.own
              ELSE e.hashes \in {"", "-"} \cup {c.hash : c \in ToSet(contents[f])}

=============================================================================
