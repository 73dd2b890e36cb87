SPECIFICATION MCSpec
CONSTANTS
    Expressions <- LateExpressions
    MaxGroups = 2
    MaxNodes = 2
    MaxFields = 2
    MaxRules = 1
    Letters = {1, 2}
    MaxFieldText = 2
    MaxRuleText = 5
    MaxToken = 2
    SignProcessors = 8
    ConfiguredWorkers = 0
    Files = {f1, f2}
    ImageEvents = 3
    SigningQueueSize = 1
    MaxPerItem = 2
    MaxPending = 3
    Names <- LoadedFiles
    Contents <- SignedContents
    BootVolumes = {"C"}
    MoreVolumes = {"D"}
    EnrichWorkers = {"w1"}
    HashMask = 1
    MaxContents = 2
    MaxLoads = 3
    CacheCapacity = 2
    CacheBuckets = 2
    PathHash <- FileHash
    StorePids = {1, 2}
    Sources = {"s1", "s2"}
    Answers = {"a", "b", "c"}
    StaleWindow = 1
    DnsLimit = 2
    MaxTime = 3
    MaxHeap = 3
    Connections = {"c1", "c2", "c3"}
    NamesOf <- SharedNames
    LookupResults = {"n"}
    RecentCapacity = 2
    RecentWindow = 1
    NameCapacity = 2
    NameWorkLimit = 2
    PendingTime = 1
    NegativeTime = 1
    PositiveTime = 2
    MaxTick = 2
    MaxSetBacks = 1
    SourceKinds = {"network"}
    Restartable = {"network"}
    QueryThreads = 1
    MaxChanges = 1
    MaxHiccups = 1
INVARIANTS
    RulesArrive
    ShortcutsKeepTheVerdict
    ConditionsAsDocumented
    SignEventsAccounted
    FileEventsInOrder
    CachesAreWellLinked
    EnrichmentIsOfTheFile
    StoreIsSwept
    LookupFindsTheInstance
    NetworkTablesSound
    SourcesStayStopped
CHECK_DEADLOCK FALSE
