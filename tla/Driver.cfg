SPECIFICATION MCSpec
CONSTANTS
    Items = {i1, i2}
    Producers = {p1, p2}
    Threads = {t1}
    Queues = {q1, q2}
    WorkerCount = 2
    MaxDepth = 1
    Registrations = 2
    NoItem = NoItem
    Registries <- MistypedRegistries
    Reloaders = {l1, l2}
    Callbacks = {c1}
    MaxRuntimes = 3
    Entry = entry
    Unload = unload
    Notifiers = {n1, n2}
    WorkThreads = {w1, w2}
    MaxQueued = 2
    Pids = {pid1}
    MaxProcesses = 2
    PerBucket = 1
    TamperPids = {pid1}
    Loads = {load1, load2}
    Retries = {retry1}
    MaxTracked = 1
    Budget = 1
    SettleAttempts = 2
    MaxCreated = 1
    Askers = {asker1, asker2}
    QueryWorkers = {query1, query2}
    QueryQueueSize = 1
    MaxQueries = 3
    FileObjects = {o1}
    FileOf <- OneFile
    CopyChunks = 2
    MaxVersion = 3
    Collectors = {k1, k2}
    InfoPaths = {path1}
    EntriesPerBucket = 2
    MaxFiles = 2
    MaxCalls = 2
INVARIANTS
    PlacesAccounted
    SlotsAccounted
    ClaimSucceeds
    ItemsAccounted
    RuntimesAreSafe
    FlagsInForce
    WorkAccounted
    CreationsAreReported
    ReportedOnce
    HandoffIsSafe
    AnswersFindTheirAsker
    BlockingIsSound
    FileInfoIsSound
CHECK_DEADLOCK FALSE
