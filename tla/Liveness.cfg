SPECIFICATION MCSpec
CONSTANTS
    Items = {i1, i2}
    Producers = {p1}
    Threads = {t1}
    Queues = {q1}
    WorkerCount = 1
    MaxDepth = 2
    Registrations = 1
    NoItem = NoItem
    Registries <- PlainRegistries
    Reloaders = {l1}
    Callbacks = {c1}
    MaxRuntimes = 2
    Entry = entry
    Unload = unload
    Notifiers = {n1, n2}
    WorkThreads = {w1, w2}
    MaxQueued = 2
    SignProcessors = 8
    ConfiguredWorkers = 0
    Files = {f1, f2}
    ImageEvents = 2
    SigningQueueSize = 1
    MaxPerItem = 2
    MaxPending = 3
    SourceKinds = {network}
    Restartable = {network}
    QueryThreads = 1
    MaxChanges = 1
    MaxHiccups = 1
PROPERTIES
    ItemsServed
    CleanupEnds
    UnloadEnds
    UnregistrationEnds
    CleanupComesToEnd
    SourcesFollowTheConfig
    ServiceEnds
CHECK_DEADLOCK FALSE
