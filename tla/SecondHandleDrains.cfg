SPECIFICATION Spec
CONSTANTS
    e1 = e1
    e2 = e2
    e3 = e3
    e4 = e4
    r1 = r1
    r2 = r2
    h1 = h1
    h2 = h2
    Unlocked = Unlocked
    NoHandle = NoHandle
    NoEvent = NoEvent
    NoIrp = NoIrp
    SizeOf <- MCSizeOf
    OutLen <- MCOutLen
    Blobs = {e1}
    Producers = {p1}
    Irps = {r1, r2}
    Handles = {h1, h2}
    FileOf <- MCTwoFiles
    MaxEvents = 2
    MaxTotalSize = 3
    SerialClient = FALSE
    Stoppable = TRUE
PROPERTIES
    OnlyConsumerDrains
