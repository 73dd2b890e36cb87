SPECIFICATION Spec
CONSTANTS
    Items = {i1, i2}
    Producers = {p1, p2}
    Threads = {t1, t2}
    Queues = {q1, q2}
    WorkerCount = 2
    MaxDepth = 1
    Registrations = 1
    NoItem = NoItem
SYMMETRY MCSymmetry
INVARIANTS
    FreedOnlyWhenIdle
CHECK_DEADLOCK FALSE
