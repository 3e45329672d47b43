CONSTANTS
    Threads = {t1, t2, t3}
    Nodes = {n1, n2}
    Null = Null
    ShouldBeOnFreeList = 5
    Waiters = {w1, w2}
    Signallers = {s1, s2}
    MaxCount = 2
    MaxSignalled = 3
    None = None
    HashValues = {0, 3}
    InitialCapacity = 2
    MaxFailures = 1
SPECIFICATION MCSpec
INVARIANTS
    ListIsSound
    NoneLostAtRest
    CountsMatch
    NoLostWakeup
    OneProducerEach
    HashIsSound
PROPERTIES
    ImplementsSemaphore
CHECK_DEADLOCK FALSE
SYMMETRY Symmetry
