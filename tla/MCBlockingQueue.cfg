CONSTANTS
    NumProducers = 2
    Consumers = {c1, c2}
    MaxBulk = 2
    MaxElements = 10
    Worker = c1
    ShortElements = 2
SPECIFICATION MCSpec
INVARIANT
    PermitsMatchElements
PROPERTIES
    PermitsAreServed
    ImplementsTaskQueue
CHECK_DEADLOCK FALSE
