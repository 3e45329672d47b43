CONSTANTS
    Producers = {p1, p2}
    Consumers = {c1, c2}
    MaxPushes = 2
    None = None
SPECIFICATION Spec
INVARIANTS
    CriticalSections
    NoLostWakeup
PROPERTIES
    ImplementsTaskQueue
    PushReturns
