CONSTANTS
    MaxCallbacks = 3
    MaxRequests = 2
SPECIFICATION Spec
INVARIANTS
    TypeOK
    GilIsHeld
    OnlyLoginTerminates
    SeenInOrder
PROPERTIES
    HandledUnlessJoined
CHECK_DEADLOCK FALSE
