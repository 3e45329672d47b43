CONSTANTS
    MaxCallbacks = 3
    MaxRequests = 1
SPECIFICATION Spec
INVARIANTS
    HandledIsSeen
CHECK_DEADLOCK FALSE
