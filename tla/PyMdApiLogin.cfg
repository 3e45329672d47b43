CONSTANTS
    MaxCallbacks = 3
    MaxRequests = 1
SPECIFICATION Spec
INVARIANTS
    LoginResponseIsHandled
CHECK_DEADLOCK FALSE
