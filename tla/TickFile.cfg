CONSTANTS
    HeaderSize = 3
    TickSizes = {2, 4}
    IntValues = 7
    MaxTicks = 4
    MaxFailures = 2
SPECIFICATION Spec
INVARIANTS
    WellFormed
    OneHeader
    LinesAreTicks
    LossNeedsFailure
PROPERTIES
    AppendOnly
CHECK_DEADLOCK FALSE
