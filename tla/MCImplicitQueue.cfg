CONSTANTS
    Consumers = {c1, c2}
    Blocks = {b1, b2, b3}
    Null = Null
    BlockSize = 2
    IndexValues = 8
    InitialCapacity = 2
    MaxIndexes = 2
    EnqueueCounts = {1, 3}
    DequeueCounts = {1, 2}
    MaxElements = 14
    MaxLate = 2
    ShortElements = 5
SPECIFICATION MCSpec
INVARIANTS
    IndexIsSound
    RightElement
    BlocksAreKept
CHECK_DEADLOCK FALSE
SYMMETRY Symmetry
