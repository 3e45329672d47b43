CONSTANTS
    Keys = {"investorID"}
    Texts = {"092433"}
    None = None
    MaxLines = 1
    MaxMergedLines = 0
    MaxLoads = 1
SPECIFICATION Spec
INVARIANT SameUser
CHECK_DEADLOCK FALSE
