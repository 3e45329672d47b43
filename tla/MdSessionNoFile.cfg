CONSTANTS
    Symbols = {a}
    None = None
    MaxConnects = 2
    MaxTicks = 1
    MaxOthers = 0
SPECIFICATION Spec
PROPERTIES
    ReconnectsByItself
CHECK_DEADLOCK FALSE
