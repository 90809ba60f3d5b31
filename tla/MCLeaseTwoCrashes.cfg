SPECIFICATION Spec
CONSTANTS
    Launches = {o, x, y, d}
    Reuses = {}
    MaxCalls = 1
    MaxAttempts = 2
    MaxCrashes = 2
    Missing = Missing
    Torn = Torn
PROPERTY OnlyTheDeadAreEvicted
CHECK_DEADLOCK FALSE
