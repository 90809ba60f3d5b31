SPECIFICATION Spec
CONSTANTS
    Launches = {o, x}
    Reuses = {}
    MaxCalls = 1
    MaxAttempts = 2
    MaxCrashes = 0
    Missing = Missing
    Torn = Torn
INVARIANT NoFalseCorruption
CHECK_DEADLOCK FALSE
