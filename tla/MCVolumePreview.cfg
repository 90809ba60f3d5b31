SPECIFICATION Spec
CONSTANTS
    Tracks = {t1, t2}
    Levels = {a, b}
    MaxSets = 2
    MaxOps = 1
    MaxTouches = 1
    MaxLost = 0
INVARIANT ActsOnWhatWasPreviewed
CHECK_DEADLOCK FALSE
