SPECIFICATION PermissionsSpec
CONSTANTS
    Launches = {o, x, y}
    Reuses = {}
    MaxCalls = 2
    MaxAttempts = 2
    MaxCrashes = 2
    Missing = Missing
    Torn = Torn
    Coordinators = {c1, c2}
    MaxSnapshots = 2
    MaxPermits = 1
    MaxTime = 1
    MaxSignals = 3
    MaxClaims = 6
    Nobody = Nobody
    MaxProbes = 2
    MaxRevisions = 3
    MaxSends = 2
    MaxCandidates = 2
SYMMETRY Alike
INVARIANT OneHolder
INVARIANT AuthorizedOnce
INVARIANT NothingUncleared
INVARIANT OnlyCurrentIsOffered
INVARIANT DataIsMadeOnceAndKept
PROPERTY EvictionsAreLawful
PROPERTY RefusalsStand
CHECK_DEADLOCK FALSE
