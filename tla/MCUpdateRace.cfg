SPECIFICATION Spec
CONSTANTS
    Process = {p, q}
    Update = {u, w}
    old = old
    new = new
    Release <- Both
    First = old
    SchemaOf <- Schemas
    MaxEdits = 1
    MaxCrashes = 1
    MaxIOFailures = 1
    None = None
    Dead = Dead
    Mixed = Mixed
SYMMETRY Alike
INVARIANT OneUnsettled
INVARIANT MutatesOnce
INVARIANT MutatesAlone
INVARIANT TornIsKept
INVARIANT SnapshotIsKept
PROPERTY EditsAreNotLost
PROPERTY SettledIsTrue
CHECK_DEADLOCK FALSE
