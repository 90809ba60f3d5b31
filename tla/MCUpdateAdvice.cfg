SPECIFICATION Spec
CONSTANTS
    Process = {p, q}
    Update = {u, w}
    old = old
    new = new
    Release <- Both
    First = old
    SchemaOf <- Schemas
    MaxEdits = 1
    MaxCrashes = 0
    MaxIOFailures = 0
    None = None
    Dead = Dead
    Mixed = Mixed
PROPERTY AdviceCanBeFollowed
CHECK_DEADLOCK FALSE
