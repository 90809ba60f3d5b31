SPECIFICATION MemorySpec
CONSTANTS
    Callers = {c1, c2}
    Keys = {k1, k2}
    Identities = {"local", "outbound"}
    Outbound <- OutboundIdentities
    OpIds = {p1, p2}
    NoOp = NoOp
    SplitSongs = {s1}
    Participants = {ann, bob}
    Sheets = {h1, h2}
    Whole = 2
    MaxSplitCalls = 2
    MaxConfirmations = 2
    Songs = {so1}
    Versions = {v1, v2}
    None = None
    Handoffs = 2
    Collaborators = {p1}
    Packages = {k1, k2}
    Feedback = {f1}
    Notes = {r1, r2}
    MaxOrdinal = 2
    MaxPackageCalls = 2
    Topic = t1
    Topic2 = t2
    Values = {x, y}
    Technical = {x}
    MaxCalls = 2
    Owed = {o1}
    FollowUps = {u1}
    MaxEvents = 2
    NoFollowUp = NoFollowUp
    ExternalIds = {i1}
    People = {ann, bob}
    Nobody = Nobody
    MaxReviews = 3
    MaxIdentityCalls = 3
    SessionIds = {s1, s2}
    Items = {i1, i2}
    Debriefs = {d1, d2}
    Unbound = Unbound
    Workspaces = {w1, w2}
    Locations = {l1, l2}
    OneWorkspace = {w1}
    OneLocation = {l1}
    NoFact = NoFact
    NoSource = NoSource
SYMMETRY Alike
INVARIANT OneCurrentCapture
CHECK_DEADLOCK FALSE
