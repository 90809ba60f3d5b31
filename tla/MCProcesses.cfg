SPECIFICATION Spec
CONSTANTS
    Musics = {m1, m2}
    Details = {d1, d2}
    SomeMusic = m1
    SomeDetail = d1
    Nothing = Nothing
    MaxChanges = 2
    MaxFailures = 1
    MaxRefreshes = 1
    s1 = s1
    s2 = s2
    p1 = p1
    p2 = p2
    Launchers = {s1, s2}
    Profiles = {p1, p2}
    Machines <- TwoSessions
    Nobody = Nobody
    AnotherOwner = AnotherOwner
    Artists = {a1, a2}
    Songs = {so1}
    Versions = {u1, u2}
    None = None
    MaxSessions = 1
    Migrators = {q1, q2}
    Runtime = Runtime
    Edits = {e1, e2}
    OfIdentity = {e1}
    MaxCrashes = 1
    PlanSongs = {so1, so2}
    PlanVersions = {u1, u2}
    Keys = {k1}
    MaxSeen = 1
    MaxOutages = 2
    Values = {0, 1}
    MaxFrames = 2
    Tracks = {t1, t2}
    Levels = {a, b}
    MaxLost = 1
    Hosts = {"ABLETON_LIVE", "FL_STUDIO", "REAPER", "LOGIC_PRO", "STUDIO_ONE"}
    Tempos = {120000, 120004}
    MaxProjectChanges = 2
    MaxDamages = 0
SYMMETRY Alike
INVARIANT NothingLeftBehind
INVARIANT SeesWhatIsThere
INVARIANT MigrationKeepsEverything
INVARIANT ResultsAreTrue
PROPERTY StepsAreWhole
PROPERTY ActsOnWhatWasShown
CHECK_DEADLOCK FALSE
