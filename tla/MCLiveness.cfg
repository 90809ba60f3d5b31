SPECIFICATION LiveSpec
CONSTANTS
    Runners = {r1, r2}
    Ops = {o1}
    Txns = {t1, t2}
    o1 = o1
    t1 = t1
    t2 = t2
    NoTxn = NoTxn
    o = o
    y = y
    Launches = {o, x, y}
    MaxCalls = 1
    MaxAttempts = 2
    Missing = Missing
    TornFile = TornFile
    Process = {p, q}
    Update = {u}
    before = before
    after = after
    None = None
    Dead = Dead
    Mixed = Mixed
    Musics = {m1, m2}
    Details = {d1, d2}
    SomeMusic = m1
    SomeDetail = d1
    Nothing = Nothing
    MaxChanges = 1
    MaxFailures = 1
    MaxRefreshes = 1
    MaxOutages = 1
PROPERTY RunSettles
PROPERTY CallsEnd
PROPERTY UpdatesEnd
PROPERTY ReferencesCatchUp
CHECK_DEADLOCK FALSE
