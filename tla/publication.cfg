SPECIFICATION FairSpec
CONSTANTS
    a1 = a1
    a2 = a2
    k1 = k1
    w1 = w1
    w2 = w2
    m1 = m1
    m2 = m2
    NoPub = NoPub
    NoPlan = NoPlan
    NoDraft = NoDraft
    NoWorker = NoWorker
    Assets = {a1, a2}
    Authored = {a2}
    Kept = {}
    Workers = {w1, w2}
    Moderators = {m1,m2}
    ReloadTries = 2
    MaxCalls = 3
    MaxMoves = 1
    MaxLapses = 1
INVARIANTS TypeOK
PROPERTIES PlanHolds CommitsOverWhatItRead ClosedForGood 
CHECK_DEADLOCK FALSE
