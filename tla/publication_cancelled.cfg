SPECIFICATION Spec
CONSTANTS
    a1 = a1
    a2 = a2
    k1 = k1
    w1 = w1
    w2 = w2
    m1 = m1
    m2 = m2
    NoPub = NoPub
    NoPlan = NoPlan
    NoDraft = NoDraft
    NoWorker = NoWorker
    Assets = {a1}
    Authored = {}
    Kept = {k1}
    Workers = {w1}
    Moderators = {m1, m2}
    ReloadTries = 1
    MaxCalls = 3
    MaxMoves = 0
    MaxLapses = 0
PROPERTIES CancelledPublishesNothing
CHECK_DEADLOCK FALSE
