SPECIFICATION FairSpec
CONSTANTS
    i1 = i1
    i2 = i2
    t1 = t1
    w1 = w1
    w2 = w2
    m1 = m1
    m2 = m2
    source = source
    NoItem = NoItem
    NoWorker = NoWorker
    NoCid = NoCid
    Targets = {t1}
    SourceOf <- SourceOf1
    Moderators = {m1, m2}
    Items = {i1}
    TargetOf <- OneItem
    Before <- NoneBefore
    Workers = {w1, w2}
    MaxAttempts = 2
    MaxSeed = 1
    MaxEdits = 1
    MaxCalls = 3
INVARIANTS TypeOK NamedStored 
PROPERTIES LegalMoves CancelledForGood WorkSettles
CHECK_DEADLOCK FALSE
