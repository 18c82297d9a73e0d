SPECIFICATION Spec
CONSTANTS
    i1 = i1
    i2 = i2
    t1 = t1
    w1 = w1
    w2 = w2
    m1 = m1
    m2 = m2
    source = source
    NoItem = NoItem
    NoWorker = NoWorker
    NoCid = NoCid
    Targets = {t1}
    SourceOf <- SourceOf1
    Moderators = {m1, m2}
    Items = {i1, i2}
    TargetOf <- BothItems
    Before <- SecondAfterFirst
    Workers = {w1}
    MaxAttempts = 1
    MaxSeed = 1
    MaxEdits = 1
    MaxCalls = 4
SYMMETRY Alike
INVARIANTS ApprovedAsReviewed OnePromotion
CHECK_DEADLOCK FALSE
