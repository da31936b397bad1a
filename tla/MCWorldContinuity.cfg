SPECIFICATION ContinuitySpec
CONSTANTS
    c1 = c1
    d1 = d1
    d2 = d2
    w1 = w1
    w2 = w2
    x = x
    Worlds = {w1, w2}
    NoHash = NoHash
    Cycles <- MCCycles
    IdsOf <- MCIdsOf
    Contents = {x}
    Directors = {d1, d2}
    Limits = {2}
    MaxEvents = 3
    MaxMishaps = 1
SYMMETRY Symmetry
INVARIANTS
    RefsStand
    VerifySound
    ReplayCountsAll
    NothingSkipped
CHECK_DEADLOCK FALSE
