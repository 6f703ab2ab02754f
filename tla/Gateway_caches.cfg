CONSTANTS
    a1 = a1
    a2 = a2
    g1 = g1
    g2 = g2
    g3 = g3
    o1 = o1
    o2 = o2
    Attempts = {a1}
    Dims = {"tokens"}
    Generations = {g1, g2, g3}
    NoEpoch = NoEpoch
    NoRow = NoRow
    Modes = {"0", "1", "2"}
    Cap <- CapTwo
    MaxUnits = 2
    Estimates <- OneUnit
    Figures <- NoneOrOne
    Evictable = {}
    Operators = {o1, o2}
    Starts = {"running"}
    Verdicts = {TRUE, FALSE}
    Flushes = FALSE
    Credentials = {"k1", "k2"}
    Addresses = {"own", "stored"}
    OwnHost = "own"
    Requests = {"r1"}
    MaxChanges = 2
    MaxFills = 1
    LateLosses = FALSE
SYMMETRY Perms
SPECIFICATION CachesSpec
INVARIANTS
    CachesTypeOK
    RedisNeverAhead
    ReservedIsOpen
    PurgedIsForgotten
    PairWasConfigured
PROPERTIES
    RetiredFailsTheCheck
