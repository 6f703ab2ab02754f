CONSTANTS
    a1 = a1
    a2 = a2
    g1 = g1
    g2 = g2
    g3 = g3
    o1 = o1
    o2 = o2
    Attempts = {a1, a2}
    Dims = {"tokens"}
    Generations = {g1, g2}
    NoEpoch = NoEpoch
    NoRow = NoRow
    Modes = {"0", "1", "2"}
    Cap <- CapOne
    MaxUnits = 2
    Estimates <- OneUnit
    Figures <- NoUnits
    Evictable = {}
    Operators = {o1}
    Starts = {"running"}
    Verdicts = {TRUE, FALSE}
    Flushes = TRUE
SYMMETRY Perms
SPECIFICATION GatewaySpec
INVARIANTS
    FencedSendIsDurable
    ReleasedWasNotSent
