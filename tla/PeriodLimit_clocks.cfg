CONSTANTS
    a1 = a1
    a2 = a2
    g1 = g1
    g2 = g2
    Attempts = {a1, a2}
    Dims = {"cost"}
    Generations = {g1, g2}
    NoEpoch = NoEpoch
    Modes = {"2"}
    Cap <- CapTwo
    MaxUnits = 1
    Estimates <- OneUnit
    Figures <- NoneOrOne
    Evictable <- EpochOnly
    PeriodModes = {"none", "set", "unknown"}
    Kinds = {"day"}
    Floors <- FloorTwo
    PeriodCap = 1
    MaxTime = 1
    NoBase = NoBase
    NoSeed = NoSeed
    Never = Never
SYMMETRY Perms
SPECIFICATION PeriodSpec
INVARIANTS
    PeriodTypeOK
    PeriodUsageCovers
    PeriodWithinLimit
