CONSTANTS
    a1 = a1
    a2 = a2
    g1 = g1
    g2 = g2
    Attempts = {a1, a2}
    Dims = {"tokens"}
    Generations = {g1, g2}
    NoEpoch = NoEpoch
    Modes = {"0", "1"}
    Cap <- CapOne
    MaxUnits = 2
    Estimates <- OneUnit
    Figures <- NoneOrTwo
    Evictable <- EveryKey
SYMMETRY Perms
SPECIFICATION Spec
INVARIANTS
    TypeOK
    ReservedCoversOpen
    SpentCoversCharges
    AdmittedWithinCap
    DegradedMeansLost
    DispatchedIsNeverReleased
PROPERTIES
    LostCountersStayLost
    SpendNeverFalls
    FirstSettleIsFinal
    MeetsAccount
