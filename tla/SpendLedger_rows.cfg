CONSTANTS
    a1 = a1
    a2 = a2
    g1 = g1
    g2 = g2
    Attempts = {a1, a2}
    Dims = {"tokens"}
    Generations = {g1, g2}
    NoEpoch = NoEpoch
    NoTotal = NoTotal
    Modes = {"1"}
    Cap <- NoCap
    MaxUnits = 2
    Estimates <- TwoUnits
    Figures <- OneUnit
    Evictable = {}
    Expiring = {a1}
    Races = {}

SPECIFICATION FairLedger
INVARIANTS
    LedgerTypeOK
PROPERTY
    RowReachesCounter
