\* Three bettors, two lanes, a claim window of one tick.
SPECIFICATION Spec
CONSTANTS
    Bettors = {b1, b2, b3}
    Humans = {h1, h2, h3}
    Keys = {judge, operator}
    NoBet = NoBet
    MaxRacers = 2
    Amounts <- MCAmounts
    Endowment = 3
    ClaimWindow = 1
    LastTick = 2
SYMMETRY MCSymmetry
INVARIANTS
    TypeOK
    WinnersCovered
    OnlyDustRemains
    LedgerAddsUp
