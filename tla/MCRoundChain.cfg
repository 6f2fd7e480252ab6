\* One round, two wallets, two requests at a time, one crash or lost answer.
SPECIFICATION Spec
CONSTANTS
    Drivers = {d1, d2}
    NoDriver = NoDriver
    Keys = {k1}
    NoRace = NoRace
    MaxRaces = 2
    Stakes <- MCStakes
    Fees <- MCFees
    Balances <- MCBalances
    U64Max = 3
    Requests = {h1, h2}
    NoWinner = NoWinner
    Payments <- MCPayments
    MaxTrouble = 1
SYMMETRY MCSymmetry
INVARIANTS
    TypeOK
    StakesReachable
    SeatsAreDrivers
    NeverAhead
    WinnerAgrees
    SettledIsPaid
PROPERTY
    OutcomeSticks
