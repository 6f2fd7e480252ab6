\* One request at a time, one lost answer: settle-winner is not idempotent.
SPECIFICATION Spec
CONSTANTS
    Drivers = {d1, d2}
    NoDriver = NoDriver
    Keys = {k1}
    NoRace = NoRace
    MaxRaces = 1
    Stakes <- MCStakes
    Fees <- MCFees
    Balances <- MCBalances
    U64Max = 3
    Requests = {h1}
    NoWinner = NoWinner
    Payments <- MCPayments
    MaxTrouble = 1
SYMMETRY MCSymmetry
INVARIANT
    SettleRetryPays
