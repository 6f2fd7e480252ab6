\* Two races, two drivers, two facilitator keys.
SPECIFICATION Spec
CONSTANTS
    Drivers = {d1, d2}
    NoDriver = NoDriver
    Keys = {k1, k2}
    NoRace = NoRace
    MaxRaces = 2
    Stakes <- MCStakes
    Fees <- MCFees
    Balances <- MCBalances
    U64Max = 7
INVARIANTS
    VaultBacksStakes
    ExitNeverBlocked
PROPERTIES
    KeepsPromise
