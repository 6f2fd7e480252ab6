\* Two stakers, five stakes or unstakes, fundings of 2 and 3.
SPECIFICATION Spec
CONSTANTS
    Stakers = {s1, s2}
    ACC_SCALE = 12
    Cooldowns <- MCCooldowns
    Endowment = 3
    Stakes <- MCStakes
    Fundings <- MCFundings
    MaxFunded = 5
    MaxResyncs = 5
    LastTick = 2
INVARIANTS
    StakesBacked
    DebtBelowGross
    ShortfallBounded
PROPERTY
    OnlyFundingEarns
CHECK_DEADLOCK FALSE
