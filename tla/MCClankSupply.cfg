\* One robot, two jobs, two wallets, three epochs, two buybacks.
SPECIFICATION Spec
CONSTANTS
    People = {"owner", "keeper"}
    Genesis = 4
    LastTick = 2
    Agents = {a1}
    NoOwner = NoOwner
    Jobs = {j1, j2}
    Keys = {k1}
    Values <- MCValues
    MaxFeedback = 1
    Bonds = {1, 4}
    Epoch0 <- MCEpoch0
    Schedules <- MCSchedules
    LastEpoch = 2
    EMISSION_BUCKET = 8
    Governors = {k1}
    Policies <- MCPolicies
    Ratios = {1, 2, 3}
    Prices = {1}
    Spendings = {0, 1, 2}
    Fills = {2, 3}
    Intakes = {2}
    MaxIntake = 4
    OneClank = 2
    Stakes = {3}
    MaxVaulted = 3
    MaxDestroyed = 3
SYMMETRY MCSymmetry
INVARIANTS
    TypeOK
    LedgersAgree
    ScheduleHolds
    SpendingPaced
