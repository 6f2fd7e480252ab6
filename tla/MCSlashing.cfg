\* Two people, two jobs, three CLANK each.
SPECIFICATION Spec
CONSTANTS
    People = {p1, p2}
    Keys = {k1}
    Jobs = {j1, j2}
    NoDispute = NoDispute
    Policies <- MCPolicies
    Amounts <- MCAmounts
    Endowment = 3
    LastTick = 1
SYMMETRY MCSymmetry
INVARIANTS
    VaultBacksBonds
PROPERTIES
    NoExitAheadOfSlash
    NobodyGains
