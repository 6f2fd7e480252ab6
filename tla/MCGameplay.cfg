\* Two players, two tickets, one prop bet, three weeks, two kills; the
\* outcomes of a real race, where only the winner is called.
SPECIFICATION GameSpec
CONSTANTS
    p1 = p1
    p2 = p2
    t1 = t1
    t2 = t2
    o1 = o1
    o2 = o2
    Players = {p1, p2}
    Tickets = {t1, t2}
    Owner <- MCOwner
    Legs <- MCLegs
    Outcomes = {o1, o2}
    NoOutcome = NoOutcome
    PropOutcome = NoOutcome
    MaxWeek = 3
    MaxBets = 1
    MaxKills = 2
INVARIANTS
    WeekLedgeredOnce
    TotalsReconcile
    TicketsSettledOnce
PROPERTIES
    WeekCloses
