\* Two concurrent handlers, the deadman loop, one failed serial write.
SPECIFICATION Spec
CONSTANTS
    Pilots = {p1, p2}
    AllowUntokened = FALSE
    MaxFaults = 1
INVARIANTS
    RecordTellsMotion
    EstopHoldsUnlessTorn
PROPERTY
    RestsWithoutPilot
