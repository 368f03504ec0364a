CONSTANTS
    Conns = {c1, c2, c3}
    Project = Project
    MaxOffset = 1
SPECIFICATION Spec
SYMMETRY Symmetry
CHECK_DEADLOCK FALSE
INVARIANTS
    FreshnessIsHonest
    NoWaitCycle
PROPERTY ImplementsWatermark
