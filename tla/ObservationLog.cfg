CONSTANTS
    s1 = s1
    s2 = s2
    k1 = k1
    a1 = a1
    p1 = p1
    p2 = p2
    Scopes = {s1, s2}
    Keys = {k1}
    AssertKeys = {a1}
    Payloads = {p1, p2}
    NoPayload = NoPayload
    NoKey = NoKey
    MaxPending = 3
    ProjectLimit = 2
    SweepLimit = 1
    MaxOffset = 1
    AttemptCap = 1
SPECIFICATION Spec
SYMMETRY Symmetry
CHECK_DEADLOCK FALSE
INVARIANTS
    FreshnessIsHonest
    BudgetIsExact
    OneAnswerPerKey
PROPERTIES
    ImplementsWatermark
