SPECIFICATION Spec
CONSTANTS
    Kinds = {"message", "entity", "report"}
    Gens = {g1, g2}
    MaxItem = 2
    Builders = {b1, b2}
    None = None
    PageLimit = 1
    MaxRetained = 2
    MaxVersion = 1
    MaxTroubles = 1
SYMMETRY Alike
INVARIANTS ActiveStands SearchAnswersForItsRange
CHECK_DEADLOCK FALSE
