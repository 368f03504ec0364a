SPECIFICATION CSpec
CONSTANTS
    MaxTurn = 6
    Replicas = {r1, r2}
    Branch = 2
    Verbatim = 1
    MinGapRun = 1
    MaxLevel = 2
    TurnSize <- Sizes
    MaxMaterial = 3
    MaxWaiting = 1
    MaxErased = 2
INVARIANTS SummariesOutliveNoTurn NothingForgotten PlansCanBeWritten
SYMMETRY Alike
