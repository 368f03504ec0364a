CONSTANTS
    s1 = s1
    Scopes = {s1}
    Keys = {}
    AssertKeys = {}
    Payloads = {p1}
    NoPayload = NoPayload
    NoKey = NoKey
    MaxPending = 2
    ProjectLimit = 2
    SweepLimit = 1
    MaxOffset = 1
    AttemptCap = 2
    Workers = {w1, w2}
    NoWorker = NoWorker
    Messages = 2
    MaxAttempts = 2
    KillerTurns <- NoKiller
SPECIFICATION FairSpec
CHECK_DEADLOCK FALSE
INVARIANTS
    FreshnessIsEarned
    NoClaimOutlivesItsTurn
    SoleExtractor
    ParkedTurnsHadTheirTries
PROPERTY EveryTurnSettles
