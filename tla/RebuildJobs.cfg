SPECIFICATION FairSpec
CONSTANTS
    Head0 = 1
    MaxHead = 2
    Curated = {}
    Jobs = {j1}
    Requests = {k1}
    Runners = {r1, r2}
    Leases = {l1, l2}
    None = None
    MaxEdits = 2
    MaxFailures = 1
INVARIANTS CountsWhatItPublished NothingMissed
PROPERTIES OneInference JobEnds
