SPECIFICATION Spec
CONSTANTS
    t1 = t1  t2 = t2  e1 = e1  lives = lives  a = a  b = b  c = c  w1 = w1  w2 = w2
    Turns = {t1, t2}
    Edits = {e1}
    Slots = {lives}
    Single = {lives}
    Values = {a, b, c}
    Claims <- Said
    Versions = {v1}
    Writers = {w1, w2}
    Curated = Curated
    None = None
    Rebuilt = {t1}
    Horizon = 3
    MaxGenerations = 1
    MaxLosses = 1
SYMMETRY Alike
INVARIANTS OneAnswer WithdrawnStaysWithdrawn CorrectionGoverns OneExtraction ErasedLeavesNothing
PROPERTIES PastKnowledgeStands
CHECK_DEADLOCK FALSE
