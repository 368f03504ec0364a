SPECIFICATION RSpec
CONSTANTS
    ann = ann  bob = bob
    Sources <- Said
    Entities <- Things
    Claims <- Heard
    Reports <- Written
    Single = {1}
    Requests <- Asked
    None = None
    Fanout = 2
    MaxRows = 3
    MaxMatches = 2
    MaxSemanticAnchors = 2
    MaxReportHits = 2
    MaxReportChildren = 1
    MaxPassageHits = 1
    Learned <- Already
    Remembered <- Repeated
    MaxWrites = 2
    MaxErasures = 1
INVARIANTS AnswersStayInside AnswersFit PastAnswersStand
PROPERTIES AnswersAreComplete
