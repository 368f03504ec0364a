SPECIFICATION FairSpec
CONSTANTS
  Base = 1
  MaxSize = 2
  Turn = {1, 2}
  Early = {1}
  Formed <- Partitions
  Ends <- Line
  Person <- Owners
  Pass = {p1, p2}
  Late = {p1}
  Frail = {p2}
  Limit <- Pages
  FactSize = 2
  ReportSize = 1
  Budget = 3
  MaxEdits = 2
INVARIANT NoReportTellsTheWithdrawn
PROPERTY EverySubjectIsDescribed
CHECK_DEADLOCK FALSE
