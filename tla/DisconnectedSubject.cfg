SPECIFICATION FairSpec
CONSTANTS
  Base = 1
  MaxSize = 24
  Turn = {1, 2, 3, 4, 5, 6, 7, 8, 9, 10, 11, 12, 13}
  Early = {1, 2, 3, 4, 5, 6, 7, 8, 9, 10, 11, 12}
  Formed <- TreePartitions
  Ends <- Tree
  Person <- Person1
  Pass = {p1}
  Late = {}
  Frail = {}
  Limit <- Pages
  FactSize = 1
  ReportSize = 1
  Budget = 9
  MaxEdits = 0
PROPERTY SubjectsHoldTogether
CHECK_DEADLOCK FALSE
