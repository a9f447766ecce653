SPECIFICATION BenchmarkSpec
CONSTANTS
  a1 = a1
  a2 = a2
  Apps = {a1, a2}
  Dirs = {1, 2, 3}
  Opened = 1
  Count <- MCCount
  MaxRounds = 3
  MaxLate = 2
INVARIANTS
  RoundConsistent
  EveryoneCounted
PROPERTIES
  Completes
CHECK_DEADLOCK FALSE
