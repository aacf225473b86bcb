SPECIFICATION FairSpec
CONSTANTS
  Calls = {c1, c2}
  Results = {r1, r2}
  MaxToolTurns = 2
  KeepRecent = 4
  MaxCalls = 2
  MaxTexts = 1

  
PROPERTIES
  NoThirdIdenticalRun
  RunEnds
CHECK_DEADLOCK FALSE
