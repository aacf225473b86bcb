SPECIFICATION Spec
CONSTANTS
  Calls = {c1}
  Results = {r1}
  MaxToolTurns = 1
  KeepRecent = 2
  MaxCalls = 1
  MaxTexts = 3
INVARIANTS
  CallsAnswered
  CurrentRunIntact
  RequestWellFormed
  NoticesStayInRun
CHECK_DEADLOCK FALSE
