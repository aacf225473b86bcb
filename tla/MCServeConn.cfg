SPECIFICATION FairSpec
CONSTANTS
  MaxSent = 4
  MaxAsks = 2

  
PROPERTIES
  OnlyApprovedAsksAllow
  AnswersArrive
  ConnectionDrains
CHECK_DEADLOCK FALSE
