SPECIFICATION FairSpec
CONSTANTS
  Cap = 2
  MaxEvents = 6
INVARIANTS
  PairedUnlessLost
PROPERTIES
  
  InOrder
CHECK_DEADLOCK FALSE
