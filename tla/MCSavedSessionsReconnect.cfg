SPECIFICATION SessionsSpec
CONSTANTS
  Conns = {c1}
  Ids = {s1, s2}
  MaxTurns = 2
PROPERTIES
  AnnouncedIsWhole
CHECK_DEADLOCK FALSE
