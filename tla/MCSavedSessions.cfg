SPECIFICATION SessionsSpec
CONSTANTS
  Conns = {c1, c2}
  Ids = {s1, s2, s3}
  MaxTurns = 3
SYMMETRY Symmetry
INVARIANTS
  SessionsKeepApart
  CompletedTurnsStay
CHECK_DEADLOCK FALSE
