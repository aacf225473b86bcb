SPECIFICATION Spec
CONSTANTS
  Turns = {t1, t2}
  NoTurn = NoTurn
  MaxFrames = 2
  Buffer = 1
  MaxBreaks = 1
INVARIANTS
  StreamIsItsOwn
  LinkIsAligned
  CancelStopsOne
PROPERTIES
  TurnsEnd
CHECK_DEADLOCK FALSE
