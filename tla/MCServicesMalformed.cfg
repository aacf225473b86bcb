SPECIFICATION Spec
CONSTANTS
  p1 = p1
  p2 = p2
  Procs = {p1, p2}
  Bases = {b1, b2}
  NoToken = NoToken
  MaxLogins = 1
  MaxRotations = 1
  Shells = {p1, p2}
  NoKey = 0
  MaxKeys = 2
  MaxCmds = 1
  a = a
  b = b
  x = x
  y = y
  Sessions = {s}
  FactKeys = {k}
  Bodies = {a, b}
  Queries = {x, y}
  Relevance <- MCRelevance
  Cap = 2
  FactCap = 1
  NoteCap = 1
  RecallTopK = 1
  MaxTurns = 2
  MaxWrites = 1
  MaxEdits = 1
  Words = {"w", "n"}
  Replies <- MCReplies
  Structured <- MCStructured
  Models = {"auto", "old"}
  Listed = {"auto"}
INVARIANT BlocksMarshal
SYMMETRY Symmetry
CHECK_DEADLOCK FALSE
