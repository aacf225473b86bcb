SPECIFICATION Spec
CONSTANTS
  p1 = p1
  p2 = p2
  Procs = {p1, p2}
  Bases = {b1, b2}
  NoToken = NoToken
  MaxLogins = 2
  MaxRotations = 2
  Shells = {p1, p2}
  NoKey = 0
  MaxKeys = 2
  MaxCmds = 3
  a = a
  b = b
  x = x
  y = y
  Sessions = {s}
  FactKeys = {k}
  Bodies = {a, b}
  Queries = {x, y}
  Relevance <- MCRelevance
  Cap = 2
  FactCap = 1
  NoteCap = 1
  RecallTopK = 1
  MaxTurns = 2
  MaxWrites = 3
  MaxEdits = 1
  Words = {"w", "n"}
  Replies <- MCReplies
  Structured <- MCStructured
  Models = {"auto", "old"}
  Listed = {"auto"}
INVARIANTS
  LoginLasts
  
  
  
  ReplayTellsTheSame
  GatedTurnsAreServed
PROPERTIES
  EvictsByUtility
SYMMETRY Symmetry
CHECK_DEADLOCK FALSE
