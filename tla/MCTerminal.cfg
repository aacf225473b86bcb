SPECIFICATION Spec
CONSTANTS
  Ids = {s1, s2}
  Saved = s1
  NoSession = NoSession
  MaxTurns = 2
  MaxCommands = 2
  MaxInFlight = 2
INVARIANTS
  ConversationsKeepApart
  LastTurnIsKept
  LogMatchesTurns
PROPERTIES
  PromptReturns
CHECK_DEADLOCK FALSE
