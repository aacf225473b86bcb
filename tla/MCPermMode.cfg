SPECIFICATION Spec
CONSTANTS
  MaxCalls = 2
  RuleTools = {"Edit"}
PROPERTIES
  RunsWithConsent
  
CHECK_DEADLOCK FALSE
