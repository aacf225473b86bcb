SPECIFICATION Spec
CONSTANTS
  EditFiles <- MCEditFiles
  OldTexts <- MCOldTexts
  NewTexts <- MCNewTexts
  Slack = 2
  MaxEditCalls = 1
  Targets <- MCTargets
  Beginnings <- MCBeginnings
  PatchLines <- MCPatchLines
  MaxLines = 5
  j1 = j1
  j2 = j2
  Jobs = {j1, j2}
  Paths <- MCPaths
  Ignored <- MCIgnored
  Absent = Absent
  Contents <- MCContents
  Patches <- MCPatches
  MaxJobs = 2
  MaxEdits = 1
  Files = {f1, f2}
  Servers = {s1, s2}
  MaxPublishes = 2
  MaxReports = 2
  Inputs <- MCInputs
  Empty = ""
  Continued = {"@"}
  CommandsFor <- MCCommandsFor
  FilesFor <- MCFilesFor
  Mentions = {"@", "@f"}
  Completed <- MCCompleted
  Slashed = {"/", "t"}
  Named <- MCNamed
  NoAsk = NoAsk
  MaxAsks = 2
  MaxEntries = 1
  MaxHistory = 1
INVARIANTS
  EditsOnePlace
  PatchesDoWhatTheySay
  
  PatchStopsBetweenFiles
  ReportsWhatMoved
  SelectionsInRange
  NobodyAsksInVain
CHECK_DEADLOCK FALSE
