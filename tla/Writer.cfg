SPECIFICATION FairSpec
CONSTANTS
  s1 = s1  s2 = s2
  Session = {s1, s2}
  Anonymous = Anonymous
  None = None
  Sync = TRUE
  MaxRuns = 3
  MaxLaps = 2
  MaxFaults = 2
INVARIANTS WritesEndWithTheirRun ToolsRunOnSavedState
PROPERTIES QuestionStays KeepsProgress LaneFrees
CHECK_DEADLOCK FALSE
