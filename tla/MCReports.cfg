SPECIFICATION MCSpec
CONSTANTS
  Runs <- MCRuns
  RunOf <- MCRunOf
  Cases <- MCCases
  MaxEdits = 2
  p1 = p1
  p2 = p2
  Processes = {p1, p2}
  Jobs <- MCJobs
  Paths <- MCPaths
  Before <- MCBefore
INVARIANTS
  ReportsShowCompleteRuns
  OutputsAreWhole
PROPERTIES
  ExistingOutputKept
CHECK_DEADLOCK FALSE
