SPECIFICATION Spec
CONSTANTS
  Pcs <- MCPcs
  Codes <- MCCodes
  PushSize = 1
  GasLimit = 3
  MaxCharge = 1
  NumCases = 2
  MaxSteps = 6
  MaxFrames = 3
  MaxVisits = 7
  MaxActivations = 4
CHECK_DEADLOCK FALSE
INVARIANTS
  TypeOK
  RejectsExactlyOverLimits
  AttributesExactly
  ReportIdentities
  ReportsAreAttributable
