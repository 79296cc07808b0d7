SPECIFICATION Spec
CONSTANTS
  Cases = {a, b}
  Repetitions = 2
  MaxIterations = 2
  MaxCalibrations = 1
CHECK_DEADLOCK FALSE
INVARIANTS
  TypeOK
  SetupAndChecksUntimed
  TimerUsedProperly
PROPERTIES
  FailureEndsMeasuring
  OutputKeptUntilVerified
  Terminates
  KeepsPromise
