SPECIFICATION Spec
CONSTANTS
  Cases = {a, b}
  Repetitions = 1
  MaxIterations = 1
  MaxCalibrations = 0
CHECK_DEADLOCK FALSE
INVARIANT OnlyExecutionTimed
