SPECIFICATION MCSpec
CONSTANTS
  Malformed = Malformed
  MaxInt64 = 2
  MaxUint64 = 4
  MaxUint256 = 6
  AddressBytes = 1
  HashBytes = 2
  MaxFile = 2
  RunnerCommit = "pinned"
  InvalidKeys = {"0k"}
  Environment = "MONAD_TEN"
  Modes <- MCModes
  Repetitions <- MCRepetitions
  Selected <- MCSelected
  LibraryFlags <- MCLibraryFlags
  DefaultSetting = DefaultSetting
  MaxVerify = 3
  MaxWords = 4
  MaxTurns = 2
  MaxFlags = 2
INVARIANTS
  AcceptsExactlyTheValid
  LookupsAreUnambiguous
  RunAsConfigured
  ZeroMeansDone
CHECK_DEADLOCK FALSE
