SPECIFICATION Spec
CONSTANTS
    Captures = {"first", "second"}
    Original = "original"
    Payload <- MCPayload
    BlockOf <- MCBlockOf
    Commit <- MCCommit
    RunnerCommit = "pinned"
    Malformed = {"garbled"}
    Edited = {"swapped", "garbled"}
    MaxLoads = 1
    MaxEdits = 1
INVARIANTS LoadsAreAtomic PublishedBundlesAreWhole NothingLeftBehind
PROPERTY PreservedUnlessForced
CHECK_DEADLOCK FALSE
