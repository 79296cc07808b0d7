SPECIFICATION ExecutionSpec
CONSTANTS
    MaxFrames = 4
    MaxLogs = 3
    MaxWrites = 2
    TraceSlots = {"s1"}
INVARIANTS
    CollectedLogsAreTheJournal
    ExpectationHoldsInReplay
CHECK_DEADLOCK FALSE
