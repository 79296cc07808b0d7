\* The chain never returns to a block it has abandoned.
SPECIFICATION Spec
CONSTANTS
    Blocks <- MCBlocks
    Calls <- MCCalls
    Documents <- MCDocuments
    Acceptable <- MCAcceptable
    Addresses <- MCAddresses
    Slots <- MCSlots
    Beneficiary <- MCBeneficiary
    Depth = 3
    HashAt <- MCHashAt
    Trace <- MCTrace
    Account <- MCAccount
    ChunkSize = 2
    MaxAttempts = 5
    MayReturn = FALSE
INVARIANTS TypeOK CapturedIsSnapshot FailsIfBlockChanges
PROPERTY Terminates
CHECK_DEADLOCK FALSE
