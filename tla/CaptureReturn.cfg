\* The chain may switch to a competing block and back.
SPECIFICATION Spec
CONSTANTS
    Blocks <- MCBlocks
    Calls <- MCCalls
    Documents <- MCDocuments
    Acceptable <- MCAcceptable
    Addresses <- MCAddresses
    Slots <- MCSlots
    Beneficiary <- MCBeneficiary
    Depth = 3
    HashAt <- MCHashAt
    Trace <- MCTrace
    Account <- MCAccount
    ChunkSize = 2
    MaxAttempts = 5
    MayReturn = TRUE
INVARIANT FailsIfBlockChanges
CHECK_DEADLOCK FALSE
