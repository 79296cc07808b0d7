SPECIFICATION Spec
CONSTANTS
  alice = alice  vault = vault  token = token  ghost = ghost
  vaultSlot = vaultSlot  tokenSlot = tokenSlot  ghostSlot = ghostSlot
  parent = parent  zero = zero  one = one  two = two
  none = none  nullOutput = nullOutput
  Accounts <- MCAccounts
  Slots <- MCSlots
  Numbers = {parent}
  Owner <- MCOwner
  Values <- MCValues
  Zero = zero
  MissingHash = two
  NoValue = none
  NumCases = 2
  Message <- MCMessage
  Beneficiary = ghost
  Delegate <- MCDelegate
  DefaultEnv = "MONAD_TEN"
  Environments = {"MONAD_TEN", "MONAD_NEXT"}
  VmStates <- MCVmStates
  Op <- MCOp
  After <- MCAfter
  InterpreterEntry <- MCInterpreterEntry
  NativeEntries <- MCNativeEntries
  NullOutput = nullOutput
  Fixtures <- MCFixtures
  MaxTimed = 3
  Chain <- MCChain
  ChainRun <- MCChainRun
CHECK_DEADLOCK FALSE
INVARIANTS
  TypeOK
  VerifiedReadsCaptured
  VerifiedResultsAgree
  WholeSuiteVerifiedFirst
  TimedRepeatsVerified
  TimedNeverFails
  VerifiedSuitesAreHonest
  HonestSuitesPass
