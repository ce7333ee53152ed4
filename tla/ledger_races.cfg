\* Withdrawals and deposits interleave on one customer's account; calls crash.
SPECIFICATION Spec
CONSTANTS
  alice = alice
  bob = bob
  coin = coin
  token = token
  None = None
  Users = {alice}
  Operators = {bob}
  Assets = {coin}
  Calls = {c1, c2, c3, c4}
  Opening <- MCOpening
  Amounts = {1}
  Deposits = {1}
  Fee <- MCFee
  NativeAsset <- MCNativeAsset
  ApprovalsRequired = 1
  OneAtATime = FALSE
  MayCrash = TRUE
  RepliesMayFail = FALSE
SYMMETRY MCSymmetry
INVARIANTS
  LedgerTypeOK ReadsAreSound HeldWithinBalance BalanceIsItsEntries
  ApprovedWasPaid ApprovedWasCredited ClaimHasProof
PROPERTY MovementsAreAtomic
CHECK_DEADLOCK FALSE
