\* A request stops after its first write.
SPECIFICATION WithdrawalSpec
CONSTANTS
  alice = alice
  bob = bob
  carol = carol
  coin = coin
  None = None
  Users = {alice}
  Operators = {bob}
  Assets = {coin}
  Calls = {c1, c2}
  Opening <- MCOpening
  Amounts <- MCOneAmount
  Fee <- MCFreeCoin
  NativeAsset <- MCOwnGas
  ApprovalsRequired = 1
  OneAtATime = TRUE
  MayCrash = TRUE
SYMMETRY MCSymmetry
INVARIANT HeldIsWhatIsPending
CHECK_DEADLOCK FALSE
