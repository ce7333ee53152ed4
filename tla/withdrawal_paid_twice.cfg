\* Two operators decide one withdrawal.
SPECIFICATION WithdrawalSpec
CONSTANTS
  alice = alice
  bob = bob
  carol = carol
  coin = coin
  None = None
  Users = {alice}
  Operators = {bob, carol}
  Assets = {coin}
  Calls = {c1, c2, c3, c4}
  Opening <- MCOpening
  Amounts <- MCOneAmount
  Fee <- MCFreeCoin
  NativeAsset <- MCOwnGas
  ApprovalsRequired = 1
  OneAtATime = FALSE
  MayCrash = FALSE
SYMMETRY MCSymmetry
INVARIANT PaidAtMostOnce
CHECK_DEADLOCK FALSE
