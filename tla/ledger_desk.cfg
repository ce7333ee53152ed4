\* One operator at a time on a withdrawal or a claim, and no call is interrupted; an
\* insert may fail, or lose its reply.  A token pays its network fee in the coin.
SPECIFICATION Spec
CONSTANTS
  alice = alice
  bob = bob
  coin = coin
  token = token
  None = None
  Users = {alice}
  Operators = {bob}
  Assets = {coin, token}
  Calls = {c1, c2, c3, c4}
  Opening <- MCOpening
  Amounts = {1}
  Deposits = {1}
  Fee <- MCFee
  NativeAsset <- MCCoinGas
  ApprovalsRequired = 1
  OneAtATime = TRUE
  MayCrash = FALSE
  RepliesMayFail = TRUE
SYMMETRY MCSymmetry
INVARIANTS PaidAtMostOnce HeldIsWhatIsPending CreditedAtMostOnce
PROPERTIES DecisionStands VerdictStands
CHECK_DEADLOCK FALSE
