\* Two operators act on one claim.
SPECIFICATION ClaimSpec
CONSTANTS
  alice = alice
  bob = bob
  carol = carol
  coin = coin
  None = None
  Users = {alice}
  Operators = {bob, carol}
  Assets = {coin}
  Calls = {c1, c2, c3, c4}
  Opening <- MCOpening
  Deposits = {1}
  OneAtATime = FALSE
  MayCrash = FALSE
  RepliesMayFail = FALSE
SYMMETRY MCSymmetry
INVARIANT CreditedAtMostOnce
CHECK_DEADLOCK FALSE
