\* One call about a person at a time.
SPECIFICATION Spec
CONSTANTS
  alice = alice
  bob = bob
  carol = carol
  g1 = g1
  None = None
  MaxFailed = 2
  People = {alice, bob}
  Seeded = {alice, bob}
  Admins = {alice, bob}
  Googles = {}
  GoogleEmail <- MCGoogleEmail
  Calls = {c1, c2, c3, c4}
  OneAtATime = TRUE
  MayCrash = FALSE
SYMMETRY MCSymmetry
INVARIANTS LinkSetsOnePassword OldPasswordOpensNothing AnOperatorRemains
PROPERTY RevocationStands
CHECK_DEADLOCK FALSE
