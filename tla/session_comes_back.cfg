\* A request slides the idle window of a session while it is revoked.
SPECIFICATION Spec
CONSTANTS
  alice = alice
  bob = bob
  carol = carol
  g1 = g1
  None = None
  MaxFailed = 2
  People = {alice, bob, carol}
  Seeded = {alice, bob}
  Admins = {alice, bob}
  Googles = {g1}
  GoogleEmail <- MCGoogleEmail
  Calls = {c1, c2}
  OneAtATime = FALSE
  MayCrash = FALSE
SYMMETRY MCSymmetry
PROPERTY RevocationStands
CHECK_DEADLOCK FALSE
