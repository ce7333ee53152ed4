\* Any calls about the same people overlap, and may stop between two awaits.
SPECIFICATION Spec
CONSTANTS
  alice = alice
  bob = bob
  carol = carol
  g1 = g1
  None = None
  MaxFailed = 2
  People = {alice, bob, carol}
  Seeded = {alice, bob}
  Admins = {alice, bob}
  Googles = {g1}
  GoogleEmail <- MCGoogleEmail
  Calls = {c1, c2, c3}
  OneAtATime = FALSE
  MayCrash = TRUE
SYMMETRY MCSymmetry
INVARIANTS IdentityTypeOK LockMatchesFailures
PROPERTIES AccountsAreAtomic SuspensionStands NobodyIsLockedOut
CHECK_DEADLOCK FALSE
