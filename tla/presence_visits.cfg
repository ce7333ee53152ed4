SPECIFICATION PresenceSpec
CONSTANTS
  Tabs = {t1, t2}
  Visitors = {u}
  Pages = {home, markets}
  Beats = {b1, b2}
  MaxContexts = 3
  MaxBeats = 3
  MaxTime = 3
  Grace = 1
  Gap = 1
  FixAge = 1
  Retention = 2
  OneBeatAtATime = TRUE
  Tracked = {1}
  NoOne = NoOne
  NoRow = NoRow
  NoFix = NoFix
  NoBeat = NoBeat
  Never = Never
SYMMETRY MCSymmetry
INVARIANTS PresenceTypeOK OncePerVisit ClosedTabIsGone
PROPERTY ConsentedFixStands
CHECK_DEADLOCK FALSE
