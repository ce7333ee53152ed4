SPECIFICATION Spec
CONSTANTS
  None = None
  alice = alice
  p1 = p1
  p2 = p2
  req1 = req1
  Symbols = {BTC}
  Prices = {1, 2}
  Levels = {2}
  Users = {alice}
  Passes = {p1}
  Clients = {req1}
  AlertIds = {1, 2}
  BatchLimit = 1
  MaxDue = 1
  MaxTime = 0
  MaxAge = 0
  Cooldown = 0
  MaxFaults = 0
PROPERTY CrossingsAreNoticed
