SPECIFICATION Spec
CONSTANTS
  None = None
  alice = alice
  p1 = p1
  p2 = p2
  req1 = req1
  Symbols = {BTC}
  Prices = {1, 2}
  Levels = {2}
  Users = {alice}
  Passes = {p1}
  Clients = {req1}
  AlertIds = {1, 2}
  BatchLimit = 2
  MaxDue = 1
  MaxTime = 1
  MaxAge = 0
  Cooldown = 0
  MaxFaults = 1
INVARIANTS AlertTypeOK ToldOncePerArming
PROPERTY CrossingsAreNoticed
