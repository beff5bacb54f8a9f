SPECIFICATION Spec
CONSTANTS
  Shards = {0, 1}
  Tenants = {1, 2, 4}
  Transfers = {"d", "e"}
  MaxPrepared = 2
  FaultKinds = {}
  MaxFaults = 0
  MaxResolves = 0
  Home <- MCHome
  From <- MCFrom
  To <- MCTo
  Cents <- MCCents
  Openings <- MCOpenings
INVARIANT DoneMeansMoved
CHECK_DEADLOCK FALSE
