SPECIFICATION FairSpec
CONSTANTS
  Shards = {0, 1}
  Tenants = {1, 2}
  Transfers = {"a", "c"}
  MaxPrepared = 1
  FaultKinds = {"call", "crash"}
  MaxFaults = 2
  MaxResolves = 1
  Home <- MCHome
  From <- MCFrom
  To <- MCTo
  Cents <- MCCents
  Openings <- MCOpenings
INVARIANTS TypeOK Atomic NoOverdraft EndedLeavesNothing DoneMeansCommitted
CHECK_DEADLOCK FALSE
PROPERTY EveryTransferEnds
