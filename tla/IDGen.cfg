SPECIFICATION FairSpec
CONSTANTS
  Gens = {"g0", "g1"}
  Callers = {1, 2, 3}
  ShardBits = 2
  MaxSeq = 1
  MaxMs = 4
  MaxIds = 5
  MaxBack = 2
  MaxRestarts = 1
  ShardOf <- MCShardOf
  GenOf <- MCGenOf
INVARIANTS TypeOK Unique Increasing OwnShard
PROPERTY EveryCallReturns
CHECK_DEADLOCK FALSE
