SPECIFICATION Spec
CONSTANTS
  Gens = {"g1"}
  Callers = {1}
  ShardBits = 1
  MaxSeq = 1
  MaxMs = 3
  MaxIds = 4
  MaxBack = 1
  MaxRestarts = 0
  ShardOf <- MCShardOf
  GenOf <- MCGenOf
INVARIANT NeverTwice
CHECK_DEADLOCK FALSE
