SPECIFICATION FairSpec
CONSTANTS
  Tenants = {1, 2}
  Key <- MCKey
  LogicalCount = 2
  Nodes = {0, 1}
  PoolCounts = {1, 2}
  Files <- MCFiles
  Rows <- MCRows
  TenantOf <- MCTenantOf
  Old <- MCOld
  Limit = 2
  Pages = 5
  Concurrency = 1
INVARIANTS TypeOK NothingSkipped NewestFirst WholeOrError AuditCountsStrays
PROPERTY EveryCommandEnds
\* The command ends.
CHECK_DEADLOCK FALSE
