SPECIFICATION Spec
CONSTANTS
  Tenants = {1, 2, 3}
  Key <- MCKey
  LogicalCount = 2
  Nodes = {0, 1}
  r1 = r1
  r2 = r2
  r3 = r3
  Routers = {r1, r2, r3}
  Pools <- MCPools
  LastId = 4
  TenantOf <- MCTenantOf
  Bulk = {1, 4}
  Start <- FreshOrPinned
  Drains = TRUE
  MaxMoves = 2
SYMMETRY Symmetry
INVARIANTS TypeOK NoLostOrder ReadOwnWrites AuditClean
CHECK_DEADLOCK FALSE
