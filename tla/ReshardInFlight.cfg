SPECIFICATION Spec
CONSTANTS
  Tenants = {1, 2, 3}
  Key <- MCKey
  LogicalCount = 2
  Nodes = {0, 1}
  r1 = r1
  r2 = r2
  r3 = r3
  Routers = {r1, r2}
  Pools <- MCPools
  LastId = 2
  TenantOf <- MCTenantOf
  Bulk = {}
  Start <- Fresh
  Drains = FALSE
  MaxMoves = 1
SYMMETRY Symmetry
INVARIANT NoLostOrder
CHECK_DEADLOCK FALSE
