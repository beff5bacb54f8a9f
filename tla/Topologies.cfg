SPECIFICATION TopologiesSpec
CONSTANTS
  Tenants = {1, 2, 3}
  LogicalCount = 3
  Nodes = {0, 1}
  Sizes = {1, 2}
  Servers = {0, 1, 2, 3}
  VNodes = 2
  Key <- MCKey
  Position <- MCPosition
  PointAt <- MCPointAt
INVARIANTS TypeOK FittingRoutesHavePools DoublingHalves
PROPERTIES ReadsFollowWrites MovesOneLogical GrowsByMovesToTheNew
