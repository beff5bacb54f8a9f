SPECIFICATION Spec
CONSTANTS
  Shards = {0, 1, 2}
  Tenants = {11, 21, 22, 31}
  EventIDs = {1, 2}
  Amounts = {1}
  NoRow = NoRow
  Relays = {1, 2}
  Batch = 2
  Dead = {2}
  MaxReplays = 1
  Home <- MCHome
  Opening <- MCOpening
  Source <- MCSource
INVARIANT MoneyAddsUp
CHECK_DEADLOCK FALSE
