SPECIFICATION FairSpec
CONSTANTS
  First = 1
  Last = 3
  Age = 3
  Keep = 2
  Ahead = 1
  MaxStops = 2
INVARIANT TypeOK
PROPERTIES DefaultComesBack DetachedIsDropped
