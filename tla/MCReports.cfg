SPECIFICATION Spec
CONSTANTS
  All = All
  PageSize = 1
  Filters <- MCFilters
  Older = 2
  MaxOrders = 3
  MaxMoves = 1
  MaxRequests = 3
  LastDay = 1
INVARIANTS TypeOK  
CHECK_DEADLOCK FALSE
