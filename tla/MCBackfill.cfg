SPECIFICATION FairSpec
CONSTANTS
  MonthFirsts <- MCMonths
  WindowBars = 3
  PageLimit = 2
  MaxRetries = 1
  MaxPages = 4
  Horizon = 10
  Requests <- MCRequests
  UsedRoutes <- MCRoutes
  UsedBars <- MCBars
  Worlds <- MCWorlds
  Strays <- MCStrays
INVARIANTS
  BackfillTypeOK
  SegmentsCanonical
  RowsBacked
  WindowsExact
PROPERTIES
  SyncCloses
  ImplementsSlotCoverage
  CallsReturn
