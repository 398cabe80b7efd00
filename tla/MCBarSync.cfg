SPECIFICATION SyncSpec
CONSTANTS
  p1 = p1
  p2 = p2
  k1 = k1
  m1 = m1
  m2 = m2
  v1 = v1
  v2 = v2
  x = x
  y = y
  None = None
  NoOwner = NoOwner
  Procs = {p1, p2}
  Keys = {k1}
  Months = {m1, m2}
  Slots = {0, 1, 2}
  Providers = {v1}
  Values = {x, y}
  MonthOf <- MCMonthOf
  Bars <- MCAllBars
  Requests <- MCWhole
  MaxClock = 3
SYMMETRY ProcSymmetry
INVARIANTS
  SyncInv
  TempsSurvive
PROPERTIES
  AvailableRowsImmutable
  SuccessIsIndexed
  EndLeavesNoTemp
  ImplementsPublishedRows
