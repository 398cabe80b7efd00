SPECIFICATION Spec
CONSTANTS
  p1 = p1
  p2 = p2
  k1 = k1
  m1 = m1
  m2 = m2
  v1 = v1
  v2 = v2
  x = x
  y = y
  None = None
  NoOwner = NoOwner
  Rebuilder = Rebuilder
  Procs = {p1}
  Keys = {k1}
  Months = {m1, m2}
  Slots = {0, 1}
  Providers = {v1}
  Values = {x, y}
  MonthOf <- MCMonthOf
  Bars <- MCAllBars
  Requests <- MCSingle
  MaxClock = 2
PROPERTIES
  AvailableRowsImmutable
