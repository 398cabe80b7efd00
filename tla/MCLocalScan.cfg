SPECIFICATION ScanSpec
CONSTANTS
  p1 = p1
  k1 = k1
  m1 = m1
  m2 = m2
  v1 = v1
  x = x
  y = y
  None = None
  NoOwner = NoOwner
  Rebuilder = Rebuilder
  Procs = {p1}
  Keys = {k1}
  Months = {m1, m2}
  Slots = {0, 1, 2}
  Providers = {v1}
  Values = {x, y}
  MonthOf <- MCMonthOf
  Bars <- MCAllBars
  Requests <- MCWhole
  MaxClock = 3
SYMMETRY ValueSymmetry
INVARIANTS
  ScanInv
  ScanAnswersSnapshot
