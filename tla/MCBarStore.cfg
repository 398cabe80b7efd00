SPECIFICATION Spec
CONSTANTS
  p1 = p1
  p2 = p2
  k1 = k1
  m1 = m1
  m2 = m2
  v1 = v1
  v2 = v2
  x = x
  y = y
  None = None
  NoOwner = NoOwner
  Rebuilder = Rebuilder
  Procs = {p1, p2}
  Keys = {k1}
  Months = {m1, m2}
  Slots = {0, 1, 2}
  Providers = {v1, v2}
  Values = {x}
  MonthOf <- MCMonthOf
  Bars <- MCRivals
  Requests <- MCWhole
  MaxClock = 3
SYMMETRY ProcSymmetry
INVARIANTS
  IInv
  AvailableBacked
  NoSilentDrift
  IndexNamesLineage
  UnavailableIsProven
PROPERTIES
  RowsNeverLost
  AvailableIsSticky
  LossNeedsRebuild
