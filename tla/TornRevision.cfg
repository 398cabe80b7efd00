SPECIFICATION Spec
CONSTANTS
  ccxt = ccxt
  archive = archive
  m1 = m1
  m2 = m2
  x = x
  y = y
  None = None
  Families = {"oi"}
  Months = {m1, m2}
  Slots = {0, 1, 2, 3}
  MonthOf <- MCMonthOf
  Days <- MCDays
  Providers = {ccxt, archive}
  Archives = {archive}
  Values = {x, y}
  Requests <- MCRequests
  Offers <- MCOffers
CHECK_DEADLOCK FALSE
INVARIANT AvailableIsStored
