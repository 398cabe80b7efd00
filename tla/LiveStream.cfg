SPECIFICATION LiveSpec
CONSTANTS
  s1 = s1
  s2 = s2
  s3 = s3
  k1 = k1
  k2 = k2
  k3 = k3
  c1 = c1
  c2 = c2
  None = None
  Subs = {s1, s3}
  Markets = {k1, k3}
  Clients = {c1, c2}
  MarketOf <- MCMarketOf
  ClientOf <- MCClientOf
  Stamps = {0, 1}
  FeedSize = 2
  QueueSize = 1
  MaxUpdates = 2
CHECK_DEADLOCK FALSE
INVARIANTS
  LiveTypeOK
  NothingLost
PROPERTIES
  ImplementsStream
