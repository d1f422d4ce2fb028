SPECIFICATION FairSpec
CONSTANTS
  e1 = e1  e2 = e2  e3 = e3
  m1 = m1  m2 = m2  m3 = m3
  w1 = w1  w2 = w2
  p1 = p1  p2 = p2
  car = car
  Events = {e1, e2, e3}
  Malformed = {e3}
  Msgs = {m1, m2, m3}
  Workers = {w1, w2}
  Procs = {p1, p2}
  ProcOf <- OneEach
  ListingOf <- OneCar
  MaxRetries = 2
  MaxPriced = 2
  Faults = {"crash", "restart", "lease", "duplicate", "publish", "claim", "release", "store", "drain", "reply"}
  Settings <- PricerSettings
  NoJob = NoJob
  NoBody = NoBody
INVARIANTS
  TypeOK
  NoLoss
  CompletedHasOutput
  PricedOnce
  ExclusivePricing
PROPERTIES
  CompletedIsPermanent
  EventuallySettled
CHECK_DEADLOCK FALSE
