SPECIFICATION FairSpec
CONSTANTS
  i1 = i1  i2 = i2  e1 = e1  e2 = e2  h1 = h1  h2 = h2
  Inputs = {i1, i2}
  NoResult = NoResult
  NoDoc = NoDoc
  Events = {e1, e2}
  NoEvent = NoEvent
  Handlers = {h1, h2}
  Concurrency = "per_event"
INVARIANTS
  TypeOK
  PublishedComplete
PROPERTIES
  EventuallyEnriched
CHECK_DEADLOCK FALSE
