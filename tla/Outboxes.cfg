SPECIFICATION FairSpec
CONSTANTS
  enriched = enriched  failed = failed
  d1 = d1  d2 = d2
  Keys = {enriched, failed}
  Unroutable = {failed}
  Drainers = {d1, d2}
  Limit = 2
  MaxRows = 3
  MaxCopies = 2
  Settings <- BothStores
INVARIANTS
  TypeOK
  PublishedWasStored
  ClaimedOnce
  PublishedOnce
PROPERTIES
  PublishedIsFinal
  EventuallyPublished
CHECK_DEADLOCK FALSE
