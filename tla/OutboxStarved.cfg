SPECIFICATION FairSpec
CONSTANTS
  enriched = enriched  failed = failed
  d1 = d1  d2 = d2
  Keys = {enriched, failed}
  Unroutable = {failed}
  Drainers = {d1}
  Limit = 2
  MaxRows = 3
  MaxCopies = 1
  Settings <- OnlyMongo
PROPERTIES
  PublishedDespiteHiccups
CHECK_DEADLOCK FALSE
