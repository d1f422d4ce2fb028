SPECIFICATION PartsSpec
CONSTANTS
  Callers = {c1, c2, c3}
  Threshold = 4
  MaxAttempts = 2
  Rows = {r1, r2}
  Slots = 1
  Photos <- ThreePhotos
  Checks <- OneCheck
INVARIANTS
  TypesOK
  TripsAtThreshold
  OneProbe
  HalfOpenHasProbe
  ClosesEverything
  DrainsOnOpenChannel
  CleanExitDrains
  SkipsOnlyWhileLoading
PROPERTIES
  BreakerRecovers
  ShutdownEnds
  DetectionEnds
CHECK_DEADLOCK FALSE
