SPECIFICATION PartsSpec
CONSTANTS
  Callers = {c1, c2, c3}
  Threshold = 4
  MaxAttempts = 2
  Rows = {r1, r2}
  Slots = 1
  Photos <- ThreePhotos
  Checks <- BothChecks
INVARIANTS
  EveryPhotoChecked
CHECK_DEADLOCK FALSE
