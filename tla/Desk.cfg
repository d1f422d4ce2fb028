SPECIFICATION Spec
CONSTANTS
  Payloads <- SmallPayloads
  Ids = {a, b, c}
  Writers = {w, v}
  MaxTime = 2
  MaxLimit = 2
INVARIANTS
  TypeOK
  EntriesAgree
  ListsOnce
  ListsUnwritten
PROPERTIES
  ResubmitKeepsInputs
SYMMETRY PagesSymmetry
CHECK_DEADLOCK FALSE
