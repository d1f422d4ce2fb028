SPECIFICATION Spec
CONSTANTS
  e1 = e1  e2 = e2
  m1 = m1  m2 = m2  m3 = m3
  w1 = w1  w2 = w2
  p1 = p1  p2 = p2
  Events = {e1}
  Malformed = {}
  LegacyEvents = {e1}
  Msgs = {m1, m2}
  Workers = {w1, w2}
  Procs = {p1}
  ProcOf <- BothOnOne
  MaxRetries = 2
  Faults = {"crash", "restart", "zombie", "lease", "duplicate", "claim", "publish", "release", "reply"}
  NoJob = NoJob
  NoBody = NoBody
SYMMETRY CopySymmetry
INVARIANTS
  TypeOK
  CompletedHasOutput
  DeadLettersAnnounced
PROPERTIES
  CompletedIsPermanent
