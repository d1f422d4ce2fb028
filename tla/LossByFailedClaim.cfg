SPECIFICATION Spec
CONSTANTS
  e1 = e1  e2 = e2
  m1 = m1  m2 = m2  m3 = m3
  w1 = w1  w2 = w2
  p1 = p1  p2 = p2
  Events = {e1}
  Malformed = {}
  LegacyEvents = {}
  Msgs = {m1, m2}
  Workers = {w1, w2}
  Procs = {p1, p2}
  ProcOf <- OneEach
  MaxRetries = 3
  Faults = {"crash", "claim"}
  NoJob = NoJob
  NoBody = NoBody
INVARIANTS
  NoLoss
