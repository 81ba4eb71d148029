SPECIFICATION ImportsSpec
CHECK_DEADLOCK FALSE
INVARIANTS
  ImportsTypeOK
  NoticeIsTrue
PROPERTIES
  KeepsThePromise
  BatchesAreAnnounced
CONSTANTS
  w1 = w1
  w2 = w2
  i1 = i1
  i2 = i2
  f1 = f1
  f2 = f2
  d1 = d1
  d2 = d2
  u1 = u1
  u2 = u2
  Nobody = Nobody
  None = None
  Gone = Gone
  Jobs = {i1, i2}
  Workers = {w1, w2}
  Pages = 1
  MaxCrashes = 1
  MaxPauses = 0
  MaxErrors = 2
  MaxLost = 0
  Local = {f1, f2}
  Drive = {d1, d2}
  People = {u1, u2}
  MaxPages = 1
  MaxFails = 1
