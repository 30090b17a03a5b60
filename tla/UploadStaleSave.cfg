SPECIFICATION Spec
CONSTANTS
  i1 = i1  i2 = i2
  r1 = r1  r2 = r2  r3 = r3
  c1 = c1  c2 = c2
  w1 = w1  w2 = w2
  NoRow = NoRow
  NoKey = NoKey
  NoWorker = NoWorker
  Intent = {i1}
  Row = {r1}
  Client = {c1}
  Worker = {w1}
  Bound <- OneUpdate
  DeleteReplaced = TRUE
  StaleSaves = TRUE
  MaxWrites = 1
  MaxFaults = 0
INVARIANTS
  BoundBytesExist
CHECK_DEADLOCK FALSE
