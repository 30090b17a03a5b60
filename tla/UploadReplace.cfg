SPECIFICATION FairSpec
CONSTANTS
  i1 = i1  i2 = i2
  r1 = r1  r2 = r2  r3 = r3
  c1 = c1  c2 = c2
  w1 = w1  w2 = w2
  NoRow = NoRow
  NoKey = NoKey
  NoWorker = NoWorker
  Intent = {i1, i2}
  Row = {r1}
  Client = {c1}
  Worker = {w1, w2}
  Bound <- TwoUpdates
  DeleteReplaced = TRUE
  StaleSaves = FALSE
  MaxWrites = 0
  MaxFaults = 1
INVARIANTS
  BindingSound
PROPERTIES
  FinalizersKeepOrder
  FinalizingDecided
CHECK_DEADLOCK FALSE
