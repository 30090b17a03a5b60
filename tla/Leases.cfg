SPECIFICATION LeasesSpec
CONSTANTS
  i1 = i1  i2 = i2
  u1 = u1
  q1 = q1  q2 = q2
  r1 = r1
  Intent = {i1, i2}
  User = {u1}
  Request = {q1, q2}
  Owner <- SameOwner
  Size <- Sizes
  Direct = {i2}
  MaxAttempts = 2
  MaxPending = 2
  MaxPendingPerUser = 2
  MaxBytes = 4
  MaxBytesPerUser = 2
  MaxDeaths = 1
  Rows = {r1}
  Sweeps = 2
  MaxChanges = 2
  MaxFaults = 1
INVARIANTS
  TransfersSound
  QuotasRespected
  SearchSound
PROPERTIES
  ExpiredIsTidied
  LeaseKeepsTransfer
  MarksRespected
  SearchSettles
CHECK_DEADLOCK FALSE
