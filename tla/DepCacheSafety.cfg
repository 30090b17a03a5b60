SPECIFICATION Spec
CONSTANTS
  p1 = p1  p2 = p2
  k1 = k1  k2 = k2
  r1 = r1
  NoProc = NoProc
  NoEntry = NoEntry
  Proc <- TwoProcs
  Key = {k1, k2}
  Row = {r1}
  Reads <- OneRowReads
  CallerOwnsTransaction = FALSE
  OrmBacked = TRUE
  MayTimeOut = TRUE
  MaxCrashes = 1
  MaxGeneration = 3
SYMMETRY ProcSymmetry
INVARIANTS
  QuietEntriesFresh
  IndexCoversEntries
  BarrierUpDuringChange
PROPERTY
  NoPublishDuringChange
