SPECIFICATION Spec
CONSTANTS
  p1 = p1  p2 = p2
  k1 = k1  k2 = k2
  r1 = r1
  NoProc = NoProc
  NoEntry = NoEntry
  Proc <- TwoProcs
  Key = {k1}
  Row = {r1}
  Reads <- OneKeyReads
  CallerOwnsTransaction = FALSE
  OrmBacked = TRUE
  MayTimeOut = FALSE
  MaxCrashes = 0
  MaxGeneration = 1
INVARIANTS
  EntriesFresh
