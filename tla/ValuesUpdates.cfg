SPECIFICATION UpdatesSpec
CONSTANT
  PeriodsDepend = FALSE
INVARIANTS
  UpdatesKeepOmitted
CHECK_DEADLOCK FALSE
