SPECIFICATION PeriodsSpec
CONSTANT
  PeriodsDepend = TRUE
INVARIANTS
  PeriodsNormalize
CHECK_DEADLOCK FALSE
