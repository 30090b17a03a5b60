SPECIFICATION Spec
CONSTANT
  PeriodsDepend = FALSE
INVARIANTS
  PermissionsSound
  BucketsSound
  DataSound
  CachesSound
CHECK_DEADLOCK FALSE
