\* A daemon whose application ends.
SPECIFICATION Spec
CONSTANTS
  Limit = 14
  Modes = {TRUE}
  HealthCheck = FALSE
  LateReaders = FALSE
  ForkMayFail = FALSE
  MaxLaunches = 2
INVARIANT LoggingIsHarmless
\* The launches of the model are used up.
CHECK_DEADLOCK FALSE
