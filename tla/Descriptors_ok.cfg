\* Both modes; readers run before the next launch; in the end a launch may
\* fail for want of descriptors or of a process.
SPECIFICATION Spec
CONSTANTS
  Limit = 10
  Modes = {FALSE, TRUE}
  HealthCheck = TRUE
  LateReaders = FALSE
  ForkMayFail = TRUE
  MaxLaunches = 3
INVARIANTS TypeOK ReaderOwnsPipe SocketOwned FailedLaunchHoldsNothing OneLeftOpen
PROPERTIES ReaderEndsWithApp
\* The launches of the model are used up.
CHECK_DEADLOCK FALSE
