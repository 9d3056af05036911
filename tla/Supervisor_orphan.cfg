\* The order to end races with a launch.
SPECIFICATION Spec
CONSTANTS
  Pids = {p1, p2, p3}
  EnablePIDCheck = TRUE
  EnableHealthCheck = FALSE
  HealthConfigComplete = TRUE
  RetryAttemptCount = 2
  ShutdownTimeout = 4
  ContentType = "json"
  Replies <- MCHealthyReplies
  LaunchMayFail = FALSE
  PidRecycling = FALSE
  MaxOthers = 0
INVARIANT NoOrphan
\* The wrapper may end for good.
CHECK_DEADLOCK FALSE
