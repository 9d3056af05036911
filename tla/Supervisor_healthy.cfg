\* An application that always answers as it should.
SPECIFICATION Spec
CONSTANTS
  Pids = {p1, p2, p3}
  EnablePIDCheck = TRUE
  EnableHealthCheck = TRUE
  HealthConfigComplete = TRUE
  RetryAttemptCount = 2
  ShutdownTimeout = 4
  ContentType = "json"
  Replies <- MCHealthyReplies
  LaunchMayFail = FALSE
  PidRecycling = FALSE
  MaxOthers = 0
INVARIANT HealthyAppSpared
\* The wrapper may end for good.
CHECK_DEADLOCK FALSE
