\* A failed launch is never repeated.
SPECIFICATION FairSpec
CONSTANTS
  Pids = {p1, p2, p3}
  EnablePIDCheck = TRUE
  EnableHealthCheck = FALSE
  HealthConfigComplete = TRUE
  RetryAttemptCount = 2
  ShutdownTimeout = 4
  ContentType = "json"
  Replies <- MCHealthyReplies
  LaunchMayFail = TRUE
  PidRecycling = FALSE
  MaxOthers = 1
PROPERTY Relaunch
\* The wrapper may end for good.
CHECK_DEADLOCK FALSE
