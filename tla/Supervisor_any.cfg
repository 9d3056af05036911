\* Launches may fail, pids may be handed out again at once.
SPECIFICATION Spec
CONSTANTS
  Pids = {p1, p2, p3, p4}
  EnablePIDCheck = TRUE
  EnableHealthCheck = TRUE
  HealthConfigComplete = TRUE
  RetryAttemptCount = 2
  ShutdownTimeout = 4
  ContentType = "json"
  Replies <- MCHealthyReplies
  LaunchMayFail = TRUE
  PidRecycling = TRUE
  MaxOthers = 2
SYMMETRY MCSymmetry
INVARIANTS SingleApplication AppTracked
PROPERTIES SigtermReachesApp
\* The wrapper may end for good.
CHECK_DEADLOCK FALSE
