\* Launches succeed and the kernel does not hand out a pid the wrapper holds.
SPECIFICATION FairSpec
CONSTANTS
  Pids = {p1, p2, p3, p4}
  EnablePIDCheck = TRUE
  EnableHealthCheck = TRUE
  HealthConfigComplete = TRUE
  RetryAttemptCount = 2
  ShutdownTimeout = 4
  ContentType = "json"
  Replies <- MCHealthyReplies
  LaunchMayFail = FALSE
  PidRecycling = FALSE
  MaxOthers = 1
INVARIANTS TypeOK StrangersSpared KilledOnlyAfterAsked
PROPERTIES ImplementsWatchdog Relaunch AskedAppEnds HangupPasses
\* The wrapper may end for good.
CHECK_DEADLOCK FALSE
