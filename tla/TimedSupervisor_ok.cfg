\* Intervals of a few seconds; the application ends and answers when it likes.
SPECIFICATION TimedSpec
CONSTANTS
  Method = "POST"
  ContentType = "json"
  ReceiveTimeout = 2
  Replies <- MCReplies
  Pieces = 2
  PidCheckInterval = 3
  HealthCheckInterval = 1
  StartupTimeout = 2
  ConnectTimeout = 1
  Pids = {p1, p2, p3}
  EnablePIDCheck = TRUE
  EnableHealthCheck = TRUE
  HealthConfigComplete = TRUE
  RetryAttemptCount = 2
  ShutdownTimeout = 4
  LaunchMayFail = FALSE
  PidRecycling = FALSE
  MaxOthers = 0
INVARIANTS TimedTypeOK SocketReleased RelaunchedInTime AskedInTime GroupSpared WrapperSurvives
PROPERTIES ImplementsSupervisor KilledOnTime AsksApart FiniteReplyEnds
