\* One operator or two, and three editions of the configuration.
SPECIFICATION Spec
CONSTANTS
  Procs = {w1, w2, w3, w4}
  Operators = {o1, o2}
  Editions <- MCEditions
  Beginnings <- MCBeginnings
  CallsMayFail = TRUE
  Nobody = Nobody
  Output = Output
SYMMETRY MCSymmetry
INVARIANTS TypeOK OneServing PidFileNamesServing
PROPERTIES StoppedAlone RefusalLeavesNothing
\* The processes of the model are used up.
CHECK_DEADLOCK FALSE
