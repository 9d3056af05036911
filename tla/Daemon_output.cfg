\* The wrapper's output gets into the script's pid file ahead of its pid.
SPECIFICATION Spec
CONSTANTS
  Procs = {w1, w2}
  Operators = {o1}
  Editions <- MCShipped
  Beginnings <- MCOnly
  CallsMayFail = FALSE
  Nobody = Nobody
  Output = Output
SYMMETRY MCSymmetry
PROPERTY StoppedMeansStopped
\* The processes of the model are used up.
CHECK_DEADLOCK FALSE
