\* The recorded pid is that of the process that forked and exited.
SPECIFICATION Spec
CONSTANTS
  Procs = {w1, w2}
  Operators = {o1}
  Editions <- MCForking
  Beginnings <- MCOnly
  CallsMayFail = FALSE
  Nobody = Nobody
  Output = Output
SYMMETRY MCSymmetry
PROPERTY NamedMeansStopped
\* The processes of the model are used up.
CHECK_DEADLOCK FALSE
