\* Two operators install, start, stop and remove the service.
SPECIFICATION Spec
CONSTANTS
  Procs = {w1, w2}
  Tools = {t1, t2}
  Files <- MCFiles
  Nobody = Nobody
INVARIANTS TypeOK ReportsAreCurrent StopAfterStart
PROPERTIES ImplementsLifecycle ToolEnds RefusalEnds
\* The processes of the model are used up.
CHECK_DEADLOCK FALSE
