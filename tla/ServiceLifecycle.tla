-------------------------- MODULE ServiceLifecycle --------------------------
(***************************************************************************)
(* What a Windows service promises those who query it: it is served by one *)
(* process at a time, it reports RUNNING once its work has been begun,     *)
(* says that it is stopping before it stops in good order, lets the check  *)
(* point rise for as long as something is pending, and is STOPPED exactly  *)
(* while nobody serves it.  Threads, handlers, controls, tools and the     *)
(* service's entry in the database do not appear.                          *)
(***************************************************************************)
EXTENDS Naturals

CONSTANT Procs

VARIABLES
  state,       \* the state last reported
  checkPoint,  \* the check point last reported
  serving,     \* the process that serves, if one does: a set of at most one
  begun        \* those of them that have begun their work

vars == <<state, checkPoint, serving, begun>>

Init ==
  /\ state = "STOPPED"
  /\ checkPoint = 0
  /\ serving = {}
  /\ begun = {}

Start ==
  /\ state = "STOPPED"
  /\ serving = {}
  /\ state' = "START_PENDING"
  /\ \E p \in Procs : serving' = {p}
  /\ UNCHANGED <<checkPoint, begun>>

Progress ==
  /\ state = "START_PENDING"
  /\ begun = {}
  /\ checkPoint' \in Nat
  /\ checkPoint' > checkPoint
  /\ UNCHANGED <<state, serving, begun>>

\* Nobody begins in silence.
Begin ==
  /\ state = "START_PENDING"
  /\ checkPoint > 0
  /\ begun' = serving
  /\ UNCHANGED <<state, checkPoint, serving>>

Started ==
  /\ state = "START_PENDING"
  /\ begun # {}
  /\ state' = "RUNNING"
  /\ checkPoint' = 0
  /\ UNCHANGED <<serving, begun>>

Stopping ==
  /\ state = "RUNNING"
  /\ state' = "STOP_PENDING"
  /\ checkPoint' \in Nat \ {0}
  /\ UNCHANGED <<serving, begun>>

\* In good order, at a shutdown, or because the process is gone.
Stopped ==
  /\ serving # {}
  /\ state' = "STOPPED"
  /\ checkPoint' = 0
  /\ serving' = {}
  /\ begun' = {}

Next == Start \/ Progress \/ Begin \/ Started \/ Stopping \/ Stopped

Spec == Init /\ [][Next]_vars
=============================================================================
