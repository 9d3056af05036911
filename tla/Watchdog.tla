------------------------------ MODULE Watchdog ------------------------------
(***************************************************************************)
(* What a service wrapper promises of the application it looks after: at   *)
(* most one is running, it is started again only once the last one is      *)
(* gone, it is forced to end only after it was asked to, and nothing is    *)
(* done to it once the wrapper has stopped.  Threads, pids that may be     *)
(* stale, counters and signals of the implementation do not appear.        *)
(***************************************************************************)
CONSTANT Pids

VARIABLES
  running,  \* the application's pid, if it runs: a set of at most one
  asked,    \* those that have been asked to end
  forced,   \* those that have been told to end whether they like it or not
  stopped   \* the wrapper has stopped

vars == <<running, asked, forced, stopped>>

Init ==
  /\ running = {}
  /\ asked = {}
  /\ forced = {}
  /\ stopped = FALSE

Launch ==
  /\ ~stopped
  /\ running = {}
  /\ \E p \in Pids : running' = {p}
  /\ UNCHANGED <<asked, forced, stopped>>

Ask ==
  /\ ~stopped
  /\ running # {}
  /\ asked' = running
  /\ UNCHANGED <<running, forced, stopped>>

Force ==
  /\ ~stopped
  /\ asked # {}
  /\ forced' = asked
  /\ UNCHANGED <<running, asked, stopped>>

End(p) ==
  /\ p \in running
  /\ running' = running \ {p}
  /\ asked' = asked \ {p}
  /\ forced' = forced \ {p}
  /\ UNCHANGED stopped

Stop ==
  /\ ~stopped
  /\ stopped' = TRUE
  /\ UNCHANGED <<running, asked, forced>>

Next == Launch \/ Ask \/ Force \/ (\E p \in Pids : End(p)) \/ Stop

Spec == Init /\ [][Next]_vars
=============================================================================
