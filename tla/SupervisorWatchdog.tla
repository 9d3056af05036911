------------------------- MODULE SupervisorWatchdog -------------------------
(***************************************************************************)
(* The supervisor implements the watchdog: what the live applications have *)
(* been sent is what they have been asked and forced to do.  SIGTERM and   *)
(* SIGHUP, which the wrapper only passes on, are steps of the supervisor   *)
(* the watchdog does not see.                                              *)
(***************************************************************************)
EXTENDS Supervisor

Asked  == {p \in apps : "INT" \in got[p]}
Forced == {p \in apps : "KILL" \in got[p]}

W == INSTANCE Watchdog WITH running <- apps, asked <- Asked,
                            forced <- Forced, stopped <- (wrapper = "gone")

\* Every behaviour of the supervisor, seen through that mapping, is one of
\* the watchdog, provided the kernel does not hand out again a pid the
\* wrapper still holds.
ImplementsWatchdog == W!Spec
=============================================================================
