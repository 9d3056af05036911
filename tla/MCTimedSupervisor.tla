------------------------- MODULE MCTimedSupervisor -------------------------
\* Small instances of TimedSupervisor.
EXTENDS TimedSupervisor

Answer(code, body) == [short |-> FALSE, code |-> code, body |-> body]

MCReplies == {Answer(200, "expected"), Answer(NoCode, "noKey")}

=============================================================================
