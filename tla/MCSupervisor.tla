---------------------------- MODULE MCSupervisor ----------------------------
\* Small instances of Supervisor.
EXTENDS Supervisor, TLC

HealthyReply == [short |-> FALSE, code |-> 200, body |-> "expected"]

MCHealthyReplies == {HealthyReply}

\* Pids are interchangeable; used by the runs without liveness properties.
MCSymmetry == Permutations(Pids)
=============================================================================
