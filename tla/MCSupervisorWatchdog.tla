------------------------ MODULE MCSupervisorWatchdog ------------------------
EXTENDS SupervisorWatchdog, TLC

MCHealthyReplies == {[short |-> FALSE, code |-> 200, body |-> "expected"]}
=============================================================================
