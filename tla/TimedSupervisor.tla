-------------------------- MODULE TimedSupervisor --------------------------
(***************************************************************************)
(* The service wrapper in time: the two monitor threads of Supervisor with *)
(* the lengths of their sleeps, and the health test of HealthProbe as the  *)
(* dialogue it is, with the limits of its blocking calls.  Supervisor lets *)
(* a sleep end at any moment; here the intervals of the configuration are  *)
(* numbers of seconds, and what depends on them is stated.                 *)
(*                                                                         *)
(* Only sleep, connect() and recv() take time; every other step is taken   *)
(* in the second it is due.  No signal is sent to the wrapper, a launch    *)
(* does not fail, no key of the health API is missing, and there are no    *)
(* unrelated processes: what these do is the subject of Supervisor.  The   *)
(* application answers the probe, falls silent and ends when it likes.     *)
(***************************************************************************)
EXTENDS HealthProbe, FiniteSets

CONSTANTS
  PidCheckInterval,    \* wrapper.ping.pidCheckInterval
  HealthCheckInterval, \* wrapper.ping.healthCheckInterval
  StartupTimeout,      \* wrapper.startup.timeout
  ConnectTimeout,      \* how long the kernel tries to connect: the code sets no limit
  \* and those of Supervisor:
  Pids, EnablePIDCheck, EnableHealthCheck, HealthConfigComplete, RetryAttemptCount,
  ShutdownTimeout, LaunchMayFail, PidRecycling, MaxOthers

\* With an interval of 0 a thread never sleeps and no time passes.
ASSUME IntervalAssumption ==
  /\ {PidCheckInterval, HealthCheckInterval, ReceiveTimeout} \subseteq Nat \ {0}
  /\ {StartupTimeout, ConnectTimeout} \subseteq Nat

ASSUME SupervisorAssumption ==
  /\ {RetryAttemptCount, ShutdownTimeout} \subseteq Nat
  /\ 0 \notin Pids /\ -1 \notin Pids
  /\ HealthConfigComplete
  /\ {EnablePIDCheck, EnableHealthCheck, HealthConfigComplete,
      LaunchMayFail, PidRecycling} \subseteq BOOLEAN

VARIABLES
  wrapper, child_process_pid, pm, launched, hm, healthCheckCounter,
  pid, counter, apps, others, got, pending,  \* those of Supervisor
  pmTimer,  \* seconds left of the process monitor's sleep
  hmTimer,  \* seconds left of the health monitor's sleep
  ioTimer,  \* seconds left of the connect() or recv() the probe is in
  down,     \* seconds for which no application has been alive
  unfit,    \* seconds for which the live application, which has not been
            \* asked to end, has passed no health test
  sinceAsk  \* seconds since an application was last asked to end

S == INSTANCE Supervisor

supervisorVars == <<wrapper, child_process_pid, pm, launched, hm, healthCheckCounter,
                    pid, counter, apps, others, got, pending>>
timers == <<pmTimer, hmTimer, ioTimer>>
clocks == <<down, unfit, sinceAsk>>
timedVars == <<vars, supervisorVars, timers, clocks>>

\* How long one probe can take, and how long an application that passes no
\* test can be left alone: the wait for its predecessor may have 3 seconds to
\* go when it is launched, and the startup sleep follows it.
ProbeTime == ConnectTimeout + (Pieces + 1) * ReceiveTimeout
Patience  == 3 + StartupTimeout + S!MaxFailures * (HealthCheckInterval + ProbeTime)

\* Two requests to end are never closer than this.
Respite == StartupTimeout + S!MaxFailures * HealthCheckInterval

\* A bound: the clocks stop where they no longer matter.
ClockBound == Patience + ShutdownTimeout + 4

TimedTypeOK ==
  /\ TypeOK /\ S!TypeOK
  /\ pmTimer \in 0..PidCheckInterval
  /\ hmTimer \in 0..(3 + StartupTimeout + HealthCheckInterval)
  /\ ioTimer \in 0..(ConnectTimeout + ReceiveTimeout)
  /\ down \in 0..ClockBound /\ unfit \in 0..ClockBound /\ sinceAsk \in 0..ClockBound

TimedInit ==
  /\ Init /\ S!Init
  /\ pmTimer = 0 /\ hmTimer = 0 /\ ioTimer = 0
  /\ down = 0 /\ unfit = 0 /\ sinceAsk = ClockBound

-----------------------------------------------------------------------------
\* (A bug to be caught: the health monitor does not wait for the application
\* to have been started.)
RunThreadsMutant ==
  /\ S!RunThreads
  /\ pmTimer' = PidCheckInterval /\ hmTimer' = 0
  /\ UNCHANGED <<vars, ioTimer, clocks>>

\* Both threads begin with a sleep.
RunThreads ==
  /\ S!RunThreads
  /\ pmTimer' = PidCheckInterval
  /\ hmTimer' = StartupTimeout
  /\ UNCHANGED <<vars, ioTimer, clocks>>

(* The process monitor sleeps between two looks at the process.            *)

PMFindsAlive ==
  /\ S!ThreadsRun
  /\ pm = "sleep" /\ pmTimer = 0
  /\ child_process_pid # S!NoProcess
  /\ S!ifProcessWithPIDExist(child_process_pid)
  /\ pmTimer' = PidCheckInterval
  /\ UNCHANGED <<vars, supervisorVars, hmTimer, ioTimer, clocks>>

PMFindsDead ==
  /\ pmTimer = 0
  /\ S!PMFindsDead
  /\ UNCHANGED <<vars, timers, clocks>>

PMForks ==
  /\ S!PMForks
  /\ down' = 0
  /\ unfit' = 0
  /\ UNCHANGED <<vars, timers, sinceAsk>>

\* (A bug to be caught: the process monitor, too, gives the application its
\* startup time.)
PMPublishesMutant ==
  /\ S!PMPublishes
  /\ pmTimer' = PidCheckInterval + StartupTimeout
  /\ UNCHANGED <<vars, hmTimer, ioTimer, clocks>>

PMPublishes ==
  /\ S!PMPublishes
  /\ pmTimer' = PidCheckInterval
  /\ UNCHANGED <<vars, hmTimer, ioTimer, clocks>>

ProcessMonitor == PMFindsAlive \/ PMFindsDead \/ PMForks \/ PMPublishes

-----------------------------------------------------------------------------
(* The health monitor: one probe after each sleep.                         *)

HMReadsConfig ==
  /\ hmTimer = 0
  /\ S!HMReadsConfig
  /\ hmTimer' = HealthCheckInterval
  /\ UNCHANGED <<vars, pmTimer, ioTimer, clocks>>

ProbeStarts ==
  /\ S!ThreadsRun
  /\ hm = "sleep" /\ hmTimer = 0
  /\ Start
  /\ ioTimer' = ConnectTimeout
  /\ UNCHANGED <<supervisorVars, pmTimer, hmTimer, clocks>>

\* SO_RCVTIMEO limits each recv() by itself.
ProbeReceives ==
  /\ \/ Send
     \/ RecvPiece
  /\ ioTimer' = ReceiveTimeout
  /\ UNCHANGED <<supervisorVars, pmTimer, hmTimer, clocks>>

ProbeGoesOn ==
  /\ \/ SetupFails \/ SetupConnects \/ RecvEnd \/ Exit
     \/ ioTimer = 0 /\ RecvTimeout
  /\ UNCHANGED <<supervisorVars, timers, clocks>>

\* (A bug to be caught: the first failed test is the last.)
ProbeIsJudgedMutant ==
  /\ Judge
  /\ hm' = IF verdict' = "fail" THEN "terminate" ELSE "sleep"
  /\ UNCHANGED <<wrapper, child_process_pid, pm, launched, healthCheckCounter,
                 pid, counter, apps, others, got, pending, timers, clocks>>

\* The verdict is what Supervisor's health test comes to.
ProbeIsJudged ==
  /\ Judge
  /\ S!HMTest(verdict')
  /\ hmTimer' = IF hm' = "sleep" THEN HealthCheckInterval ELSE 0
  /\ unfit' = IF verdict' = "pass" THEN 0 ELSE unfit
  /\ UNCHANGED <<pmTimer, ioTimer, down, sinceAsk>>

HMCopiesPid ==
  /\ S!HMCopiesPid
  /\ UNCHANGED <<vars, timers, clocks>>

HMInterrupts ==
  /\ S!HMInterrupts
  /\ sinceAsk' = 0
  /\ UNCHANGED <<vars, timers, down, unfit>>

\* (A bug to be caught: the waits are counted as 3 seconds and last one.)
HMWaitsMutant ==
  /\ hmTimer = 0 /\ S!HMWaits /\ hmTimer' = 1
  /\ UNCHANGED <<vars, pmTimer, ioTimer, clocks>>

HMWaits ==
  /\ hmTimer = 0
  /\ S!HMWaits
  /\ hmTimer' = 3
  /\ UNCHANGED <<vars, pmTimer, ioTimer, clocks>>

\* (A bug to be caught: no startup time after a termination.)
HMGivesUpMutant ==
  /\ hmTimer = 0 /\ (S!HMFindsGone \/ S!HMKills)
  /\ hmTimer' = 0
  /\ UNCHANGED <<vars, pmTimer, ioTimer, clocks>>

\* terminateApplication returns, and the startup sleep follows.
HMGivesUp ==
  /\ hmTimer = 0
  /\ S!HMFindsGone \/ S!HMKills
  /\ hmTimer' = StartupTimeout
  /\ UNCHANGED <<vars, pmTimer, ioTimer, clocks>>

HMResumes ==
  /\ hmTimer = 0
  /\ S!HMResumes
  /\ hmTimer' = HealthCheckInterval
  /\ UNCHANGED <<vars, pmTimer, ioTimer, clocks>>

HealthMonitor ==
  \/ HMReadsConfig \/ ProbeStarts \/ ProbeReceives \/ ProbeGoesOn \/ ProbeIsJudged
  \/ HMCopiesPid \/ HMInterrupts \/ HMWaits \/ HMGivesUp \/ HMResumes

-----------------------------------------------------------------------------
(* The application, and time.                                              *)

AppAnswers == Application /\ UNCHANGED <<supervisorVars, timers, clocks>>

AppEnds ==
  /\ \E p \in Pids : S!AppEnds(p)
  /\ down' = 0
  /\ unfit' = 0
  /\ UNCHANGED <<vars, timers, sinceAsk>>

KillIsDue == \E p \in apps : "KILL" \in got[p]

ThreadIsDue ==
  \/ wrapper = "starting"
  \/ pm \in {"launch", "publish"}
  \/ pm = "sleep" /\ pmTimer = 0
  \/ hm \in {"terminate", "interrupt"}
  \/ hm # "off" /\ pc = "idle" /\ hmTimer = 0
  \/ pc \in {"send", "exit", "judge"}
  \/ pc \in {"setup", "receive"} /\ ioTimer = 0
  \/ pc = "receive" /\ (inflight \/ peer = "closed")

Later(timer) == IF timer = 0 THEN 0 ELSE timer - 1

Older(clock, runs) ==
  IF runs /\ clock < ClockBound THEN clock + 1 ELSE clock

\* A second passes, while there is a wrapper to count it.
Tick ==
  /\ wrapper # "gone"
  /\ ~KillIsDue /\ ~ThreadIsDue
  /\ pmTimer' = Later(pmTimer)
  /\ hmTimer' = Later(hmTimer)
  /\ ioTimer' = Later(ioTimer)
  /\ down' = Older(down, apps = {})
  /\ unfit' = Older(unfit, \E p \in apps : "INT" \notin got[p])
  /\ sinceAsk' = Older(sinceAsk, TRUE)
  /\ UNCHANGED <<vars, supervisorVars>>

WrapperOrTime == RunThreads \/ ProcessMonitor \/ HealthMonitor \/ Tick

TimedNext == WrapperOrTime \/ AppAnswers \/ AppEnds

\* Time passes, the threads run when they are due, and what was killed ends.
TimedSpec ==
  /\ TimedInit /\ [][TimedNext]_timedVars
  /\ WF_timedVars(WrapperOrTime)
  /\ WF_timedVars(KillIsDue /\ AppEnds)

-----------------------------------------------------------------------------
\* With its sleeps timed and its health test taken apart the wrapper still
\* does nothing that Supervisor does not do: whatever is shown there of all
\* sleeps and all verdicts holds of these.
ImplementsSupervisor == S!Spec

\* An application that ended is replaced within one interval of the process
\* monitor, whatever the health monitor is doing meanwhile.
RelaunchedInTime == EnablePIDCheck => down <= PidCheckInterval

\* The process monitor has launched an application before the health monitor
\* gives the first one up.
LaunchComesFirst == EnablePIDCheck /\ PidCheckInterval < Respite

\* An application that passes no health test is asked to end in time, also
\* one launched while the health monitor was still busy with another.  A
\* reply must have an end and a pid name one process; and the first launch
\* must come first, or the health monitor waits for pid 0, which is there
\* for as long as anything is, and leaves the application alone meanwhile.
AskedInTime ==
  (/\ EnableHealthCheck /\ LaunchComesFirst
   /\ Pieces > 0 /\ ~PidRecycling)
     => unfit <= Patience

\* An application that was asked to end has its shutdown time, to the second,
\* and not 3 seconds more before it is killed.
KilledOnTime ==
  [][\A p \in apps :
       /\ "KILL" \in got'[p] /\ "KILL" \notin got[p] => sinceAsk >= ShutdownTimeout
       /\ p \in apps' /\ "INT" \in got[p] /\ "KILL" \notin got[p]
            => sinceAsk < ShutdownTimeout + 3]_timedVars

\* Two requests to end are never closer than a startup time and a full series of
\* tests: what an application was asked to end for does not count against the
\* one that comes after the wait.  (The counter outlives an application that ends
\* of itself: its last failures do count against the next one.)
AsksApart == [][hm = "interrupt" /\ hm' = "wait" => sinceAsk >= Respite]_timedVars

\* The health monitor never interrupts pid 0, its own process group, when the
\* first launch comes first.
GroupSpared == LaunchComesFirst => (hm = "interrupt" => pid # S!NoProcess)

\* Nothing a wrapper does of itself ends it, however many applications it gives
\* up and however they answer: no test crashes it and no signal it sends is one
\* to itself.
WrapperSurvives == LaunchComesFirst => wrapper \in {"starting", "running"}

\* (Not so: the time is that of one recv().)  As time goes by a health test comes
\* to an end, and one that the application does not answer within
\* wrapper.ping.healthCheckReceiveTimeout is a failed one.
TestEnds == []<><<Tick>>_timedVars => ProbeEnds

=============================================================================
