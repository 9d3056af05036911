----------------------------- MODULE Supervisor -----------------------------
(***************************************************************************)
(* The service wrapper of ServiceProcess.cpp on Linux: the process monitor *)
(* thread, which launches the application whenever the pid it remembers    *)
(* does not exist; the health monitor thread, which terminates the         *)
(* application after repeated failed health tests; the signal handler,     *)
(* which passes signals on; and the static child_process_pid they share    *)
(* without a lock.                                                         *)
(*                                                                         *)
(* Around them, the operating system: the application runs and ends when   *)
(* it likes, unrelated processes come and go, pids are handed out again.   *)
(* A sleep of the code may end at any moment, so the model holds for all   *)
(* values of its intervals; what depends on their lengths is not stated    *)
(* here.                                                                   *)
(***************************************************************************)
EXTENDS Integers, FiniteSets, HttpHealth

CONSTANTS
  Pids,                 \* the pids fork() may return
  EnablePIDCheck,       \* wrapper.ping.enablePIDCheck
  EnableHealthCheck,    \* wrapper.ping.enableHealthCheck
  HealthConfigComplete, \* every wrapper.app.* key is in the configuration
  RetryAttemptCount,    \* wrapper.ping.healthCheckRetryAttemptCount
  ShutdownTimeout,      \* wrapper.shutdown.timeout
  ContentType,          \* wrapper.app.healthAPI.responseContentType
  Replies,              \* what the application's health API may answer
  LaunchMayFail,        \* pipe() or fork() may fail
  PidRecycling,         \* a pid the wrapper still holds may be handed out again
  MaxOthers             \* a bound: unrelated processes alive at once

ASSUME PidsAssumption == 0 \notin Pids /\ -1 \notin Pids
ASSUME TimeoutAssumption == RetryAttemptCount \in Nat /\ ShutdownTimeout \in Nat
ASSUME SwitchAssumption ==
  {EnablePIDCheck, EnableHealthCheck, HealthConfigComplete,
   LaunchMayFail, PidRecycling} \subseteq BOOLEAN
ASSUME RepliesAssumption == Replies \subseteq Texts

NoProcess == 0     \* the initial value of child_process_pid
Failed    == -1    \* what the launch returns when pipe() or fork() fails
Signals   == {"HUP", "INT", "KILL", "TERM"}

VARIABLES
  wrapper,            \* the wrapper process: "starting" until run() has made
                      \* its threads, "exiting" once some thread is in exit()
  child_process_pid,  \* ServiceProcess::child_process_pid
  pm,                 \* where the process monitor thread is
  launched,           \* its launch call's result, until it is published
  hm,                 \* where the health monitor thread is
  healthCheckCounter, \* its counter of failed tests in a row
  pid,                \* terminateApplication's own copy of the pid
  counter,            \* terminateApplication's counter of 3-second waits
  apps,               \* pids of live processes the wrapper launched
  others,             \* pids of live unrelated processes
  got,                \* the signals each live process has been sent
  pending             \* signals on their way to the wrapper

vars == <<wrapper, child_process_pid, pm, launched, hm, healthCheckCounter,
          pid, counter, apps, others, got, pending>>
pmVars == <<child_process_pid, pm, launched>>
hmVars == <<hm, healthCheckCounter, pid, counter>>
osVars == <<apps, others, got>>

Live == apps \cup others

\* The bound healthCheckCounter reaches: a retry count of 0 counts as 1.
MaxFailures == IF RetryAttemptCount = 0 THEN 1 ELSE RetryAttemptCount

TypeOK ==
  /\ wrapper \in {"starting", "running", "exiting", "gone"}
  /\ child_process_pid \in Pids \cup {NoProcess, Failed}
  /\ pm \in {"off", "sleep", "launch", "publish"}
  /\ launched \in Pids \cup {NoProcess, Failed}
  /\ hm \in {"off", "startup", "sleep", "terminate", "interrupt", "wait", "grace"}
  /\ healthCheckCounter \in 0..MaxFailures
  /\ pid \in Pids \cup {NoProcess, Failed}
  /\ counter \in 0..(ShutdownTimeout + 1)
  /\ apps \subseteq Pids
  /\ others \subseteq Pids
  /\ got \in [Pids -> SUBSET Signals]
  /\ pending \subseteq {"HUP", "TERM"}

\* (A bug to be caught: the pid starts as -1, "no process yet".)
InitMutant ==
  /\ wrapper = "starting" /\ child_process_pid = Failed /\ pm = "off"
  /\ launched = NoProcess /\ hm = "off" /\ healthCheckCounter = 0
  /\ pid = NoProcess /\ counter = 0 /\ apps = {} /\ others = {}
  /\ got = [p \in Pids |-> {}] /\ pending = {}

Init ==
  /\ wrapper = "starting"
  /\ child_process_pid = NoProcess
  /\ pm = "off"
  /\ launched = NoProcess
  /\ hm = "off"
  /\ healthCheckCounter = 0
  /\ pid = NoProcess
  /\ counter = 0
  /\ apps = {}
  /\ others = {}
  /\ got = [p \in Pids |-> {}]
  /\ pending = {}

-----------------------------------------------------------------------------
(* kill(2).  Pid 0 is the caller's own process group, which the launched   *)
(* application has left with setsid(); pid -1 is every process but the     *)
(* caller.                                                                 *)

Hit(target) == CASE target = NoProcess -> {}
                 [] target = Failed    -> Live
                 [] OTHER              -> {target} \cap Live

\* CommonUtil::ifProcessWithPIDExist: kill(pid, 0) = 0.
ifProcessWithPIDExist(target) == target \in {NoProcess, Failed} \cup Live

Sent(target, signal) ==
  [p \in Pids |-> IF p \in Hit(target) THEN got[p] \cup {signal} ELSE got[p]]

\* The kernel avoids a pid it has just used for as long as it can.
FreshPids ==
  Pids \ (Live \cup IF PidRecycling THEN {} ELSE {child_process_pid, launched, pid})

ThreadsRun == wrapper \in {"running", "exiting"}

-----------------------------------------------------------------------------
(* ServiceProcess::run, after the handlers are installed.                  *)

\* With neither check enabled run() returns, and main() with it.
RunThreads ==
  /\ wrapper = "starting"
  /\ wrapper' = IF EnablePIDCheck \/ EnableHealthCheck THEN "running" ELSE "exiting"
  /\ pm' = IF EnablePIDCheck THEN "sleep" ELSE "off"
  /\ hm' = IF EnableHealthCheck THEN "startup" ELSE "off"
  /\ UNCHANGED <<child_process_pid, launched, healthCheckCounter, pid, counter,
                 apps, others, got, pending>>

-----------------------------------------------------------------------------
(* ServiceProcess::processMonitorThread and the launch it calls.  A check  *)
(* that finds the process alive changes nothing.                           *)

\* (A bug to be caught: only the first launch is looked for.)
PMFindsDeadMutant ==
  /\ ThreadsRun /\ pm = "sleep" /\ child_process_pid = NoProcess
  /\ pm' = "launch"
  /\ UNCHANGED <<wrapper, child_process_pid, launched, hmVars, osVars, pending>>

PMFindsDead ==
  /\ ThreadsRun
  /\ pm = "sleep"
  /\ \/ child_process_pid = NoProcess
     \/ ~ifProcessWithPIDExist(child_process_pid)
  /\ pm' = "launch"
  /\ UNCHANGED <<wrapper, child_process_pid, launched, hmVars, osVars, pending>>

\* fork(): the application exists from here on, its pid in a local variable.
PMForks ==
  /\ ThreadsRun
  /\ pm = "launch"
  /\ \E p \in FreshPids :
       /\ apps' = apps \cup {p}
       /\ got' = [got EXCEPT ![p] = {}]
       /\ launched' = p
  /\ pm' = "publish"
  /\ UNCHANGED <<wrapper, child_process_pid, hmVars, others, pending>>

PMLaunchFails ==
  /\ ThreadsRun
  /\ pm = "launch"
  /\ LaunchMayFail
  /\ launched' = Failed
  /\ pm' = "publish"
  /\ UNCHANGED <<wrapper, child_process_pid, hmVars, osVars, pending>>

\* (A bug to be caught: the launched pid is not kept.)
PMPublishesMutant ==
  /\ ThreadsRun /\ pm = "publish"
  /\ launched' = NoProcess /\ pm' = "sleep"
  /\ UNCHANGED <<wrapper, child_process_pid, hmVars, osVars, pending>>

\* The assignment to the static, which does not look at what was returned.
PMPublishes ==
  /\ ThreadsRun
  /\ pm = "publish"
  /\ child_process_pid' = launched
  /\ launched' = NoProcess
  /\ pm' = "sleep"
  /\ UNCHANGED <<wrapper, hmVars, osVars, pending>>

ProcessMonitor == PMFindsDead \/ PMForks \/ PMLaunchFails \/ PMPublishes

-----------------------------------------------------------------------------
(* ServiceProcess::healthMonitorThread and terminateApplication.           *)

\* After the first sleep the keys of the health API are read; a missing one
\* is exit(1), whatever is running by now.
HMReadsConfig ==
  /\ ThreadsRun
  /\ hm = "startup"
  /\ hm' = IF HealthConfigComplete THEN "sleep" ELSE "off"
  /\ wrapper' = IF HealthConfigComplete THEN wrapper ELSE "exiting"
  /\ UNCHANGED <<pmVars, healthCheckCounter, pid, counter, osVars, pending>>

\* (A bug to be caught: one failure too many is waited for.)
HMTestMutant(verdict) ==
  /\ ThreadsRun /\ hm = "sleep"
  /\ wrapper' = IF verdict = "crash" THEN "gone" ELSE wrapper
  /\ healthCheckCounter' = IF verdict = "fail" THEN healthCheckCounter + 1 ELSE 0
  /\ hm' = IF healthCheckCounter' > RetryAttemptCount THEN "terminate" ELSE "sleep"
  /\ UNCHANGED <<pmVars, pid, counter, osVars, pending>>

\* What becomes of a health test.  A crash of healthTest takes the wrapper with it.
HMTest(verdict) ==
  /\ ThreadsRun
  /\ hm = "sleep"
  /\ wrapper' = IF verdict = "crash" THEN "gone" ELSE wrapper
  /\ healthCheckCounter' = IF verdict = "fail" THEN healthCheckCounter + 1 ELSE 0
  /\ hm' = IF healthCheckCounter' > 0 /\ healthCheckCounter' >= RetryAttemptCount
           THEN "terminate" ELSE "sleep"
  /\ UNCHANGED <<pmVars, pid, counter, osVars, pending>>

HMTests ==
  \E reply \in Replies \cup {Empty} :
    \E verdict \in HealthTest(Fetch("POST", reply), ContentType) : HMTest(verdict)

\* terminateApplication copies the static once ...
HMCopiesPid ==
  /\ ThreadsRun
  /\ hm = "terminate"
  /\ pid' = child_process_pid
  /\ hm' = "interrupt"
  /\ UNCHANGED <<wrapper, pmVars, healthCheckCounter, counter, osVars, pending>>

\* ... and interrupts that pid.  SIGINT to its own group ends the wrapper,
\* unless it was started with SIGINT ignored, as a shell starts background jobs.
HMInterrupts ==
  /\ ThreadsRun
  /\ hm = "interrupt"
  /\ got' = Sent(pid, "INT")
  /\ wrapper' \in IF pid = NoProcess THEN {wrapper, "gone"} ELSE {wrapper}
  /\ counter' = 0
  /\ hm' = "wait"
  /\ UNCHANGED <<pmVars, healthCheckCounter, pid, apps, others, pending>>

\* while (counter * 3 < timeout) and the process is still there: 3 seconds more.
HMWaits ==
  /\ ThreadsRun
  /\ hm = "wait"
  /\ counter * 3 < ShutdownTimeout
  /\ ifProcessWithPIDExist(pid)
  /\ counter' = counter + 1
  /\ UNCHANGED <<wrapper, pmVars, hm, healthCheckCounter, pid, osVars, pending>>

HMFindsGone ==
  /\ ThreadsRun
  /\ hm = "wait"
  /\ counter * 3 < ShutdownTimeout
  /\ ~ifProcessWithPIDExist(pid)
  /\ hm' = "grace"
  /\ pid' = NoProcess
  /\ counter' = 0
  /\ UNCHANGED <<wrapper, pmVars, healthCheckCounter, osVars, pending>>

\* (Bugs to be caught: whatever child_process_pid names by now is killed; the
\* process is asked once more instead.)
HMKillsMutant ==
  /\ ThreadsRun /\ hm = "wait" /\ counter * 3 >= ShutdownTimeout
  /\ got' = Sent(child_process_pid, "KILL")
  /\ wrapper' = IF child_process_pid = NoProcess THEN "gone" ELSE wrapper
  /\ hm' = "grace" /\ pid' = NoProcess /\ counter' = 0
  /\ UNCHANGED <<pmVars, healthCheckCounter, apps, others, pending>>

HMKillsPolitely ==
  /\ ThreadsRun /\ hm = "wait" /\ counter * 3 >= ShutdownTimeout
  /\ got' = Sent(pid, "TERM")
  /\ hm' = "grace" /\ pid' = NoProcess /\ counter' = 0
  /\ UNCHANGED <<wrapper, pmVars, healthCheckCounter, apps, others, pending>>

\* The time is up: SIGKILL, with no last look at whether it is needed.
HMKills ==
  /\ ThreadsRun
  /\ hm = "wait"
  /\ counter * 3 >= ShutdownTimeout
  /\ got' = Sent(pid, "KILL")
  /\ wrapper' = IF pid = NoProcess THEN "gone" ELSE wrapper
  /\ hm' = "grace"
  /\ pid' = NoProcess
  /\ counter' = 0
  /\ UNCHANGED <<pmVars, healthCheckCounter, apps, others, pending>>

\* (A bug to be caught: the counter is not reset after a termination.)
HMResumesMutant ==
  /\ ThreadsRun /\ hm = "grace" /\ hm' = "sleep"
  /\ UNCHANGED <<wrapper, pmVars, healthCheckCounter, pid, counter, osVars, pending>>

\* The startup sleep that follows a termination, and only a termination.
HMResumes ==
  /\ ThreadsRun
  /\ hm = "grace"
  /\ healthCheckCounter' = 0
  /\ hm' = "sleep"
  /\ UNCHANGED <<wrapper, pmVars, pid, counter, osVars, pending>>

HealthMonitor == \/ HMReadsConfig \/ HMTests \/ HMCopiesPid \/ HMInterrupts
                 \/ HMWaits \/ HMFindsGone \/ HMKills \/ HMResumes

-----------------------------------------------------------------------------
(* ServiceProcess::signal_handler_callback, and the exit() it may start.   *)

SendSignal(signal) ==
  /\ wrapper \in {"starting", "running"}
  /\ pending' = pending \cup {signal}
  /\ UNCHANGED <<wrapper, pmVars, hmVars, osVars>>

\* (A bug to be caught: the handler exits without passing the signal on.)
HandleTermMutant ==
  /\ wrapper \in {"starting", "running"} /\ "TERM" \in pending
  /\ pending' = pending \ {"TERM"} /\ wrapper' = "exiting"
  /\ UNCHANGED <<pmVars, hmVars, apps, others, got>>

\* exit(0) takes its time: the other threads run on until it is done.
HandleTerm ==
  /\ wrapper \in {"starting", "running"}
  /\ "TERM" \in pending
  /\ got' = Sent(child_process_pid, "TERM")
  /\ pending' = pending \ {"TERM"}
  /\ wrapper' = "exiting"
  /\ UNCHANGED <<pmVars, hmVars, apps, others>>

\* (A bug to be caught: the handler raises the signal again for its own
\* default action and leaves itself installed.)
HandleHupMutant ==
  /\ wrapper # "gone" /\ "HUP" \in pending
  /\ got' = Sent(child_process_pid, "HUP")
  /\ UNCHANGED <<wrapper, pmVars, hmVars, apps, others, pending>>

\* SIGHUP, and SIGTTIN and SIGTTOU, which are handled alike.  kill(0, SIGHUP)
\* sends the signal to the wrapper itself: it is pending again.
HandleHup ==
  /\ wrapper # "gone"
  /\ "HUP" \in pending
  /\ got' = Sent(child_process_pid, "HUP")
  /\ pending' = IF child_process_pid = NoProcess THEN pending ELSE pending \ {"HUP"}
  /\ UNCHANGED <<wrapper, pmVars, hmVars, apps, others>>

ExitCompletes ==
  /\ wrapper = "exiting"
  /\ wrapper' = "gone"
  /\ UNCHANGED <<pmVars, hmVars, osVars, pending>>

-----------------------------------------------------------------------------
(* The operating system.  SIGCHLD is ignored, so a process that has ended  *)
(* is gone at once, without a wait().                                      *)

\* The application ends: of itself, of a signal, or of a crash.
AppEnds(p) ==
  /\ p \in apps
  /\ apps' = apps \ {p}
  /\ got' = [got EXCEPT ![p] = {}]
  /\ UNCHANGED <<wrapper, pmVars, hmVars, others, pending>>

KilledAppEnds(p) == "KILL" \in got[p] /\ AppEnds(p)

OtherStarts(p) ==
  /\ Cardinality(others) < MaxOthers
  /\ p \in FreshPids
  /\ others' = others \cup {p}
  /\ got' = [got EXCEPT ![p] = {}]
  /\ UNCHANGED <<wrapper, pmVars, hmVars, apps, pending>>

OtherEnds(p) ==
  /\ p \in others
  /\ others' = others \ {p}
  /\ got' = [got EXCEPT ![p] = {}]
  /\ UNCHANGED <<wrapper, pmVars, hmVars, apps, pending>>

-----------------------------------------------------------------------------
Signalled == \/ \E signal \in {"HUP", "TERM"} : SendSignal(signal)
             \/ HandleTerm \/ HandleHup

System == \E p \in Pids : AppEnds(p) \/ OtherStarts(p) \/ OtherEnds(p)

Next == \/ RunThreads \/ ProcessMonitor \/ HealthMonitor
        \/ Signalled \/ ExitCompletes \/ System

\* The kernel schedules every thread of the wrapper, delivers signals, lets
\* exit() end and ends what it was told to kill.  Nothing obliges anyone to
\* send a signal, or the application to end when it is only asked to.
Fairness == /\ WF_vars(RunThreads)
            /\ WF_vars(ProcessMonitor)
            /\ WF_vars(HealthMonitor)
            /\ WF_vars(HandleTerm)
            /\ WF_vars(HandleHup)
            /\ WF_vars(ExitCompletes)
            /\ \A p \in Pids : WF_vars(KilledAppEnds(p))

Spec == Init /\ [][Next]_vars

FairSpec == Spec /\ Fairness

-----------------------------------------------------------------------------
\* The wrapper never has two applications alive: it launches another only
\* when the last one it launched is dead, also across failed launches, pids
\* handed out again and terminations in progress.
SingleApplication == \A p, q \in apps : p = q

\* Between two launches the live application is the one child_process_pid
\* names; during a launch there is none but the one being launched.
AppTracked ==
  /\ pm \in {"off", "sleep"} => apps \subseteq {child_process_pid}
  /\ pm = "launch" => apps = {}
  /\ pm = "publish" => apps \subseteq {launched}

\* No unrelated process is ever sent a signal by the wrapper.
StrangersSpared == \A p \in others : got[p] = {}

\* The application is killed by force only after it was asked to end.
KilledOnlyAfterAsked == \A p \in apps : "KILL" \in got[p] => "INT" \in got[p]

\* A SIGTERM handled at any moment but the one between fork() and the
\* publication of the new pid is passed on to every live application.
SigtermReachesApp ==
  [][("TERM" \in pending /\ "TERM" \notin pending' /\ pm # "publish")
     => \A p \in apps : "TERM" \in got'[p]]_vars

\* The wrapper ends by exit() alone: it never signals itself to death.
EndsByExitOnly == [][wrapper' = "gone" => wrapper = "exiting"]_wrapper

\* An application that is gone is launched again while the wrapper runs.
Relaunch == (apps = {}) ~> (apps # {} \/ wrapper \in {"exiting", "gone"})

\* An application the health monitor has asked to end does end, of itself or
\* killed, unless the wrapper ends first.
AskedAppEnds ==
  \A p \in Pids : (p \in apps /\ "INT" \in got[p])
                    ~> ("INT" \notin got[p] \/ wrapper \in {"exiting", "gone"})

\* A hangup that arrives before the first launch is sent by the handler to
\* the wrapper itself, over and over; the storm ends with the launch.
HangupPasses == ("HUP" \in pending) ~> ("HUP" \notin pending \/ wrapper = "gone")

\* A wrapper that has ended leaves no application that was not told to end.
NoOrphan == wrapper = "gone" => \A p \in apps : "TERM" \in got[p]

\* An application whose every answer is the expected one is never asked to end.
HealthyAppSpared ==
  (\A r \in Replies : HealthTest(r, ContentType) = {"pass"})
    => \A p \in apps : "INT" \notin got[p]

=============================================================================
