----------------------------- MODULE WinService -----------------------------
(***************************************************************************)
(* The Windows service: the process winservice/WinService.cpp's main makes *)
(* of the wrapper, with the dispatcher thread that runs control handlers,  *)
(* the ServiceMain thread that runs CServiceBase::Start, and the worker    *)
(* thread that runs ServiceProcess::run, of which the process monitor and  *)
(* its application are kept; and the command-line tool (CServiceInstaller) *)
(* with which operators install, start, stop and remove the service.       *)
(*                                                                         *)
(* Between them is the service control manager (SCM), modelled by what its *)
(* calls are documented to do: it starts one process for a stopped         *)
(* service, sends STOP only to a service that has reported RUNNING, holds  *)
(* ControlService until the handler has returned, and removes a service    *)
(* marked for deletion once it is stopped and nobody has it open.          *)
(*                                                                         *)
(* The constructor accepts STOP and SHUTDOWN only, so Pause and Continue   *)
(* are never called.  No OnStart, OnStop or OnShutdown throws, so the      *)
(* catch blocks of Start, Stop and Shutdown are not entered.  The health   *)
(* monitor is left out of the worker, so a configuration may not switch it *)
(* on; every process and every run of the tool reads the same file.  Pids  *)
(* are not reused.                                                         *)
(***************************************************************************)
EXTENDS Config, FiniteSets

CONSTANTS
  Procs,   \* the service processes that may come to exist: a bound
  Tools,   \* those who run the command-line tool
  Files,   \* the configuration files there may be: one of this sequence
  Nobody   \* no process

ASSUME WinServiceAssumption ==
  /\ Nobody \notin Procs
  /\ Files \in Seq(Seq(Lines))

VARIABLES
  file,         \* the configuration file there is
  entry,        \* the service in the SCM's database
  state,        \* dwCurrentState, as last reported to the SCM
  checkPoint,   \* dwCheckPoint, as last reported
  current,      \* the process the SCM has for the service, until it is stopped
  proc,         \* where main() is in each service process
  start,        \* where its ServiceMain thread is
  handler,      \* the control its dispatcher thread is handling
  worker,       \* its worker thread
  dwCheckPoint, \* the static of SetServiceStatus
  child,        \* whether child_process_pid of each process is an application's
  app,          \* whether the application it launched last is alive
  tool,         \* what each operator's tool is doing
  asked,        \* the process that tool has had sent a STOP
  oldCheckPoint, \* RunService's dwOldCheckPoint
  waited        \* the seconds since its dwStartTickCount, rounded up

vars == <<file, entry, state, checkPoint, current, proc, start, handler, worker,
          dwCheckPoint, child, app, tool, asked, oldCheckPoint, waited>>
scmVars  == <<state, checkPoint, current>>
procVars == <<proc, start, handler, worker, dwCheckPoint, child, app>>
appVars  == <<child, app>>
pollVars == <<oldCheckPoint, waited>>
toolVars == <<tool, asked, pollVars>>

Maps == ReadConfigs(Files)

\* What the worker reads, in run() and in the threads run() makes.
WorkerKeys(map) == RunKeys \cup (IF Has(map, RunKeys) THEN ThreadKeys(map) ELSE {})

\* The files main() gets past, those the worker does, those that make it a
\* process monitor, and those that make it no thread to wait for.
Bootable == {f \in DOMAIN Files : Has(Maps[f], WindowsBootKeys)}
Complete == {f \in DOMAIN Files : Has(Maps[f], WorkerKeys(Maps[f]))}
Monitored == {f \in DOMAIN Files : /\ Has(Maps[f], RunKeys \cup MonitorKeys)
                                  /\ Flag(Maps[f], "ping.enablePIDCheck")}
Threadless == {f \in Complete : /\ ~Flag(Maps[f], "ping.enablePIDCheck")
                                /\ ~Flag(Maps[f], "ping.enableHealthCheck")}

\* Which process comes next makes no difference.
Unborn == {p \in Procs : proc[p] = "unborn"}
NewProc == CHOOSE p \in Unborn : TRUE

Pending == {"START_PENDING", "STOP_PENDING"}

\* The seconds the SCM gives a process it starts for its first report.
ScmWaitHint == 2

\* dwWaitHint, as a query tells it: a service that has reported gave none.
WaitHint == IF state = "START_PENDING" /\ checkPoint = 0 THEN ScmWaitHint ELSE 0

\* A process reports at most twice that something is pending.
MaxCheckPoint == 2

TypeOK ==
  /\ file \in DOMAIN Files
  /\ entry \in {"absent", "installed", "deleted"}
  /\ state \in {"STOPPED", "RUNNING"} \cup Pending
  /\ checkPoint \in 0..MaxCheckPoint
  /\ current \in Procs \cup {Nobody}
  /\ proc \in [Procs -> {"unborn", "dispatching", "program", "ending", "dead"}]
  /\ start \in [Procs -> {"none", "registering", "pending", "onstart", "running", "done"}]
  /\ handler \in [Procs -> {"none", "stop", "onstop", "shutdown"}]
  /\ worker \in [Procs -> {"none", "failed", "runs"}]
  /\ dwCheckPoint \in [Procs -> 1..(MaxCheckPoint + 1)]
  /\ child \in [Procs -> BOOLEAN]
  /\ app \in [Procs -> BOOLEAN]
  /\ tool \in [Tools -> {"idle", "started", "polling", "stop", "stopping",
                         "remove", "removing", "delete"}]
  /\ asked \in [Tools -> Procs \cup {Nobody}]
  /\ oldCheckPoint \in [Tools -> 0..MaxCheckPoint]
  /\ waited \in [Tools -> 0..ScmWaitHint]

Init ==
  /\ file \in DOMAIN Files
  /\ entry = "absent"
  /\ state = "STOPPED"
  /\ checkPoint = 0
  /\ current = Nobody
  /\ proc = [p \in Procs |-> "unborn"]
  /\ start = [p \in Procs |-> "none"]
  /\ handler = [p \in Procs |-> "none"]
  /\ worker = [p \in Procs |-> "none"]
  /\ dwCheckPoint = [p \in Procs |-> 1]
  /\ child = [p \in Procs |-> FALSE]
  /\ app = [p \in Procs |-> FALSE]
  /\ tool = [t \in Tools |-> "idle"]
  /\ asked = [t \in Tools |-> Nobody]
  /\ oldCheckPoint = [t \in Tools |-> 0]
  /\ waited = [t \in Tools |-> 0]

-----------------------------------------------------------------------------
(* The service process.                                                    *)

\* (A bug to be caught: the check point counts every report.)
SetServiceStatusMutant(p, dwCurrentState) ==
  /\ state' = dwCurrentState
  /\ checkPoint' = IF dwCurrentState \in Pending THEN dwCheckPoint[p] ELSE 0
  /\ dwCheckPoint' = [dwCheckPoint EXCEPT ![p] = @ + 1]
  /\ current' = IF dwCurrentState = "STOPPED" THEN Nobody ELSE current

\* CServiceBase::SetServiceStatus.  The SCM forgets the process of a service
\* that has reported STOPPED.
SetServiceStatus(p, dwCurrentState) ==
  /\ state' = dwCurrentState
  /\ checkPoint' = IF dwCurrentState \in Pending THEN dwCheckPoint[p] ELSE 0
  /\ dwCheckPoint' =
       IF dwCurrentState \in Pending THEN [dwCheckPoint EXCEPT ![p] = @ + 1]
                                     ELSE dwCheckPoint
  /\ current' = IF dwCurrentState = "STOPPED" THEN Nobody ELSE current

\* ServiceMain registers the handler.
ServiceMain(p) ==
  /\ proc[p] = "dispatching"
  /\ start[p] = "registering"
  /\ start' = [start EXCEPT ![p] = "pending"]
  /\ UNCHANGED <<file, entry, scmVars, proc, handler, worker, dwCheckPoint, appVars, toolVars>>

\* (A bug to be caught: RUNNING is reported before OnStart.)
StartPendingMutant(p) ==
  /\ proc[p] = "dispatching" /\ start[p] = "pending"
  /\ start' = [start EXCEPT ![p] = "onstart"]
  /\ SetServiceStatus(p, "RUNNING")
  /\ UNCHANGED <<file, entry, proc, handler, worker, appVars, toolVars>>

\* Start, up to OnStart.
StartPending(p) ==
  /\ proc[p] = "dispatching"
  /\ start[p] = "pending"
  /\ start' = [start EXCEPT ![p] = "onstart"]
  /\ SetServiceStatus(p, "START_PENDING")
  /\ UNCHANGED <<file, entry, proc, handler, worker, appVars, toolVars>>

\* CreateThread of the worker; nobody looks at whether it succeeded.
OnStart(p) ==
  /\ proc[p] = "dispatching"
  /\ start[p] = "onstart"
  /\ start' = [start EXCEPT ![p] = "running"]
  /\ \E outcome \in {"failed", "runs"} : worker' = [worker EXCEPT ![p] = outcome]
  /\ UNCHANGED <<file, entry, scmVars, proc, handler, dwCheckPoint, appVars, toolVars>>

StartRunning(p) ==
  /\ proc[p] = "dispatching"
  /\ start[p] = "running"
  /\ start' = [start EXCEPT ![p] = "done"]
  /\ SetServiceStatus(p, "RUNNING")
  /\ UNCHANGED <<file, entry, proc, handler, worker, appVars, toolVars>>

\* (A bug to be caught: Stop reports STOPPED first and STOP_PENDING never.)
StopPendingMutant(p) ==
  /\ proc[p] = "dispatching" /\ handler[p] = "stop"
  /\ handler' = [handler EXCEPT ![p] = "onstop"]
  /\ SetServiceStatus(p, "STOPPED")
  /\ UNCHANGED <<file, entry, proc, start, worker, appVars, toolVars>>

StopPending(p) ==
  /\ proc[p] = "dispatching"
  /\ handler[p] = "stop"
  /\ handler' = [handler EXCEPT ![p] = "onstop"]
  /\ SetServiceStatus(p, "STOP_PENDING")
  /\ UNCHANGED <<file, entry, proc, start, worker, appVars, toolVars>>

\* (A bug to be caught: Stop ends without reporting STOPPED.)
StopEndsMutant(p) ==
  /\ proc[p] = "dispatching" /\ handler[p] = "onstop"
  /\ handler' = [handler EXCEPT ![p] = "none"]
  /\ UNCHANGED <<file, entry, scmVars, dwCheckPoint, proc, start, worker, appVars, toolVars>>

\* OnStop, which writes two log lines and leaves the worker thread and the
\* application alone, and the rest of Stop.  The dispatcher has no service
\* left and returns to main().
StopEnds(p) ==
  /\ proc[p] = "dispatching"
  /\ handler[p] = "onstop"
  /\ handler' = [handler EXCEPT ![p] = "none"]
  /\ proc' = [proc EXCEPT ![p] = "ending"]
  /\ SetServiceStatus(p, "STOPPED")
  /\ UNCHANGED <<file, entry, start, worker, appVars, toolVars>>

\* Shutdown reports nothing pending.
Shutdown(p) ==
  /\ proc[p] = "dispatching"
  /\ handler[p] = "shutdown"
  /\ handler' = [handler EXCEPT ![p] = "none"]
  /\ proc' = [proc EXCEPT ![p] = "ending"]
  /\ SetServiceStatus(p, "STOPPED")
  /\ UNCHANGED <<file, entry, start, worker, appVars, toolVars>>

\* Threads and variables of a process go with it; its application stays, and so
\* does the control that was never answered.
Dies(p) ==
  /\ proc' = [proc EXCEPT ![p] = "dead"]
  /\ start' = [start EXCEPT ![p] = "none"]
  /\ worker' = [worker EXCEPT ![p] = "none"]
  /\ dwCheckPoint' = [dwCheckPoint EXCEPT ![p] = 1]
  /\ child' = [child EXCEPT ![p] = FALSE]

\* The end of main(), wherever the worker thread is.
MainReturns(p) ==
  /\ proc[p] = "ending"
  /\ Dies(p)
  /\ UNCHANGED <<file, entry, scmVars, handler, app, toolVars>>

\* The process ends with its threads; the SCM notes that the service stopped.
Exits(p) ==
  /\ Dies(p)
  /\ IF current = p THEN state' = "STOPPED" /\ checkPoint' = 0 /\ current' = Nobody
                    ELSE UNCHANGED scmVars
  /\ UNCHANGED <<file, entry, handler, app, toolVars>>

\* A crash, or the exception ServiceMain throws when it cannot register its
\* handler.
Crashes(p) == proc[p] \in {"dispatching", "program"} /\ Exits(p)

\* (A bug to be caught: a missing key ends the worker thread only.)
KeyMissingMutant(p) ==
  /\ worker[p] = "runs" /\ file \notin Complete
  /\ worker' = [worker EXCEPT ![p] = "none"]
  /\ UNCHANGED <<file, entry, scmVars, proc, start, handler, dwCheckPoint, appVars, toolVars>>

\* exit(1) of findMapValueOrExit, in the worker.
KeyMissing(p) == worker[p] = "runs" /\ file \notin Complete /\ Exits(p)

\* run() has made no thread to wait for: so ends the worker thread of a service,
\* and main() where there is none.
RunReturns(p) ==
  /\ worker[p] = "runs"
  /\ file \in Threadless
  /\ IF proc[p] = "program" THEN Dies(p)
     ELSE /\ worker' = [worker EXCEPT ![p] = "none"]
          /\ UNCHANGED <<proc, start, dwCheckPoint, child>>
  /\ UNCHANGED <<file, entry, scmVars, handler, app, toolVars>>

Service(p) == \/ ServiceMain(p) \/ StartPending(p) \/ OnStart(p) \/ StartRunning(p)
              \/ StopPending(p) \/ StopEnds(p) \/ Shutdown(p) \/ MainReturns(p)
              \/ KeyMissing(p) \/ RunReturns(p)

-----------------------------------------------------------------------------
(* The worker's process monitor, and the application.                      *)

\* No process has a 0 or -1 for its pid.
IfProcessWithPIDExist(p) == child[p] /\ app[p]

\* run() makes the process monitor, which has read what it needs.
Monitors(p) == worker[p] = "runs" /\ file \in Monitored

MissesApp(p) == Monitors(p) /\ ~IfProcessWithPIDExist(p)

\* The monitor finds no process and launches one.
LaunchSucceeds(p) ==
  /\ MissesApp(p)
  /\ child' = [child EXCEPT ![p] = TRUE]
  /\ app' = [app EXCEPT ![p] = TRUE]
  /\ UNCHANGED <<file, entry, scmVars, proc, start, handler, worker, dwCheckPoint, toolVars>>

\* A pipe cannot be made (-1), or CreateProcess fails and leaves pi as it was
\* zeroed (0).
LaunchFails(p) ==
  /\ MissesApp(p)
  /\ child' = [child EXCEPT ![p] = FALSE]
  /\ UNCHANGED <<file, entry, scmVars, proc, start, handler, worker, dwCheckPoint, app,
                 toolVars>>

\* The application ends of itself; it may outlive its wrapper.
AppEnds(p) ==
  /\ app[p]
  /\ app' = [app EXCEPT ![p] = FALSE]
  /\ UNCHANGED <<file, entry, scmVars, proc, start, handler, worker, dwCheckPoint, child,
                 toolVars>>

\* Control-C or the like, at the console of a wrapper that was given "-run":
\* the handler leaves everything to the default one, which ends the wrapper; the
\* application at the same console gets the event too and does as it likes.
Interrupt(p) ==
  /\ proc[p] = "program"
  /\ Dies(p)
  /\ \E ends \in BOOLEAN : app' = [app EXCEPT ![p] = @ /\ ~ends]
  /\ UNCHANGED <<file, entry, scmVars, handler, toolVars>>

-----------------------------------------------------------------------------
(* The SCM.                                                                *)

\* The system goes down while the service runs.
SendShutdown(p) ==
  /\ current = p
  /\ state = "RUNNING"
  /\ handler[p] = "none"
  /\ handler' = [handler EXCEPT ![p] = "shutdown"]
  /\ UNCHANGED <<file, entry, scmVars, proc, start, worker, dwCheckPoint, appVars, toolVars>>

\* Only a tool at work holds a handle of the service.
Removal ==
  /\ entry = "deleted"
  /\ state = "STOPPED"
  /\ \A t \in Tools : tool[t] = "idle"
  /\ entry' = "absent"
  /\ UNCHANGED <<file, scmVars, procVars, toolVars>>

StopAccepted == state = "RUNNING" /\ handler[current] = "none"

\* Another control is being handled: ControlService waits for its turn.
StopWaits == state = "RUNNING" /\ handler[current] # "none"

-----------------------------------------------------------------------------
(* The command-line tool.  A call that fails before anything was changed   *)
(* ends the tool and is no step; so does main() when a key is missing.     *)

\* main(), up to the look at the arguments.
ToolReady(t) == tool[t] = "idle" /\ file \in Bootable

InstallService(t) ==
  /\ ToolReady(t)
  /\ entry = "absent"
  /\ entry' = "installed"
  /\ UNCHANGED <<file, scmVars, procVars, toolVars>>

\* StartService: the SCM makes the process, whose dispatcher calls ServiceMain.
RunService(t) ==
  /\ ToolReady(t)
  /\ entry = "installed"
  /\ state = "STOPPED"
  /\ state' = "START_PENDING"
  /\ Unborn # {}
  /\ proc' = [proc EXCEPT ![NewProc] = "dispatching"]
  /\ start' = [start EXCEPT ![NewProc] = "registering"]
  /\ current' = NewProc
  /\ tool' = [tool EXCEPT ![t] = "started"]
  /\ UNCHANGED <<file, entry, checkPoint, handler, worker, dwCheckPoint, appVars, asked,
                 pollVars>>

FirstQuery(t) ==
  /\ tool[t] = "started"
  /\ tool' = [tool EXCEPT ![t] = IF state = "START_PENDING" THEN "polling" ELSE "idle"]
  /\ oldCheckPoint' = [oldCheckPoint EXCEPT ![t] = checkPoint]
  /\ UNCHANGED <<file, entry, scmVars, procVars, asked, waited>>

\* A round of the loop: a sleep of a second, or more under load, and another
\* query, after which the time since the last new check point is held against
\* the hint.  (Beyond ScmWaitHint + 1 one time is as long as another.)
Poll(t) ==
  /\ tool[t] = "polling"
  /\ \E seconds \in 1..(ScmWaitHint + 1) :
       LET progress == checkPoint > oldCheckPoint[t]
           elapsed == IF progress THEN 0 ELSE waited[t] + seconds
           again == state = "START_PENDING" /\ elapsed <= WaitHint
       IN  /\ tool' = [tool EXCEPT ![t] = IF again THEN "polling" ELSE "idle"]
           /\ waited' = [waited EXCEPT ![t] = IF again THEN elapsed ELSE 0]
           /\ oldCheckPoint' = [oldCheckPoint EXCEPT ![t] =
                                  IF ~again THEN 0 ELSE IF progress THEN checkPoint ELSE @]
  /\ UNCHANGED <<file, entry, scmVars, procVars, asked>>

\* ControlService(SERVICE_CONTROL_STOP), by StopService and UninstallService.
Control(t, next) ==
  /\ StopAccepted
  /\ handler' = [handler EXCEPT ![current] = "stop"]
  /\ asked' = [asked EXCEPT ![t] = current]
  /\ tool' = [tool EXCEPT ![t] = next]
  /\ UNCHANGED <<file, entry, scmVars, proc, start, worker, dwCheckPoint, appVars,
                 pollVars>>

StopService(t) ==
  /\ ToolReady(t)
  /\ entry # "absent"
  /\ Control(t, "stop")

\* A service that does not accept STOP is removed all the same.
UninstallService(t) ==
  /\ ToolReady(t)
  /\ entry # "absent"
  /\ \/ Control(t, "remove")
     \/ /\ ~StopAccepted /\ ~StopWaits
        /\ tool' = [tool EXCEPT ![t] = "delete"]
        /\ UNCHANGED <<file, entry, scmVars, procVars, asked, pollVars>>

\* ControlService returns when the handler has, or fails when the process died
\* in it; then there is no waiting.
ControlReturns(t) ==
  /\ tool[t] \in {"stop", "remove"}
  /\ handler[asked[t]] = "none"
  /\ tool' = [tool EXCEPT ![t] = IF tool[t] = "stop" THEN "stopping" ELSE "removing"]
  /\ asked' = [asked EXCEPT ![t] = Nobody]
  /\ UNCHANGED <<file, entry, scmVars, procVars, pollVars>>

ControlFails(t) ==
  /\ tool[t] \in {"stop", "remove"}
  /\ handler[asked[t]] # "none"
  /\ proc[asked[t]] = "dead"
  /\ tool' = [tool EXCEPT ![t] = IF tool[t] = "stop" THEN "idle" ELSE "delete"]
  /\ asked' = [asked EXCEPT ![t] = Nobody]
  /\ UNCHANGED <<file, entry, scmVars, procVars, pollVars>>

\* The loop that waits while STOP_PENDING is what the query says.
StopQueried(t) ==
  /\ tool[t] \in {"stopping", "removing"}
  /\ state # "STOP_PENDING"
  /\ tool' = [tool EXCEPT ![t] = IF tool[t] = "stopping" THEN "idle" ELSE "delete"]
  /\ UNCHANGED <<file, entry, scmVars, procVars, asked, pollVars>>

Delete(t) ==
  /\ tool[t] = "delete"
  /\ entry' = "deleted"
  /\ tool' = [tool EXCEPT ![t] = "idle"]
  /\ UNCHANGED <<file, scmVars, procVars, asked, pollVars>>

\* "-run": the wrapper without the SCM, in a process of its own.
RunProgram ==
  /\ file \in Bootable
  /\ Unborn # {}
  /\ proc' = [proc EXCEPT ![NewProc] = "program"]
  /\ worker' = [worker EXCEPT ![NewProc] = "runs"]
  /\ UNCHANGED <<file, entry, scmVars, start, handler, dwCheckPoint, appVars, toolVars>>

ToolGoesOn(t) == \/ FirstQuery(t) \/ Poll(t) \/ ControlReturns(t) \/ ControlFails(t)
                 \/ StopQueried(t) \/ Delete(t)

Tool(t) == \/ InstallService(t) \/ RunService(t) \/ StopService(t)
           \/ UninstallService(t) \/ ToolGoesOn(t)

-----------------------------------------------------------------------------
Next == \/ \E p \in Procs : Service(p) \/ Crashes(p) \/ SendShutdown(p)
        \/ \E p \in Procs : LaunchSucceeds(p) \/ LaunchFails(p) \/ AppEnds(p) \/ Interrupt(p)
        \/ \E t \in Tools : Tool(t)
        \/ Removal \/ RunProgram

\* Threads are scheduled, and a tool that has begun goes on.
Spec == /\ Init /\ [][Next]_vars
        /\ \A p \in Procs : WF_vars(Service(p))
        /\ \A t \in Tools : WF_vars(ToolGoesOn(t))

-----------------------------------------------------------------------------
\* Whoever may still report a status is the process the SCM has for the service:
\* no start makes a second process while the last one can, so no late report is
\* taken for one about the new.
ReportsAreCurrent == \A p \in Procs : proc[p] = "dispatching" => current = p

\* A stop never overtakes the start it ends: the ServiceMain thread has made
\* its last report before the dispatcher thread makes the one that says
\* STOPPED, after which a report would be about a service that is gone.
StopAfterStart == \A p \in Procs : proc[p] = "ending" => start[p] = "done"

\* A worker that lacks a key does not leave a service behind that reports RUNNING
\* and does nothing: its process ends, and the SCM has the service as stopped or
\* a later process for it.
RefusalEnds ==
  \A p \in Procs :
    (worker[p] = "runs" /\ file \notin Complete) ~> (proc[p] = "dead" /\ current # p)

\* (Not so: Stop ends nothing.)  A service the SCM has as stopped has left no
\* application behind.
StoppedLeavesNoApp ==
  state = "STOPPED" => \A p \in Procs : app[p] => proc[p] = "program"

\* A tool that was started ends, whatever becomes of the service meanwhile.
ToolEnds == \A t \in Tools : (tool[t] # "idle") ~> (tool[t] = "idle")
=============================================================================
