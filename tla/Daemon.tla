------------------------------- MODULE Daemon -------------------------------
(***************************************************************************)
(* Starting and stopping the service on Linux: the functions start and     *)
(* stop of the init script bin/NixService, run by one or more operators,   *)
(* and the wrapper processes they start, as main and daemonize of          *)
(* LinuxService.cpp take them from fork() to the lock to their own pid     *)
(* file.  The configuration file may be edited between any two of their    *)
(* steps; a wrapper goes by what it read when it started, and a key that   *)
(* is not there when it is first read is the end of it.                    *)
(*                                                                         *)
(* The script writes the pid of the wrapper into a file that is also the   *)
(* wrapper's standard output, through the same descriptor, and later reads *)
(* the first line of it.  Of what is in the file only that line is kept:   *)
(* a pid, or some output.                                                  *)
(*                                                                         *)
(* A process stands for its pid; pids are not reused here.  What a wrapper *)
(* does once it serves is module Supervisor; of it only the application it *)
(* launches is kept.                                                       *)
(***************************************************************************)
EXTENDS Config, FiniteSets

CONSTANTS
  Procs,         \* the wrapper processes that may come to exist: a bound
  Operators,     \* those who may run the init script
  Editions,      \* the configuration files that are installed one after the other
  Beginnings,    \* who does run the script, with which of Editions at first: pairs
  CallsMayFail,  \* fork() may fail, the lock file or the pid file may not open
  Nobody,        \* no process, and no pid
  Output         \* a line of a wrapper's output, which is no pid

ASSUME DaemonAssumption ==
  /\ IsFiniteSet(Procs)
  /\ Nobody \notin Procs
  /\ Output \notin Procs \cup {Nobody}
  /\ Editions \in Seq(Seq(Lines))
  /\ Beginnings \subseteq (SUBSET Operators) \X DOMAIN Editions
  /\ CallsMayFail \in BOOLEAN

VARIABLES
  edition,   \* the configuration file that is installed
  conf,      \* the one each wrapper process that is alive has read
  proc,      \* where each wrapper process is in main()
  lock,      \* the process that holds the lock on each lock file
  pidFile,   \* the pid in the wrapper's own pid file beside it
  operators, \* those who run the init script
  file,      \* whether the script's pid file is there
  recorded,  \* its first line: a pid, or Output, or Nobody while it is empty
  script,    \* what each operator's run of the script is about to do
  held,      \* what that run has in a variable for a pid (ppid, kpid, $!)
  opened,    \* the operators whose script has that file open for a wrapper it
             \* is about to run, and it is the one that is there
  out,       \* the wrappers started with it as their output, likewise
  ahead,     \* those whose output was there before their pid was
  apps       \* the processes whose application is alive

daemonVars == <<lock, pidFile>>
scriptFile == <<file, recorded, opened>>
outputVars == <<out, ahead>>
scriptVars == <<operators, script, held>>
vars == <<edition, conf, proc, daemonVars, scriptFile, scriptVars, outputVars, apps>>

Maps == ReadConfigs(Editions)
Conf(p) == Maps[conf[p]]

\* A wrapper that has not read a file yet is none of those that fork.
Forks(p) ==
  /\ conf[p] # 0
  /\ Has(Conf(p), {"daemon.forkAsDaemon"})
  /\ Flag(Conf(p), "daemon.forkAsDaemon")
Lock(p) == LockFile(Conf(p))
LockFiles ==
  {LockFile(Maps[e]) : e \in {f \in DOMAIN Editions : Has(Maps[f], NameKeys)}}

Stages == {"unborn", "loading", "boot", "locking", "recording", "entering", "serving",
           "ending", "dead"}

Alive(p) == p \in Procs /\ proc[p] \notin {"unborn", "dead"}

\* The wrappers whose run() has got to its threads.
Serving == {p \in Procs : proc[p] = "serving"}

\* Those of them that went through daemonize.
Daemons == {p \in Serving : Forks(p)}

Unborn == {p \in Procs : proc[p] = "unborn"}

TypeOK ==
  /\ edition \in DOMAIN Editions
  /\ conf \in [Procs -> {0} \cup DOMAIN Editions]
  /\ proc \in [Procs -> Stages]
  /\ \A p \in Procs : conf[p] = 0 <=> proc[p] \in {"unborn", "loading", "dead"}
  /\ lock \in [LockFiles -> Procs \cup {Nobody}]
  /\ pidFile \in [LockFiles -> Procs \cup {Nobody}]
  /\ operators \subseteq Operators
  /\ file \in BOOLEAN
  /\ recorded \in Procs \cup {Nobody, Output}
  /\ script \in [Operators -> {"idle", "judging", "creating", "launching", "recording",
                               "terminating", "waiting", "removing"}]
  /\ held \in [Operators -> Procs \cup {Nobody, Output}]
  /\ opened \subseteq Operators
  /\ out \subseteq Procs
  /\ ahead \subseteq Procs
  /\ apps \subseteq Procs

Init ==
  /\ \E b \in Beginnings : operators = b[1] /\ edition = b[2]
  /\ conf = [p \in Procs |-> 0]
  /\ proc = [p \in Procs |-> "unborn"]
  /\ lock = [f \in LockFiles |-> Nobody]
  /\ pidFile = [f \in LockFiles |-> Nobody]
  /\ file = FALSE
  /\ recorded = Nobody
  /\ script = [o \in Operators |-> "idle"]
  /\ held = [o \in Operators |-> Nobody]
  /\ opened = {}
  /\ out = {}
  /\ ahead = {}
  /\ apps = {}

\* The next edition of the file is installed.
Edit ==
  /\ edition + 1 \in DOMAIN Editions
  /\ edition' = edition + 1
  /\ UNCHANGED <<conf, proc, daemonVars, scriptFile, scriptVars, outputVars, apps>>

-----------------------------------------------------------------------------
(* What is written into the script's pid file.                             *)

\* The wrappers whose pid is still to be written, by the shell that started them.
Unrecorded == {held[o] : o \in {u \in operators : script[u] = "recording"}}

\* A write through the descriptor that p and that shell share.  The first goes to
\* the top of the file, whatever is there; a later one is its first line only when
\* the file has been emptied since.  The file may be unlinked by now.
Writes(p, line, first) ==
  recorded' = IF p \in out /\ (first \/ recorded = Nobody) THEN line ELSE recorded

\* p is through with the descriptor, and so is the shell.
Closes(p) ==
  /\ out' = out \ {p}
  /\ ahead' = ahead \ {p}

-----------------------------------------------------------------------------
(* The wrapper.  A process that ends gives up its locks.                   *)

Ends(p) == IF p \in Unrecorded THEN UNCHANGED outputVars ELSE Closes(p)

Dies(p) ==
  /\ proc' = [proc EXCEPT ![p] = "dead"]
  /\ conf' = [conf EXCEPT ![p] = 0]
  /\ lock' = [f \in LockFiles |-> IF lock[f] = p THEN Nobody ELSE lock[f]]
  /\ Ends(p)

\* What is read of the configuration on the way out of each stage.
KeysRead(p) ==
  CASE proc[p] = "boot"     -> BootKeys
    [] proc[p] = "locking"  -> NameKeys
    [] proc[p] = "entering" -> NameKeys \cup RunKeys
    [] proc[p] = "serving"  -> ThreadKeys(Conf(p))
    [] OTHER                -> {}

\* exit(1) of findMapValueOrExit, whichever thread it is in; no application is
\* told of it.
KeyMissing(p) ==
  /\ Alive(p)
  /\ proc[p] # "loading"
  /\ ~Has(Conf(p), KeysRead(p))
  /\ Dies(p)
  /\ UNCHANGED <<edition, pidFile, scriptFile, scriptVars, apps>>

\* The static initialisers say what they do, then main reads the configuration.
Load(p) ==
  /\ proc[p] = "loading"
  /\ Writes(p, Output, p \in Unrecorded)
  /\ ahead' = IF p \in Unrecorded THEN ahead \cup {p} ELSE ahead
  /\ proc' = [proc EXCEPT ![p] = "boot"]
  /\ conf' = [conf EXCEPT ![p] = edition]
  /\ UNCHANGED <<edition, daemonVars, file, opened, out, scriptVars, apps>>

\* What a wrapper says later is the first line of a file that another start has
\* emptied.  A daemon has given up the descriptor.
Prints(p) ==
  /\ Alive(p)
  /\ proc[p] # "loading"
  /\ p \in out
  /\ recorded = Nobody
  /\ recorded' = Output
  /\ UNCHANGED <<edition, conf, proc, daemonVars, file, opened, scriptVars, outputVars, apps>>

\* daemonize: the process that was started forks and exits; the other goes on,
\* with the configuration it has got.
Fork(p) ==
  /\ proc[p] = "boot"
  /\ Has(Conf(p), BootKeys)
  /\ Forks(p)
  /\ \E c \in Unborn :
       /\ proc' = [proc EXCEPT ![p] = "dead", ![c] = "locking"]
       /\ conf' = [conf EXCEPT ![p] = 0, ![c] = conf[p]]
  /\ Ends(p)
  /\ UNCHANGED <<edition, daemonVars, scriptFile, scriptVars, apps>>

ForkFails(p) ==
  /\ CallsMayFail
  /\ proc[p] = "boot"
  /\ Has(Conf(p), BootKeys)
  /\ Forks(p)
  /\ Dies(p)
  /\ UNCHANGED <<edition, pidFile, scriptFile, scriptVars, apps>>

\* Without forkAsDaemon daemonize does nothing at all: no lock, no pid file.
NoFork(p) ==
  /\ proc[p] = "boot"
  /\ Has(Conf(p), BootKeys)
  /\ ~Forks(p)
  /\ proc' = [proc EXCEPT ![p] = "entering"]
  /\ UNCHANGED <<edition, conf, daemonVars, scriptFile, scriptVars, outputVars, apps>>

\* lockf(F_TLOCK) does not wait.
TakeLock(p) ==
  /\ proc[p] = "locking"
  /\ Has(Conf(p), NameKeys)
  /\ lock[Lock(p)] = Nobody
  /\ lock' = [lock EXCEPT ![Lock(p)] = p]
  /\ proc' = [proc EXCEPT ![p] = "recording"]
  /\ UNCHANGED <<edition, conf, pidFile, scriptFile, scriptVars, outputVars, apps>>

\* (Bugs to be caught: an instance that is refused the lock goes on; the pid
\* is not written.)
LockRefusedMutant(p) ==
  /\ proc[p] = "locking"
  /\ Has(Conf(p), NameKeys)
  /\ lock[Lock(p)] # Nobody
  /\ proc' = [proc EXCEPT ![p] = "entering"]
  /\ UNCHANGED <<edition, conf, daemonVars, scriptFile, scriptVars, outputVars, apps>>

RecordPidMutant(p) ==
  /\ proc[p] = "recording"
  /\ proc' = [proc EXCEPT ![p] = "entering"]
  /\ UNCHANGED <<edition, conf, daemonVars, scriptFile, scriptVars, outputVars, apps>>

LockRefused(p) ==
  /\ proc[p] = "locking"
  /\ Has(Conf(p), NameKeys)
  /\ lock[Lock(p)] # Nobody
  /\ Dies(p)
  /\ UNCHANGED <<edition, pidFile, scriptFile, scriptVars, apps>>

RecordPid(p) ==
  /\ proc[p] = "recording"
  /\ pidFile' = [pidFile EXCEPT ![Lock(p)] = p]
  /\ proc' = [proc EXCEPT ![p] = "entering"]
  /\ UNCHANGED <<edition, conf, lock, scriptFile, scriptVars, outputVars, apps>>

\* open() of the lock file or fopen() of the pid file fails.
FileFails(p) ==
  /\ CallsMayFail
  /\ proc[p] \in {"locking", "recording"}
  /\ Has(Conf(p), NameKeys)
  /\ Dies(p)
  /\ UNCHANGED <<edition, pidFile, scriptFile, scriptVars, apps>>

\* The end of main() and run(), up to the threads.
Enter(p) ==
  /\ proc[p] = "entering"
  /\ Has(Conf(p), NameKeys \cup RunKeys)
  /\ proc' = [proc EXCEPT ![p] = "serving"]
  /\ UNCHANGED <<edition, conf, daemonVars, scriptFile, scriptVars, outputVars, apps>>

\* (A bug to be caught: the interval is read after the first launch.)
AppStartsMutant(p) ==
  /\ proc[p] = "serving"
  /\ Flag(Conf(p), "ping.enablePIDCheck")
  /\ Has(Conf(p), MonitorKeys \ {"ping.pidCheckInterval"})
  /\ apps' = apps \cup {p}
  /\ UNCHANGED <<edition, conf, proc, daemonVars, scriptFile, scriptVars, outputVars>>

\* The process monitor launches the application, which ends when it ends; an
\* application outlives a wrapper that ends first.
AppStarts(p) ==
  /\ proc[p] = "serving"
  /\ Flag(Conf(p), "ping.enablePIDCheck")
  /\ Has(Conf(p), MonitorKeys)
  /\ apps' = apps \cup {p}
  /\ UNCHANGED <<edition, conf, proc, daemonVars, scriptFile, scriptVars, outputVars>>

AppEnds(p) ==
  /\ p \in apps
  /\ apps' = apps \ {p}
  /\ UNCHANGED <<edition, conf, proc, daemonVars, scriptFile, scriptVars, outputVars>>

\* exit(0) of the SIGTERM handler, a run() that made no thread to wait for, or
\* a crash of the wrapper.
WrapperEnds(p) ==
  /\ proc[p] \in {"serving", "ending"}
  /\ Dies(p)
  /\ UNCHANGED <<edition, pidFile, scriptFile, scriptVars, apps>>

Wrapper == \E p \in Procs :
  \/ Load(p) \/ Prints(p) \/ KeyMissing(p)
  \/ Fork(p) \/ ForkFails(p) \/ NoFork(p) \/ TakeLock(p) \/ LockRefused(p)
  \/ RecordPid(p) \/ FileFails(p) \/ Enter(p)
  \/ AppStarts(p) \/ AppEnds(p) \/ WrapperEnds(p)

-----------------------------------------------------------------------------
\* rm -f: whoever has the file open goes on writing into the one that was removed.
Unlinks ==
  /\ file' = FALSE
  /\ recorded' = Nobody
  /\ opened' = {}
  /\ out' = {}

(* start().                                                                *)

StartReads(o) ==
  /\ script[o] = "idle"
  /\ script' = [script EXCEPT ![o] = IF file THEN "judging" ELSE "creating"]
  /\ held' = [held EXCEPT ![o] = IF file THEN recorded ELSE Nobody]
  /\ UNCHANGED <<edition, conf, proc, daemonVars, scriptFile, operators, outputVars, apps>>

AlreadyRunning(o) ==
  /\ script[o] = "judging"
  /\ Alive(held[o])
  /\ script' = [script EXCEPT ![o] = "idle"]
  /\ held' = [held EXCEPT ![o] = Nobody]
  /\ UNCHANGED <<edition, conf, proc, daemonVars, scriptFile, operators, outputVars, apps>>

\* Nothing, or text, in place of a pid makes the test fail with a syntax error:
\* the file counts as stale.
RemoveStale(o) ==
  /\ script[o] = "judging"
  /\ ~Alive(held[o])
  /\ Unlinks
  /\ script' = [script EXCEPT ![o] = "creating"]
  /\ held' = [held EXCEPT ![o] = Nobody]
  /\ UNCHANGED <<edition, conf, proc, daemonVars, operators, ahead, apps>>

\* The shell opens the pid file, emptying it, before it runs su.
Create(o) ==
  /\ script[o] = "creating"
  /\ file' = TRUE
  /\ recorded' = Nobody
  /\ opened' = opened \cup {o}
  /\ script' = [script EXCEPT ![o] = "launching"]
  /\ UNCHANGED <<edition, conf, proc, daemonVars, operators, held, out, ahead, apps>>

Launch(o) ==
  /\ script[o] = "launching"
  /\ \E p \in Unborn :
       /\ proc' = [proc EXCEPT ![p] = "loading"]
       /\ out' = IF o \in opened THEN out \cup {p} ELSE out
       /\ held' = [held EXCEPT ![o] = p]
  /\ opened' = opened \ {o}
  /\ script' = [script EXCEPT ![o] = "recording"]
  /\ UNCHANGED <<edition, conf, daemonVars, file, recorded, operators, ahead, apps>>

\* echo $!, by a shell whose output is the wrapper's.
Record(o) ==
  /\ script[o] = "recording"
  /\ Writes(held[o], held[o], held[o] \notin ahead)
  /\ IF Alive(held[o]) THEN UNCHANGED outputVars ELSE Closes(held[o])
  /\ script' = [script EXCEPT ![o] = "idle"]
  /\ held' = [held EXCEPT ![o] = Nobody]
  /\ UNCHANGED <<edition, conf, proc, daemonVars, file, opened, operators, apps>>

-----------------------------------------------------------------------------
(* stop().                                                                 *)

\* (A bug to be caught: the file itself is taken for the pid in it.)
StopReadsMutant(o) ==
  /\ script[o] = "idle"
  /\ script' = [script EXCEPT ![o] = IF file THEN "terminating" ELSE "removing"]
  /\ held' = [held EXCEPT ![o] = IF file THEN file ELSE Nobody]
  /\ UNCHANGED <<edition, conf, proc, daemonVars, scriptFile, operators, outputVars, apps>>

StopReads(o) ==
  /\ script[o] = "idle"
  /\ script' = [script EXCEPT ![o] = IF file THEN "terminating" ELSE "removing"]
  /\ held' = [held EXCEPT ![o] = IF file THEN recorded ELSE Nobody]
  /\ UNCHANGED <<edition, conf, proc, daemonVars, scriptFile, operators, outputVars, apps>>

\* kill -SIGTERM: before run() has installed its handler it is the end.
Terminate(o) ==
  /\ script[o] = "terminating"
  /\ script' = [script EXCEPT ![o] = "waiting"]
  /\ LET k == held[o] IN
       IF ~Alive(k) THEN UNCHANGED <<conf, proc, lock, outputVars>>
       ELSE IF proc[k] \in {"serving", "ending"}
            THEN /\ proc' = [proc EXCEPT ![k] = "ending"]
                 /\ UNCHANGED <<conf, lock, outputVars>>
            ELSE Dies(k)
  /\ UNCHANGED <<edition, pidFile, scriptFile, operators, held, apps>>

\* ps no longer shows the process.
WaitEnds(o) ==
  /\ script[o] = "waiting"
  /\ held[o] \in Procs
  /\ ~Alive(held[o])
  /\ script' = [script EXCEPT ![o] = "removing"]
  /\ UNCHANGED <<edition, conf, proc, daemonVars, scriptFile, operators, held, outputVars, apps>>

\* (A bug to be caught: the wait gives up without kill -9.)
WaitExpiresMutant(o) ==
  /\ script[o] = "waiting"
  /\ script' = [script EXCEPT ![o] = "removing"]
  /\ UNCHANGED <<edition, conf, proc, daemonVars, scriptFile, operators, held, outputVars, apps>>

\* kwait is over, as it always is when no pid has been read: kill -9.
WaitExpires(o) ==
  /\ script[o] = "waiting"
  /\ IF Alive(held[o]) THEN Dies(held[o]) ELSE UNCHANGED <<conf, proc, lock, outputVars>>
  /\ script' = [script EXCEPT ![o] = "removing"]
  /\ UNCHANGED <<edition, pidFile, scriptFile, operators, held, apps>>

\* rm -f, and "stopped".
RemoveFile(o) ==
  /\ script[o] = "removing"
  /\ Unlinks
  /\ script' = [script EXCEPT ![o] = "idle"]
  /\ held' = [held EXCEPT ![o] = Nobody]
  /\ UNCHANGED <<edition, conf, proc, daemonVars, operators, ahead, apps>>

Script == \E o \in operators :
  \/ StartReads(o) \/ AlreadyRunning(o) \/ RemoveStale(o) \/ Create(o)
  \/ Launch(o) \/ Record(o)
  \/ StopReads(o) \/ Terminate(o) \/ WaitEnds(o) \/ WaitExpires(o) \/ RemoveFile(o)

Next == Edit \/ Wrapper \/ Script

Spec == Init /\ [][Next]_vars

-----------------------------------------------------------------------------
\* However many operators start the service at once, however often and wherever
\* it fails, at most one daemon serves under each lock file, also when the
\* configuration is edited between their starts.
OneServing == \A p, q \in Daemons : Lock(p) = Lock(q) => p = q

\* The pid file beside the lock names the daemon that serves; neither a second
\* start that fails nor one under another edition of the file takes it over.
PidFileNamesServing == \A p \in Daemons : pidFile[Lock(p)] = p

\* When stop reports the service stopped, no wrapper is alive.
StoppedMeansStopped ==
  [][\A o \in Operators :
       (script[o] = "removing" /\ script'[o] = "idle")
         => \A p \in Procs : ~Alive(p)]_vars

\* The same of a stop that has read a pid.
NamedMeansStopped ==
  [][\A o \in Operators :
       (script[o] = "removing" /\ script'[o] = "idle" /\ held[o] \in Procs)
         => \A p \in Procs : ~Alive(p)]_vars

\* What is true of it: to a lone operator it holds of the wrappers that run in
\* the foreground, whatever configuration each was started with, unless one's
\* first output got into the script's pid file ahead of its pid.
StoppedAlone ==
  [][\A o \in operators :
       (operators = {o} /\ script[o] = "removing" /\ script'[o] = "idle")
         => \A p \in Procs : Alive(p) => Forks(p) \/ p \in ahead]_vars

\* A wrapper that refuses its configuration leaves an application behind only
\* over what is read once the process monitor runs: the switch of the health
\* test and the keys of the health monitor.
RefusalLeavesNothing ==
  [][\A p \in apps :
       KeyMissing(p) => KeysRead(p) \ DOMAIN Conf(p)
         \subseteq {"ping.enableHealthCheck"} \cup HealthKeys \cup HealthAPIKeys]_vars

\* (Not so: its getter is findMapValueOrExit.)  What the comment on it in
\* nix-wrapper.conf promises: shutdown.timeout has a default, so no wrapper ends
\* for want of it.
ShutdownTimeoutHasDefault ==
  [][\A p \in Procs :
       KeyMissing(p) => KeysRead(p) \ DOMAIN Conf(p) # {"shutdown.timeout"}]_vars

=============================================================================
