# Verification of the common-service wrapper

common-service is a service wrapper: a daemon on Linux, a service on Windows,
that launches one application (a jar, by default), launches it again when its
process is gone, terminates it when its health API stops answering, copies its
console to a log and passes signals on to it. These TLA+ modules model the
wrapper, the scripts and tools with which it is started and stopped, and as
much of the operating system as they depend on. TLC checks the modules on small
instances; TLAPS proves their invariants, their bounds on time and four
refinements for every value of the constants.

1. [Inventory](#1-inventory)
2. [Modules](#2-modules)
3. [What the runs check](#3-what-the-runs-check)
4. [What the runs found](#4-what-the-runs-found)
5. [Fairness](#5-fairness)
6. [Bounds](#6-bounds)
7. [What is proved](#7-what-is-proved)
8. [What is not modelled](#8-what-is-not-modelled)
9. [Plan](#9-plan)

To check a run, `tlc -config Supervisor_ok.cfg MCSupervisorWatchdog` (the table
in section 3 has the module of each configuration); to check the proofs,
`tlapm` with each module whose name ends in `Proofs`. `PROJECT.json` ties every definition to the lines it models
and lists, for every property, a plausible bug (an operator whose name ends in
`Mutant`, or one whose comment says "a bug to be caught") that breaks it.

## 1. Inventory

Paths are relative to `src/`.

| Component | Code | State it keeps | Operations | What makes it correct |
|---|---|---|---|---|
| Supervisor | `src/ServiceProcess.cpp` | `child_process_pid`, a static shared by three threads without a lock; the health monitor's `healthCheckCounter`; `terminateApplication`'s own `pid` and `counter` | `run`, `processMonitorThread` with the launch, `healthMonitorThread` with `terminateApplication`, `signal_handler_callback` | never two applications; a dead one is launched again; it is killed by force only after it was asked; no other process is signalled; a SIGTERM reaches it |
| Health verdict | `healthTest`, `src/HttpUtil.cpp`, `src/JSONUtil.cpp` | none | `fetchHTTPGetResponse`, `fetchHTTPPostResponse`, `parseResponse`, `getChildAsString` | a healthy answer passes |
| Health probe | `src/TCPClient.cpp` | `sock` | `setup`, `Send`, `receiveAll`, `exit` | every probe ends and releases its socket, soon enough for the health monitor to act in time |
| Pipes, console reader, logs | `ServiceProcess.cpp` 349-418, 616-653, `CommonUtil.cpp` | the descriptor table; the statics `child_process_std_in`, `child_process_std_out`; the numbers inside the log files' `FILE` handles | the launch, the reader threads, logging, `daemonize`'s `close` loop | each descriptor is used and closed by its owner only |
| Linux daemon | `src/nixservice/LinuxService.cpp` | the lock file, the pid file | `main`, `daemonize` | one wrapper serves, and the pid file names it |
| Init script | `bin/NixService` | its own pid file | `start`, `stop`, `restart`, `status` | what is reported stopped is stopped |
| Windows service | `src/winservice/ServiceBase*.cpp`, `WinService.cpp` | the reported `SERVICE_STATUS`, the static check point, the worker thread | `ServiceMain`, `Start`, `Stop`, `Shutdown`, `OnStart`, `OnStop`, `main` | the reports follow the service's life |
| Windows tool | `src/winservice/ServiceInstaller.cpp` | the SCM's entry, `dwOldCheckPoint` | install, remove, start, stop | each ends |
| Windows launch | `WINDOWS` branches of `ServiceProcess.cpp` and `CommonUtil.cpp` | handles, `process_pid` | launch, console handler, kill | as the supervisor's |
| Configuration | `src/Config.cpp`, `conf/*.conf` | the map of keys | `readConfig`, one getter per key | a missing key ends the wrapper before it has launched anything; two wrappers with one name and directory share one lock |
| JSON parser | `src/JSON*.cpp` | none | third-party | - |

How they interact. `main` of the Linux daemon and the Windows worker thread call
`ServiceProcess::run`. The process monitor writes `child_process_pid`; the
health monitor reads it when it terminates the application; the signal handler
reads it on whatever thread the kernel picks. The health monitor calls the
probe, and the probe the verdict. Every part reads its keys of the configuration when it first needs
them, and a missing one is `exit(1)` on whatever thread that is. Each launch makes a reader thread, which takes
its descriptor from a static when it comes to run. The init script and the
daemon share pids in two different files, and the script's file is the wrapper's
standard output as well: what the wrapper prints and the pid the shell writes go
through one descriptor. Wrapper and application
share pipes and signals.

What is hard in it:

- interleavings: the launch window between `fork()` and the assignment to
  `child_process_pid`; a termination that goes on for up to the whole
  shutdown timeout while another application is launched; `exit(0)`, during
  which the other threads run on;
- stale numbers: pids and descriptors are kept after what they named is gone;
- failures half-way: a launch has three calls that may fail;
- time: what waits for whom, whether it ends, and how long a dead or silent
  application may go unnoticed;
- the end: who may end while somebody else depends on it.

Every hazard is listed at its line in `PROJECT.json`, with the properties that
are about it.

## 2. Modules

| Module | Models | Its state and the code's |
|---|---|---|
| `HttpHealth` | the health verdict, as operators | a text is a record of what the code can tell of it: shorter than 12 characters, its status code, its body |
| `HealthProbe` | the health probe, one after another, against an application that sends in pieces, falls silent or closes | `pc` is the monitor thread's place, `sock` is `TCPClient::sock`, the rest is the connection |
| `Supervisor` | the three actors of `ServiceProcess.cpp`, the kernel's processes, pids and signals | `child_process_pid`, `healthCheckCounter`, `pid`, `counter` as in the code; `pm` and `hm` are places in the two threads; `got` is what each live process has been sent |
| `TimedSupervisor` | the two monitor threads in seconds, with `HealthProbe` for the health test: the composition of the two | `pmTimer`, `hmTimer`, `ioTimer` are what is left of a sleep, of a `connect` or of a `recv`; `down`, `unfit`, `sinceAsk` are clocks that only properties look at |
| `Watchdog` | what a wrapper promises: the abstract specification | - |
| `SupervisorWatchdog` | the refinement mapping from `Supervisor` | `running <- apps`, `asked` and `forced` from `got` |
| `Config` | `readConfig`, the getters, who reads which key when, as operators | a line is a record of how its key is followed and what its value is to a getter |
| `ShippedConfig` | the two configuration files of the repository, line by line, and what is true of them | - |
| `Daemon` | `main` and `daemonize`, the init script's `start` and `stop`, several operators, a configuration that is edited meanwhile | `lock`, `pidFile`, one of each for every directory and service name; `conf` is what each wrapper has read; the script's file as its first line, with who has it open (`opened`, `out`), for a shell or a wrapper may write into one that was unlinked, and whose output was in it before the pid (`ahead`) |
| `Descriptors` | the descriptor table under launches, readers, probes and `daemonize` | `fd` maps numbers to what they name; `hStdOut` is the local of each reader |
| `WinService` | the service process (dispatcher, `ServiceMain`, worker with its process monitor), the configuration it finds, the tool, the SCM | `state` and `checkPoint` are the reported status; `start`, `handler`, `worker` the places of the three threads |
| `ServiceLifecycle` | what a Windows service promises those who query it: the abstract specification | - |
| `WinServiceLifecycle` | the refinement mapping from `WinService` | `serving` is who is in `StartServiceCtrlDispatcher`, `begun` whether its `OnStart` has been called |
| `SupervisorProofs`, `SupervisorWatchdogProofs`, `TimedSupervisorProofs`, `TimedAskedProofs`, `ConfigProofs`, `DaemonProofs`, `DescriptorsProofs`, `WinServiceProofs` | theorems | - |
| `MC...` | the values of the constants that a `.cfg` cannot write, and the symmetry | - |

`Supervisor` and `HealthProbe` both use `HttpHealth`; `SupervisorWatchdog`
composes `Supervisor` with `Watchdog` through `INSTANCE`, `WinServiceLifecycle`
`WinService` with `ServiceLifecycle` in the same way, and `TimedSupervisor`
composes `Supervisor` (an instance whose steps its own steps contain) with
`HealthProbe` (which it extends), so that `S!Spec` is both what it is built from
and what it is shown to implement. `Daemon` and `WinService` take from `Config`
what each of their processes reads. `Daemon` keeps of the
supervisor only that it may have an application; `Descriptors` leaves pids to
`Supervisor`.

Abstractions worth knowing when reading the modules:

- `Supervisor` has no clock. A sleep may end at any time, so what is checked
  holds for every interval; the number of 3-second waits of a termination is
  kept (`counter`). SIGTTIN and SIGTTOU are handled as SIGHUP is and are not
  told apart. The child between `fork()` and `exec` and the difference between
  the pid of `sh` and that of `java` are left out.
- In `TimedSupervisor` only `sleep`, `connect` and `recv` take time; every other
  step is taken in the second it is due, so `Tick` waits for it. No signals,
  failed launches or incomplete configurations: these are `Supervisor`'s. The
  microseconds that `tv_usec = receiveTimeout` adds to it are left out.
- The kernel's `kill` is as documented: pid 0 is the caller's process group
  (which the application has left with `setsid`), pid -1 is everyone else.
- `Config` abstracts a line to the form its key has, the key, and the value; a
  value is text, a number, a number too large, or empty, which is all the
  getters tell apart. Lines that assign the same key, keys followed by a tab,
  and numbered keys behave as in the code. What the loop over the lines is to
  come to is a definition of its own, `IsReadAs`: TLC compares the two on every
  file of up to three small lines (`ReadConfigIsRight` of `ShippedConfig`), and
  `FileIsRead` proves it of every file.
- `Daemon` does not reuse pids; `Supervisor` does, when `PidRecycling` is TRUE.
- Of the script's pid file `Daemon` keeps the first line, which is all that
  `read` takes: a pid, or some output (`Output`), which is never a pid. The shell
  and the wrapper write through one file offset, so who writes first has the
  first line. When another start has emptied the file meanwhile, the next write
  makes the first line, whatever the offset: the NUL bytes before it are dropped
  by `read`. What a forked child prints before it closes its descriptors comes
  after what its parent's initialisers printed and is left out.
- In `WinService` the wait hint is that of the status last reported: 0 from the
  service, which never gives one, and the SCM's 2 seconds (`ScmWaitHint`) until
  the service reports for the first time. The tool's sleeps are whole seconds
  here, at least one; `waited` is what they add up to.
- Undefined behaviour is a choice: the status code of a reply without a status
  line is uninitialised memory in `parseResponse`, any code in `ParseResponse`.
- In `WinService` the SCM is what its calls' documentation says; it is marked
  external in the map.

## 3. What the runs check

| Run | Module | Question | States |
|---|---|---|---|
| `Supervisor_ok` | `MCSupervisorWatchdog` | Launches succeed and a pid the wrapper holds is not handed out again. No stranger is signalled, the application is killed only after it was asked, `Supervisor` implements `Watchdog`; a dead application is launched again (`Relaunch`), an asked one ends (`AskedAppEnds`), a hangup before the first launch does not circulate for ever (`HangupPasses`). | 30,308 |
| `Supervisor_any` | `MCSupervisor` | Launches may fail, pids may be handed out at once. There is never a second application, the static names the live one between launches, a SIGTERM outside the launch window reaches it. | 195,590 |
| `TimedSupervisor_ok` | `MCTimedSupervisor` | An application that answers in up to two pieces, falls silent or ends anywhere. A dead one is replaced within `PidCheckInterval` (`RelaunchedInTime`), one that passes no test is asked within `Patience` (`AskedInTime`), an asked one has its shutdown time and less than 3 seconds more (`KilledOnTime`); two requests are at least `Respite` apart (`AsksApart`), pid 0 is not interrupted (`GroupSpared`), nor does the wrapper in any other way end itself (`WrapperSurvives`); probes of such replies end (`FiniteReplyEnds`) and release their socket; the whole implements `Supervisor`. | 478,696 |
| `Daemon_lock` | `MCDaemon` | One operator or two, up to four processes, a configuration that is edited (incomplete, then forking, then with its lock elsewhere and a gap), a `fork` that may fail and files that may not open. One daemon serves under each lock and its pid file names it, whatever is in the script's; a lone operator who reads "stopped" has no wrapper in the foreground left but such whose output was in the script's pid file before their pid (`StoppedAlone`); what an exit over a missing key can leave behind (`RefusalLeavesNothing`). | 426,308 |
| `Descriptors_ok` | `Descriptors` | Three launches in either mode, any of whose calls may fail, with probes in between and ten descriptors. Readers own their pipes, the probe its socket, a failed launch nothing; a launch whose reader is done has left one descriptor open, the write end of its application's stdin (`OneLeftOpen`); readers end with their applications. | 12,546 |
| `WinService_ok` | `MCWinService` | Two operators install, start, stop and remove, with the configuration as shipped, completed, or with both monitors off; processes start, stop, crash, meet a shutdown, lack a key, or run as programs. What is reported, by whichever process, is a behaviour of `ServiceLifecycle` (`ImplementsLifecycle`). Who may still report is the SCM's current process (`ReportsAreCurrent`), no STOP overtakes the start it ends, every tool ends (`ToolEnds`), the one that waits for a start after three sleeps without a new check point at most; a worker that lacks a key does not leave a service that reports RUNNING and does nothing (`RefusalEnds`). | 269,748 |

The other runs are expected to end in a violation; they are in the next section.

## 4. What the runs found

Each run states what the repository says of the program and shows a behaviour
of the code that does otherwise.

| Run | Says | Shows |
|---|---|---|
| `Supervisor_healthy` | an application that "is non responsive" is restarted (`conf/nix-wrapper.conf:108`) | `response` of `HttpUtil.cpp` (27, 61) is assigned inside a block that declares another `response`: `fetch` returns "", every test fails, a healthy application is terminated |
| `Supervisor_orphan` | SIGTERM is the smart shutdown (`bin/NixService:62`) | a SIGTERM between `fork()` and the publication of the pid leaves an application that was never told |
| `Supervisor_failed_launch` | the process monitor logs a new process (`ServiceProcess.cpp:764`) | after one failed launch the pid is -1, `kill(-1, 0)` succeeds, and nothing is launched again |
| `Daemon_output` | "stopped" (`bin/NixService:81`) | the redirection (`bin/NixService:48`) makes the script's pid file the wrapper's standard output; what the static initialiser flushes to it (`CommonUtil.cpp:36, 54, 57, 71`) may come before `echo $!`, and then `read` takes it for the pid: nothing is killed and the wrapper, in the foreground, runs on |
| `Daemon_stop` | "stopped" (`bin/NixService:81`) of a stop that has read a pid | with `forkAsDaemon` the script's file holds the pid of the process that forked and exited: the daemon serves on |
| `Descriptors_daemon` | the application's console is logged (`ServiceProcess.cpp:757`) | `daemonize` closes the descriptors inside the log's `FILE` handles; the first launch's pipes take the numbers, and logging after the application's end is SIGPIPE |

More divergences show with other values of the constants. They have no run of
their own, for each is close to one above or one missing line:

| Property | Constants | What happens |
|---|---|---|
| `TimedSupervisor!TestEnds` | `Pieces = 0` | the receive timeout is that of one `recv` (`TCPClient.cpp:112`), not of the reply, though `conf/nix-wrapper.conf:68` has an application that does not answer "withing specified time in seconds" taken for failed: a reply that drips keeps the health test, and every later termination, from happening, however much time goes by |
| `Daemon!ShutdownTimeoutHasDefault` | `Editions <- MCNoTimeout` | of `shutdown.timeout` the file says "Default: 30 seconds" (`conf/nix-wrapper.conf:103`); without the key `findMapValueOrExit` ends the wrapper as soon as the health monitor starts (`Config.cpp:356`) |
| `TimedSupervisor!AskedInTime` without its `LaunchComesFirst` | `PidCheckInterval = 12`, `ShutdownTimeout = 24` | the health monitor gives up pid 0 before the first launch, interrupts its own group and waits for a "process" that exists as long as the wrapper does, while the application is launched and left alone |
| `TimedSupervisor!GroupSpared` without its `LaunchComesFirst` | `EnablePIDCheck = FALSE` | nothing is ever launched, and the health monitor interrupts its own group |
| `Supervisor!StrangersSpared` | `LaunchMayFail = TRUE` | a termination, or a passed-on signal, after a failed launch is `kill(-1, ...)` |
| `Supervisor!EndsByExitOnly` | `EnablePIDCheck = FALSE` | no application is ever launched; the health monitor's SIGINT and SIGKILL to pid 0 end the wrapper |
| `Daemon!OneServing` said of `Serving` instead of `Daemons` | two operators, no `forkAsDaemon` | without a daemon there is no lock: two starts at once are two wrappers |
| `Daemon!OneServing` without `Lock(p) = Lock(q)` | the editions of `Daemon_lock` | an edit of `daemon.pid.dir` or of the service's name between two starts puts two daemons under two locks |
| `Descriptors!LaunchFinds` | `Limit = 12`, `MaxLaunches = 6` | the write end of stdin is never closed: one descriptor a launch |
| `Descriptors!ConsoleNotFedBack` | `Modes = {TRUE}` | the application reads its own console text on stdin |
| `Descriptors!ReaderOwnsPipe` | `LateReaders = TRUE` | a reader that runs late reads, and closes, the next launch's pipe |
| `WinService!StoppedLeavesNoApp` | any | OnStop leaves worker and application alone |

What the shipped files come to, as assumptions of `ShippedConfig` that TLC
evaluates with the runs of `MCDaemon` and `MCWinService`: the Linux file has
every key any part of the wrapper reads. The Windows file lacks
`wrapper.ping.enablePIDCheck` and `wrapper.ping.enableHealthCheck`, which are
mandatory, so every service it is used for ends from its worker thread moments
after it was started (`RefusalEnds` shows that it does end). In both files the
intervals satisfy what `TimedSupervisor` assumes, `LaunchComesFirst` included.

Limits of what holds, worth knowing for who configures the wrapper:

- the failure counter outlives the application it counts for: after an
  application ends by itself the next starts with its failures. What
  `AsksApart` says is that this never brings two requests closer together than
  one startup time and one whole series of tests;
- the startup time is waited for once, at the start, and after each termination
  (`ServiceProcess.cpp:674`, `708`), not after a relaunch by the process
  monitor, whatever `conf/nix-wrapper.conf:47` suggests;
- `connect` has no limit but the kernel's, which is minutes: it enters
  `Patience` once for every test;
- an interval of 0 is a loop that never sleeps; `IntervalAssumption` excludes it;
- on Windows the graceful kill keeps the first pid it was ever given
  (`CommonUtil.cpp:377`), and the launch hands a closed write handle to the
  console reader (`ServiceProcess.cpp:337`); neither is modelled.

## 5. Fairness

Safety runs use `Init /\ [][Next]_vars`. Liveness assumes:

- `Supervisor`: weak fairness of starting the threads, of each monitor thread,
  of delivering SIGTERM and SIGHUP, of `exit()` and of SIGKILL taking effect.
  They are what the kernel does with a runnable thread, a pending signal, a
  terminating process. Each monitor is one thread in a loop of sleeps and calls
  that return, so some step of it is always due. Nothing obliges anyone to send
  a signal, or the application to end when it is only asked. Weak fairness of
  the process monitor includes that a launch under way ends; in
  `Supervisor_ok` it succeeds (`LaunchMayFail = FALSE`), in
  `Supervisor_failed_launch` it may fail.
- `TimedSupervisor`: weak fairness of the wrapper's steps and time taken
  together, and of the end of a process that was sent SIGKILL. Time waits for
  every step that is due, so one fairness condition for both is enough, and says
  that neither the machine nor the clock stops. Of the application, nothing:
  answering, closing and ending are its own choice. With this `FiniteReplyEnds`; the
  bounds on time need no fairness, for time is what they are about. A `recv`
  with nothing to receive returns because `SO_RCVTIMEO` is set, which is what
  the positive `ReceiveTimeout` says.
- `Descriptors`: weak fairness of each reader's first and last step.
- `WinService`: weak fairness of the service's threads and of a tool that has
  begun.

## 6. Bounds

| Bound | Value | Why it is enough |
|---|---|---|
| `Pids` | 3 or 4 | the wrapper holds at most three pids (static, launch result, termination's copy): a fourth is free in every state |
| `MaxOthers` | 0 to 2 | one unrelated process can hold each pid that matters; two make the difference between a stale copy and a stale static |
| `RetryAttemptCount` | 2 | the smallest count with a test that fails and is not followed by a termination |
| `ShutdownTimeout` | 4 | two waits of 3 seconds: 4 is no multiple, the rounding happens |
| `Procs` of `Daemon` | 4 (2 for the violations) | a daemon with its parent and another pair that finds the lock taken, or held elsewhere; four wrappers that do not fork |
| `Operators` | one or two in `Daemon_lock`, one in the others | every race of the script is between two runs of it; `StoppedAlone` is about one |
| `Editions` | 3 | a wrapper that refuses its file, then daemons under one lock, then a daemon under another with a gap the health monitor finds: a process may have read any of the first while the next is there |
| `Beginnings` (`MCBeginnings`) | any edition with one operator, those that make daemons with two | that two operators may start two wrappers when nothing forks is in section 4; what the lock is for begins with the second edition |
| the intervals of `TimedSupervisor_ok` | 1 to 4 seconds | small, and against each other as it matters: the probe's limits (1 and 2) longer together than a `HealthCheckInterval` (1), `PidCheckInterval` (3) less than `Respite` (4) and longer than `StartupTimeout` (2), a wait (3) longer than both; every bound is met with equality somewhere (`down = 3`, `unfit = Patience`, `sinceAsk = Respite` at a request, `sinceAsk = ShutdownTimeout + 2` at a kill) |
| `ClockBound` | `Patience + ShutdownTimeout + 4` | the clocks stop above every number they are compared with |
| `Limit` | 10 or 14 | with ten the table of a foreground wrapper holds one launch and a probe but not several leaked pipes, so both `pipe` calls fail somewhere; with fourteen none does |
| `MaxLaunches` | 2 or 3 | a reader, the launch after it and one more that finds what they left |
| `Pieces` | 2 | a pause before, between and after pieces; 0 is a reply without end |
| `ScmWaitHint` | 2 seconds | the SCM's own; with sleeps of 1 to 3 seconds the tool goes round once, twice or three times before the hint is over |
| `Procs`, `Tools`, `Files` of `WinService` | 2, 2 and 3 | a start after a stop or a removal, with a tool waiting for either process; a file for each thing the worker can do |

Runs that check liveness use no symmetry. The others use the permutations of
pids or processes, of which none is named in a property; their temporal
properties are action properties, which TLC looks at on every step it takes.
`CHECK_DEADLOCK FALSE` stands where the system really may stop: a wrapper that
has ended for good with no process left, or a model that has used up its
processes or launches.

## 7. What is proved

All theorems are for every value of the constants the modules' assumptions
allow: any set of pids that lacks 0 and -1, any counts and timeouts, any
replies, any number of processes, operators, descriptors and launches, any
editions of the configuration. What a theorem assumes beyond that is said with
it, and is part of its statement or of the property's.

`SupervisorProofs`

- `TypeCorrect`: `Spec => []TypeOK`. `TypeOK` is not inductive: a counter that
  is about to pass its bound would pass it, and threads would run before `run`
  made them. `TypeInv` adds `StartInv` (before the threads exist they are off)
  and `CounterInv` (a thread that is about to test has a counter below
  `MaxFailures`).
- `Tracked` and `OneApplication`: `AppTracked` says, for each place of the
  process monitor, which pid a live application can have; it is inductive with
  `TypeInv`, and "at most one" follows. It needs nothing of the environment:
  failing launches and recycled pids are included. The reason is that the
  monitor is the only one that launches, and that a pid that is recycled makes
  it launch less, never more.
- `TermReachesApp`: from `AppTracked`, for the step that handles the SIGTERM.
- `ForcedOnlyAfterAsked`, assuming `~PidRecycling`: `AskedInv` says that the
  process a termination waits for was asked, `FailedInv` where -1 can be; the
  kill then hits the process that was asked.
- `NoStrangerSignalled`, assuming also `~LaunchMayFail`: `HeldInv` says that
  none of the three pids the wrapper holds is a stranger's, or -1. Both
  assumptions are needed; section 4 has what happens without the second.

`SupervisorWatchdogProofs`: `SupervisorImplementsWatchdog`, assuming
`~PidRecycling`: under the mapping the initial states are the watchdog's, and
each step of the supervisor is a launch, an ask, a force, an end, a stop, or
nothing.

`TimedSupervisorProofs`

- `TimedImplementsSupervisor`: each timed step is a step of `Supervisor` and a
  movement of the timers, or moves the probe and the timers alone. The one step
  with something to it is `ProbeIsJudged`: `Supervisor` picks any verdict that
  `HealthTest` allows for a reply, and whatever the probe has received, the
  verdict is one of these (`JudgeIsTest`). What is proved of `Supervisor` for
  all sleeps and verdicts so holds of the timed wrapper.
- `TimedTypes`, with `StageInv` (the probe runs only while its thread would
  sleep); `SocketIsReleased`, which is inductive.
- `RelaunchIsInTime`: `LaunchInv` says which process can be alive at each place
  of the process monitor, `DownInv` that the time without an application and
  what is left of the monitor's sleep make up at most one interval.
- `KillIsOnTime`: `WaitInv` says that a termination's clock is three seconds a
  round less what is left of the present one, `AskedIsAwaited` that the
  application that was asked is the one being waited for.
- `RequestsAreApart`: `Pace`, of any clock that was 0 when the last startup
  sleep began or before, says how far the thread can have come by then: a
  startup time, then one interval for every failed test. It is inductive step by
  step and second by second; at a request it says `Respite`.
- `GroupIsSpared`: `Pace` again, of the time since the threads began, which
  until the first launch is the process monitor's first sleep (`FirstInv`).
- `WrapperLivesOn`: what has been interrupted is waited for and killed, and is
  never pid 0 (`SurvivalInv`, with `FirstInv`); no test crashes it, for the
  empty string fails before anything of it is looked at.
- `TimedImplementsWatchdog`, assuming `~PidRecycling`: from
  `TimedImplementsSupervisor` and `SupervisorImplementsWatchdog`, so that the
  three specifications are one chain. `TimedSupervisor` uses `Supervisor` through
  one instance and the earlier theorem speaks through another; `SameNext` shows
  that their steps are the same.

`TimedAskedProofs`: `AskIsInTime`. `Left` is the most time that can pass until
the next request from where the health monitor is: the rest of its sleep or of
its `recv`, the pieces still to come, and a whole round for each test to come.
`AskedInv` says that an application that has not been asked has been `unfit` for
no longer than leaves room for `Left` within `Patience`. Each step of the thread
lets `Left` grow by no more than its timers are set to (`LeftStep`), each second
lowers it (`LeftLater`), and a launch, which sets `unfit` to 0, finds `Left` at
`Patience` at most (`LeftBound`). `TrackInv` is why a request does not miss: the
copied pid is that of the live application, or of one that was replaced in this
very second. The property needs a reply that ends, pids that name one process,
and `LaunchComesFirst`, which looking for the invariant brought to light.

`ConfigProofs`: `FileIsRead`, for files of any length: `readConfig` keeps the first
line that assigns an ordinary key, and each line that starts with one of the two
accumulated keys, in their order. What the map is after each turn of the loop is
a recursive function, and `ReadSoFar` says what it is to be after `n` of them. One
turn carries it on (`TurnReadsOn`). The library's induction rules take a
predicate as a parameter, which the provers cannot instantiate, so the induction
is stated for a set instead (`UpTo`): of the turns outside it there would be a
least one, by well-foundedness. That the function exists is shown in the same way
(`TurnsAreDefined`).

`DaemonProofs`

- `DaemonTypes`, `OneDaemonServes`, `PidFileIsRight`, for whatever is done to the
  configuration. The invariant is that whoever is past `lockf` holds the lock of
  the configuration it has read (`LockInv`), and past its pid file is named there
  (`PidInv`); a death gives up locks (`DeathKeepsInv`), and the script changes
  nothing else of it.
- `RefusalLeavesNoApplication`: a wrapper that has launched an application has
  found every key of its process monitor and does not go back to where the
  others are read (`LaunchedInv`, with `WrappersGoOn`).
- `StoppedMeansStoppedAlone`: `AloneInv` says, for each place of a lone operator
  in the script, which wrappers can be in the foreground (`Foreground`, which
  leaves out those whose output came first, `ahead`): none, or the one the
  script's file names (`Named`), but for the moments between a launch and the line
  that records it, when it is the one the operator has in hand.
- `RefusalHasAReason`: from `FileIsRead`, a wrapper that exits over a key missed
  one that no line of its file assigns.

`DescriptorsProofs`

- First what the kernel's choice comes to: a non-empty set of numbers has a
  least one (`HasLeast`, from well-foundedness of finite subsets), which is free
  and so is the second (`OneFree`, `TwoFree`).
- `DescriptorTypes`; `FailedLaunchIsClean`, with `FailInv`: a launch's pipes are
  held only from its first call until it fails.
- `ReaderOwnsItsPipe` and `SocketIsOwned`, of readers that run before the next
  launch (`~LateReaders`): `OwnInv` says for each variable what the table says
  its number names; as numbers of different things differ, no thread closes or
  reuses another's. It holds until a launch fails (`CalmInv`), which is as far as
  the properties go.
- `OneIsLeftOpen`, under the same condition: `LeftInv` says that from its `fork()`
  on a launch has two descriptors in the table, the write end of stdin and the
  one its reader reads or is about to read (`Kept`), so that one is left when the
  reader is done. It needs that no reader is handed descriptor 0, which is the
  number a reader gives up on, and that is so because 0 is never free.

`WinServiceProofs`

- `WinServiceTypes`, `NoLateReport`, `StartBeforeStop`. The SCM has a process
  exactly while that process's dispatcher is at work and nothing says STOPPED
  (`CurrentInv`); a control comes only after RUNNING, the last thing `Start`
  reports (`StartInv`); `Start` and `Stop` each use one check point (`CountInv`).
- `ServiceImplementsLifecycle`: each step of a process, a tool or the SCM is a
  step of `ServiceLifecycle` or changes nothing it sees. `StatusInv` ties the last
  report to the place of the process that serves; `OneServes` is why there is
  one process to speak of. The steps fall into starts (`StartIsSeen`), reports
  (`ServiceIsSeen`), deaths (`ExitsAreSeen`) and the rest (`ControlsAreUnseen`).

Only model-checked: liveness (`Relaunch`, `AskedAppEnds`, `HangupPasses`,
`FiniteReplyEnds`, `ReaderEndsWithApp`, `ToolEnds`, `RefusalEnds`), which is beyond the
prover here; and what the two shipped configuration files come to, which is a
computation. Every safety property of a run is a theorem too.

## 8. What is not modelled

- The JSON parser (third-party); what the verdict needs of it is in
  `HttpHealth`.
- Of the configuration file, single characters: how `line.find` meets a key is
  the `form` of an abstract line. Directories and names are compared as wholes.
- Log file contents, system information, path and string helpers.
- On Windows: pipe handles and reader thread, the kill functions (window
  messages to whichever windows there are), the health monitor. `Pause` and
  `Continue`, which the constructor's defaults keep from being called, and the
  `catch` blocks, which no `OnStart`, `OnStop` or
  `OnShutdown` of the repository reaches.
- A `chdir` of `daemonize` that fails (`LinuxService.cpp:67`; its result is
  ignored): the lock and the pid file would then be those of the directory the
  wrapper was in, whatever `daemon.pid.dir` says.
- Functions without a caller: `TCPClient::receive` and `read`,
  `launchProcessInSeparateDaemon`, `getPid` by name, `killProcessWithName`.
- Install scripts, build files and the samples of `src/other`.

## 9. Plan

Done, in this order: `HttpHealth`, `Supervisor`, `Watchdog`, the refinement and
their proofs; `HealthProbe`; `Daemon` and its proofs; `Descriptors`;
`WinService`; `Config` and with it the editions of `Daemon` and the files of
`WinService`; `TimedSupervisor` and its proofs; the proofs of `Descriptors` and
`WinService`; the proofs of `Config` and of the properties of `Daemon`'s script;
`ServiceLifecycle` and its refinement; the chain from `TimedSupervisor` to
`Watchdog`.

What is left, the most useful first:

1. An abstract specification of `Daemon`, one lock with one holder, and its
   refinement; the invariant is proved already.
2. `TimedSupervisor` with signals and failed launches, which would say how long
   the wrapper takes to end.
3. A Windows counterpart of `Supervisor`: the static `process_pid` of the
   graceful kill, the health monitor, handles. Worth stating: the application is
   asked before it is killed (true of the first termination only).
