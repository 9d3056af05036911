---------------------------- MODULE Descriptors ----------------------------
(***************************************************************************)
(* The wrapper's file descriptors: the log files of CommonUtil, the pipes  *)
(* launchProcessInSeparateDaemonWithHandlers makes to the application, the *)
(* thread that copies the application's console to a log, and the health   *)
(* monitor's socket.  open(), pipe() and socket() take the lowest free     *)
(* numbers, so a number kept by one thread may come to name what another   *)
(* opened since.                                                           *)
(*                                                                         *)
(* Applications are numbered by their launch; one that has ended holds no  *)
(* descriptor any more.  The pids are those of module Supervisor and do    *)
(* not appear.                                                             *)
(***************************************************************************)
EXTENDS Integers, FiniteSetsExt

CONSTANTS
  Limit,        \* RLIMIT_NOFILE: descriptors are 0..Limit-1
  Modes,        \* the values of wrapper.daemon.forkAsDaemon considered
  HealthCheck,  \* wrapper.ping.enableHealthCheck
  LateReaders,  \* a reader thread may still not run when the next launch is due
  ForkMayFail,  \* fork() may fail
  MaxLaunches   \* a bound

ASSUME DescriptorsAssumption ==
  /\ Limit \in Nat /\ Limit >= 5
  /\ Modes \subseteq BOOLEAN
  /\ HealthCheck \in BOOLEAN
  /\ LateReaders \in BOOLEAN
  /\ ForkMayFail \in BOOLEAN
  /\ MaxLaunches \in Nat

Fds      == 0..(Limit - 1)
Launches == 1..MaxLaunches
None     == -1

\* The numbers inside the two FILE handles, which nothing ever changes.
LogFd     == 3
ConsoleFd == 4

\* What a descriptor names; a pipe end also says of which launch.
Thing(what) == [what |-> what, launch |-> 0]
End(what, n) == [what |-> what, launch |-> n]
Free == Thing("free")

VARIABLES
  wrapper,  \* "starting", "running", or "gone"
  fd,       \* the descriptor table
  pm,       \* where the process monitor is in a launch
  launch,   \* the number of the last launch begun
  failed,   \* a launch has returned -1, and it has become child_process_pid
  alive,    \* the launches whose application is alive
  p_stdin,  \* the launch's two pipes, <<read end, write end>>
  p_stdout,
  child_process_std_in,
  child_process_std_out,
  reader,   \* for each launch, where its reader thread is ...
  hStdOut,  \* ... and the descriptor it reads
  sock,     \* TCPClient::sock
  fed       \* the launches that were sent the wrapper's own log text on stdin

vars == <<wrapper, fd, pm, launch, failed, alive, p_stdin, p_stdout,
          child_process_std_in, child_process_std_out, reader, hStdOut, sock, fed>>
pipeVars == <<p_stdin, p_stdout>>
staticVars == <<child_process_std_in, child_process_std_out>>
readerVars == <<reader, hStdOut>>

Things == {Thing(w) : w \in {"free", "std", "log", "console", "null", "lock", "socket"}}
            \cup {End(w, n) : w \in {"inR", "inW", "outR", "outW"}, n \in Launches}

Pairs == {<<None, None>>} \cup (Fds \X Fds)

TypeOK ==
  /\ wrapper \in {"starting", "running", "gone"}
  /\ fd \in [Fds -> Things]
  /\ pm \in {"sleep", "stdin", "stdout", "fork", "spawn"}
  /\ launch \in 0..MaxLaunches
  /\ failed \in BOOLEAN
  /\ alive \subseteq Launches
  /\ p_stdin \in Pairs /\ p_stdout \in Pairs
  /\ child_process_std_in \in Fds /\ child_process_std_out \in Fds
  /\ reader \in [Launches -> {"none", "created", "reading", "done"}]
  /\ hStdOut \in [Launches -> Fds \cup {None}]
  /\ sock \in Fds \cup {None}
  /\ fed \subseteq Launches

\* As the constructor of ServiceProcess leaves it.
Init ==
  /\ wrapper = "starting"
  /\ fd = [n \in Fds |-> CASE n < 3         -> Thing("std")
                           [] n = LogFd     -> Thing("log")
                           [] n = ConsoleFd -> Thing("console")
                           [] OTHER         -> Free]
  /\ pm = "sleep"
  /\ launch = 0
  /\ failed = FALSE
  /\ alive = {}
  /\ p_stdin = <<None, None>> /\ p_stdout = <<None, None>>
  /\ child_process_std_in = 0 /\ child_process_std_out = 0
  /\ reader = [n \in Launches |-> "none"]
  /\ hStdOut = [n \in Launches |-> None]
  /\ sock = None
  /\ fed = {}

-----------------------------------------------------------------------------
FreeFds(table) == {n \in Fds : table[n] = Free}

\* A call that opens one thing, and one that opens two, and the numbers they give.
First(table)  == Min(FreeFds(table))
Second(table) == Min(FreeFds(table) \ {First(table)})

Room(table, n) == Cardinality(FreeFds(table)) >= n

\* A table after both ends of a pipe are closed.
WithoutPipe(table, pipe) == [table EXCEPT ![pipe[1]] = Free, ![pipe[2]] = Free]

Running == wrapper = "running"

-----------------------------------------------------------------------------
(* daemonize, or not.                                                      *)

\* Every descriptor is closed, those inside the FILE handles too; what is
\* opened next are /dev/null, twice, and the lock file.
Start ==
  /\ wrapper = "starting"
  /\ \E daemon \in Modes :
       fd' = IF daemon
             THEN [n \in Fds |-> CASE n < 2 -> Thing("null")
                                   [] n = 2 -> Thing("lock")
                                   [] OTHER -> Free]
             ELSE fd
  /\ wrapper' = "running"
  /\ UNCHANGED <<pm, launch, failed, alive, pipeVars, staticVars, readerVars, sock, fed>>

-----------------------------------------------------------------------------
(* The launch, by the process monitor thread.                              *)

Begin ==
  /\ Running
  /\ pm = "sleep"
  /\ alive = {} /\ ~failed
  /\ launch < MaxLaunches
  /\ LateReaders \/ \A n \in Launches : reader[n] # "created"
  /\ launch' = launch + 1
  /\ pm' = "stdin"
  /\ UNCHANGED <<wrapper, fd, failed, alive, pipeVars, staticVars, readerVars, sock, fed>>

OpenStdin ==
  /\ Running
  /\ pm = "stdin"
  /\ Room(fd, 2)
  /\ p_stdin' = <<First(fd), Second(fd)>>
  /\ fd' = [fd EXCEPT ![First(fd)] = End("inR", launch), ![Second(fd)] = End("inW", launch)]
  /\ pm' = "stdout"
  /\ UNCHANGED <<wrapper, launch, failed, alive, p_stdout, staticVars, readerVars, sock, fed>>

OpenStdout ==
  /\ Running
  /\ pm = "stdout"
  /\ Room(fd, 2)
  /\ p_stdout' = <<First(fd), Second(fd)>>
  /\ fd' = [fd EXCEPT ![First(fd)] = End("outR", launch), ![Second(fd)] = End("outW", launch)]
  /\ pm' = "fork"
  /\ UNCHANGED <<wrapper, launch, failed, alive, p_stdin, staticVars, readerVars, sock, fed>>

\* (Bugs to be caught: the pair is stored on a failure, too; the first pipe is
\* not closed when the second cannot be made.)
OpenFailsMutant ==
  /\ Running /\ pm \in {"stdin", "stdout"} /\ ~Room(fd, 2)
  /\ fd' = IF pm = "stdout" THEN WithoutPipe(fd, p_stdin) ELSE fd
  /\ failed' = TRUE /\ pm' = "spawn"
  /\ child_process_std_in' = p_stdin[2] /\ child_process_std_out' = p_stdout[1]
  /\ UNCHANGED <<wrapper, launch, alive, pipeVars, readerVars, sock, fed>>

OpenFailsLeaks ==
  /\ Running /\ pm \in {"stdin", "stdout"} /\ ~Room(fd, 2)
  /\ failed' = TRUE /\ pm' = "spawn"
  /\ UNCHANGED <<wrapper, fd, launch, alive, pipeVars, staticVars, readerVars, sock, fed>>

\* pipe() finds no room: what is open is closed, and -1 returned.  The statics
\* keep what they had, and a reader thread is created all the same.
OpenFails ==
  /\ Running
  /\ pm \in {"stdin", "stdout"}
  /\ ~Room(fd, 2)
  /\ fd' = IF pm = "stdout" THEN WithoutPipe(fd, p_stdin) ELSE fd
  /\ failed' = TRUE
  /\ pm' = "spawn"
  /\ UNCHANGED <<wrapper, launch, alive, pipeVars, staticVars, readerVars, sock, fed>>

\* fork() fails: likewise, with both pipes.
ForkFails ==
  /\ Running
  /\ pm = "fork"
  /\ ForkMayFail
  /\ fd' = WithoutPipe(WithoutPipe(fd, p_stdin), p_stdout)
  /\ failed' = TRUE
  /\ pm' = "spawn"
  /\ UNCHANGED <<wrapper, launch, alive, pipeVars, staticVars, readerVars, sock, fed>>

\* (Bugs to be caught: the wrong end of the pipe is handed over; the wrapper
\* keeps the application's end of the pipe open.)
ForkMutant ==
  /\ Running /\ pm = "fork"
  /\ alive' = alive \cup {launch}
  /\ fd' = [fd EXCEPT ![p_stdin[1]] = Free, ![p_stdout[1]] = Free]
  /\ child_process_std_in' = p_stdin[2] /\ child_process_std_out' = p_stdout[2]
  /\ pm' = "spawn"
  /\ UNCHANGED <<wrapper, launch, failed, pipeVars, readerVars, sock, fed>>

ForkKeepsEnd ==
  /\ Running /\ pm = "fork"
  /\ alive' = alive \cup {launch}
  /\ fd' = [fd EXCEPT ![p_stdin[1]] = Free]
  /\ child_process_std_in' = p_stdin[2] /\ child_process_std_out' = p_stdout[1]
  /\ pm' = "spawn"
  /\ UNCHANGED <<wrapper, launch, failed, pipeVars, readerVars, sock, fed>>

\* (A bug to be caught: the wrapper keeps the end of stdin that is read.)
ForkKeepsStdin ==
  /\ Running /\ pm = "fork"
  /\ alive' = alive \cup {launch}
  /\ fd' = [fd EXCEPT ![p_stdout[2]] = Free]
  /\ child_process_std_in' = p_stdin[2] /\ child_process_std_out' = p_stdout[1]
  /\ pm' = "spawn"
  /\ UNCHANGED <<wrapper, launch, failed, pipeVars, readerVars, sock, fed>>

\* The wrapper closes the application's ends and keeps its own.  Nothing ever
\* closes the write end of stdin: the next launch overwrites its number.
Fork ==
  /\ Running
  /\ pm = "fork"
  /\ alive' = alive \cup {launch}
  /\ fd' = [fd EXCEPT ![p_stdin[1]] = Free, ![p_stdout[2]] = Free]
  /\ child_process_std_in' = p_stdin[2]
  /\ child_process_std_out' = p_stdout[1]
  /\ pm' = "spawn"
  /\ UNCHANGED <<wrapper, launch, failed, pipeVars, readerVars, sock, fed>>

Spawn ==
  /\ Running
  /\ pm = "spawn"
  /\ reader' = [reader EXCEPT ![launch] = "created"]
  /\ pm' = "sleep"
  /\ p_stdin' = <<None, None>>
  /\ p_stdout' = <<None, None>>
  /\ UNCHANGED <<wrapper, fd, launch, failed, alive, staticVars, hStdOut, sock, fed>>

ProcessMonitor == Begin \/ OpenStdin \/ OpenStdout \/ OpenFails \/ ForkFails \/ Fork \/ Spawn

-----------------------------------------------------------------------------
(* Writing to a FILE handle.  Text for a pipe goes to that application's   *)
(* stdin; a pipe whose application has ended means SIGPIPE, which nothing  *)
(* handles or ignores.                                                     *)

InPipe(n) == fd[n].what = "inW"

Write(n) ==
  /\ wrapper' = IF InPipe(n) /\ fd[n].launch \notin alive THEN "gone" ELSE wrapper
  /\ fed' = IF InPipe(n) /\ fd[n].launch \in alive THEN fed \cup {fd[n].launch} ELSE fed

\* Any thread logs at any time.
LogMessage ==
  /\ Running
  /\ Write(LogFd)
  /\ UNCHANGED <<fd, pm, launch, failed, alive, pipeVars, staticVars, readerVars, sock>>

-----------------------------------------------------------------------------
(* The reader thread.  It takes its descriptor from the static, when it    *)
(* comes to run, and not from the argument it was created with.            *)

ReaderStarts(n) ==
  /\ Running
  /\ reader[n] = "created"
  /\ reader' = [reader EXCEPT ![n] = IF child_process_std_out = 0 THEN "done" ELSE "reading"]
  /\ hStdOut' = [hStdOut EXCEPT ![n] =
                   IF child_process_std_out = 0 THEN None ELSE child_process_std_out]
  /\ UNCHANGED <<wrapper, fd, pm, launch, failed, alive, pipeVars, staticVars, sock, fed>>

\* A pipe is at its end when no one has its write end open.
AtEnd(thing) ==
  /\ thing.what = "outR"
  /\ thing.launch \notin alive
  /\ \A n \in Fds : fd[n] # End("outW", thing.launch)

\* read() gives a line of the application's, which is logged.
ReaderLogs(n) ==
  /\ Running
  /\ reader[n] = "reading"
  /\ fd[hStdOut[n]].what \in {"outR", "socket"}
  /\ ~AtEnd(fd[hStdOut[n]])
  /\ Write(ConsoleFd)
  /\ UNCHANGED <<fd, pm, launch, failed, alive, pipeVars, staticVars, readerVars, sock>>

\* (A bug to be caught: the descriptor is closed by each of two owners.)
ReaderEndsMutant(n) ==
  /\ Running /\ reader[n] = "reading"
  /\ \/ fd[hStdOut[n]].what # "outR"
     \/ AtEnd(fd[hStdOut[n]])
  /\ Write(ConsoleFd)
  /\ fd' = [fd EXCEPT ![hStdOut[n]] = Free]
  /\ UNCHANGED <<pm, launch, failed, alive, pipeVars, staticVars, readerVars, sock>>

\* read() gives nothing or an error: what there is of a line is logged, and
\* the descriptor closed.  A socket ends when its peer wants.
ReaderEnds(n) ==
  /\ Running
  /\ reader[n] = "reading"
  /\ \/ fd[hStdOut[n]].what # "outR"
     \/ AtEnd(fd[hStdOut[n]])
  /\ Write(ConsoleFd)
  /\ fd' = [fd EXCEPT ![hStdOut[n]] = Free]
  /\ reader' = [reader EXCEPT ![n] = "done"]
  /\ UNCHANGED <<pm, launch, failed, alive, pipeVars, staticVars, hStdOut, sock>>

Reader(n) == ReaderStarts(n) \/ ReaderLogs(n) \/ ReaderEnds(n)

-----------------------------------------------------------------------------
(* The health monitor's socket: TCPClient::setup and exit.                 *)

OpenSocket ==
  /\ Running /\ HealthCheck
  /\ sock = None
  /\ Room(fd, 1)
  /\ sock' = First(fd)
  /\ fd' = [fd EXCEPT ![First(fd)] = Thing("socket")]
  /\ UNCHANGED <<wrapper, pm, launch, failed, alive, pipeVars, staticVars, readerVars, fed>>

CloseSocket ==
  /\ Running
  /\ sock # None
  /\ fd' = [fd EXCEPT ![sock] = Free]
  /\ sock' = None
  /\ UNCHANGED <<wrapper, pm, launch, failed, alive, pipeVars, staticVars, readerVars, fed>>

\* The application ends.
AppEnds(n) ==
  /\ n \in alive
  /\ alive' = alive \ {n}
  /\ UNCHANGED <<wrapper, fd, pm, launch, failed, pipeVars, staticVars, readerVars, sock, fed>>

Next == \/ Start \/ ProcessMonitor \/ LogMessage \/ OpenSocket \/ CloseSocket
        \/ \E n \in Launches : Reader(n) \/ AppEnds(n)

\* The reader threads are scheduled.
Spec == /\ Init /\ [][Next]_vars
        /\ \A n \in Launches : WF_vars(ReaderStarts(n)) /\ WF_vars(ReaderEnds(n))

-----------------------------------------------------------------------------
\* A reader reads, and in the end closes, the pipe of its own launch and
\* nothing else, whatever has been opened and closed around it.  (A failed
\* launch has a reader, too, and that one reads what the last number that was
\* good has come to name.)
ReaderOwnsPipe ==
  ~failed => \A n \in Launches :
               reader[n] = "reading" => fd[hStdOut[n]] = End("outR", n)

\* The health monitor's descriptor is its socket until it closes it, as long
\* as no launch has failed.
SocketOwned == ~failed /\ sock # None => fd[sock] = Thing("socket")

\* When the application has ended, its reader thread ends and its descriptor
\* is free again.
ReaderEndsWithApp ==
  \A n \in Launches :
    (reader[n] = "reading" /\ n \notin alive) ~> (reader[n] = "done" \/ wrapper = "gone")

HeldBy(n) == {f \in Fds : fd[f].launch = n}

\* A launch that fails, at whichever of its three calls, has closed every
\* descriptor it opened.
FailedLaunchHoldsNothing == failed => HeldBy(launch) = {}

\* Each launch leaves one descriptor behind for good, the write end of its
\* application's stdin, and not one more: what else it opened is closed by the
\* time its reader thread is done.
OneLeftOpen ==
  ~failed => \A n \in Launches :
               reader[n] = "done" => \E f \in Fds : HeldBy(n) = {f} /\ fd[f] = End("inW", n)

\* With every reader thread of an earlier launch ended and no probe under way,
\* the descriptors for a launch are there, however many have gone before: a
\* launch that fails is the last one.
LaunchFinds ==
  (/\ pm = "stdin" /\ sock = None
   /\ \A n \in Launches : reader[n] \in {"none", "done"}) => Room(fd, 4)

\* Writing a log never ends the wrapper.
LoggingIsHarmless == wrapper # "gone"

\* What the application prints is logged, and not sent back to it.
ConsoleNotFedBack == fed = {}

=============================================================================
