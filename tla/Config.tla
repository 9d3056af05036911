------------------------------- MODULE Config -------------------------------
(***************************************************************************)
(* The configuration file and its reader, Config.cpp, as operators: what   *)
(* readConfig makes of a file, what a getter makes of a value, and which   *)
(* keys which part of the wrapper reads; a key that is missing when it is  *)
(* read is exit(1) of the whole process.                                   *)
(*                                                                         *)
(* A line is a record of what the reader tells apart.  `form` says how the *)
(* key (named without its prefix "wrapper.") is followed: "assigned" by    *)
(* a space or the '='; "suffixed" by anything else before the '=', as      *)
(* ".1" or a tab; a "comment" does not start with the prefix; a "bare"     *)
(* line has no '='.  A value is what is left of the text after the first   *)
(* '=' when both its ends are trimmed.                                     *)
(***************************************************************************)
EXTENDS Integers, Sequences, FiniteSets, TLC

Forms == {"assigned", "suffixed", "comment", "bare"}

\* Keys that may be given many times, their values collected in order.
Accumulated == {"java.additional", "app.parameter"}

\* The keys readConfig looks for.
Keys == Accumulated \cup
  {"java.command", "java.app.jar", "ntservice.name", "ntservice.displayname",
   "ntservice.description", "daemon.pid.dir", "logfile", "working.dir", "tmp.path",
   "startup.timeout", "shutdown.timeout", "ping.pidCheckInterval",
   "ping.healthCheckInterval", "ping.healthCheckReceiveTimeout",
   "ping.healthCheckRetryAttemptCount", "app.server", "app.port",
   "app.healthAPI.requestMethod", "ping.enablePIDCheck", "ping.enableHealthCheck",
   "app.healthAPI.requestURI", "app.healthAPI.requestBody",
   "app.healthAPI.requestContentType", "app.healthAPI.responseContentType",
   "app.healthAPI.responseHealthKey", "app.healthAPI.responseExpectedValue",
   "enableDebuggingLog", "daemon.forkAsDaemon"}

\* Values, by what the getters do with them: "number" is text that starts with
\* a number an int can hold, "huge" with one it cannot.
Number(n) == [kind |-> "number", number |-> n, text |-> ""]
Text(t)   == [kind |-> "text", number |-> 0, text |-> t]
Huge      == [kind |-> "huge", number |-> 0, text |-> ""]
NoValue   == [kind |-> "empty", number |-> 0, text |-> ""]

Lines ==
  [form : Forms, key : STRING, value : [kind : STRING, number : Int, text : STRING]]

Line(form, key, value) == [form |-> form, key |-> key, value |-> value]

-----------------------------------------------------------------------------
(* readConfig.  The map takes each key to the values it has been given.    *)

\* ifConfigFileHasKey.
HasKey(line, key) == line.form = "assigned" /\ line.key = key

\* line.find(key) == 0 alone, as it is asked of the accumulated keys.
StartsWithKey(line, key) == line.form \in {"assigned", "suffixed"} /\ line.key = key

\* One turn of the loop.  map::insert leaves a key alone that is there.
ReadLine(map, line) ==
  IF \E key \in Accumulated : StartsWithKey(line, key)
  THEN [map EXCEPT ![line.key] = Append(@, line.value)]
  ELSE IF \E key \in Keys \ (Accumulated \cup DOMAIN map) : HasKey(line, key)
  THEN [key \in {line.key} \cup DOMAIN map |->
          IF key = line.key THEN <<line.value>> ELSE map[key]]
  ELSE map

\* The map after each of its turns, the 0th being the empty one.
MapsOfTurns(lines) ==
  LET map[n \in 0..Len(lines)] ==
        IF n = 0 THEN [key \in Accumulated |-> <<>>] ELSE ReadLine(map[n - 1], lines[n])
  IN  map

ReadConfig(lines) == MapsOfTurns(lines)[Len(lines)]

\* What each of a sequence of files comes to.
ReadConfigs(files) == [e \in DOMAIN files |-> ReadConfig(files[e])]

\* What it is to come to: of an ordinary key the first line that assigns it
\* counts, of the other two every line that starts with it, in their order.
IsReadAs(lines, map) ==
  /\ \A key \in Keys \ Accumulated :
       LET at == {i \in DOMAIN lines : HasKey(lines[i], key)}
       IN  /\ key \in DOMAIN map <=> at # {}
           /\ \A i \in at : (\A j \in at : i <= j) => map[key] = <<lines[i].value>>
  /\ \A key \in Accumulated :
       LET at == {i \in DOMAIN lines : StartsWithKey(lines[i], key)}
       IN  /\ Len(map[key]) = Cardinality(at)
           /\ \A i \in at : map[key][Cardinality({j \in at : j <= i})] = lines[i].value

-----------------------------------------------------------------------------
(* The getters.                                                            *)

\* findMapValueOrExit goes on for these keys.
Has(map, keys) == keys \subseteq DOMAIN map

\* getDaemonPIDDir: the one key with a default.
PidDir(map) ==
  IF Has(map, {"daemon.pid.dir"}) THEN map["daemon.pid.dir"][1] ELSE Text("/var/run")

\* getLockFileName and getPIDFileName, in the directory daemonize goes to.  Two
\* names count as the same here when they are so with underscores for spaces.
LockFile(map) == <<PidDir(map), map["ntservice.name"][1]>>

\* caseInsensitiveCompare(value, "true").
Flag(map, key) == map[key][1] = Text("true")

MaxInt == 2147483647

\* int num = 3; stream >> num: with nothing to read the 3 stays, text that is no
\* number makes it 0, and a number that does not fit the largest int.
Seconds(map, key) ==
  LET value == map[key][1]
  IN  CASE value.kind = "empty"  -> 3
        [] value.kind = "number" -> value.number
        [] value.kind = "huge"   -> MaxInt
        [] value.kind = "text"   -> 0

-----------------------------------------------------------------------------
(* Who reads what.                                                         *)

\* The constructor of ServiceProcess, on both systems.
ConstructorKeys == {"logfile", "enableDebuggingLog", "ping.healthCheckReceiveTimeout"}

\* main() on Linux, and daemonize() up to its fork().
BootKeys == ConstructorKeys \cup
  {"working.dir", "ntservice.displayname", "daemon.forkAsDaemon"}

\* The child that fork() made, for the name of the lock file; the rest of main().
NameKeys == {"ntservice.name"}

\* main() on Windows, for the tool and for the service alike.
WindowsBootKeys == ConstructorKeys \cup
  {"ntservice.name", "ntservice.description", "ntservice.displayname"}

\* run(), up to the creation of the process monitor thread.
RunKeys ==
  {"ntservice.displayname", "ntservice.description", "ntservice.name", "logfile",
   "java.command", "java.app.jar", "ping.enablePIDCheck"}

\* The process monitor thread, before its first sleep.
MonitorKeys == {"ntservice.name", "java.command", "java.app.jar", "ping.pidCheckInterval"}

\* The health monitor thread, before its first sleep and after it.
HealthKeys ==
  {"ntservice.name", "ping.healthCheckInterval", "ping.healthCheckRetryAttemptCount",
   "startup.timeout", "shutdown.timeout"}
HealthAPIKeys ==
  {"app.port", "app.server", "app.healthAPI.requestBody", "app.healthAPI.requestMethod",
   "app.healthAPI.requestContentType", "app.healthAPI.requestURI",
   "app.healthAPI.responseContentType", "app.healthAPI.responseHealthKey",
   "app.healthAPI.responseExpectedValue"}

\* What run() and its threads read once the process monitor may be there; the
\* second switch is read after the first thread was made.
ThreadKeys(map) ==
  {"ping.enableHealthCheck"}
    \cup (IF Flag(map, "ping.enablePIDCheck") THEN MonitorKeys ELSE {})
    \cup (IF /\ Has(map, {"ping.enableHealthCheck"})
             /\ Flag(map, "ping.enableHealthCheck")
          THEN HealthKeys \cup HealthAPIKeys ELSE {})
=============================================================================
