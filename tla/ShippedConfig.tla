--------------------------- MODULE ShippedConfig ---------------------------
(***************************************************************************)
(* The configuration files of the repository, for the instances of the     *)
(* modules that read one, and the reader checked on them and on all small  *)
(* files.  Of the JVM's arguments one stands for all.                      *)
(***************************************************************************)
EXTENDS Config

Assigned(key, value) == Line("assigned", key, value)

\* conf/nix-wrapper.conf.
NixShipped == <<
  Line("comment", "app.env", NoValue),
  Assigned("enableDebuggingLog", Text("false")),
  Assigned("working.dir", Text("./")),
  Assigned("tmp.path", Text("service/logs")),
  Assigned("logfile", Text("service/logs/nix-service.log")),
  Assigned("ntservice.name", Text("MyTestService")),
  Assigned("ntservice.displayname", Text("Test Service")),
  Assigned("ntservice.description", Text("Test Service")),
  Assigned("daemon.pid.dir", Text("/var/run")),
  Assigned("daemon.forkAsDaemon", Text("false")),
  Assigned("startup.timeout", Number(120)),
  Assigned("shutdown.timeout", Number(30)),
  Assigned("ping.enablePIDCheck", Text("true")),
  Assigned("ping.pidCheckInterval", Number(3)),
  Assigned("ping.enableHealthCheck", Text("false")),
  Assigned("ping.healthCheckInterval", Number(5)),
  Assigned("ping.healthCheckRetryAttemptCount", Number(3)),
  Assigned("ping.healthCheckReceiveTimeout", Number(3)),
  Assigned("app.server", Text("127.0.0.1")),
  Assigned("app.port", Number(8080)),
  Assigned("app.healthAPI.requestURI", Text("/rest/test")),
  Assigned("app.healthAPI.requestMethod", Text("POST")),
  Assigned("app.healthAPI.requestBody", Text("{...}")),
  Assigned("app.healthAPI.requestContentType", Text("application/json")),
  Assigned("app.healthAPI.responseContentType", Text("application/json")),
  Assigned("app.healthAPI.responseHealthKey", Text("message")),
  Assigned("app.healthAPI.responseExpectedValue", Text("Success")),
  Line("comment", "shutdown.timeout", NoValue),
  Assigned("java.app.jar", Text("service/app/nix.jar")),
  Assigned("java.command", Text("java")),
  Line("suffixed", "app.parameter", Text("service/logs/nix-test-program.out")),
  Line("suffixed", "app.parameter", Text("service/logs/nix-test-program.err")),
  Line("suffixed", "app.parameter", Number(-1)),
  Line("suffixed", "java.additional", Text("-Xms128m"))>>

\* conf/win-wrapper.conf.
WinShipped == <<
  Assigned("enableDebuggingLog", Text("false")),
  Assigned("logfile", Text("service/logs/win-service.log")),
  Assigned("ntservice.name", Text("MyTestService")),
  Assigned("ntservice.displayname", Text("My Test Service")),
  Assigned("ntservice.description", Text("My Test Service")),
  Assigned("daemon.pid.dir", Text("service/logs")),
  Assigned("daemon.forkAsDaemon", Text("false")),
  Assigned("startup.timeout", Number(10)),
  Assigned("shutdown.timeout", Number(60)),
  Assigned("ping.pidCheckInterval", Number(3)),
  Assigned("ping.healthCheckInterval", Number(5)),
  Assigned("ping.healthCheckRetryAttemptCount", Number(3)),
  Assigned("ping.healthCheckReceiveTimeout", Number(3)),
  Assigned("app.server", Text("127.0.0.1")),
  Assigned("app.port", Number(8080)),
  Assigned("app.healthAPI.requestURI", Text("/rest/test")),
  Assigned("app.healthAPI.requestBody", Text("{...}")),
  Assigned("app.healthAPI.requestContentType", Text("application/json")),
  Assigned("app.healthAPI.responseContentType", Text("application/json")),
  Assigned("app.healthAPI.responseHealthKey", Text("message")),
  Assigned("app.healthAPI.responseExpectedValue", Text("Success")),
  Line("comment", "shutdown.timeout", NoValue),
  Assigned("java.app.jar", Text("service/app/win.jar")),
  Assigned("java.command", Text("java.exe")),
  Line("suffixed", "app.parameter", Text("service/logs/win-test-program.log")),
  Line("suffixed", "app.parameter", Text("service/logs/win-test-program.err")),
  Line("suffixed", "app.parameter", Number(-1)),
  Line("suffixed", "java.additional", Text("-Xms128m"))>>

\* A file with another value of a key, and one with its line commented out.
With(lines, key, value) ==
  [i \in DOMAIN lines |->
     IF HasKey(lines[i], key) THEN Assigned(key, value) ELSE lines[i]]
Without(lines, key) ==
  [i \in DOMAIN lines |->
     IF HasKey(lines[i], key) THEN Line("comment", key, NoValue) ELSE lines[i]]

-----------------------------------------------------------------------------
\* What readConfig comes to is what it should, on every small file.
SmallLines ==
  {Line(form, key, Number(1)) :
     form \in Forms, key \in {"working.dir", "app.server", "app.parameter"}}
    \cup {Assigned("working.dir", NoValue), Line("suffixed", "app.parameter", Number(2))}

SmallFiles == UNION {[1..n -> SmallLines] : n \in 0..3}

ASSUME ReadConfigIsRight == \A f \in SmallFiles : IsReadAs(f, ReadConfig(f))

\* The Linux file has every key that any part of the wrapper reads.
ASSUME NixShippedIsComplete == Has(ReadConfig(NixShipped), Keys)

\* The Windows file lacks the two switches, which the worker of every service
\* reads, and the request method, which the health monitor reads.
ASSUME WinShippedLacks ==
  /\ WindowsBootKeys \subseteq DOMAIN ReadConfig(WinShipped)
  /\ Keys \ DOMAIN ReadConfig(WinShipped) =
       {"ping.enablePIDCheck", "ping.enableHealthCheck", "app.healthAPI.requestMethod",
        "working.dir", "tmp.path"}

\* Of both files the intervals are such that time passes, and the first launch
\* comes before the health monitor can have given anything up: what
\* TimedSupervisor calls IntervalAssumption and LaunchComesFirst.
ASSUME ShippedIntervalsFit ==
  \A file \in {NixShipped, WinShipped} :
    LET s(key) == Seconds(ReadConfig(file), key)
    IN  /\ {s("ping.pidCheckInterval"), s("ping.healthCheckInterval"),
            s("ping.healthCheckReceiveTimeout")} \subseteq Nat \ {0}
        /\ {s("startup.timeout"), s("shutdown.timeout"),
            s("ping.healthCheckRetryAttemptCount")} \subseteq Nat
        /\ s("ping.pidCheckInterval") <
             s("startup.timeout")
               + s("ping.healthCheckRetryAttemptCount") * s("ping.healthCheckInterval")

\* What the getters of numbers make of an empty value, of other text and of a
\* number that is too large.
ASSUME SecondsAreNumbers ==
  LET s(value) == Seconds(ReadConfig(<<Assigned("startup.timeout", value)>>), "startup.timeout")
  IN  /\ s(NoValue) = 3 /\ s(Text("soon")) = 0 /\ s(Huge) = MaxInt
      /\ \A n \in -1..4 : s(Number(n)) = n
=============================================================================
