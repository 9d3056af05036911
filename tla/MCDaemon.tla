------------------------------ MODULE MCDaemon ------------------------------
\* Small instances of Daemon.
EXTENDS Daemon, ShippedConfig

\* Processes are interchangeable, and so are operators.
MCSymmetry == Permutations(Procs) \cup Permutations(Operators)

-----------------------------------------------------------------------------
(* Editions of the configuration.                                          *)

Forking   == With(NixShipped, "daemon.forkAsDaemon", Text("true"))
Elsewhere == With(With(Forking, "daemon.pid.dir", Text("/tmp")),
                  "ping.enableHealthCheck", Text("true"))

\* The file is replaced twice: by one that makes daemons of the wrappers, and by
\* one that puts their lock elsewhere and has a gap the health monitor finds.
MCEditions == <<Without(NixShipped, "ping.pidCheckInterval"),
                Forking,
                Without(Elsewhere, "app.healthAPI.responseHealthKey")>>

\* One operator begins with any of them; two with one that makes daemons.
MCBeginnings ==
  {<<s, e>> \in (SUBSET Operators) \X DOMAIN MCEditions :
     Cardinality(s) = 1 \/ (Cardinality(s) = 2 /\ e > 1)}

\* Everybody, with the only edition there is.
MCOnly == {<<Operators, 1>>}

MCForking == <<Forking>>

MCShipped == <<NixShipped>>

\* The health test switched on, with the line of its shutdown timeout left the
\* way the file has it at its end.
MCNoTimeout == <<Without(With(NixShipped, "ping.enableHealthCheck", Text("true")),
                         "shutdown.timeout")>>
=============================================================================
