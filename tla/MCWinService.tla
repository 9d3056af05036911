---------------------------- MODULE MCWinService ----------------------------
\* Small instances of WinService.
EXTENDS WinServiceLifecycle, ShippedConfig

\* The file as it is shipped, one with the switches it lacks, and one with both
\* monitors off.
MCSwitches(enablePIDCheck) ==
  WinShipped \o <<Assigned("ping.enablePIDCheck", Text(enablePIDCheck)),
                  Assigned("ping.enableHealthCheck", Text("false"))>>
MCFiles == <<WinShipped, MCSwitches("true"), MCSwitches("false")>>
=============================================================================
