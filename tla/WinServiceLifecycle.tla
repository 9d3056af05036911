------------------------ MODULE WinServiceLifecycle ------------------------
(***************************************************************************)
(* The Windows service implements the lifecycle: it is served while a      *)
(* dispatcher is at work, and its work is begun by OnStart.                *)
(***************************************************************************)
EXTENDS WinService

Serving == {p \in Procs : proc[p] = "dispatching"}
Begun   == {p \in Serving : start[p] \in {"running", "done"}}

L == INSTANCE ServiceLifecycle WITH serving <- Serving, begun <- Begun

\* Every behaviour of the service process, its tools and the SCM, seen through
\* that mapping, is one of the lifecycle: statuses come in order, from one
\* process at a time, whatever crashes, missing keys, stops, shutdowns and tools
\* come between.
ImplementsLifecycle == L!Spec
=============================================================================
