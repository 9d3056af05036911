-------------------------- MODULE WinServiceProofs --------------------------
(***************************************************************************)
(* The types of WinService, its two safety properties and the lifecycle it *)
(* implements, for any number of processes and tools and any configuration *)
(* files.                                                                  *)
(***************************************************************************)
EXTENDS WinServiceLifecycle, TLAPS

\* The SCM has a process for the service exactly when it has not got it as
\* stopped, and that process is the one whose dispatcher is at work.
CurrentInv ==
  /\ \A p \in Procs : proc[p] = "dispatching" <=> current = p
  /\ state = "STOPPED" <=> current = Nobody

\* Controls come only when RUNNING was reported, the last thing Start does.
StartInv ==
  /\ \A p \in Procs : (state = "RUNNING" /\ current = p) => start[p] = "done"
  /\ \A p \in Procs : (proc[p] = "dispatching" /\ handler[p] # "none") => start[p] = "done"
  /\ \A p \in Procs : proc[p] = "ending" => start[p] = "done"

\* Of the reports that count, Start makes one and Stop the other.
CountInv ==
  \A p \in Procs :
    /\ start[p] \in {"none", "registering", "pending"} => dwCheckPoint[p] = 1
    /\ (proc[p] = "dispatching" /\ handler[p] # "onstop") => dwCheckPoint[p] <= 2
    /\ proc[p] = "unborn" => handler[p] = "none" /\ start[p] = "none"

WinInv == TypeOK /\ CurrentInv /\ StartInv /\ CountInv

LEMMA InitWinInv == Init => WinInv
  BY WinServiceAssumption
  DEF Init, WinInv, TypeOK, CurrentInv, StartInv, CountInv, MaxCheckPoint, Pending, ScmWaitHint

LEMMA NewProcIsUnborn ==
  ASSUME Unborn # {}
  PROVE  NewProc \in Procs /\ proc[NewProc] = "unborn"
  BY DEF NewProc, Unborn

-----------------------------------------------------------------------------
(* Steps of the service process.                                           *)

\* The end of a process that the SCM has, or no longer has.
LEMMA ExitsKeepsInv ==
  ASSUME WinInv, NEW p \in Procs, Exits(p)
  PROVE  WinInv'
<1> USE WinServiceAssumption DEF WinInv, Exits, Dies, toolVars, pollVars
<1>1. TypeOK'
  BY DEF TypeOK, MaxCheckPoint, scmVars
<1>2. CurrentInv'
  BY DEF TypeOK, CurrentInv, scmVars
<1>3. StartInv'
  BY DEF TypeOK, StartInv, CurrentInv, scmVars
<1>4. CountInv'
  BY DEF TypeOK, CountInv
<1> QED
  BY <1>1, <1>2, <1>3, <1>4

LEMMA ServiceKeepsInv ==
  ASSUME WinInv, NEW p \in Procs, Service(p)
  PROVE  WinInv'
<1> USE WinServiceAssumption DEF WinInv, toolVars, pollVars, appVars, scmVars
<1>1. CASE ServiceMain(p)
  BY <1>1 DEF ServiceMain, TypeOK, CurrentInv, StartInv, CountInv
<1>2. CASE StartPending(p)
  <2> USE <1>2 DEF StartPending, SetServiceStatus, Pending, MaxCheckPoint
  <2>1. current = p /\ dwCheckPoint[p] = 1
    BY DEF CurrentInv, CountInv
  <2>2. TypeOK'
    BY <2>1 DEF TypeOK
  <2>3. CurrentInv' /\ StartInv' /\ CountInv'
    BY <2>1 DEF TypeOK, CurrentInv, StartInv, CountInv
  <2> QED
    BY <2>2, <2>3
<1>3. CASE OnStart(p)
  BY <1>3 DEF OnStart, TypeOK, CurrentInv, StartInv, CountInv
<1>4. CASE StartRunning(p)
  <2> USE <1>4 DEF StartRunning, SetServiceStatus, Pending, MaxCheckPoint
  <2>1. current = p
    BY DEF CurrentInv
  <2> QED
    BY <2>1 DEF TypeOK, CurrentInv, StartInv, CountInv
<1>5. CASE StopPending(p)
  <2> USE <1>5 DEF StopPending, SetServiceStatus, Pending, MaxCheckPoint
  <2>0. current = p /\ start[p] = "done" /\ dwCheckPoint[p] \in 1..3
    BY DEF TypeOK, CurrentInv, StartInv
  <2>1. current = p /\ start[p] = "done" /\ dwCheckPoint[p] \in 1..2
    BY <2>0 DEF CountInv
  <2>2. TypeOK'
    BY <2>1 DEF TypeOK
  <2>3. CurrentInv' /\ StartInv' /\ CountInv'
    BY <2>1 DEF TypeOK, CurrentInv, StartInv, CountInv
  <2> QED
    BY <2>2, <2>3
<1>6. CASE StopEnds(p) \/ Shutdown(p)
  <2>1. current = p /\ start[p] = "done"
    BY <1>6 DEF StopEnds, Shutdown, CurrentInv, StartInv
  <2>2. /\ proc' = [proc EXCEPT ![p] = "ending"]
        /\ handler' = [handler EXCEPT ![p] = "none"]
        /\ state' = "STOPPED" /\ checkPoint' = 0 /\ current' = Nobody
        /\ UNCHANGED <<file, entry, start, worker, dwCheckPoint, child, app>>
        /\ UNCHANGED <<tool, asked, oldCheckPoint, waited>>
    BY <1>6 DEF StopEnds, Shutdown, SetServiceStatus, Pending
  <2>3. TypeOK'
    BY <2>2 DEF TypeOK, MaxCheckPoint
  <2>4. CurrentInv'
    BY <2>1, <2>2 DEF TypeOK, CurrentInv
  <2>5. StartInv' /\ CountInv'
    BY <2>1, <2>2 DEF TypeOK, StartInv, CountInv
  <2> QED
    BY <2>3, <2>4, <2>5
<1>7. CASE MainReturns(p)
  <2>1. Exits(p)
    BY <1>7 DEF MainReturns, Exits, CurrentInv
  <2> QED
    BY <2>1, ExitsKeepsInv
<1>8. CASE KeyMissing(p)
  BY <1>8, ExitsKeepsInv DEF KeyMissing
<1>9. CASE RunReturns(p)
  <2>1. CASE proc[p] = "program"
    <3>1. Exits(p)
      BY <1>9, <2>1 DEF RunReturns, Exits, CurrentInv
    <3> QED
      BY <3>1, ExitsKeepsInv
  <2>2. CASE proc[p] # "program"
    <3>1. /\ worker' = [worker EXCEPT ![p] = "none"]
          /\ UNCHANGED <<file, entry, state, checkPoint, current, proc, start, handler>>
          /\ UNCHANGED <<dwCheckPoint, child, app, tool, asked, oldCheckPoint, waited>>
      BY <1>9, <2>2 DEF RunReturns
    <3>2. TypeOK'
      BY <3>1 DEF TypeOK, MaxCheckPoint
    <3> QED
      BY <3>1, <3>2 DEF CurrentInv, StartInv, CountInv
  <2> QED
    BY <2>1, <2>2
<1> QED
  BY <1>1, <1>2, <1>3, <1>4, <1>5, <1>6, <1>7, <1>8, <1>9 DEF Service

LEMMA ProcessKeepsInv ==
  ASSUME WinInv, NEW p \in Procs,
         \/ Crashes(p) \/ SendShutdown(p)
         \/ LaunchSucceeds(p) \/ LaunchFails(p) \/ AppEnds(p) \/ Interrupt(p)
  PROVE  WinInv'
<1> USE DEF WinInv, toolVars, pollVars, scmVars
<1>1. CASE Crashes(p)
  BY <1>1, ExitsKeepsInv DEF Crashes
<1>2. CASE SendShutdown(p)
  <2>1. start[p] = "done"
    BY <1>2 DEF SendShutdown, StartInv
  <2>2. TypeOK'
    BY <1>2 DEF SendShutdown, TypeOK, appVars
  <2>3. /\ handler' = [handler EXCEPT ![p] = "shutdown"]
        /\ handler[p] = "none"
        /\ UNCHANGED <<state, current, proc, start, dwCheckPoint>>
    BY <1>2 DEF SendShutdown
  <2>4. proc[p] = "dispatching"
    BY <1>2 DEF SendShutdown, CurrentInv
  <2> QED
    BY <2>1, <2>2, <2>3, <2>4 DEF TypeOK, CurrentInv, StartInv, CountInv
<1>3. CASE LaunchSucceeds(p) \/ LaunchFails(p) \/ AppEnds(p)
  <2>1. /\ UNCHANGED <<file, entry, state, checkPoint, current, proc, start, handler>>
        /\ UNCHANGED <<worker, dwCheckPoint, tool, asked, oldCheckPoint, waited>>
    BY <1>3 DEF LaunchSucceeds, LaunchFails, AppEnds
  <2>2. child' \in [Procs -> BOOLEAN] /\ app' \in [Procs -> BOOLEAN]
    BY <1>3 DEF LaunchSucceeds, LaunchFails, AppEnds, TypeOK
  <2> QED
    BY <2>1, <2>2 DEF TypeOK, CurrentInv, StartInv, CountInv
<1>4. CASE Interrupt(p)
  <2>1. current # p
    BY <1>4 DEF Interrupt, CurrentInv
  <2>2. TypeOK'
    BY <1>4 DEF Interrupt, Dies, TypeOK, MaxCheckPoint
  <2>3. /\ proc' = [proc EXCEPT ![p] = "dead"]
        /\ start' = [start EXCEPT ![p] = "none"]
        /\ dwCheckPoint' = [dwCheckPoint EXCEPT ![p] = 1]
        /\ UNCHANGED <<state, current, handler>>
    BY <1>4 DEF Interrupt, Dies
  <2>4. CurrentInv'
    BY <1>4, <2>3 DEF Interrupt, TypeOK, CurrentInv
  <2>5. StartInv' /\ CountInv'
    BY <2>1, <2>3 DEF TypeOK, StartInv, CountInv
  <2> QED
    BY <2>2, <2>4, <2>5
<1> QED
  BY <1>1, <1>2, <1>3, <1>4

-----------------------------------------------------------------------------
(* Steps of the tool.                                                      *)

\* A control reaches a service whose start is over.
LEMMA ControlKeepsInv ==
  ASSUME WinInv, NEW t \in Tools,
         NEW next \in {"stop", "remove"}, Control(t, next), UNCHANGED file
  PROVE  WinInv'
<1> USE WinServiceAssumption DEF WinInv, Control, StopAccepted, appVars, scmVars, pollVars
<1>1. current \in Procs /\ start[current] = "done" /\ proc[current] = "dispatching"
  BY DEF TypeOK, CurrentInv, StartInv
<1>2. TypeOK'
  BY <1>1 DEF TypeOK
<1>3. CurrentInv' /\ StartInv' /\ CountInv'
  BY <1>1 DEF TypeOK, CurrentInv, StartInv, CountInv
<1> QED
  BY <1>2, <1>3

\* The other steps of the tool leave the service process alone.
LEMMA ToolStep ==
  ASSUME WinInv, TypeOK', UNCHANGED <<scmVars, procVars>>
  PROVE  WinInv'
  BY DEF WinInv, CurrentInv, StartInv, CountInv, scmVars, procVars

LEMMA ToolKeepsInv ==
  ASSUME WinInv, NEW t \in Tools, Tool(t)
  PROVE  WinInv'
<1> USE DEF WinInv
<1>1. CASE RunService(t)
  <2> USE WinServiceAssumption DEF RunService, appVars, pollVars
  <2>1. NewProc \in Procs /\ proc[NewProc] = "unborn"
    BY <1>1, NewProcIsUnborn
  <2>2. current = Nobody /\ \A p \in Procs : proc[p] # "dispatching"
    BY <1>1 DEF CurrentInv
  <2>3. handler[NewProc] = "none"
    BY <2>1 DEF CountInv
  <2> HIDE DEF NewProc
  <2>4. TypeOK'
    BY <1>1, <2>1 DEF TypeOK, Pending
  <2>5. CurrentInv' /\ StartInv'
    BY <1>1, <2>1, <2>2, <2>3 DEF TypeOK, CurrentInv, StartInv
  <2>6. dwCheckPoint[NewProc] \in 1..3
    BY <2>1 DEF TypeOK, MaxCheckPoint
  <2>7. dwCheckPoint[NewProc] = 1
    BY <2>1 DEF CountInv
  <2>8. CountInv'
    BY <1>1, <2>1, <2>2, <2>3, <2>7 DEF TypeOK, CountInv
  <2> QED
    BY <2>4, <2>5, <2>8
<1>2. CASE StopService(t)
  BY <1>2, ControlKeepsInv DEF StopService, Control
<1>3. CASE UninstallService(t)
  <2>1. CASE Control(t, "remove")
    BY <2>1, ControlKeepsInv DEF Control
  <2>2. CASE ~Control(t, "remove")
    <3>1. TypeOK' /\ UNCHANGED <<scmVars, procVars>>
      BY <1>3, <2>2 DEF UninstallService, TypeOK, scmVars, procVars, pollVars
    <3> QED
      BY <3>1, ToolStep
  <2> QED
    BY <2>1, <2>2
<1>4. CASE InstallService(t) \/ ToolGoesOn(t)
  <2>1. UNCHANGED <<scmVars, procVars>>
    BY <1>4 DEF InstallService, ToolGoesOn, FirstQuery, Poll, ControlReturns, ControlFails,
                StopQueried, Delete
  <2>2. TypeOK'
    <3>1. CASE InstallService(t) \/ Delete(t)
      BY <3>1 DEF InstallService, Delete, TypeOK, scmVars, procVars, toolVars, pollVars
    <3>2. CASE FirstQuery(t) \/ Poll(t)
      BY <3>2 DEF FirstQuery, Poll, WaitHint, ScmWaitHint, TypeOK, scmVars, procVars, MaxCheckPoint
    <3>3. CASE ControlReturns(t) \/ ControlFails(t) \/ StopQueried(t)
      BY <3>3 DEF ControlReturns, ControlFails, StopQueried, TypeOK, scmVars, procVars, pollVars
    <3> QED
      BY <1>4, <3>1, <3>2, <3>3 DEF ToolGoesOn
  <2> QED
    BY <2>1, <2>2, ToolStep
<1> QED
  BY <1>1, <1>2, <1>3, <1>4 DEF Tool

LEMMA NextWinInv == WinInv /\ [Next]_vars => WinInv'
<1> SUFFICES ASSUME WinInv, [Next]_vars
             PROVE  WinInv'
  OBVIOUS
<1>1. CASE \E p \in Procs : Service(p)
  BY <1>1, ServiceKeepsInv
<1>2. CASE \E p \in Procs :
             \/ Crashes(p) \/ SendShutdown(p)
             \/ LaunchSucceeds(p) \/ LaunchFails(p) \/ AppEnds(p) \/ Interrupt(p)
  BY <1>2, ProcessKeepsInv
<1>3. CASE \E t \in Tools : Tool(t)
  BY <1>3, ToolKeepsInv
<1>4. CASE Removal
  <2>1. TypeOK' /\ UNCHANGED <<scmVars, procVars>>
    BY <1>4 DEF Removal, WinInv, TypeOK, scmVars, procVars, toolVars, pollVars
  <2> QED
    BY <2>1, ToolStep
<1>5. CASE RunProgram
  <2>1. NewProc \in Procs /\ proc[NewProc] = "unborn"
    BY <1>5, NewProcIsUnborn DEF RunProgram
  <2> HIDE DEF NewProc
  <2>2. TypeOK'
    BY <1>5, <2>1 DEF RunProgram, WinInv, TypeOK, scmVars, appVars, toolVars, pollVars
  <2> QED
    BY <1>5, <2>1, <2>2
    DEF RunProgram, WinInv, TypeOK, CurrentInv, StartInv, CountInv, scmVars
<1>6. CASE UNCHANGED vars
  BY <1>6 DEF vars, WinInv, TypeOK, CurrentInv, StartInv, CountInv
<1> QED
  BY <1>1, <1>2, <1>3, <1>4, <1>5, <1>6 DEF Next

-----------------------------------------------------------------------------
(* The lifecycle.                                                          *)

\* What was reported last tells how far the process that serves has come.
StatusInv ==
  /\ state = "STOPPED" => checkPoint = 0
  /\ \A p \in Serving :
       /\ start[p] \in {"registering", "pending"} => checkPoint = 0
       /\ start[p] = "onstart" => checkPoint > 0
       /\ start[p] # "done" => state = "START_PENDING"
       /\ start[p] = "done" =>
            state = IF handler[p] = "onstop" THEN "STOP_PENDING" ELSE "RUNNING"

\* Who serves is the process the SCM has.
LEMMA OneServes ==
  ASSUME WinInv
  PROVE  /\ \A p \in Procs : proc[p] = "dispatching" => Serving = {p}
         /\ current = Nobody => Serving = {}
  BY WinServiceAssumption DEF WinInv, CurrentInv, Serving

\* Steps that report nothing, and in which the process that serves gets no further.
LEMMA SaysNothing ==
  ASSUME UNCHANGED <<state, checkPoint>>, Serving' = Serving,
         \A p \in Serving : start'[p] = start[p]
  PROVE  UNCHANGED L!vars
<1>1. Begun' = Begun
  BY DEF Begun
<1> QED
  BY <1>1 DEF L!vars

\* The end of whoever serves, and of anybody else.
LEMMA ExitsAreSeen ==
  ASSUME WinInv, StatusInv, NEW p \in Procs, Exits(p)
  PROVE  StatusInv' /\ (L!Stopped \/ UNCHANGED L!vars)
<1>1. /\ proc' = [proc EXCEPT ![p] = "dead"] /\ handler' = handler
      /\ start' = [start EXCEPT ![p] = "none"]
  BY DEF Exits, Dies
<1>t. proc \in [Procs -> {"unborn", "dispatching", "program", "ending", "dead"}]
      /\ start \in [Procs -> {"none", "registering", "pending", "onstart", "running", "done"}]
  BY DEF WinInv, TypeOK
<1>2. Serving' = Serving \ {p}
  BY <1>1, <1>t DEF Serving
<1>3. \A q \in Serving' : start'[q] = start[q]
  BY <1>1, <1>2, <1>t DEF Serving
<1>4. CASE current = p
  <2>1. Serving = {p}
    BY <1>4, OneServes DEF WinInv, CurrentInv
  <2>2. Serving' = {} /\ Begun' = {} /\ state' = "STOPPED" /\ checkPoint' = 0
    BY <1>2, <1>4, <2>1 DEF Exits, Begun
  <2> QED
    BY <2>1, <2>2 DEF StatusInv, L!Stopped
<1>5. CASE current # p
  <2>1. p \notin Serving /\ UNCHANGED <<state, checkPoint>>
    BY <1>5 DEF WinInv, CurrentInv, Serving, Exits, scmVars
  <2>2. Serving' = Serving
    BY <1>2, <2>1
  <2> QED
    BY <1>1, <1>3, <2>1, <2>2, SaysNothing DEF StatusInv
<1> QED
  BY <1>4, <1>5

LEMMA ServiceIsSeen ==
  ASSUME WinInv, StatusInv, NEW p \in Procs, Service(p)
  PROVE  StatusInv' /\ [L!Next]_L!vars
<1> USE DEF scmVars, appVars
<1>t. /\ proc \in [Procs -> {"unborn", "dispatching", "program", "ending", "dead"}]
      /\ start \in [Procs -> {"none", "registering", "pending", "onstart", "running", "done"}]
      /\ handler \in [Procs -> {"none", "stop", "onstop", "shutdown"}]
      /\ checkPoint \in 0..MaxCheckPoint
      /\ dwCheckPoint \in [Procs -> 1..(MaxCheckPoint + 1)]
  BY DEF WinInv, TypeOK
<1>s. ASSUME proc[p] = "dispatching"
      PROVE  p \in Serving /\ Serving = {p}
  BY <1>s, OneServes DEF Serving
<1>1. CASE ServiceMain(p)
  <2>1. /\ Serving' = {p} /\ Serving = {p}
        /\ start[p] = "registering" /\ start'[p] = "pending"
        /\ UNCHANGED <<state, checkPoint, handler>>
    BY <1>1, <1>s, <1>t DEF ServiceMain, Serving
  <2>2. Begun = {} /\ Begun' = {}
    BY <2>1 DEF Begun
  <2> QED
    BY <2>1, <2>2 DEF StatusInv, L!vars
<1>2. CASE StartPending(p)
  <2>1. /\ Serving' = {p} /\ Serving = {p}
        /\ start[p] = "pending" /\ start'[p] = "onstart" /\ handler' = handler
        /\ state' = "START_PENDING" /\ checkPoint' = dwCheckPoint[p]
    BY <1>2, <1>s, <1>t DEF StartPending, SetServiceStatus, Pending, Serving
  <2>2. Begun = {} /\ Begun' = {}
    BY <2>1 DEF Begun
  <2>3. state = "START_PENDING" /\ checkPoint = 0 /\ checkPoint' \in Nat /\ checkPoint' > 0
    BY <2>1, <1>t DEF StatusInv, MaxCheckPoint
  <2> QED
    BY <2>1, <2>2, <2>3 DEF StatusInv, L!Next, L!Progress
<1>3. CASE OnStart(p)
  <2>1. /\ Serving' = {p} /\ Serving = {p}
        /\ start[p] = "onstart" /\ start'[p] = "running"
        /\ UNCHANGED <<state, checkPoint, handler>>
    BY <1>3, <1>s, <1>t DEF OnStart, Serving
  <2>2. Begun' = Serving
    BY <2>1 DEF Begun
  <2>3. state = "START_PENDING" /\ checkPoint > 0
    BY <2>1 DEF StatusInv
  <2> QED
    BY <2>1, <2>2, <2>3 DEF StatusInv, L!Next, L!Begin
<1>4. CASE StartRunning(p)
  <2>1. /\ Serving' = {p} /\ Serving = {p}
        /\ start[p] = "running" /\ start'[p] = "done" /\ handler' = handler
        /\ state' = "RUNNING" /\ checkPoint' = 0
    BY <1>4, <1>s, <1>t DEF StartRunning, SetServiceStatus, Pending, Serving
  <2>2. Begun = {p} /\ Begun' = {p}
    BY <2>1 DEF Begun
  <2>3. state = "START_PENDING" /\ handler[p] = "none"
    BY <1>4, <2>1, <1>t DEF StatusInv, StartRunning, WinInv, StartInv
  <2> QED
    BY <2>1, <2>2, <2>3 DEF StatusInv, L!Next, L!Started
<1>5. CASE StopPending(p)
  <2>1. /\ Serving' = {p} /\ Serving = {p}
        /\ start' = start /\ handler[p] = "stop" /\ handler'[p] = "onstop"
        /\ state' = "STOP_PENDING" /\ checkPoint' = dwCheckPoint[p]
    BY <1>5, <1>s, <1>t DEF StopPending, SetServiceStatus, Pending, Serving
  <2>2. start[p] = "done" /\ state = "RUNNING"
    BY <1>5, <2>1 DEF StatusInv, StopPending, WinInv, StartInv
  <2>3. checkPoint' \in Nat \ {0} /\ Begun' = Begun
    BY <2>1, <1>t DEF MaxCheckPoint, Begun
  <2> QED
    BY <2>1, <2>2, <2>3 DEF StatusInv, L!Next, L!Stopping
<1>6. CASE StopEnds(p) \/ Shutdown(p)
  <2>1. /\ Serving = {p} /\ proc' = [proc EXCEPT ![p] = "ending"]
        /\ state' = "STOPPED" /\ checkPoint' = 0
    BY <1>6, <1>s DEF StopEnds, Shutdown, SetServiceStatus, Pending
  <2>2. Serving' = {}
    BY <2>1, <1>t DEF Serving
  <2>3. Begun' = {}
    BY <2>2 DEF Begun
  <2> QED
    BY <2>1, <2>2, <2>3 DEF StatusInv, L!Next, L!Stopped
<1>7. CASE MainReturns(p) \/ KeyMissing(p) \/ RunReturns(p)
  <2>1. CASE Exits(p)
    BY <2>1, ExitsAreSeen DEF L!Next
  <2>2. CASE ~Exits(p)
    <3>1. UNCHANGED <<state, checkPoint, proc, start, handler>>
      BY <1>7, <2>2 DEF MainReturns, KeyMissing, RunReturns, Exits, WinInv, CurrentInv
    <3>2. Serving' = Serving
      BY <3>1 DEF Serving
    <3> QED
      BY <3>1, <3>2, SaysNothing DEF StatusInv
  <2> QED
    BY <2>1, <2>2
<1> QED
  BY <1>1, <1>2, <1>3, <1>4, <1>5, <1>6, <1>7 DEF Service

\* A control, which must be handled before anything else is reported.
LEMMA ControlsAreUnseen ==
  ASSUME WinInv, StatusInv, NEW p \in Procs, NEW control \in {"stop", "shutdown"},
         handler[p] = "none", handler' = [handler EXCEPT ![p] = control],
         UNCHANGED <<state, checkPoint, proc, start>>
  PROVE  StatusInv' /\ UNCHANGED L!vars
<1>1. Serving' = Serving
  BY DEF Serving
<1>2. \A q \in Procs : (handler'[q] = "onstop") <=> (handler[q] = "onstop")
  BY DEF WinInv, TypeOK
<1>3. StatusInv'
  BY <1>1, <1>2 DEF StatusInv, Serving
<1> QED
  BY <1>1, <1>3, SaysNothing

LEMMA StartIsSeen ==
  ASSUME WinInv, StatusInv, NEW t \in Tools, RunService(t)
  PROVE  StatusInv' /\ L!Start
<1> DEFINE p == NewProc
<1>1. p \in Procs /\ proc[p] = "unborn"
  BY NewProcIsUnborn DEF RunService
<1>2. current = Nobody
  BY DEF RunService, WinInv, CurrentInv
<1>3. Serving = {}
  BY <1>2, OneServes
<1>4. proc' = [proc EXCEPT ![p] = "dispatching"] /\ start' = [start EXCEPT ![p] = "registering"]
  BY DEF RunService
<1> HIDE DEF p
<1>5. Serving' = {p} /\ start'[p] = "registering"
  BY <1>1, <1>3, <1>4 DEF Serving, WinInv, TypeOK
<1>6. Begun = {} /\ Begun' = {}
  BY <1>3, <1>5 DEF Begun
<1>7. state = "STOPPED" /\ state' = "START_PENDING" /\ checkPoint' = checkPoint
  BY DEF RunService
<1> QED
  BY <1>1, <1>3, <1>5, <1>6, <1>7 DEF StatusInv, L!Start

LEMMA RefinesLifecycle ==
  WinInv /\ StatusInv /\ [Next]_vars => StatusInv' /\ [L!Next]_L!vars
<1> SUFFICES ASSUME WinInv, StatusInv, [Next]_vars
             PROVE  StatusInv' /\ [L!Next]_L!vars
  OBVIOUS
<1>q. ASSUME UNCHANGED <<state, checkPoint, proc, start, handler>>
      PROVE  StatusInv' /\ UNCHANGED L!vars
  <2>1. Serving' = Serving
    BY <1>q DEF Serving
  <2> QED
    BY <1>q, <2>1, SaysNothing DEF StatusInv
<1>1. ASSUME NEW p \in Procs, Service(p)
      PROVE  StatusInv' /\ [L!Next]_L!vars
  BY <1>1, ServiceIsSeen
<1>2. ASSUME NEW p \in Procs, Crashes(p)
      PROVE  StatusInv' /\ [L!Next]_L!vars
  BY <1>2, ExitsAreSeen DEF Crashes, L!Next
<1>3. ASSUME NEW p \in Procs, SendShutdown(p)
      PROVE  StatusInv' /\ [L!Next]_L!vars
  BY <1>3, ControlsAreUnseen DEF SendShutdown, scmVars
<1>4. ASSUME NEW p \in Procs, LaunchSucceeds(p) \/ LaunchFails(p) \/ AppEnds(p)
      PROVE  StatusInv' /\ [L!Next]_L!vars
  BY <1>4, <1>q DEF LaunchSucceeds, LaunchFails, AppEnds, scmVars
<1>5. ASSUME NEW p \in Procs, Interrupt(p)
      PROVE  StatusInv' /\ [L!Next]_L!vars
  <2>1. /\ proc[p] = "program" /\ proc' = [proc EXCEPT ![p] = "dead"]
        /\ start' = [start EXCEPT ![p] = "none"]
        /\ UNCHANGED <<state, checkPoint, handler>>
    BY <1>5 DEF Interrupt, Dies, scmVars
  <2>2. Serving' = Serving /\ \A q \in Serving : start'[q] = start[q]
    BY <2>1 DEF Serving, WinInv, TypeOK
  <2> QED
    BY <2>1, <2>2, SaysNothing DEF StatusInv
<1>6. ASSUME NEW t \in Tools, Tool(t)
      PROVE  StatusInv' /\ [L!Next]_L!vars
  <2>1. CASE RunService(t)
    BY <2>1, StartIsSeen DEF L!Next
  <2>2. ASSUME NEW next, Control(t, next)
        PROVE  StatusInv' /\ [L!Next]_L!vars
    <3>1. current \in Procs
      BY <2>2 DEF Control, StopAccepted, WinInv, TypeOK, CurrentInv
    <3> QED
      BY <2>2, <3>1, ControlsAreUnseen DEF Control, StopAccepted, scmVars
  <2>3. CASE UNCHANGED <<scmVars, procVars>>
    BY <2>3, <1>q DEF scmVars, procVars
  <2> QED
    BY <1>6, <2>1, <2>2, <2>3
    DEF Tool, StopService, UninstallService, InstallService, ToolGoesOn, FirstQuery, Poll,
        ControlReturns, ControlFails, StopQueried, Delete
<1>7. CASE Removal
  BY <1>7, <1>q DEF Removal, scmVars, procVars
<1>8. CASE RunProgram
  <2>1. NewProc \in Procs /\ proc[NewProc] = "unborn"
    BY <1>8, NewProcIsUnborn DEF RunProgram
  <2> HIDE DEF NewProc
  <2>2. Serving' = Serving /\ UNCHANGED <<state, checkPoint, start, handler>>
    BY <1>8, <2>1 DEF RunProgram, Serving, scmVars, WinInv, TypeOK
  <2> QED
    BY <2>2, SaysNothing DEF StatusInv
<1>9. CASE UNCHANGED vars
  BY <1>9, <1>q DEF vars
<1> QED
  BY <1>1, <1>2, <1>3, <1>4, <1>5, <1>6, <1>7, <1>8, <1>9 DEF Next

\* The Windows service implements the lifecycle, for any number of service
\* processes and tools and any configuration files.
THEOREM ServiceImplementsLifecycle == Spec => ImplementsLifecycle
<1>1. Init => StatusInv /\ L!Init
  BY DEF Init, StatusInv, Serving, Begun, L!Init
<1> QED
  BY <1>1, InitWinInv, NextWinInv, RefinesLifecycle, PTL
  DEF Spec, ImplementsLifecycle, L!Spec

-----------------------------------------------------------------------------
\* Every variable of the Windows service keeps its type, the check point its
\* bound.
THEOREM WinServiceTypes == Spec => []TypeOK
<1>1. WinInv => TypeOK
  BY DEF WinInv
<1> QED
  BY InitWinInv, NextWinInv, <1>1, PTL DEF Spec

\* Every status a process reports is about the service that the SCM has it for.
THEOREM NoLateReport == Spec => []ReportsAreCurrent
<1>1. WinInv => ReportsAreCurrent
  BY DEF WinInv, CurrentInv, ReportsAreCurrent
<1> QED
  BY InitWinInv, NextWinInv, <1>1, PTL DEF Spec

\* The start of a service is over before the stop of it is.
THEOREM StartBeforeStop == Spec => []StopAfterStart
<1>1. WinInv => StopAfterStart
  BY DEF WinInv, StartInv, StopAfterStart
<1> QED
  BY InitWinInv, NextWinInv, <1>1, PTL DEF Spec
=============================================================================
