----------------------- MODULE TimedSupervisorProofs -----------------------
(***************************************************************************)
(* Proofs about TimedSupervisor, for every configuration: all intervals,   *)
(* timeouts and retry counts, any number of pids, pieces and replies.      *)
(***************************************************************************)
EXTENDS TimedSupervisor, TLAPS

-----------------------------------------------------------------------------
(* Refinement.  Every timed action is the untimed one and a movement of    *)
(* the timers, or it moves the probe and the timers alone.                 *)

\* Whatever was received, the fetch functions return the empty string, and a
\* probe fails.
LEMMA JudgeFails == Judge => verdict' = "fail"
<1> SUFFICES ASSUME Judge
             PROVE  verdict' = "fail"
  OBVIOUS
<1>1. Fetch(Method, Received) = Empty
  BY DEF Fetch, FetchHTTPGetResponse, FetchHTTPPostResponse
<1>2. HealthTest(Empty, ContentType) = {"fail"}
  BY DEF HealthTest, Empty
<1> QED
  BY <1>1, <1>2 DEF Judge

LEMMA JudgeIsTest == ProbeIsJudged => S!HMTests
<1> SUFFICES ASSUME ProbeIsJudged
             PROVE  S!HMTests
  OBVIOUS
<1>1. S!HMTest("fail")
  BY JudgeFails DEF ProbeIsJudged
<1>2. S!Fetch("POST", S!Empty) = S!Empty
  BY DEF S!Fetch, S!FetchHTTPPostResponse
<1>3. S!HealthTest(S!Empty, ContentType) = {"fail"}
  BY DEF S!HealthTest, S!Empty
<1> QED
  BY <1>1, <1>2, <1>3 DEF S!HMTests

LEMMA StepRefines == [TimedNext]_timedVars => [S!Next]_supervisorVars
<1> SUFFICES ASSUME [TimedNext]_timedVars
             PROVE  [S!Next]_supervisorVars
  OBVIOUS
<1> USE DEF S!Next, S!ProcessMonitor, S!HealthMonitor, S!System
<1>1. CASE RunThreads
  BY <1>1 DEF RunThreads
<1>2. CASE ProcessMonitor
  BY <1>2 DEF ProcessMonitor, PMFindsAlive, PMFindsDead, PMForks, PMPublishes
<1>3. CASE HealthMonitor
  BY <1>3, JudgeIsTest DEF HealthMonitor, HMReadsConfig, ProbeStarts, ProbeReceives,
    ProbeGoesOn, HMCopiesPid, HMInterrupts, HMWaits, HMGivesUp, HMResumes
<1>4. CASE Tick
  BY <1>4 DEF Tick
<1>5. CASE AppAnswers
  BY <1>5 DEF AppAnswers
<1>6. CASE AppEnds
  BY <1>6 DEF AppEnds
<1>7. CASE UNCHANGED timedVars
  BY <1>7 DEF timedVars
<1> QED
  BY <1>1, <1>2, <1>3, <1>4, <1>5, <1>6, <1>7 DEF TimedNext, WrapperOrTime

\* Every timed behaviour is a behaviour of Supervisor: what is proved of that
\* module holds of this one, too.
THEOREM TimedImplementsSupervisor == TimedSpec => ImplementsSupervisor
<1>1. TimedInit => S!Init
  BY DEF TimedInit
<1>2. [TimedNext]_timedVars => [S!Next]_S!vars
  BY StepRefines DEF supervisorVars, S!vars
<1> QED
  BY <1>1, <1>2, PTL DEF TimedSpec, ImplementsSupervisor, S!Spec

-----------------------------------------------------------------------------
(* Types.  What the timers may hold depends on where their threads are.    *)

LEMMA Products ==
  ASSUME NEW i \in Nat, NEW j \in Nat
  PROVE  i * j \in Nat
  OBVIOUS

LEMMA Intervals ==
  /\ PidCheckInterval \in Nat /\ HealthCheckInterval \in Nat /\ ReceiveTimeout \in Nat
  /\ StartupTimeout \in Nat /\ ConnectTimeout \in Nat /\ Pieces \in Nat
  BY IntervalAssumption, ProbeAssumption

LEMMA MaxFailuresType ==
  /\ S!MaxFailures \in Nat /\ S!MaxFailures > 0
  /\ S!MaxFailures >= RetryAttemptCount
  /\ RetryAttemptCount \in Nat /\ ShutdownTimeout \in Nat
  BY SupervisorAssumption DEF S!MaxFailures

LEMMA BoundsType ==
  /\ ProbeTime \in Nat /\ Patience \in Nat /\ Respite \in Nat /\ ClockBound \in Nat
  /\ ClockBound >= ShutdownTimeout + 4
  /\ ClockBound >= Patience
  /\ ClockBound >= Respite
<1> USE Intervals, MaxFailuresType
<1> DEFINE H == HealthCheckInterval
           M == S!MaxFailures
<1>1. ProbeTime \in Nat
  <2>1. Pieces + 1 \in Nat
    BY Intervals
  <2>2. (Pieces + 1) * ReceiveTimeout \in Nat
    BY <2>1, Products
  <2> QED
    BY <2>2 DEF ProbeTime
<1>2. M * H \in Nat /\ M * ProbeTime \in Nat /\ M * (H + ProbeTime) = M * H + M * ProbeTime
  BY <1>1, Products
<1>3. Patience = 3 + StartupTimeout + M * H + M * ProbeTime
  BY <1>1, <1>2 DEF Patience
<1>4. Respite = StartupTimeout + M * H
  BY DEF Respite
<1> QED
  BY <1>1, <1>2, <1>3, <1>4 DEF ClockBound

\* The probe runs while its thread would sleep; what is sent belongs to a reply.
StageInv ==
  /\ wrapper = "starting" => pm = "off" /\ hm = "off"
  /\ hm \in {"off", "startup", "sleep"} => healthCheckCounter < S!MaxFailures
  /\ pc # "idle" => hm = "sleep"
  /\ inflight => missing > 0

TimedTypeInv == TimedTypeOK /\ StageInv

LEMMA InitTypes == TimedInit => TimedTypeInv
<1> SUFFICES ASSUME TimedInit
             PROVE  TimedTypeInv
  OBVIOUS
<1> USE Intervals, MaxFailuresType, BoundsType DEF TimedInit
<1>0. inflight \in BOOLEAN
  BY DEF Init
<1>1. TypeOK
  BY <1>0 DEF Init, TypeOK, NoSocket
<1>2. S!TypeOK
  BY DEF S!Init, S!TypeOK, S!Signals, S!NoProcess
<1>3. StageInv
  BY DEF Init, S!Init, StageInv
<1> QED
  BY <1>1, <1>2, <1>3 DEF TimedTypeInv, TimedTypeOK

\* What a signal leaves of the type of `got`.
LEMMA SentType ==
  ASSUME NEW target, NEW signal \in S!Signals, got \in [Pids -> SUBSET S!Signals]
  PROVE  S!Sent(target, signal) \in [Pids -> SUBSET S!Signals]
  BY DEF S!Sent

LEMMA OlderType ==
  ASSUME NEW clock \in 0..ClockBound, NEW runs \in BOOLEAN
  PROVE  Older(clock, runs) \in 0..ClockBound
  BY BoundsType DEF Older

LEMMA LaterType ==
  ASSUME NEW bound \in Nat, NEW timer \in 0..bound
  PROVE  Later(timer) \in 0..bound
  BY DEF Later

LEMMA NextTypes == TimedTypeInv /\ [TimedNext]_timedVars => TimedTypeInv'
<1> SUFFICES ASSUME TimedTypeInv, [TimedNext]_timedVars
             PROVE  TimedTypeInv'
  OBVIOUS
<1> USE Intervals, MaxFailuresType, BoundsType
    DEF TimedTypeInv, TimedTypeOK, StageInv, vars, supervisorVars, timers, clocks
<1>1. CASE RunThreads
  BY <1>1 DEF RunThreads, S!RunThreads, TypeOK, S!TypeOK
<1>2. CASE ProcessMonitor
  <2>1. CASE PMFindsAlive
    BY <2>1 DEF PMFindsAlive, TypeOK, S!TypeOK
  <2>2. CASE PMFindsDead
    BY <2>2 DEF PMFindsDead, S!PMFindsDead, S!hmVars, S!osVars, TypeOK, S!TypeOK
  <2>3. CASE PMForks
    BY <2>3 DEF PMForks, S!PMForks, S!hmVars, S!FreshPids, TypeOK, S!TypeOK
  <2>4. CASE PMPublishes
    BY <2>4 DEF PMPublishes, S!PMPublishes, S!hmVars, S!osVars, S!NoProcess, TypeOK, S!TypeOK
  <2> QED
    BY <1>2, <2>1, <2>2, <2>3, <2>4 DEF ProcessMonitor
<1>3. CASE HealthMonitor
  <2>1. CASE HMReadsConfig
    BY <2>1 DEF HMReadsConfig, S!HMReadsConfig, S!pmVars, S!osVars, TypeOK, S!TypeOK
  <2>2. CASE ProbeStarts
    BY <2>2 DEF ProbeStarts, Start, TypeOK, S!TypeOK
  <2>3. CASE ProbeReceives
    <3>1. inflight' \in BOOLEAN
      BY <2>3 DEF ProbeReceives, Send, RecvPiece, TypeOK
    <3>2. CASE Send
      BY <2>3, <3>1, <3>2 DEF ProbeReceives, Send, TypeOK, S!TypeOK
    <3>3. CASE RecvPiece
      <4>1. missing > 0 /\ ~inflight'
        BY <3>3 DEF RecvPiece
      <4> QED
        BY <2>3, <3>1, <3>3, <4>1 DEF ProbeReceives, RecvPiece, TypeOK, S!TypeOK
    <3> QED
      BY <2>3, <3>2, <3>3 DEF ProbeReceives
  <2>4. CASE ProbeGoesOn
    BY <2>4 DEF ProbeGoesOn, SetupFails, SetupConnects, RecvEnd, Exit,
      RecvTimeout, Socket, NoSocket, TypeOK, S!TypeOK
  <2>5. CASE ProbeIsJudged
    <3>1. inflight' \in BOOLEAN /\ ~inflight'
      BY <2>5 DEF ProbeIsJudged, Judge
    <3>2. verdict' = "fail"
      BY <2>5, JudgeFails DEF ProbeIsJudged
    <3>3. TypeOK'
      BY <2>5, <3>1, <3>2 DEF ProbeIsJudged, Judge, Verdicts, TypeOK
    <3>4. S!TypeOK' /\ StageInv'
      BY <2>5, <3>1, <3>2 DEF ProbeIsJudged, Judge, S!HMTest, S!pmVars, S!osVars, S!TypeOK
    <3> QED
      BY <2>5, <3>3, <3>4 DEF ProbeIsJudged
  <2>6. CASE HMCopiesPid
    BY <2>6 DEF HMCopiesPid, S!HMCopiesPid, S!pmVars, S!osVars, TypeOK, S!TypeOK
  <2>7. CASE HMInterrupts
    BY <2>7, SentType DEF HMInterrupts, S!HMInterrupts, S!pmVars, S!Signals, TypeOK, S!TypeOK
  <2>8. CASE HMWaits
    BY <2>8 DEF HMWaits, S!HMWaits, S!pmVars, S!osVars, TypeOK, S!TypeOK
  <2>9. CASE HMGivesUp
    <3>1. CASE S!HMFindsGone
      BY <2>9, <3>1 DEF HMGivesUp, S!HMFindsGone, S!pmVars, S!osVars, TypeOK, S!TypeOK
    <3>2. CASE S!HMKills
      <4>1. got' \in [Pids -> SUBSET S!Signals]
        BY <3>2, SentType DEF S!HMKills, S!Signals, S!TypeOK
      <4> QED
        BY <2>9, <3>2, <4>1 DEF HMGivesUp, S!HMKills, S!pmVars, TypeOK, S!TypeOK
    <3> QED
      BY <2>9, <3>1, <3>2 DEF HMGivesUp
  <2>10. CASE HMResumes
    BY <2>10 DEF HMResumes, S!HMResumes, S!pmVars, S!osVars, TypeOK, S!TypeOK
  <2> QED
    BY <1>3, <2>1, <2>2, <2>3, <2>4, <2>5, <2>6, <2>7, <2>8, <2>9, <2>10 DEF HealthMonitor
<1>4. CASE Tick
  <2>1. TypeOK' /\ S!TypeOK' /\ StageInv'
    BY <1>4 DEF Tick, TypeOK, S!TypeOK
  <2>2. /\ pmTimer' \in 0..PidCheckInterval
        /\ hmTimer' \in 0..(3 + StartupTimeout + HealthCheckInterval)
        /\ ioTimer' \in 0..(ConnectTimeout + ReceiveTimeout)
    BY <1>4, LaterType DEF Tick
  <2>3. down' \in 0..ClockBound /\ unfit' \in 0..ClockBound /\ sinceAsk' \in 0..ClockBound
    BY <1>4, OlderType DEF Tick
  <2> QED
    BY <2>1, <2>2, <2>3
<1>5. CASE AppAnswers
  <2>1. inflight' \in BOOLEAN
    BY <1>5 DEF AppAnswers, Application, PeerSends, PeerCloses, TypeOK
  <2>2. inflight' => missing' > 0
    BY <1>5 DEF AppAnswers, Application, PeerSends, PeerCloses
  <2> QED
    BY <1>5, <2>1, <2>2
    DEF AppAnswers, Application, PeerSends, PeerCloses, TypeOK, S!TypeOK
<1>6. CASE AppEnds
  BY <1>6 DEF AppEnds, S!AppEnds, S!pmVars, S!hmVars, TypeOK, S!TypeOK
<1>7. CASE UNCHANGED timedVars
  BY <1>7 DEF timedVars, TypeOK, S!TypeOK
<1> QED
  BY <1>1, <1>2, <1>3, <1>4, <1>5, <1>6, <1>7 DEF TimedNext, WrapperOrTime

LEMMA TypeInvariance == TimedSpec => []TimedTypeInv
  BY InitTypes, NextTypes, PTL DEF TimedSpec

\* Timers and clocks keep their ranges, and the two modules joined here their
\* types: a probe never counts more pieces than were sent, nor a wait more
\* seconds than the thread was put to sleep for.
THEOREM TimedTypes == TimedSpec => []TimedTypeOK
<1>1. TimedTypeInv => TimedTypeOK
  BY DEF TimedTypeInv
<1> QED
  BY <1>1, TypeInvariance, PTL

-----------------------------------------------------------------------------
(* No probe leaves its socket behind, whichever way it went.               *)

LEMMA NextSocketReleased == SocketReleased /\ [TimedNext]_timedVars => SocketReleased'
<1> SUFFICES ASSUME SocketReleased, [TimedNext]_timedVars
             PROVE  SocketReleased'
  OBVIOUS
<1> USE DEF SocketReleased
<1>1. CASE Start \/ SetupFails \/ SetupConnects \/ Send \/ RecvPiece \/ RecvEnd \/ RecvTimeout
  BY <1>1 DEF Start, SetupFails, SetupConnects, Send, RecvPiece, RecvEnd, RecvTimeout
<1>2. CASE Exit \/ Judge
  BY <1>2 DEF Exit, Judge
<1>3. CASE Application
  BY <1>3 DEF Application, PeerSends, PeerCloses
<1>4. CASE UNCHANGED vars
  BY <1>4 DEF vars
<1>5. \/ Start \/ SetupFails \/ SetupConnects \/ Send \/ RecvPiece \/ RecvEnd
      \/ RecvTimeout \/ Exit \/ Judge \/ Application \/ UNCHANGED vars
  BY DEF TimedNext, WrapperOrTime, ProcessMonitor, HealthMonitor, RunThreads, PMFindsAlive,
    PMFindsDead, PMForks, PMPublishes, HMReadsConfig, ProbeStarts, ProbeReceives, ProbeGoesOn,
    ProbeIsJudged, HMCopiesPid, HMInterrupts, HMWaits, HMGivesUp, HMResumes, Tick, AppAnswers,
    AppEnds, timedVars
<1> QED
  BY <1>1, <1>2, <1>3, <1>4, <1>5

\* Whatever the application does with the connection, and whichever call of
\* the probe fails: between two probes no socket is open.
THEOREM SocketIsReleased == TimedSpec => []SocketReleased
<1>1. TimedInit => SocketReleased
  BY DEF TimedInit, Init, SocketReleased
<1> QED
  BY <1>1, NextSocketReleased, PTL DEF TimedSpec

-----------------------------------------------------------------------------
(* Relaunch in time.  `down` alone is not inductive: that a second may     *)
(* still pass without an application follows from what is left of the      *)
(* process monitor's sleep; and that a sleep begun over a live application *)
(* was begun rightly, from there being no other process it could be.       *)

LaunchInv ==
  /\ others = {}
  /\ child_process_pid # S!Failed /\ pid # S!Failed
  /\ launched # S!Failed
  /\ pm = "publish" => launched \in Pids

DownInv ==
  /\ apps # {} => down = 0
  /\ wrapper = "starting" => down = 0
  /\ pm = "off" /\ wrapper # "starting" => ~EnablePIDCheck
  /\ pm = "sleep" /\ apps = {} => down + pmTimer <= PidCheckInterval
  /\ pm = "launch" => down <= PidCheckInterval
  /\ pm = "publish" => down = 0

LEMMA PidsType == S!NoProcess \notin Pids /\ S!Failed \notin Pids
                    /\ S!NoProcess # S!Failed
  BY SupervisorAssumption DEF S!NoProcess, S!Failed

LEMMA NextLaunchInv == LaunchInv /\ [TimedNext]_timedVars => LaunchInv'
<1> SUFFICES ASSUME LaunchInv, [TimedNext]_timedVars
             PROVE  LaunchInv'
  OBVIOUS
<1> USE PidsType DEF LaunchInv, supervisorVars
<1>1. CASE RunThreads
  BY <1>1 DEF RunThreads, S!RunThreads
<1>2. CASE ProcessMonitor
  BY <1>2 DEF ProcessMonitor, PMFindsAlive, PMFindsDead, PMForks, PMPublishes, S!PMFindsDead,
    S!PMForks, S!PMPublishes, S!hmVars, S!osVars, S!FreshPids
<1>3. CASE HealthMonitor
  BY <1>3 DEF HealthMonitor, HMReadsConfig, ProbeStarts, ProbeReceives, ProbeGoesOn,
    ProbeIsJudged, HMCopiesPid, HMInterrupts, HMWaits, HMGivesUp, HMResumes,
    S!HMReadsConfig, S!HMTest, S!HMCopiesPid, S!HMInterrupts, S!HMWaits,
    S!HMFindsGone, S!HMKills, S!HMResumes, S!pmVars, S!osVars
<1>4. CASE Tick
  BY <1>4 DEF Tick
<1>5. CASE AppAnswers
  BY <1>5 DEF AppAnswers
<1>6. CASE AppEnds
  BY <1>6 DEF AppEnds, S!AppEnds, S!pmVars, S!hmVars
<1>7. CASE UNCHANGED timedVars
  BY <1>7 DEF timedVars
<1> QED
  BY <1>1, <1>2, <1>3, <1>4, <1>5, <1>6, <1>7 DEF TimedNext, WrapperOrTime

LEMMA NextDownInv ==
  TimedTypeInv /\ LaunchInv /\ DownInv /\ [TimedNext]_timedVars => DownInv'
<1> SUFFICES ASSUME TimedTypeInv, LaunchInv, DownInv, [TimedNext]_timedVars
             PROVE  DownInv'
  OBVIOUS
<1> USE Intervals DEF DownInv, supervisorVars, timers, clocks
<1>t. /\ pmTimer \in 0..PidCheckInterval /\ down \in 0..ClockBound
      /\ pm \in {"off", "sleep", "launch", "publish"}
      /\ wrapper = "starting" => pm = "off" /\ hm = "off" /\ pc = "idle"
  BY DEF TimedTypeInv, TimedTypeOK, StageInv, S!TypeOK
<1>1. CASE RunThreads
  BY <1>1, <1>t DEF RunThreads, S!RunThreads
<1>2. CASE ProcessMonitor
  <2>1. CASE PMFindsAlive
    <3>1. child_process_pid \in apps
      BY <2>1, PidsType DEF PMFindsAlive, S!ifProcessWithPIDExist, S!Live, LaunchInv
    <3> QED
      BY <2>1, <3>1, <1>t DEF PMFindsAlive, S!ThreadsRun
  <2>2. CASE PMFindsDead
    BY <2>2, <1>t DEF PMFindsDead, S!PMFindsDead, S!osVars
  <2>3. CASE PMForks
    BY <2>3, <1>t DEF PMForks, S!PMForks
  <2>4. CASE PMPublishes
    BY <2>4, <1>t DEF PMPublishes, S!PMPublishes, S!osVars
  <2> QED
    BY <1>2, <2>1, <2>2, <2>3, <2>4 DEF ProcessMonitor
<1>3. CASE HealthMonitor
  <2>1. UNCHANGED <<apps, pm, pmTimer, down>>
    BY <1>3 DEF HealthMonitor, HMReadsConfig, ProbeStarts, ProbeReceives, ProbeGoesOn,
      ProbeIsJudged, HMCopiesPid, HMInterrupts, HMWaits, HMGivesUp, HMResumes,
      S!HMReadsConfig, S!HMTest, S!HMCopiesPid, S!HMInterrupts, S!HMWaits,
      S!HMFindsGone, S!HMKills, S!HMResumes, S!pmVars, S!osVars
  <2>2. \/ wrapper # "starting" /\ wrapper' # "starting"
        \/ wrapper' = wrapper
    BY <1>3 DEF HealthMonitor, HMReadsConfig, ProbeStarts, ProbeReceives, ProbeGoesOn,
      ProbeIsJudged, HMCopiesPid, HMInterrupts, HMWaits, HMGivesUp, HMResumes,
      S!HMReadsConfig, S!HMTest, S!HMCopiesPid, S!HMInterrupts, S!HMWaits,
      S!HMFindsGone, S!HMKills, S!HMResumes, S!ThreadsRun
  <2> QED
    BY <2>1, <2>2
<1>4. CASE Tick
  <2>1. CASE apps # {}
    BY <1>4, <1>t, <2>1 DEF Tick, Older
  <2>2. CASE apps = {}
    <3>1. down' <= down + 1
      BY <1>4, <1>t DEF Tick, Older
    <3>2. wrapper # "starting" /\ pm \notin {"launch", "publish"}
      BY <1>4 DEF Tick, ThreadIsDue
    <3>3. pm = "sleep" => pmTimer > 0 /\ pmTimer' = pmTimer - 1
      BY <1>4, <1>t DEF Tick, ThreadIsDue, Later
    <3>4. down' \in Int /\ UNCHANGED <<apps, pm, wrapper>>
      BY <1>4, <1>t DEF Tick, Older
    <3> QED
      BY <1>t, <2>2, <3>1, <3>2, <3>3, <3>4
  <2> QED
    BY <2>1, <2>2
<1>5. CASE AppAnswers
  BY <1>5 DEF AppAnswers
<1>6. CASE AppEnds
  BY <1>6, <1>t DEF AppEnds, S!AppEnds, S!pmVars
<1>7. CASE UNCHANGED timedVars
  BY <1>7 DEF timedVars
<1> QED
  BY <1>1, <1>2, <1>3, <1>4, <1>5, <1>6, <1>7 DEF TimedNext, WrapperOrTime

LEMMA Launches == TimedSpec => []LaunchInv
<1>1. TimedInit => LaunchInv
  BY PidsType DEF TimedInit, S!Init, LaunchInv
<1> QED
  BY <1>1, NextLaunchInv, PTL DEF TimedSpec

\* For every interval: an application that ended is replaced within one
\* interval of the process monitor.
THEOREM RelaunchIsInTime == TimedSpec => []RelaunchedInTime
<1>1. TimedInit => DownInv
  BY Intervals DEF TimedInit, S!Init, DownInv
<1>2. TimedTypeInv /\ DownInv => RelaunchedInTime
  BY Intervals DEF TimedTypeInv, TimedTypeOK, S!TypeOK, DownInv, RelaunchedInTime
<1> QED
  BY <1>1, <1>2, NextDownInv, TypeInvariance, Launches, PTL DEF TimedSpec

-----------------------------------------------------------------------------
(* The kill in time.  While terminateApplication waits, the time since the *)
(* request is three seconds a round less what is left of this one; and an  *)
(* application asked to end is the one that is waited for.                 *)

WaitInv ==
  /\ hm \in {"terminate", "interrupt"} => hmTimer = 0
  /\ hm = "wait" => /\ sinceAsk + hmTimer = counter * 3
                    /\ counter * 3 <= ShutdownTimeout + 2

AskedIsAwaited ==
  \A p \in apps : "INT" \in got[p] /\ "KILL" \notin got[p] => hm = "wait" /\ pid = p

LEMMA NextWaitInv == TimedTypeInv /\ WaitInv /\ [TimedNext]_timedVars => WaitInv'
<1> SUFFICES ASSUME TimedTypeInv, WaitInv, [TimedNext]_timedVars
             PROVE  WaitInv'
  OBVIOUS
<1> USE MaxFailuresType, Intervals DEF WaitInv, supervisorVars, timers, clocks
<1>t. /\ hmTimer \in 0..(3 + StartupTimeout + HealthCheckInterval)
      /\ sinceAsk \in 0..ClockBound /\ counter \in Nat
      /\ pc # "idle" => hm = "sleep"
      /\ wrapper = "starting" => hm = "off"
  BY DEF TimedTypeInv, TimedTypeOK, StageInv, S!TypeOK
<1>1. CASE RunThreads
  BY <1>1 DEF RunThreads, S!RunThreads
<1>2. CASE ProcessMonitor
  BY <1>2 DEF ProcessMonitor, PMFindsAlive, PMFindsDead, PMForks, PMPublishes, S!PMFindsDead,
    S!PMForks, S!PMPublishes, S!hmVars, S!osVars
<1>3. CASE HealthMonitor
  <2>1. CASE HMReadsConfig
    BY <2>1 DEF HMReadsConfig, S!HMReadsConfig
  <2>2. CASE ProbeStarts \/ ProbeReceives \/ ProbeGoesOn
    BY <2>2 DEF ProbeStarts, ProbeReceives, ProbeGoesOn
  <2>3. CASE ProbeIsJudged
    BY <2>3 DEF ProbeIsJudged, S!HMTest
  <2>4. CASE HMCopiesPid
    BY <2>4 DEF HMCopiesPid, S!HMCopiesPid
  <2>5. CASE HMInterrupts
    BY <2>5 DEF HMInterrupts, S!HMInterrupts
  <2>6. CASE HMWaits
    BY <2>6, <1>t DEF HMWaits, S!HMWaits
  <2>7. CASE HMGivesUp
    BY <2>7 DEF HMGivesUp, S!HMFindsGone, S!HMKills
  <2>8. CASE HMResumes
    BY <2>8 DEF HMResumes, S!HMResumes
  <2> QED
    BY <1>3, <2>1, <2>2, <2>3, <2>4, <2>5, <2>6, <2>7, <2>8 DEF HealthMonitor
<1>4. CASE Tick
  <2>1. hm \notin {"terminate", "interrupt"} /\ UNCHANGED <<hm, counter>>
    BY <1>4 DEF Tick, ThreadIsDue
  <2>2. hm = "wait" => hmTimer > 0 /\ hmTimer' = hmTimer - 1
    BY <1>4, <1>t DEF Tick, ThreadIsDue, Later
  <2>3. hm = "wait" => sinceAsk' = sinceAsk + 1
    <3>1. hm = "wait" => sinceAsk < ClockBound
      BY <1>t, BoundsType
    <3> QED
      BY <1>4, <3>1 DEF Tick, Older
  <2> QED
    BY <1>t, <2>1, <2>2, <2>3
<1>5. CASE AppAnswers
  BY <1>5 DEF AppAnswers
<1>6. CASE AppEnds
  BY <1>6 DEF AppEnds, S!AppEnds, S!hmVars
<1>7. CASE UNCHANGED timedVars
  BY <1>7 DEF timedVars
<1> QED
  BY <1>1, <1>2, <1>3, <1>4, <1>5, <1>6, <1>7 DEF TimedNext, WrapperOrTime

\* The steps that leave every live application's signals as they are.
Quiet ==
  \/ RunThreads \/ PMFindsAlive \/ PMFindsDead \/ PMPublishes
  \/ HMReadsConfig \/ ProbeStarts \/ ProbeReceives \/ ProbeGoesOn \/ ProbeIsJudged
  \/ HMCopiesPid \/ HMWaits \/ (HMGivesUp /\ ~S!HMKills) \/ HMResumes
  \/ Tick \/ AppAnswers \/ UNCHANGED timedVars

LEMMA QuietSignals == Quiet => UNCHANGED <<apps, got>>
  BY DEF Quiet, RunThreads, PMFindsAlive, PMFindsDead, PMPublishes, HMReadsConfig, ProbeStarts,
    ProbeReceives, ProbeGoesOn, ProbeIsJudged, HMCopiesPid, HMWaits, HMGivesUp, HMResumes,
    Tick, AppAnswers, timedVars, supervisorVars, S!RunThreads, S!PMFindsDead, S!PMPublishes,
    S!HMReadsConfig, S!HMTest, S!HMCopiesPid, S!HMWaits, S!HMFindsGone, S!HMResumes, S!osVars

LEMMA AllSteps ==
  [TimedNext]_timedVars
    => Quiet \/ PMForks \/ HMInterrupts \/ (HMGivesUp /\ S!HMKills) \/ AppEnds
<1>1. ProcessMonitor => Quiet \/ PMForks
  BY DEF ProcessMonitor, Quiet
<1>2. HealthMonitor => Quiet \/ HMInterrupts \/ (HMGivesUp /\ S!HMKills)
  BY DEF HealthMonitor, Quiet
<1>3. RunThreads \/ Tick \/ AppAnswers \/ UNCHANGED timedVars => Quiet
  BY DEF Quiet
<1> QED
  BY <1>1, <1>2, <1>3 DEF TimedNext, WrapperOrTime

LEMMA NextAskedIsAwaited ==
  TimedTypeInv /\ LaunchInv /\ AskedIsAwaited /\ [TimedNext]_timedVars => AskedIsAwaited'
<1> SUFFICES ASSUME TimedTypeInv, LaunchInv, AskedIsAwaited, [TimedNext]_timedVars,
                    NEW p \in apps', "INT" \in got'[p], "KILL" \notin got'[p]
             PROVE  hm' = "wait" /\ pid' = p
  BY DEF AskedIsAwaited
<1>t. apps \subseteq Pids /\ got \in [Pids -> SUBSET S!Signals] /\ others = {}
      /\ pid \in Pids \cup {S!NoProcess, S!Failed}
  BY DEF TimedTypeInv, TimedTypeOK, S!TypeOK, LaunchInv
<1>1. CASE Quiet
  <2>1. p \in apps /\ hm = "wait" /\ pid = p
    BY <1>1, QuietSignals DEF AskedIsAwaited
  <2>2. wrapper # "starting" /\ ~S!HMFindsGone
    BY <2>1, <1>t DEF TimedTypeInv, StageInv, S!HMFindsGone, S!ifProcessWithPIDExist, S!Live
  <2>3. UNCHANGED <<hm, pid>>
    BY <1>1, <2>1, <2>2
    DEF Quiet, RunThreads, PMFindsAlive, PMFindsDead, PMPublishes, HMReadsConfig, ProbeStarts,
      ProbeReceives, ProbeGoesOn, ProbeIsJudged, HMCopiesPid, HMWaits, HMGivesUp, HMResumes,
      Tick, AppAnswers, timedVars, supervisorVars, S!RunThreads, S!PMFindsDead,
      S!PMPublishes, S!HMReadsConfig, S!HMTest, S!HMCopiesPid, S!HMWaits, S!HMResumes,
      S!hmVars
  <2> QED
    BY <2>1, <2>3
<1>2. CASE PMForks
  <2>1. PICK q \in Pids : apps' = apps \cup {q} /\ got' = [got EXCEPT ![q] = {}]
    BY <1>2 DEF PMForks, S!PMForks, S!FreshPids
  <2>2. p # q
    BY <2>1, <1>t
  <2> QED
    BY <1>2, <2>1, <2>2, <1>t DEF PMForks, S!PMForks, S!hmVars, AskedIsAwaited
<1>3. CASE HMInterrupts
  <2>1. p \in apps /\ got' = S!Sent(pid, "INT") /\ hm = "interrupt"
        /\ hm' = "wait" /\ pid' = pid
    BY <1>3 DEF HMInterrupts, S!HMInterrupts
  <2>2. got'[p] = IF p \in S!Hit(pid) THEN got[p] \cup {"INT"} ELSE got[p]
    BY <2>1, <1>t DEF S!Sent
  <2>3. p \in S!Hit(pid)
    BY <2>1, <2>2 DEF AskedIsAwaited
  <2>4. p = pid
    BY <2>3, PidsType DEF S!Hit, LaunchInv
  <2> QED
    BY <2>1, <2>4
<1>4. CASE HMGivesUp /\ S!HMKills
  <2>1. p \in apps /\ got' = S!Sent(pid, "KILL")
    BY <1>4 DEF S!HMKills
  <2>2. got'[p] = IF p \in S!Hit(pid) THEN got[p] \cup {"KILL"} ELSE got[p]
    BY <2>1, <1>t DEF S!Sent
  <2>3. p = pid /\ p \notin S!Hit(pid)
    BY <2>1, <2>2 DEF AskedIsAwaited
  <2> QED
    BY <2>1, <2>3, <1>t, PidsType DEF S!Hit, S!Live
<1>5. CASE AppEnds
  BY <1>5, <1>t DEF AppEnds, S!AppEnds, S!hmVars, AskedIsAwaited
<1> QED
  BY <1>1, <1>2, <1>3, <1>4, <1>5, AllSteps

KillInv == TimedTypeInv /\ LaunchInv /\ WaitInv /\ AskedIsAwaited

LEMMA KillInvariance == TimedSpec => []KillInv
<1>1. TimedInit => WaitInv /\ AskedIsAwaited
  BY DEF TimedInit, S!Init, WaitInv, AskedIsAwaited
<1>2. TimedSpec => []TimedTypeInv /\ []LaunchInv
  BY TypeInvariance, Launches
<1> QED
  BY <1>1, <1>2, NextWaitInv, NextAskedIsAwaited, PTL DEF TimedSpec, KillInv

\* Who is killed newly is killed by terminateApplication.
LEMMA NewKill ==
  ASSUME KillInv, [TimedNext]_timedVars, NEW p \in apps, "KILL" \in got'[p], "KILL" \notin got[p]
  PROVE  hm = "wait" /\ hmTimer = 0 /\ counter * 3 >= ShutdownTimeout
<1>t. got \in [Pids -> SUBSET S!Signals] /\ apps \subseteq Pids
  BY DEF KillInv, TimedTypeInv, TimedTypeOK, S!TypeOK
<1>1. CASE Quiet
  BY <1>1, QuietSignals
<1>2. CASE PMForks
  <2>1. PICK q \in Pids : got' = [got EXCEPT ![q] = {}]
    BY <1>2 DEF PMForks, S!PMForks, S!FreshPids
  <2> QED
    BY <2>1, <1>t
<1>3. CASE HMInterrupts
  BY <1>3, <1>t DEF HMInterrupts, S!HMInterrupts, S!Sent
<1>4. CASE HMGivesUp /\ S!HMKills
  BY <1>4 DEF HMGivesUp, S!HMKills
<1>5. CASE AppEnds
  <2>1. PICK q \in Pids : got' = [got EXCEPT ![q] = {}]
    BY <1>5 DEF AppEnds, S!AppEnds
  <2> QED
    BY <2>1, <1>t
<1> QED
  BY <1>1, <1>2, <1>3, <1>4, <1>5, AllSteps

\* For every shutdown timeout: an application is not killed before its time
\* is over, and has not 3 seconds more.
THEOREM KillIsOnTime == TimedSpec => KilledOnTime
<1>1. KillInv /\ [TimedNext]_timedVars
        => [\A p \in apps :
              /\ "KILL" \in got'[p] /\ "KILL" \notin got[p] => sinceAsk >= ShutdownTimeout
              /\ p \in apps' /\ "INT" \in got[p] /\ "KILL" \notin got[p]
                   => sinceAsk < ShutdownTimeout + 3]_timedVars
  <2> SUFFICES ASSUME KillInv, [TimedNext]_timedVars, NEW p \in apps
               PROVE  /\ "KILL" \in got'[p] /\ "KILL" \notin got[p] => sinceAsk >= ShutdownTimeout
                      /\ p \in apps' /\ "INT" \in got[p] /\ "KILL" \notin got[p]
                           => sinceAsk < ShutdownTimeout + 3
    OBVIOUS
  <2>t. sinceAsk \in Nat /\ counter \in Nat /\ hmTimer \in Nat /\ ShutdownTimeout \in Nat
    BY MaxFailuresType, BoundsType, Intervals DEF KillInv, TimedTypeInv, TimedTypeOK, S!TypeOK
  <2>1. "KILL" \in got'[p] /\ "KILL" \notin got[p] => sinceAsk >= ShutdownTimeout
    <3> SUFFICES ASSUME "KILL" \in got'[p], "KILL" \notin got[p]
                 PROVE  sinceAsk >= ShutdownTimeout
      OBVIOUS
    <3>1. hm = "wait" /\ hmTimer = 0 /\ counter * 3 >= ShutdownTimeout
      BY NewKill
    <3> QED
      BY <3>1, <2>t DEF KillInv, WaitInv
  <2>2. "INT" \in got[p] /\ "KILL" \notin got[p] => sinceAsk < ShutdownTimeout + 3
    <3>1. "INT" \in got[p] /\ "KILL" \notin got[p] => hm = "wait"
      BY DEF KillInv, AskedIsAwaited
    <3> QED
      BY <3>1, <2>t DEF KillInv, WaitInv
  <2> QED
    BY <2>1, <2>2
<1> QED
  BY <1>1, KillInvariance, PTL DEF TimedSpec, KilledOnTime

-----------------------------------------------------------------------------
(* The pace of the health monitor.  Pace(e, ...) says of any clock showing *)
(* e that the thread has come no further than that much time allows: one   *)
(* startup time, and one interval for every failed test and for the test   *)
(* it is about to make.  It is used of two clocks: the time since the last *)
(* request, and the time since the threads began.                          *)

Pace(e, stage, timer, failures) ==
  /\ stage \in {"startup", "grace"} => e + timer >= StartupTimeout
  /\ stage = "sleep"
       => e + timer >= StartupTimeout + (failures + 1) * HealthCheckInterval
  /\ stage \in {"terminate", "interrupt"} => e >= Respite

ProbingInv ==
  /\ pc \notin {"idle", "dead"} => hmTimer = 0
  /\ hm \in {"off", "startup"} => healthCheckCounter = 0

LEMMA OneMore ==
  ASSUME NEW c \in Nat
  PROVE  c * HealthCheckInterval \in Nat
         /\ (c + 1) * HealthCheckInterval = c * HealthCheckInterval + HealthCheckInterval
  BY Intervals, Products

LEMMA NoMoreThanAll ==
  ASSUME NEW c \in Nat, c + 1 <= S!MaxFailures
  PROVE  StartupTimeout + (c + 1) * HealthCheckInterval <= Respite
<1> USE MaxFailuresType, Intervals
<1> DEFINE rest == S!MaxFailures - (c + 1)
<1>1. rest \in Nat /\ S!MaxFailures = (c + 1) + rest
  OBVIOUS
<1>2. rest * HealthCheckInterval \in Nat
  BY <1>1, Products
<1>3. S!MaxFailures * HealthCheckInterval
        = (c + 1) * HealthCheckInterval + rest * HealthCheckInterval
  BY <1>1
<1>4. (c + 1) * HealthCheckInterval \in Nat
  BY Products
<1> QED
  BY <1>2, <1>3, <1>4 DEF Respite

LEMMA NextProbingInv ==
  TimedTypeInv /\ ProbingInv /\ [TimedNext]_timedVars => ProbingInv'
<1> SUFFICES ASSUME TimedTypeInv, ProbingInv, [TimedNext]_timedVars
             PROVE  ProbingInv'
  OBVIOUS
<1> USE DEF ProbingInv, vars, supervisorVars, timers
<1>t. /\ pc # "idle" => hm = "sleep"
      /\ wrapper = "starting" => hm = "off"
  BY DEF TimedTypeInv, StageInv
<1>1. CASE RunThreads
  BY <1>1, <1>t DEF RunThreads, S!RunThreads
<1>2. CASE ProcessMonitor
  BY <1>2 DEF ProcessMonitor, PMFindsAlive, PMFindsDead, PMForks, PMPublishes, S!PMFindsDead,
    S!PMForks, S!PMPublishes, S!hmVars, S!osVars
<1>3. CASE HealthMonitor
  <2>1. CASE HMReadsConfig
    BY <2>1, <1>t DEF HMReadsConfig, S!HMReadsConfig
  <2>2. CASE ProbeStarts \/ ProbeReceives \/ ProbeGoesOn
    BY <2>2 DEF ProbeStarts, ProbeReceives, ProbeGoesOn, Start, Send, RecvPiece,
      SetupFails, SetupConnects, RecvEnd, RecvTimeout, Exit
  <2>3. CASE ProbeIsJudged
    BY <2>3 DEF ProbeIsJudged, Judge, S!HMTest
  <2>4. CASE HMCopiesPid \/ HMInterrupts \/ HMWaits \/ HMGivesUp \/ HMResumes
    BY <2>4, <1>t DEF HMCopiesPid, S!HMCopiesPid, HMInterrupts, S!HMInterrupts,
      HMWaits, S!HMWaits, HMGivesUp, S!HMFindsGone, S!HMKills, HMResumes, S!HMResumes
  <2> QED
    BY <1>3, <2>1, <2>2, <2>3, <2>4 DEF HealthMonitor
<1>4. CASE Tick
  BY <1>4 DEF Tick, Later
<1>5. CASE AppAnswers
  BY <1>5 DEF AppAnswers, Application, PeerSends, PeerCloses
<1>6. CASE AppEnds
  BY <1>6 DEF AppEnds, S!AppEnds, S!hmVars
<1>7. CASE UNCHANGED timedVars
  BY <1>7 DEF timedVars
<1> QED
  BY <1>1, <1>2, <1>3, <1>4, <1>5, <1>6, <1>7 DEF TimedNext, WrapperOrTime

\* Steps of the health monitor take no time, and do not outrun it.
LEMMA PaceStep ==
  ASSUME TimedTypeInv, ProbingInv, HealthMonitor, NEW e \in Nat,
         Pace(e, hm, hmTimer, healthCheckCounter)
  PROVE  Pace(e, hm', hmTimer', healthCheckCounter')
<1> USE Intervals, MaxFailuresType, BoundsType
<1>t. /\ healthCheckCounter \in Nat /\ hmTimer \in Nat
      /\ hm \in {"off", "startup", "sleep"} => healthCheckCounter < S!MaxFailures
  BY DEF TimedTypeInv, TimedTypeOK, StageInv, S!TypeOK
<1>1. CASE HMReadsConfig
  BY <1>1, <1>t, OneMore DEF HMReadsConfig, S!HMReadsConfig, Pace, ProbingInv
<1>2. CASE ProbeStarts \/ ProbeReceives \/ ProbeGoesOn
  BY <1>2 DEF ProbeStarts, ProbeReceives, ProbeGoesOn, supervisorVars, timers
<1>3. CASE ProbeIsJudged
  <2>1. hm = "sleep" /\ hmTimer = 0 /\ healthCheckCounter' = healthCheckCounter + 1
    BY <1>3, JudgeFails DEF ProbeIsJudged, Judge, S!HMTest, ProbingInv
  <2>2. e >= StartupTimeout + (healthCheckCounter + 1) * HealthCheckInterval
    BY <2>1 DEF Pace
  <2>3. CASE hm' = "terminate"
    <3>1. healthCheckCounter + 1 = S!MaxFailures
      BY <1>3, <2>1, <2>3, <1>t DEF ProbeIsJudged, S!HMTest, S!MaxFailures
    <3> QED
      BY <2>2, <2>3, <3>1 DEF Pace, Respite
  <2>4. CASE hm' = "sleep"
    <3>1. hmTimer' = HealthCheckInterval
      BY <1>3, <2>4 DEF ProbeIsJudged
    <3>2. ((healthCheckCounter + 1) + 1) * HealthCheckInterval
            = (healthCheckCounter + 1) * HealthCheckInterval + HealthCheckInterval
      BY <1>t, OneMore
    <3>3. (healthCheckCounter + 1) * HealthCheckInterval \in Nat
      BY <1>t, Products
    <3> QED
      BY <2>1, <2>2, <2>4, <3>1, <3>2, <3>3 DEF Pace
  <2> QED
    BY <1>3, <2>3, <2>4 DEF ProbeIsJudged, S!HMTest
<1>4. CASE HMCopiesPid
  BY <1>4 DEF HMCopiesPid, S!HMCopiesPid, Pace
<1>5. CASE HMInterrupts \/ HMWaits
  BY <1>5 DEF HMInterrupts, S!HMInterrupts, HMWaits, S!HMWaits, Pace
<1>6. CASE HMGivesUp
  BY <1>6 DEF HMGivesUp, S!HMFindsGone, S!HMKills, Pace
<1>7. CASE HMResumes
  BY <1>7, OneMore DEF HMResumes, S!HMResumes, Pace
<1> QED
  BY <1>1, <1>2, <1>3, <1>4, <1>5, <1>6, <1>7 DEF HealthMonitor

\* A second that passes is a second more on the clock.
LEMMA PaceLater ==
  ASSUME NEW e \in Nat, NEW stage, NEW timer \in Nat, NEW left \in Nat, left + 1 >= timer,
         NEW failures \in Nat, Pace(e, stage, timer, failures)
  PROVE  Pace(e + 1, stage, left, failures)
<1> DEFINE due == StartupTimeout + (failures + 1) * HealthCheckInterval
<1>1. due \in Nat
  BY Intervals, Products
<1>2. stage = "sleep" => (e + 1) + left >= due
  <2>1. stage = "sleep" => e + timer >= due
    BY DEF Pace
  <2> HIDE DEF due
  <2> QED
    BY <1>1, <2>1
<1>3. stage \in {"startup", "grace"} => (e + 1) + left >= StartupTimeout
  <2>1. stage \in {"startup", "grace"} => e + timer >= StartupTimeout
    BY DEF Pace
  <2> QED
    BY <2>1, Intervals
<1>4. stage \in {"terminate", "interrupt"} => e + 1 >= Respite
  BY BoundsType DEF Pace
<1> QED
  BY <1>2, <1>3, <1>4 DEF Pace

LEMMA PaceTick ==
  ASSUME TimedTypeInv, Tick, NEW e \in Nat, Pace(e, hm, hmTimer, healthCheckCounter)
  PROVE  Pace(e + 1, hm', hmTimer', healthCheckCounter')
<1>1. hmTimer \in Nat /\ healthCheckCounter \in Nat
  BY Intervals, MaxFailuresType DEF TimedTypeInv, TimedTypeOK, S!TypeOK
<1>2. hmTimer' \in Nat /\ hmTimer' + 1 >= hmTimer
  BY <1>1 DEF Tick, Later
<1>3. hm' = hm /\ healthCheckCounter' = healthCheckCounter
  BY DEF Tick, supervisorVars
<1> QED
  BY <1>1, <1>2, <1>3, PaceLater

\* A clock that has stopped has waited long enough for anything.
LEMMA PaceAtBound ==
  ASSUME NEW stage, NEW timer \in Nat, NEW failures \in Nat,
         stage = "sleep" => failures + 1 <= S!MaxFailures
  PROVE  Pace(ClockBound, stage, timer, failures)
<1>1. Respite \in Nat /\ ClockBound \in Nat /\ ClockBound >= Respite /\ StartupTimeout \in Nat
  BY Intervals, BoundsType
<1>2. S!MaxFailures * HealthCheckInterval \in Nat
  BY Intervals, MaxFailuresType, Products
<1>3. Respite >= StartupTimeout
  BY <1>1, <1>2 DEF Respite
<1> DEFINE due == StartupTimeout + (failures + 1) * HealthCheckInterval
<1>4. stage = "sleep" => due <= Respite
  BY <1>1, NoMoreThanAll
<1>5. due \in Nat
  BY <1>1, Intervals, Products
<1>6. stage = "sleep" => ClockBound + timer >= due
  <2> HIDE DEF due
  <2> QED
    BY <1>1, <1>4, <1>5
<1> QED
  BY <1>1, <1>3, <1>6 DEF Pace

AskInv == Pace(sinceAsk, hm, hmTimer, healthCheckCounter)

LEMMA NextAskInv ==
  TimedTypeInv /\ TimedTypeInv' /\ ProbingInv /\ AskInv /\ [TimedNext]_timedVars => AskInv'
<1> SUFFICES ASSUME TimedTypeInv, TimedTypeInv', ProbingInv, AskInv, [TimedNext]_timedVars
             PROVE  AskInv'
  OBVIOUS
<1> USE DEF AskInv, supervisorVars, timers, clocks
<1>t. sinceAsk \in Nat /\ sinceAsk <= ClockBound /\ ClockBound \in Nat
  BY BoundsType DEF TimedTypeInv, TimedTypeOK
<1>1. CASE RunThreads
  BY <1>1, <1>t, Intervals DEF RunThreads, S!RunThreads, Pace
<1>2. CASE ProcessMonitor
  BY <1>2 DEF ProcessMonitor, PMFindsAlive, PMFindsDead, PMForks, PMPublishes, S!PMFindsDead,
    S!PMForks, S!PMPublishes, S!hmVars
<1>3. CASE HealthMonitor
  <2>1. CASE HMInterrupts
    BY <2>1 DEF HMInterrupts, S!HMInterrupts, Pace
  <2>2. CASE ~HMInterrupts
    <3>1. sinceAsk' = sinceAsk
      BY <1>3, <2>2 DEF HealthMonitor, HMReadsConfig, ProbeStarts, ProbeReceives,
        ProbeGoesOn, ProbeIsJudged, HMCopiesPid, HMWaits, HMGivesUp, HMResumes
    <3>2. Pace(sinceAsk, hm', hmTimer', healthCheckCounter')
      BY <1>3, <1>t, PaceStep
    <3> QED
      BY <3>1, <3>2
  <2> QED
    BY <2>1, <2>2
<1>4. CASE Tick
  <2>1. Pace(sinceAsk + 1, hm', hmTimer', healthCheckCounter')
    BY <1>4, <1>t, PaceTick
  <2>2. Pace(ClockBound, hm', hmTimer', healthCheckCounter')
    <3>1. hmTimer' \in Nat
      BY Intervals DEF TimedTypeInv, TimedTypeOK
    <3>2. healthCheckCounter \in Nat
          /\ (hm = "sleep" => healthCheckCounter + 1 <= S!MaxFailures)
      BY MaxFailuresType DEF TimedTypeInv, TimedTypeOK, S!TypeOK, StageInv
    <3>3. hm' = hm /\ healthCheckCounter' = healthCheckCounter
      BY <1>4 DEF Tick
    <3> QED
      BY <3>1, <3>2, <3>3, PaceAtBound
  <2>3. sinceAsk' = sinceAsk + 1 \/ sinceAsk' = ClockBound
    BY <1>4, <1>t DEF Tick, Older
  <2> QED
    BY <2>1, <2>2, <2>3
<1>5. CASE AppAnswers
  BY <1>5 DEF AppAnswers
<1>6. CASE AppEnds
  BY <1>6 DEF AppEnds, S!AppEnds, S!hmVars
<1>7. CASE UNCHANGED timedVars
  BY <1>7 DEF timedVars
<1> QED
  BY <1>1, <1>2, <1>3, <1>4, <1>5, <1>6, <1>7 DEF TimedNext, WrapperOrTime

PaceInv == TimedTypeInv /\ LaunchInv /\ ProbingInv /\ AskInv

LEMMA PaceInvariance == TimedSpec => []PaceInv
<1>1. TimedInit => ProbingInv /\ AskInv
  BY DEF TimedInit, Init, S!Init, ProbingInv, AskInv, Pace
<1>2. TimedSpec => []TimedTypeInv /\ []LaunchInv
  BY TypeInvariance, Launches
<1> QED
  BY <1>1, <1>2, NextProbingInv, NextAskInv, PTL DEF TimedSpec, PaceInv

\* For every choice of the intervals: the health monitor never asks twice
\* within a startup time and a full series of failed tests.
THEOREM RequestsAreApart == TimedSpec => AsksApart
<1>1. PaceInv => (hm = "interrupt" /\ hm' = "wait" => sinceAsk >= Respite)
  BY DEF PaceInv, AskInv, Pace
<1> QED
  BY <1>1, PaceInvariance, PTL DEF AsksApart

(* Before the first launch the process monitor's timer tells the time: its *)
(* first sleep is not over, or just is.                                    *)

FirstInv ==
  /\ wrapper # "starting" /\ child_process_pid = S!NoProcess
       => /\ pm # "off"
          /\ pm # "sleep" => pmTimer = 0
          /\ hm \in {"off", "startup", "sleep"}
          /\ Pace(PidCheckInterval - pmTimer, hm, hmTimer, healthCheckCounter)
  /\ hm = "interrupt" => pid # S!NoProcess

LEMMA NextFirstInv ==
  PaceInv /\ LaunchComesFirst /\ FirstInv /\ [TimedNext]_timedVars => FirstInv'
<1> SUFFICES ASSUME PaceInv, LaunchComesFirst, FirstInv, [TimedNext]_timedVars
             PROVE  FirstInv'
  OBVIOUS
<1> USE PidsType, Intervals DEF FirstInv, supervisorVars, timers
<1>t. /\ pmTimer \in Nat /\ pmTimer <= PidCheckInterval
      /\ wrapper = "starting" => pm = "off" /\ hm = "off"
      /\ pm = "publish" => launched \in Pids
      /\ TimedTypeInv /\ ProbingInv
  BY DEF PaceInv, TimedTypeInv, TimedTypeOK, StageInv, LaunchInv
<1>e. PidCheckInterval - pmTimer \in Nat
  BY <1>t
<1>1. CASE RunThreads
  BY <1>1, <1>t DEF RunThreads, S!RunThreads, LaunchComesFirst, Pace
<1>2. CASE ProcessMonitor
  BY <1>2, <1>t DEF ProcessMonitor, PMFindsAlive, PMFindsDead, PMForks, PMPublishes,
    S!PMFindsDead, S!PMForks, S!PMPublishes, S!hmVars, S!osVars
<1>3. CASE HealthMonitor
  <2>1. UNCHANGED <<pm, child_process_pid, pmTimer>> /\ wrapper # "starting"
    <3>1. CASE ProbeReceives \/ ProbeGoesOn \/ ProbeIsJudged
      <4>1. pc # "idle"
        BY <3>1 DEF ProbeReceives, ProbeGoesOn, ProbeIsJudged, Send, RecvPiece, SetupFails,
          SetupConnects, RecvEnd, RecvTimeout, Exit, Judge
      <4>2. wrapper # "starting"
        BY <1>t, <4>1 DEF TimedTypeInv, StageInv
      <4> QED
        BY <3>1, <4>2 DEF ProbeReceives, ProbeGoesOn, ProbeIsJudged, S!HMTest, S!pmVars
    <3>2. CASE ~(ProbeReceives \/ ProbeGoesOn \/ ProbeIsJudged)
      BY <1>3, <3>2 DEF HealthMonitor, HMReadsConfig, ProbeStarts, HMCopiesPid, HMInterrupts,
        HMWaits, HMGivesUp, HMResumes, S!HMReadsConfig, S!HMCopiesPid, S!HMInterrupts,
        S!HMWaits, S!HMFindsGone, S!HMKills, S!HMResumes, S!ThreadsRun, S!pmVars
    <3> QED
      BY <3>1, <3>2
  <2>2. ASSUME child_process_pid = S!NoProcess
        PROVE  /\ hm' \in {"off", "startup", "sleep"}
               /\ Pace(PidCheckInterval - pmTimer, hm', hmTimer', healthCheckCounter')
    <3>1. Pace(PidCheckInterval - pmTimer, hm', hmTimer', healthCheckCounter')
      BY <1>3, <1>t, <1>e, <2>1, <2>2, PaceStep
    <3>2. hm' # "terminate"
      BY <1>t, <3>1, BoundsType DEF Pace, LaunchComesFirst
    <3>3. hm' \in {"off", "startup", "sleep", "terminate"}
      BY <1>3, <2>1, <2>2 DEF HealthMonitor, HMReadsConfig, ProbeStarts, ProbeReceives,
        ProbeGoesOn, ProbeIsJudged, HMCopiesPid, HMInterrupts, HMWaits, HMGivesUp, HMResumes,
        S!HMReadsConfig, S!HMTest, S!HMCopiesPid, S!HMInterrupts, S!HMWaits,
        S!HMFindsGone, S!HMKills, S!HMResumes
    <3> QED
      BY <3>1, <3>2, <3>3
  <2>3. hm' = "interrupt" => pid' # S!NoProcess
    BY <1>3, <2>1 DEF HealthMonitor, HMReadsConfig, ProbeStarts, ProbeReceives,
      ProbeGoesOn, ProbeIsJudged, HMCopiesPid, HMInterrupts, HMWaits, HMGivesUp, HMResumes,
      S!HMReadsConfig, S!HMTest, S!HMCopiesPid, S!HMInterrupts, S!HMWaits,
      S!HMFindsGone, S!HMKills, S!HMResumes
  <2> QED
    BY <2>1, <2>2, <2>3
<1>4. CASE Tick
  <2>1. UNCHANGED <<wrapper, pm, child_process_pid, hm, pid>>
    BY <1>4 DEF Tick
  <2>2. ASSUME wrapper # "starting", child_process_pid = S!NoProcess
        PROVE  Pace(PidCheckInterval - pmTimer', hm', hmTimer', healthCheckCounter')
               /\ (pm # "sleep" => pmTimer' = 0)
    <3>1. pm = "sleep" /\ pmTimer > 0
      BY <1>4, <1>t, <2>2 DEF Tick, ThreadIsDue, TimedTypeInv, TimedTypeOK, S!TypeOK
    <3>2. pmTimer' = pmTimer - 1
      BY <1>4, <1>t, <3>1 DEF Tick, Later
    <3>3. Pace((PidCheckInterval - pmTimer) + 1, hm', hmTimer', healthCheckCounter')
      BY <1>4, <1>t, <1>e, <2>2, PaceTick
    <3>4. (PidCheckInterval - pmTimer) + 1 = PidCheckInterval - pmTimer'
      BY <1>t, <3>2
    <3> QED
      BY <3>1, <3>3, <3>4
  <2> QED
    BY <2>1, <2>2
<1>5. CASE AppAnswers
  BY <1>5 DEF AppAnswers
<1>6. CASE AppEnds
  BY <1>6 DEF AppEnds, S!AppEnds, S!pmVars, S!hmVars
<1>7. CASE UNCHANGED timedVars
  BY <1>7 DEF timedVars
<1> QED
  BY <1>1, <1>2, <1>3, <1>4, <1>5, <1>6, <1>7 DEF TimedNext, WrapperOrTime

LEMMA FirstInvariance ==
  ASSUME LaunchComesFirst
  PROVE  TimedSpec => []FirstInv
<1>1. TimedInit => FirstInv
  BY DEF TimedInit, S!Init, FirstInv
<1>2. PaceInv /\ FirstInv /\ [TimedNext]_timedVars => FirstInv'
  BY NextFirstInv
<1> QED
  BY <1>1, <1>2, PaceInvariance, PTL DEF TimedSpec

\* For every choice of intervals with which the first launch comes before the
\* first verdict, the health monitor never interrupts its own process group.
THEOREM GroupIsSpared == TimedSpec => []GroupSpared
<1>1. CASE LaunchComesFirst
  <2>1. FirstInv => GroupSpared
    BY DEF FirstInv, GroupSpared
  <2>2. TimedSpec => []FirstInv
    BY <1>1, FirstInvariance
  <2> QED
    BY <2>1, <2>2, PTL
<1>2. CASE ~LaunchComesFirst
  <2>1. GroupSpared
    BY <1>2 DEF GroupSpared, LaunchComesFirst
  <2> QED
    BY <2>1, PTL
<1> QED
  BY <1>1, <1>2

\* The pid that was interrupted is waited for and killed, not another.
SurvivalInv ==
  /\ wrapper \in {"starting", "running"}
  /\ hm = "wait" => pid # S!NoProcess

LEMMA NextSurvivalInv ==
  LaunchComesFirst /\ FirstInv /\ SurvivalInv /\ [TimedNext]_timedVars => SurvivalInv'
<1> SUFFICES ASSUME LaunchComesFirst, FirstInv, SurvivalInv, [TimedNext]_timedVars
             PROVE  SurvivalInv'
  OBVIOUS
<1> USE DEF SurvivalInv, supervisorVars
<1>1. CASE RunThreads
  BY <1>1 DEF RunThreads, S!RunThreads, LaunchComesFirst
<1>2. CASE ProcessMonitor
  BY <1>2 DEF ProcessMonitor, PMFindsAlive, PMFindsDead, PMForks, PMPublishes, S!PMFindsDead,
    S!PMForks, S!PMPublishes, S!hmVars, S!osVars
<1>3. CASE HealthMonitor
  <2>1. CASE HMReadsConfig
    BY <2>1, SupervisorAssumption DEF HMReadsConfig, S!HMReadsConfig
  <2>2. CASE ProbeStarts \/ ProbeReceives \/ ProbeGoesOn
    BY <2>2 DEF ProbeStarts, ProbeReceives, ProbeGoesOn
  <2>3. CASE ProbeIsJudged
    BY <2>3, JudgeFails DEF ProbeIsJudged, S!HMTest
  <2>4. CASE HMInterrupts
    BY <2>4 DEF HMInterrupts, S!HMInterrupts, FirstInv
  <2>5. CASE HMCopiesPid \/ HMWaits \/ HMGivesUp \/ HMResumes
    BY <2>5 DEF HMCopiesPid, HMWaits, HMGivesUp, HMResumes, S!HMCopiesPid, S!HMWaits,
      S!HMFindsGone, S!HMKills, S!HMResumes
  <2> QED
    BY <1>3, <2>1, <2>2, <2>3, <2>4, <2>5 DEF HealthMonitor
<1>4. CASE Tick \/ AppAnswers \/ UNCHANGED timedVars
  BY <1>4 DEF Tick, AppAnswers, timedVars
<1>5. CASE AppEnds
  BY <1>5 DEF AppEnds, S!AppEnds, S!hmVars
<1> QED
  BY <1>1, <1>2, <1>3, <1>4, <1>5 DEF TimedNext, WrapperOrTime

\* With such intervals the wrapper never ends itself, whatever the application
\* does.
THEOREM WrapperLivesOn == TimedSpec => []WrapperSurvives
<1>1. CASE LaunchComesFirst
  <2>1. TimedInit => SurvivalInv
    BY DEF TimedInit, S!Init, SurvivalInv
  <2>2. FirstInv /\ SurvivalInv /\ [TimedNext]_timedVars => SurvivalInv'
    BY <1>1, NextSurvivalInv
  <2>3. SurvivalInv => WrapperSurvives
    BY DEF SurvivalInv, WrapperSurvives
  <2>4. TimedSpec => []FirstInv
    BY <1>1, FirstInvariance
  <2> QED
    BY <2>1, <2>2, <2>3, <2>4, PTL DEF TimedSpec
<1>2. CASE ~LaunchComesFirst
  <2>1. WrapperSurvives
    BY <1>2 DEF WrapperSurvives, LaunchComesFirst
  <2> QED
    BY <2>1, PTL
<1> QED
  BY <1>1, <1>2

-----------------------------------------------------------------------------
(* The watchdog.  SupervisorWatchdogProofs is taken over for the variables *)
(* of this module; SW! and S! name the same definitions twice.             *)

SW == INSTANCE SupervisorWatchdogProofs

LEMMA SameInit == S!Init <=> SW!Init
  BY DEF S!Init, SW!Init, S!NoProcess, SW!NoProcess

LEMMA SameKill ==
  /\ S!ThreadsRun <=> SW!ThreadsRun
  /\ S!FreshPids = SW!FreshPids
  /\ \A target : S!ifProcessWithPIDExist(target) <=> SW!ifProcessWithPIDExist(target)
  /\ \A target, signal : S!Sent(target, signal) = SW!Sent(target, signal)
<1> USE DEF S!Live, SW!Live, S!NoProcess, SW!NoProcess, S!Failed, SW!Failed
<1>1. S!ThreadsRun <=> SW!ThreadsRun
  BY DEF S!ThreadsRun, SW!ThreadsRun
<1>2. S!FreshPids = SW!FreshPids
  BY DEF S!FreshPids, SW!FreshPids
<1>3. ASSUME NEW target
      PROVE  S!ifProcessWithPIDExist(target) <=> SW!ifProcessWithPIDExist(target)
  BY DEF S!ifProcessWithPIDExist, SW!ifProcessWithPIDExist
<1>4. ASSUME NEW target, NEW signal
      PROVE  S!Sent(target, signal) = SW!Sent(target, signal)
  BY DEF S!Sent, SW!Sent, S!Hit, SW!Hit
<1> QED
  BY <1>1, <1>2, <1>3, <1>4

LEMMA SameNext == S!Next <=> SW!Next
<1> USE SameKill
    DEF S!NoProcess, SW!NoProcess, S!Failed, SW!Failed, S!pmVars, SW!pmVars,
        S!hmVars, SW!hmVars, S!osVars, SW!osVars
<1>1. S!RunThreads <=> SW!RunThreads
  BY DEF S!RunThreads, SW!RunThreads
<1>2. S!PMFindsDead <=> SW!PMFindsDead
  BY DEF S!PMFindsDead, SW!PMFindsDead
<1>3. S!PMForks <=> SW!PMForks
  BY DEF S!PMForks, SW!PMForks
<1>4. S!PMLaunchFails <=> SW!PMLaunchFails
  BY DEF S!PMLaunchFails, SW!PMLaunchFails
<1>5. S!PMPublishes <=> SW!PMPublishes
  BY DEF S!PMPublishes, SW!PMPublishes
<1>6. S!HMReadsConfig <=> SW!HMReadsConfig
  BY DEF S!HMReadsConfig, SW!HMReadsConfig
<1>7. S!HMTests <=> SW!HMTests
  BY DEF S!HMTests, SW!HMTests, S!HMTest, SW!HMTest, S!Fetch, SW!Fetch,
    S!FetchHTTPPostResponse, SW!FetchHTTPPostResponse, S!Empty, SW!Empty,
    S!NoCode, SW!NoCode, S!HealthTest, SW!HealthTest
<1>8. S!HMCopiesPid <=> SW!HMCopiesPid
  BY DEF S!HMCopiesPid, SW!HMCopiesPid
<1>9. S!HMInterrupts <=> SW!HMInterrupts
  BY DEF S!HMInterrupts, SW!HMInterrupts
<1>10. S!HMWaits <=> SW!HMWaits
  BY DEF S!HMWaits, SW!HMWaits
<1>11. S!HMFindsGone <=> SW!HMFindsGone
  BY DEF S!HMFindsGone, SW!HMFindsGone
<1>12. S!HMKills <=> SW!HMKills
  BY DEF S!HMKills, SW!HMKills
<1>13. S!HMResumes <=> SW!HMResumes
  BY DEF S!HMResumes, SW!HMResumes
<1>14. ASSUME NEW signal
       PROVE  S!SendSignal(signal) <=> SW!SendSignal(signal)
  BY DEF S!SendSignal, SW!SendSignal
<1>15. (S!HandleTerm <=> SW!HandleTerm) /\ (S!HandleHup <=> SW!HandleHup)
  BY DEF S!HandleTerm, SW!HandleTerm, S!HandleHup, SW!HandleHup
<1>16. S!ExitCompletes <=> SW!ExitCompletes
  BY DEF S!ExitCompletes, SW!ExitCompletes
<1>17. ASSUME NEW p
       PROVE  /\ S!AppEnds(p) <=> SW!AppEnds(p)
              /\ S!OtherStarts(p) <=> SW!OtherStarts(p)
              /\ S!OtherEnds(p) <=> SW!OtherEnds(p)
  <2>1. S!Cardinality(others) = SW!Cardinality(others)
    BY DEF S!Cardinality, SW!Cardinality
  <2> QED
    BY <2>1
    DEF S!AppEnds, SW!AppEnds, S!OtherStarts, SW!OtherStarts, S!OtherEnds, SW!OtherEnds
<1> QED
  BY <1>1, <1>2, <1>3, <1>4, <1>5, <1>6, <1>7, <1>8, <1>9, <1>10, <1>11, <1>12,
     <1>13, <1>14, <1>15, <1>16, <1>17, Zenon
  DEF S!Next, SW!Next, S!ProcessMonitor, SW!ProcessMonitor, S!HealthMonitor,
      SW!HealthMonitor, S!Signalled, SW!Signalled, S!System, SW!System

\* Down to its timers and its probe the wrapper implements the watchdog, whose
\* module knows of neither.
THEOREM TimedImplementsWatchdog ==
  ASSUME ~PidRecycling
  PROVE  TimedSpec => SW!ImplementsWatchdog
<1>1. Replies \subseteq SW!Texts
  BY ProbeAssumption
  DEF Texts, Codes, Bodies, NoCode, SW!Texts, SW!Codes, SW!Bodies, SW!NoCode
<1>2. RetryAttemptCount \in Nat /\ ShutdownTimeout \in Nat
  BY SupervisorAssumption
<1>3. {EnablePIDCheck, EnableHealthCheck, HealthConfigComplete,
       LaunchMayFail, PidRecycling} \subseteq BOOLEAN
  BY SupervisorAssumption
<1>4. 0 \notin Pids /\ -1 \notin Pids
  BY SupervisorAssumption
<1>5. SW!Spec => SW!ImplementsWatchdog
  BY <1>1, <1>2, <1>3, <1>4, SW!SupervisorImplementsWatchdog
<1>6. [S!Next]_S!vars => [SW!Next]_SW!vars
  BY SameNext DEF S!vars, SW!vars
<1>7. TimedSpec => SW!Spec
  BY <1>6, SameInit, TimedImplementsSupervisor, PTL
  DEF ImplementsSupervisor, S!Spec, SW!Spec
<1> QED
  BY <1>5, <1>7
=============================================================================
