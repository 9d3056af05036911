------------------------- MODULE TimedAskedProofs -------------------------
(***************************************************************************)
(* The proof that TimedSupervisor asks an application that passes no test  *)
(* to end in time.                                                         *)
(*                                                                         *)
(* Left is the most time that can pass before the health monitor's next    *)
(* request: what is left of its present sleep or probe, and a whole        *)
(* interval and probe for every test after that.  The invariant is that    *)
(* the patience with an application that has not been asked covers its     *)
(* `unfit` time and what is Left.                                          *)
(***************************************************************************)
EXTENDS TimedSupervisorProofs

Watched ==
  /\ EnableHealthCheck /\ LaunchComesFirst
  /\ Pieces > 0 /\ ~PidRecycling

PieceTime(n) == n * ReceiveTimeout
Rounds(n)    == n * (HealthCheckInterval + ProbeTime)

ProbeLeft(at, timer, io, pieces) ==
  CASE at = "idle"    -> timer + ProbeTime
    [] at = "setup"   -> io + PieceTime(Pieces + 1)
    [] at = "send"    -> PieceTime(pieces + 1)
    [] at = "receive" -> io + PieceTime(pieces)
    [] OTHER          -> 0

TimeLeft(stage, timer, failures, at, io, pieces) ==
  CASE stage \in {"startup", "grace"} -> timer + Rounds(S!MaxFailures)
    [] stage = "wait"  -> timer + StartupTimeout + Rounds(S!MaxFailures)
    [] stage = "sleep" ->
         ProbeLeft(at, timer, io, pieces) + Rounds(S!MaxFailures - 1 - failures)
    [] OTHER           -> 0

Left == TimeLeft(hm, hmTimer, healthCheckCounter, pc, ioTimer, missing)

LEMMA PieceTimes ==
  ASSUME NEW n \in Nat
  PROVE  PieceTime(n) \in Nat /\ PieceTime(n + 1) = PieceTime(n) + ReceiveTimeout
  BY Intervals, Products DEF PieceTime

LEMMA RoundTimes ==
  ASSUME NEW n \in Nat
  PROVE  /\ Rounds(n) \in Nat
         /\ Rounds(n + 1) = Rounds(n) + HealthCheckInterval + ProbeTime
<1> DEFINE Q == HealthCheckInterval + ProbeTime
<1>1. Q \in Nat
  BY Intervals, BoundsType
<1>2. n * Q \in Nat /\ (n + 1) * Q = n * Q + Q
  <2> HIDE DEF Q
  <2> QED
    BY <1>1, Products
<1> QED
  BY <1>2, Intervals, BoundsType DEF Rounds

LEMMA Monotone ==
  ASSUME NEW i \in Nat, NEW j \in Nat, i <= j
  PROVE  PieceTime(i) <= PieceTime(j) /\ Rounds(i) <= Rounds(j)
<1> DEFINE Q == HealthCheckInterval + ProbeTime
           d == j - i
<1>1. Q \in Nat /\ d \in Nat /\ j = i + d
  BY Intervals, BoundsType
<1>2. i * Q \in Nat /\ d * Q \in Nat /\ j * Q = i * Q + d * Q
  <2> HIDE DEF Q
  <2> QED
    BY <1>1, Products
<1>3. /\ i * ReceiveTimeout \in Nat /\ d * ReceiveTimeout \in Nat
      /\ j * ReceiveTimeout = i * ReceiveTimeout + d * ReceiveTimeout
  BY <1>1, Intervals, Products
<1>4. Rounds(i) <= Rounds(j)
  <2>1. Rounds(i) = i * Q /\ Rounds(j) = j * Q
    BY DEF Rounds
  <2> HIDE DEF Q
  <2> QED
    BY <1>2, <2>1
<1>5. PieceTime(i) <= PieceTime(j)
  BY <1>3 DEF PieceTime
<1> QED
  BY <1>4, <1>5

-----------------------------------------------------------------------------
(* Where the timers of each stage can stand.                               *)

StandInv ==
  /\ hm \in {"startup", "grace"} => hmTimer <= StartupTimeout
  /\ hm = "wait" => hmTimer <= 3
  /\ hm = "sleep" => hmTimer <= HealthCheckInterval
  /\ pc = "setup" => ioTimer <= ConnectTimeout
  /\ pc = "receive" => ioTimer <= ReceiveTimeout
  /\ missing <= Pieces
  /\ pc # "dead"
  /\ hm = "off" => wrapper = "starting"

LEMMA NextStandInv ==
  Watched /\ TimedTypeInv /\ WaitInv /\ StandInv /\ [TimedNext]_timedVars => StandInv'
<1> SUFFICES ASSUME Watched, TimedTypeInv, WaitInv, StandInv, [TimedNext]_timedVars
             PROVE  StandInv'
  OBVIOUS
<1> USE Intervals DEF StandInv, vars, supervisorVars, timers
<1>t. /\ hmTimer \in Nat /\ ioTimer \in Nat /\ missing \in Nat
      /\ pc # "idle" => hm = "sleep"
      /\ wrapper = "starting" => hm = "off"
  BY DEF TimedTypeInv, TimedTypeOK, StageInv, TypeOK
<1>1. CASE RunThreads
  BY <1>1, <1>t DEF RunThreads, S!RunThreads, Watched
<1>2. CASE ProcessMonitor
  BY <1>2 DEF ProcessMonitor, PMFindsAlive, PMFindsDead, PMForks, PMPublishes, S!PMFindsDead,
    S!PMForks, S!PMPublishes, S!hmVars, S!osVars
<1>3. CASE HealthMonitor
  <2>1. CASE HMReadsConfig
    BY <2>1, <1>t, SupervisorAssumption DEF HMReadsConfig, S!HMReadsConfig
  <2>2. CASE ProbeStarts
    BY <2>2 DEF ProbeStarts, Start
  <2>3. CASE ProbeReceives
    <3>1. CASE Send
      BY <2>3, <3>1 DEF ProbeReceives, Send
    <3>2. CASE RecvPiece
      <4>1. missing' = missing - 1
        BY <3>2 DEF RecvPiece, Watched
      <4> QED
        BY <2>3, <3>2, <4>1, <1>t DEF ProbeReceives, RecvPiece
    <3> QED
      BY <2>3, <3>1, <3>2 DEF ProbeReceives
  <2>4. CASE ProbeGoesOn
    BY <2>4 DEF ProbeGoesOn, SetupFails, SetupConnects, RecvEnd, RecvTimeout, Exit, Watched
  <2>5. CASE ProbeIsJudged
    BY <2>5, JudgeFails DEF ProbeIsJudged, Judge, S!HMTest
  <2>6. CASE HMCopiesPid
    BY <2>6, <1>t DEF HMCopiesPid, S!HMCopiesPid
  <2>7. CASE HMInterrupts
    <3>1. hmTimer = 0 /\ hmTimer' = 0
      BY <2>7 DEF HMInterrupts, S!HMInterrupts, WaitInv
    <3> QED
      BY <2>7, <1>t, <3>1 DEF HMInterrupts, S!HMInterrupts
  <2>8. CASE HMWaits
    BY <2>8, <1>t DEF HMWaits, S!HMWaits
  <2>9. CASE HMGivesUp
    BY <2>9, <1>t DEF HMGivesUp, S!HMFindsGone, S!HMKills
  <2>10. CASE HMResumes
    BY <2>10, <1>t DEF HMResumes, S!HMResumes
  <2> QED
    BY <1>3, <2>1, <2>2, <2>3, <2>4, <2>5, <2>6, <2>7, <2>8, <2>9, <2>10 DEF HealthMonitor
<1>4. CASE Tick
  <2>1. hmTimer' <= hmTimer /\ ioTimer' <= ioTimer /\ hmTimer' \in Nat /\ ioTimer' \in Nat
    BY <1>4, <1>t DEF Tick, Later
  <2> QED
    BY <1>4, <1>t, <2>1 DEF Tick
<1>5. CASE AppAnswers
  BY <1>5 DEF AppAnswers, Application, PeerSends, PeerCloses
<1>6. CASE AppEnds
  BY <1>6 DEF AppEnds, S!AppEnds, S!hmVars
<1>7. CASE UNCHANGED timedVars
  BY <1>7 DEF timedVars
<1> QED
  BY <1>1, <1>2, <1>3, <1>4, <1>5, <1>6, <1>7 DEF TimedNext, WrapperOrTime

-----------------------------------------------------------------------------
(* Which application is alive.  A request that misses the live application *)
(* finds one that was launched this very second.                           *)

TrackInv ==
  /\ wrapper = "starting" => apps = {}
  /\ pm \in {"off", "sleep"} => apps \subseteq {child_process_pid}
  /\ pm = "launch" => apps = {}
  /\ pm = "publish" => apps \subseteq {launched} /\ unfit = 0
  /\ hm = "wait" => pid # S!NoProcess /\ (pid \in apps => "INT" \in got[pid])
  /\ hm = "interrupt" => apps \subseteq {pid} \/ unfit = 0

LEMMA NextTrackInv ==
  Watched /\ TimedTypeInv /\ LaunchInv /\ FirstInv /\ TrackInv /\ [TimedNext]_timedVars
    => TrackInv'
<1> SUFFICES ASSUME Watched, TimedTypeInv, LaunchInv, FirstInv, TrackInv, [TimedNext]_timedVars
             PROVE  TrackInv'
  OBVIOUS
<1> USE PidsType DEF TrackInv, vars, supervisorVars, timers, clocks
<1>t. /\ apps \subseteq Pids /\ got \in [Pids -> SUBSET S!Signals] /\ others = {}
      /\ pm \in {"off", "sleep", "launch", "publish"}
      /\ pc # "idle" => hm = "sleep"
      /\ wrapper = "starting" => pm = "off" /\ hm = "off"
      /\ pid # S!Failed
  BY DEF TimedTypeInv, TimedTypeOK, StageInv, S!TypeOK, LaunchInv
<1>1. CASE RunThreads
  BY <1>1, <1>t DEF RunThreads, S!RunThreads
<1>2. CASE ProcessMonitor
  <2>1. CASE PMFindsAlive
    BY <2>1 DEF PMFindsAlive
  <2>2. CASE PMFindsDead
    <3>1. apps = {}
      BY <2>2, <1>t DEF PMFindsDead, S!PMFindsDead, S!ifProcessWithPIDExist, S!Live
    <3> QED
      BY <2>2, <3>1 DEF PMFindsDead, S!PMFindsDead, S!hmVars, S!osVars
  <2>3. CASE PMForks
    <3>1. PICK q \in Pids : /\ apps' = apps \cup {q} /\ launched' = q /\ q # pid
                            /\ got' = [got EXCEPT ![q] = {}]
      BY <2>3 DEF PMForks, S!PMForks, S!FreshPids, Watched
    <3>2. /\ apps = {} /\ pm' = "publish" /\ unfit' = 0 /\ wrapper' # "starting"
          /\ UNCHANGED <<hm, pid>>
      BY <2>3 DEF PMForks, S!PMForks, S!hmVars, S!ThreadsRun
    <3> QED
      BY <3>1, <3>2, <1>t
  <2>4. CASE PMPublishes
    BY <2>4 DEF PMPublishes, S!PMPublishes, S!hmVars, S!osVars
  <2> QED
    BY <1>2, <2>1, <2>2, <2>3, <2>4 DEF ProcessMonitor
<1>3. CASE HealthMonitor
  <2>1. CASE HMReadsConfig
    BY <2>1 DEF HMReadsConfig, S!HMReadsConfig, S!pmVars, S!osVars
  <2>2. CASE ProbeStarts \/ ProbeReceives \/ ProbeGoesOn
    BY <2>2 DEF ProbeStarts, ProbeReceives, ProbeGoesOn
  <2>3. CASE ProbeIsJudged
    <3>1. unfit' = unfit
      BY <2>3, JudgeFails DEF ProbeIsJudged
    <3> QED
      BY <2>3, <3>1 DEF ProbeIsJudged, S!HMTest, S!pmVars, S!osVars
  <2>4. CASE HMCopiesPid
    BY <2>4, <1>t DEF HMCopiesPid, S!HMCopiesPid, S!pmVars, S!osVars
  <2>5. CASE HMInterrupts
    <3>1. hm' = "wait" /\ pid' = pid /\ got' = S!Sent(pid, "INT")
          /\ UNCHANGED <<apps, pm, child_process_pid, launched, unfit>>
      BY <2>5 DEF HMInterrupts, S!HMInterrupts, S!pmVars
    <3>2. pid # S!NoProcess /\ wrapper' # "starting"
      BY <2>5, <1>t DEF HMInterrupts, S!HMInterrupts, S!ThreadsRun, FirstInv
    <3>3. pid \in apps => "INT" \in got'[pid]
      BY <3>1, <1>t DEF S!Sent, S!Hit, S!Live
    <3> QED
      BY <3>1, <3>2, <3>3
  <2>6. CASE HMWaits
    BY <2>6 DEF HMWaits, S!HMWaits, S!pmVars, S!osVars
  <2>7. CASE HMGivesUp
    BY <2>7 DEF HMGivesUp, S!HMFindsGone, S!HMKills, S!pmVars, S!osVars
  <2>8. CASE HMResumes
    BY <2>8 DEF HMResumes, S!HMResumes, S!pmVars, S!osVars
  <2> QED
    BY <1>3, <2>1, <2>2, <2>3, <2>4, <2>5, <2>6, <2>7, <2>8 DEF HealthMonitor
<1>4. CASE Tick
  BY <1>4 DEF Tick, ThreadIsDue
<1>5. CASE AppAnswers
  BY <1>5 DEF AppAnswers
<1>6. CASE AppEnds
  BY <1>6, <1>t DEF AppEnds, S!AppEnds, S!pmVars, S!hmVars
<1>7. CASE UNCHANGED timedVars
  BY <1>7 DEF timedVars
<1> QED
  BY <1>1, <1>2, <1>3, <1>4, <1>5, <1>6, <1>7 DEF TimedNext, WrapperOrTime

-----------------------------------------------------------------------------
(* What is left is never more than the patience there is to begin with,    *)
(* and no step of the health monitor but a request or a wait adds to it.   *)

LEMMA Totals ==
  /\ Rounds(S!MaxFailures) \in Nat
  /\ Patience = 3 + StartupTimeout + Rounds(S!MaxFailures)
  /\ PieceTime(Pieces + 1) \in Nat
  /\ ProbeTime = ConnectTimeout + PieceTime(Pieces + 1)
  BY RoundTimes, PieceTimes, MaxFailuresType, Intervals DEF Rounds, PieceTime, Patience, ProbeTime

\* What the types and the stages say of the variables Left reads.
LEMMA Facts ==
  ASSUME TimedTypeInv, StandInv
  PROVE  /\ hmTimer \in Nat /\ ioTimer \in Nat /\ missing \in Nat /\ healthCheckCounter \in Nat
         /\ pc # "idle" => hm = "sleep"
         /\ hm = "sleep" => S!MaxFailures - 1 - healthCheckCounter \in Nat
         /\ missing <= Pieces
  BY Intervals, MaxFailuresType
  DEF TimedTypeInv, TimedTypeOK, StageInv, TypeOK, S!TypeOK, StandInv

LEMMA ProbeLeftBound ==
  ASSUME TimedTypeInv, StandInv, hm = "sleep"
  PROVE  /\ ProbeLeft(pc, hmTimer, ioTimer, missing) \in Nat
         /\ ProbeLeft(pc, hmTimer, ioTimer, missing) <= HealthCheckInterval + ProbeTime
<1> USE Facts, Totals, Intervals, BoundsType
<1>1. PieceTime(missing) \in Nat /\ PieceTime(missing + 1) = PieceTime(missing) + ReceiveTimeout
  BY PieceTimes
<1>2. PieceTime(missing + 1) <= PieceTime(Pieces + 1)
  BY Monotone
<1>3. CASE pc = "idle"
  BY <1>3 DEF ProbeLeft, StandInv
<1>4. CASE pc = "setup"
  BY <1>4 DEF ProbeLeft, StandInv
<1>5. CASE pc = "send"
  BY <1>1, <1>2, <1>5 DEF ProbeLeft
<1>6. CASE pc = "receive"
  BY <1>1, <1>2, <1>6 DEF ProbeLeft, StandInv
<1>7. CASE pc \notin {"idle", "setup", "send", "receive"}
  BY <1>7 DEF ProbeLeft
<1> QED
  BY <1>3, <1>4, <1>5, <1>6, <1>7

LEMMA LeftBound ==
  ASSUME TimedTypeInv, StandInv
  PROVE  Left \in Nat /\ Left <= Patience
<1> USE Facts, Totals, Intervals
<1>1. CASE hm = "sleep"
  <2> DEFINE k == S!MaxFailures - 1 - healthCheckCounter
             probe == ProbeLeft(pc, hmTimer, ioTimer, missing)
  <2>1. k \in Nat /\ k + 1 <= S!MaxFailures
    BY <1>1, MaxFailuresType
  <2>2. Rounds(k) \in Nat /\ Rounds(k + 1) = Rounds(k) + HealthCheckInterval + ProbeTime
    BY <2>1, RoundTimes
  <2>3. Rounds(k + 1) <= Rounds(S!MaxFailures)
    BY <2>1, Monotone, MaxFailuresType
  <2>4. probe \in Nat /\ probe <= HealthCheckInterval + ProbeTime
    BY <1>1, ProbeLeftBound
  <2>5. Left = probe + Rounds(k)
    BY <1>1 DEF Left, TimeLeft
  <2> HIDE DEF k, probe
  <2> QED
    BY <2>2, <2>3, <2>4, <2>5, BoundsType
<1>2. CASE hm \in {"startup", "grace"}
  BY <1>2 DEF Left, TimeLeft, StandInv
<1>3. CASE hm = "wait"
  BY <1>3 DEF Left, TimeLeft, StandInv
<1>4. CASE hm \notin {"sleep", "startup", "grace", "wait"}
  BY <1>4, BoundsType DEF Left, TimeLeft
<1> QED
  BY <1>1, <1>2, <1>3, <1>4


\* One failed test more leaves one round less.
LEMMA NextRound ==
  ASSUME NEW c \in Nat, c < S!MaxFailures
  PROVE  /\ Rounds(S!MaxFailures - 1 - c) \in Nat
         /\ Rounds(S!MaxFailures - c)
              = HealthCheckInterval + ProbeTime + Rounds(S!MaxFailures - 1 - c)
<1> DEFINE k == S!MaxFailures - 1 - c
<1>1. k \in Nat /\ k + 1 = S!MaxFailures - c
  BY MaxFailuresType
<1>2. Rounds(k) \in Nat /\ Rounds(k + 1) = Rounds(k) + HealthCheckInterval + ProbeTime
  BY <1>1, RoundTimes
<1>3. Rounds(S!MaxFailures - c) = Rounds(k) + HealthCheckInterval + ProbeTime
  BY <1>1, <1>2
<1> HIDE DEF k
<1>4. Rounds(S!MaxFailures - c) = HealthCheckInterval + ProbeTime + Rounds(k)
  BY <1>2, <1>3, Intervals, BoundsType
<1> QED
  BY <1>2, <1>4 DEF k

LEMMA ProbeStep ==
  ASSUME Watched, TimedTypeInv, StandInv, hm = "sleep", hmTimer = 0,
         ProbeStarts \/ ProbeReceives \/ ProbeGoesOn
  PROVE  /\ ProbeLeft(pc', hmTimer', ioTimer', missing') \in Nat
         /\ ProbeLeft(pc', hmTimer', ioTimer', missing')
              <= ProbeLeft(pc, hmTimer, ioTimer, missing)
<1> USE Facts, Totals, Intervals, BoundsType
<1>m. /\ PieceTime(missing) \in Nat
      /\ PieceTime(missing + 1) = PieceTime(missing) + ReceiveTimeout
  BY PieceTimes
<1>1. CASE ProbeStarts
  BY <1>1 DEF ProbeStarts, Start, ProbeLeft
<1>2. CASE ProbeReceives /\ Send
  BY <1>2, <1>m DEF ProbeReceives, Send, ProbeLeft
<1>3. CASE ProbeReceives /\ RecvPiece
  <2>1. missing' \in Nat /\ missing = missing' + 1
    BY <1>3 DEF RecvPiece, Watched, TimedTypeInv, StageInv
  <2>2. /\ PieceTime(missing') \in Nat
        /\ PieceTime(missing) = PieceTime(missing') + ReceiveTimeout
    BY <2>1, PieceTimes
  <2>3. /\ pc = "receive" /\ pc' = "receive" /\ ioTimer' = ReceiveTimeout
    BY <1>3 DEF ProbeReceives, RecvPiece
  <2> QED
    BY <2>2, <2>3 DEF ProbeLeft
<1>4. CASE ProbeGoesOn /\ SetupConnects
  <2>1. missing' \in Nat /\ missing' <= Pieces
    BY <1>4 DEF SetupConnects, Watched
  <2>2. PieceTime(missing' + 1) \in Nat /\ PieceTime(missing' + 1) <= PieceTime(Pieces + 1)
    <3>1. ASSUME NEW n \in Nat, n <= Pieces
          PROVE  PieceTime(n + 1) \in Nat /\ PieceTime(n + 1) <= PieceTime(Pieces + 1)
      <4>1. n + 1 \in Nat /\ Pieces + 1 \in Nat /\ n + 1 <= Pieces + 1
        BY <3>1
      <4> QED
        BY <4>1, PieceTimes, Monotone
    <3> QED
      BY <2>1, <3>1
  <2>3. pc = "setup" /\ pc' = "send"
    BY <1>4 DEF SetupConnects
  <2> QED
    BY <2>2, <2>3 DEF ProbeLeft
<1>5. CASE ProbeGoesOn /\ ~SetupConnects
  <2>1. pc' \in {"exit", "judge"}
    BY <1>5 DEF ProbeGoesOn, SetupFails, RecvEnd, RecvTimeout, Exit
  <2>2. ProbeLeft(pc', hmTimer', ioTimer', missing') = 0
    BY <2>1 DEF ProbeLeft
  <2> QED
    BY <2>2, ProbeLeftBound
<1> QED
  BY <1>1, <1>2, <1>3, <1>4, <1>5 DEF ProbeReceives

LEMMA LeftStep ==
  ASSUME Watched, TimedTypeInv, StandInv, ProbingInv,
         HealthMonitor, ~HMInterrupts, ~HMWaits
  PROVE  Left' \in Nat /\ Left' <= Left
<1> USE Facts, Totals, Intervals, BoundsType, MaxFailuresType DEF Left
<1>0. Left \in Nat
  BY LeftBound
<1>r. /\ Rounds(S!MaxFailures - 1) \in Nat
      /\ Rounds(S!MaxFailures) = HealthCheckInterval + ProbeTime + Rounds(S!MaxFailures - 1)
  <2>1. Rounds(S!MaxFailures - 0) = HealthCheckInterval + ProbeTime + Rounds(S!MaxFailures - 1 - 0)
        /\ Rounds(S!MaxFailures - 1 - 0) \in Nat
    BY NextRound
  <2>2. S!MaxFailures - 0 = S!MaxFailures /\ S!MaxFailures - 1 - 0 = S!MaxFailures - 1
    OBVIOUS
  <2> QED
    BY <2>1, <2>2
<1>1. CASE HMReadsConfig
  <2>1. /\ hm = "startup" /\ hmTimer = 0 /\ healthCheckCounter' = 0 /\ pc' = "idle"
        /\ hm' = "sleep" /\ hmTimer' = HealthCheckInterval
    BY <1>1, SupervisorAssumption DEF HMReadsConfig, S!HMReadsConfig, ProbingInv, vars
  <2>2. Left = Rounds(S!MaxFailures)
    BY <2>1 DEF TimeLeft
  <2>3. Left' = HealthCheckInterval + ProbeTime + Rounds(S!MaxFailures - 1)
    BY <2>1 DEF TimeLeft, ProbeLeft
  <2> QED
    BY <1>r, <2>2, <2>3
<1>2. CASE ProbeStarts \/ ProbeReceives \/ ProbeGoesOn
  <2>1. pc = "idle" => hm = "sleep" /\ hmTimer = 0
    BY <1>2 DEF ProbeStarts, ProbeReceives, ProbeGoesOn, Send, RecvPiece, SetupFails,
      SetupConnects, RecvEnd, RecvTimeout, Exit
  <2>2. pc # "idle" => hm = "sleep" /\ hmTimer = 0
    BY DEF ProbingInv, StandInv
  <2>3. /\ ProbeLeft(pc', hmTimer', ioTimer', missing') \in Nat
        /\ ProbeLeft(pc', hmTimer', ioTimer', missing')
             <= ProbeLeft(pc, hmTimer, ioTimer, missing)
    BY <1>2, <2>1, <2>2, ProbeStep
  <2>4. hm' = "sleep" /\ healthCheckCounter' = healthCheckCounter
    BY <1>2, <2>1, <2>2 DEF ProbeStarts, ProbeReceives, ProbeGoesOn, supervisorVars
  <2> DEFINE rest == Rounds(S!MaxFailures - 1 - healthCheckCounter)
  <2>5. rest \in Nat
    BY <2>1, <2>2, RoundTimes
  <2>6. /\ Left = ProbeLeft(pc, hmTimer, ioTimer, missing) + rest
        /\ Left' = ProbeLeft(pc', hmTimer', ioTimer', missing') + rest
    BY <2>1, <2>2, <2>4 DEF TimeLeft
  <2>7. ProbeLeft(pc, hmTimer, ioTimer, missing) \in Nat
    BY <2>1, <2>2, ProbeLeftBound
  <2> HIDE DEF rest
  <2> QED
    BY <2>3, <2>5, <2>6, <2>7
<1>3. CASE ProbeIsJudged
  <2>1. /\ hm = "sleep" /\ pc = "judge" /\ pc' = "idle"
        /\ healthCheckCounter' = healthCheckCounter + 1
        /\ hm' = "sleep" => hmTimer' = HealthCheckInterval
        /\ hm' = "sleep" => healthCheckCounter + 1 < S!MaxFailures
        /\ hm' \in {"sleep", "terminate"}
    BY <1>3, JudgeFails DEF ProbeIsJudged, Judge, S!HMTest
  <2>2. CASE hm' = "terminate"
    BY <1>0, <2>2 DEF TimeLeft
  <2>3. CASE hm' = "sleep"
    <3> DEFINE c == healthCheckCounter + 1
    <3>1. /\ Rounds(S!MaxFailures - 1 - c) \in Nat
          /\ Rounds(S!MaxFailures - c)
               = HealthCheckInterval + ProbeTime + Rounds(S!MaxFailures - 1 - c)
      BY <2>1, <2>3, NextRound
    <3>2. S!MaxFailures - c = S!MaxFailures - 1 - healthCheckCounter
      OBVIOUS
    <3>3. Left = Rounds(S!MaxFailures - c)
      <4>1. Left = 0 + Rounds(S!MaxFailures - c)
        BY <2>1, <3>2 DEF TimeLeft, ProbeLeft
      <4> QED
        BY <1>0, <3>1, <4>1
    <3>4. Left' = HealthCheckInterval + ProbeTime + Rounds(S!MaxFailures - 1 - c)
      BY <2>1, <2>3 DEF TimeLeft, ProbeLeft
    <3> HIDE DEF c
    <3> QED
      BY <3>1, <3>3, <3>4
  <2> QED
    BY <2>1, <2>2, <2>3
<1>4. CASE HMCopiesPid
  <2>1. hm' = "interrupt"
    BY <1>4 DEF HMCopiesPid, S!HMCopiesPid
  <2> QED
    BY <1>0, <2>1 DEF TimeLeft
<1>5. CASE HMGivesUp
  BY <1>5 DEF HMGivesUp, S!HMFindsGone, S!HMKills, TimeLeft
<1>6. CASE HMResumes
  <2>1. /\ hm = "grace" /\ hmTimer = 0 /\ healthCheckCounter' = 0 /\ pc' = "idle"
        /\ hm' = "sleep" /\ hmTimer' = HealthCheckInterval
    BY <1>6 DEF HMResumes, S!HMResumes, vars
  <2>2. Left = Rounds(S!MaxFailures)
    BY <2>1 DEF TimeLeft
  <2>3. Left' = HealthCheckInterval + ProbeTime + Rounds(S!MaxFailures - 1)
    BY <2>1 DEF TimeLeft, ProbeLeft
  <2> QED
    BY <1>r, <2>2, <2>3
<1> QED
  BY <1>1, <1>2, <1>3, <1>4, <1>5, <1>6 DEF HealthMonitor

LEMMA LeftLater ==
  ASSUME TimedTypeInv, StandInv, Tick, apps # {}, wrapper # "starting" \/ hm # "off"
  PROVE  hm \notin {"off", "terminate", "interrupt"} => Left' \in Nat /\ Left' + 1 <= Left
<1> SUFFICES ASSUME hm \notin {"off", "terminate", "interrupt"}
             PROVE  Left' \in Nat /\ Left' + 1 <= Left
  OBVIOUS
<1> USE Facts, Totals, Intervals, BoundsType, MaxFailuresType DEF Left
<1>1. /\ UNCHANGED <<hm, pc, healthCheckCounter, missing>>
      /\ hmTimer' = Later(hmTimer) /\ ioTimer' = Later(ioTimer)
      /\ pc = "idle" => hmTimer > 0
      /\ pc \in {"idle", "setup", "receive"}
      /\ pc \in {"setup", "receive"} => ioTimer > 0
  BY DEF Tick, ThreadIsDue, vars, supervisorVars, StandInv, TimedTypeInv, TimedTypeOK, TypeOK
<1>2. /\ pc = "idle" => hmTimer' \in Nat /\ hmTimer = hmTimer' + 1
      /\ pc \in {"setup", "receive"} => ioTimer' \in Nat /\ ioTimer = ioTimer' + 1
  BY <1>1 DEF Later
<1>3. CASE hm = "sleep"
  <2> DEFINE rest == Rounds(S!MaxFailures - 1 - healthCheckCounter)
             now  == ProbeLeft(pc, hmTimer, ioTimer, missing)
             then == ProbeLeft(pc, hmTimer', ioTimer', missing)
  <2>1. rest \in Nat
    BY <1>3, RoundTimes
  <2>2. now \in Nat
    BY <1>3, ProbeLeftBound
  <2>3. then \in Nat /\ then + 1 <= now
    <3>1. PieceTime(missing) \in Nat
      BY PieceTimes
    <3>2. CASE pc = "idle"
      BY <1>2, <3>2 DEF ProbeLeft
    <3>3. CASE pc = "setup"
      BY <1>2, <3>3 DEF ProbeLeft
    <3>4. CASE pc = "receive"
      BY <1>2, <3>1, <3>4 DEF ProbeLeft
    <3> QED
      BY <1>1, <3>2, <3>3, <3>4
  <2>4. Left = now + rest /\ Left' = then + rest
    BY <1>1, <1>3 DEF TimeLeft
  <2> HIDE DEF rest, now, then
  <2> QED
    BY <2>1, <2>2, <2>3, <2>4
<1>4. CASE hm \in {"startup", "wait", "grace"}
  <2>1. pc = "idle"
    BY <1>4
  <2> QED
    BY <1>1, <1>2, <1>4, <2>1 DEF TimeLeft
<1> QED
  BY <1>3, <1>4 DEF TimedTypeInv, TimedTypeOK, S!TypeOK

-----------------------------------------------------------------------------
(* The invariant, and the theorem.                                         *)

Unasked == \E p \in apps : "INT" \notin got[p]

AskedInv == unfit <= Patience /\ (Unasked => unfit + Left <= Patience)

AskedFacts ==
  PaceInv /\ WaitInv /\ FirstInv /\ StandInv /\ TrackInv

LEMMA NextAskedInv ==
  Watched /\ AskedFacts /\ AskedFacts' /\ AskedInv /\ [TimedNext]_timedVars => AskedInv'
<1> SUFFICES ASSUME Watched, AskedFacts, AskedFacts', AskedInv, [TimedNext]_timedVars
             PROVE  AskedInv'
  OBVIOUS
<1> USE Intervals, BoundsType DEF AskedInv, supervisorVars, timers, clocks
<1>t. /\ unfit \in Nat /\ unfit' \in Nat
      /\ TimedTypeInv /\ StandInv /\ ProbingInv
      /\ apps \subseteq Pids /\ got \in [Pids -> SUBSET S!Signals]
      /\ wrapper = "starting" => hm = "off"
  BY DEF AskedFacts, PaceInv, TimedTypeInv, TimedTypeOK, S!TypeOK, StageInv
<1>l. Left \in Nat /\ Left <= Patience
  BY <1>t, LeftBound
<1>m. Left' \in Nat /\ Left' <= Patience
  <2>1. (TimedTypeInv /\ StandInv => Left \in Nat /\ Left <= Patience)'
    BY LeftBound, PTL
  <2> QED
    BY <2>1 DEF AskedFacts, PaceInv
<1>p. Patience' = Patience /\ Patience \in Nat
  BY DEF Patience, ProbeTime, S!MaxFailures
<1>z. unfit' = 0 => AskedInv'
  <2>1. ASSUME NEW u \in Nat, NEW l \in Nat, l <= Patience, u = 0
        PROVE  u <= Patience /\ u + l <= Patience
    BY <1>p, <2>1
  <2>2. unfit' = 0 => unfit' <= Patience /\ unfit' + Left' <= Patience
    BY <1>m, <2>1
  <2> QED
    BY <1>p, <2>2
<1>s. unfit' = unfit /\ (Unasked' => Unasked) /\ Left' <= Left => AskedInv'
  <2> SUFFICES ASSUME unfit' = unfit, Unasked' => Unasked, Left' <= Left
               PROVE  AskedInv'
    OBVIOUS
  <2>1. unfit' <= Patience
    OBVIOUS
  <2>2. ASSUME Unasked
        PROVE  unfit' + Left' <= Patience
    <3>1. unfit + Left <= Patience
      BY <2>2
    <3>2. ASSUME NEW u \in Nat, NEW l \in Nat, NEW k \in Nat, k <= l, u + l <= Patience
          PROVE  u + k <= Patience
      BY <1>p, <3>2
    <3>3. unfit + Left' <= Patience
      BY <1>t, <1>l, <1>m, <3>1, <3>2
    <3> QED
      BY <3>3
  <2> QED
    BY <1>p, <2>1, <2>2
<1>1. CASE RunThreads
  <2>1. apps' = {} /\ unfit' = unfit
    BY <1>1 DEF RunThreads, S!RunThreads, AskedFacts, TrackInv
  <2> QED
    BY <1>1, <1>p, <2>1 DEF RunThreads, Unasked
<1>2. CASE ProcessMonitor
  <2>1. CASE PMForks
    BY <1>z, <2>1 DEF PMForks
  <2>2. CASE PMFindsAlive \/ PMFindsDead \/ PMPublishes
    <3>1. UNCHANGED <<unfit, apps, got, hm, hmTimer, healthCheckCounter, pc, ioTimer, missing>>
      BY <2>2 DEF PMFindsAlive, PMFindsDead, PMPublishes, S!PMFindsDead, S!PMPublishes,
        S!hmVars, S!osVars, vars
    <3>2. Left' = Left
      BY <3>1 DEF Left, TimeLeft, ProbeLeft, Rounds, PieceTime, ProbeTime, S!MaxFailures
    <3> QED
      BY <1>l, <1>s, <3>1, <3>2 DEF Unasked
  <2> QED
    BY <1>2, <2>1, <2>2 DEF ProcessMonitor
<1>3. CASE HealthMonitor
  <2>1. CASE HMInterrupts
    <3>1. CASE unfit = 0
      BY <1>z, <2>1, <3>1 DEF HMInterrupts
    <3>2. CASE unfit # 0
      <4>1. apps \subseteq {pid} /\ got' = S!Sent(pid, "INT") /\ apps' = apps /\ unfit' = unfit
        BY <2>1, <3>2 DEF HMInterrupts, S!HMInterrupts, S!pmVars, AskedFacts, TrackInv
      <4>2. pid # S!NoProcess /\ pid # S!Failed
        BY <2>1 DEF HMInterrupts, S!HMInterrupts, AskedFacts, FirstInv, PaceInv, LaunchInv
      <4>3. ASSUME NEW p \in apps'
            PROVE  "INT" \in got'[p]
        BY <1>t, <4>1, <4>2, <4>3 DEF S!Sent, S!Hit, S!Live
      <4> QED
        BY <1>p, <4>1, <4>3 DEF Unasked
    <3> QED
      BY <3>1, <3>2
  <2>2. CASE HMWaits
    <3>1. UNCHANGED <<unfit, apps, got>>
      BY <2>2 DEF HMWaits, S!HMWaits, S!osVars
    <3>2. pid \in apps /\ "INT" \in got[pid]
      BY <2>2 DEF HMWaits, S!HMWaits, S!ifProcessWithPIDExist, S!Live, AskedFacts, TrackInv,
        PaceInv, LaunchInv
    <3>3. apps \subseteq {pid}
      BY <3>2 DEF AskedFacts, PaceInv, TrackInv, TimedTypeInv, TimedTypeOK, S!TypeOK
    <3> QED
      BY <1>p, <3>1, <3>2, <3>3 DEF Unasked
  <2>3. CASE ~HMInterrupts /\ ~HMWaits
    <3>1. Left' <= Left
      BY <1>3, <1>t, <2>3, LeftStep
    <3>2. apps' = apps /\ (Unasked' => Unasked)
      BY <1>3, <2>3, <1>t DEF HealthMonitor, HMReadsConfig, ProbeStarts, ProbeReceives,
        ProbeGoesOn, ProbeIsJudged, HMCopiesPid, HMGivesUp, HMResumes, S!HMReadsConfig, S!HMTest,
        S!HMCopiesPid, S!HMFindsGone, S!HMKills, S!HMResumes, S!osVars, S!Sent, Unasked
    <3>3. unfit' = unfit \/ unfit' = 0
      BY <1>3, <2>3 DEF HealthMonitor, HMReadsConfig, ProbeStarts, ProbeReceives, ProbeGoesOn,
        ProbeIsJudged, HMCopiesPid, HMGivesUp, HMResumes
    <3> QED
      BY <1>s, <1>z, <3>1, <3>2, <3>3
  <2> QED
    BY <2>1, <2>2, <2>3
<1>4. CASE Tick
  <2>1. CASE ~Unasked
    <3>1. unfit' = unfit /\ ~Unasked'
      BY <1>4, <2>1 DEF Tick, Older, Unasked
    <3> QED
      BY <1>p, <3>1
  <2>2. CASE Unasked
    <3>1. unfit' <= unfit + 1
      BY <1>4, <1>t DEF Tick, Older
    <3>2. hm \notin {"off", "terminate", "interrupt"} /\ wrapper # "starting"
      BY <1>4, <1>t DEF Tick, ThreadIsDue, StandInv
    <3>3. apps # {}
      BY <2>2 DEF Unasked
    <3>4. Left' + 1 <= Left
      BY <1>4, <1>t, <3>2, <3>3, LeftLater
    <3>5. unfit + Left <= Patience
      BY <2>2
    <3>6. ASSUME NEW u \in Nat, NEW l \in Nat, NEW v \in Nat, NEW k \in Nat,
                 v <= u + 1, k + 1 <= l, u + l <= Patience
          PROVE  v <= Patience /\ v + k <= Patience
      BY <1>p, <3>6
    <3>7. unfit' <= Patience /\ unfit' + Left' <= Patience
      BY <1>t, <1>l, <1>m, <3>1, <3>4, <3>5, <3>6
    <3> QED
      BY <1>p, <3>7
  <2> QED
    BY <2>1, <2>2
<1>5. CASE AppAnswers
  <2>1. UNCHANGED <<unfit, apps, got, hm, hmTimer, healthCheckCounter, pc, ioTimer, missing>>
    BY <1>5 DEF AppAnswers, Application, PeerSends, PeerCloses
  <2>2. Left' = Left
    BY <2>1 DEF Left, TimeLeft, ProbeLeft, Rounds, PieceTime, ProbeTime, S!MaxFailures
  <2> QED
    BY <1>l, <1>s, <2>1, <2>2 DEF Unasked
<1>6. CASE AppEnds
  BY <1>6, <1>z DEF AppEnds
<1>7. CASE UNCHANGED timedVars
  <2>1. UNCHANGED <<unfit, apps, got, hm, hmTimer, healthCheckCounter, pc, ioTimer, missing>>
    BY <1>7 DEF timedVars, vars
  <2>2. Left' = Left
    BY <2>1 DEF Left, TimeLeft, ProbeLeft, Rounds, PieceTime, ProbeTime, S!MaxFailures
  <2> QED
    BY <1>l, <1>s, <2>1, <2>2 DEF Unasked
<1> QED
  BY <1>1, <1>2, <1>3, <1>4, <1>5, <1>6, <1>7 DEF TimedNext, WrapperOrTime

LEMMA AskedInvariance == Watched => (TimedSpec => []AskedInv)
<1> SUFFICES ASSUME Watched
             PROVE  TimedSpec => []AskedInv
  OBVIOUS
<1>1. TimedInit => FirstInv /\ StandInv /\ TrackInv /\ AskedInv
  BY Intervals, BoundsType
  DEF TimedInit, Init, S!Init, FirstInv, StandInv, TrackInv, AskedInv, Unasked
<1>2. PaceInv /\ FirstInv /\ [TimedNext]_timedVars => FirstInv'
  BY NextFirstInv DEF Watched
<1>3. TimedTypeInv /\ WaitInv /\ StandInv /\ [TimedNext]_timedVars => StandInv'
  BY NextStandInv
<1>4. TimedTypeInv /\ LaunchInv /\ FirstInv /\ TrackInv /\ [TimedNext]_timedVars => TrackInv'
  BY NextTrackInv
<1>5. AskedFacts /\ AskedFacts' /\ AskedInv /\ [TimedNext]_timedVars => AskedInv'
  BY NextAskedInv
<1>6. TimedSpec => []PaceInv /\ []WaitInv /\ []TimedTypeInv /\ []LaunchInv
  <2>1. KillInv => WaitInv
    BY DEF KillInv
  <2> QED
    BY <2>1, KillInvariance, PaceInvariance, TypeInvariance, Launches, PTL
<1>7. PaceInv /\ WaitInv /\ FirstInv /\ StandInv /\ TrackInv => AskedFacts
  BY DEF AskedFacts
<1> QED
  BY <1>1, <1>2, <1>3, <1>4, <1>5, <1>6, <1>7, PTL DEF TimedSpec

\* For every choice of the intervals with which the first launch comes first:
\* an application that passes no test is asked to end within the patience
\* there is with it.
THEOREM AskIsInTime == TimedSpec => []AskedInTime
<1>1. CASE Watched
  <2>1. AskedInv => AskedInTime
    BY DEF AskedInv, AskedInTime
  <2>2. TimedSpec => []AskedInv
    BY <1>1, AskedInvariance
  <2> QED
    BY <2>1, <2>2, PTL
<1>2. CASE ~Watched
  <2>1. AskedInTime
    BY <1>2 DEF AskedInTime, Watched
  <2> QED
    BY <2>1, PTL
<1> QED
  BY <1>1, <1>2

=============================================================================
