-------------------------- MODULE SupervisorProofs --------------------------
(***************************************************************************)
(* Proofs about Supervisor, for every set of pids and every configuration. *)
(***************************************************************************)
EXTENDS Supervisor, TLAPS

-----------------------------------------------------------------------------
(* Types.  TypeOK alone is not inductive: that a test cannot push the      *)
(* counter past the retry count needs the count to be below it whenever a  *)
(* test is due, and that needs the threads not to exist before run() has   *)
(* made them.                                                              *)

StartInv == wrapper = "starting" => pm = "off" /\ hm = "off"

CounterInv == hm \in {"off", "startup", "sleep"} => healthCheckCounter < MaxFailures

TypeInv == TypeOK /\ StartInv /\ CounterInv

LEMMA MaxFailuresType == MaxFailures \in Nat /\ MaxFailures > 0
                           /\ MaxFailures >= RetryAttemptCount
  BY TimeoutAssumption DEF MaxFailures

\* What a signal leaves of the type of `got`.
LEMMA SentType ==
  ASSUME NEW target, NEW signal \in Signals, got \in [Pids -> SUBSET Signals]
  PROVE  Sent(target, signal) \in [Pids -> SUBSET Signals]
  BY DEF Sent

LEMMA InitTypeInv == Init => TypeInv
  BY MaxFailuresType, TimeoutAssumption DEF Init, TypeInv, TypeOK, StartInv, CounterInv, Signals

LEMMA NextTypeInv == TypeInv /\ [Next]_vars => TypeInv'
<1> SUFFICES ASSUME TypeInv, [Next]_vars
             PROVE  TypeInv'
  OBVIOUS
<1> USE MaxFailuresType, TimeoutAssumption DEF TypeInv, TypeOK, StartInv, CounterInv
<1>1. CASE RunThreads
  BY <1>1 DEF RunThreads
<1>2. CASE ProcessMonitor
  <2>1. CASE PMFindsDead
    BY <2>1 DEF PMFindsDead, hmVars, osVars
  <2>2. CASE PMForks
    BY <2>2 DEF PMForks, hmVars, FreshPids
  <2>3. CASE PMLaunchFails
    BY <2>3 DEF PMLaunchFails, hmVars, osVars
  <2>4. CASE PMPublishes
    BY <2>4 DEF PMPublishes, hmVars, osVars
  <2> QED
    BY <1>2, <2>1, <2>2, <2>3, <2>4 DEF ProcessMonitor
<1>3. CASE HealthMonitor
  <2>1. CASE HMReadsConfig
    BY <2>1 DEF HMReadsConfig, pmVars, osVars
  <2>2. CASE HMTests
    BY <2>2 DEF HMTests, HMTest, pmVars, osVars
  <2>3. CASE HMCopiesPid
    BY <2>3 DEF HMCopiesPid, pmVars, osVars
  <2>4. CASE HMInterrupts
    BY <2>4, SentType DEF HMInterrupts, pmVars, Signals
  <2>5. CASE HMWaits
    BY <2>5 DEF HMWaits, pmVars, osVars
  <2>6. CASE HMFindsGone
    BY <2>6 DEF HMFindsGone, pmVars, osVars
  <2>7. CASE HMKills
    BY <2>7, SentType DEF HMKills, pmVars, Signals
  <2>8. CASE HMResumes
    BY <2>8 DEF HMResumes, pmVars, osVars
  <2> QED
    BY <1>3, <2>1, <2>2, <2>3, <2>4, <2>5, <2>6, <2>7, <2>8 DEF HealthMonitor
<1>4. CASE Signalled
  <2>1. ASSUME NEW signal \in {"HUP", "TERM"}, SendSignal(signal)
        PROVE  TypeInv'
    BY <2>1 DEF SendSignal, pmVars, hmVars, osVars
  <2>2. CASE HandleTerm
    BY <2>2, SentType DEF HandleTerm, pmVars, hmVars, Signals
  <2>3. CASE HandleHup
    BY <2>3, SentType DEF HandleHup, pmVars, hmVars, Signals
  <2> QED
    BY <1>4, <2>1, <2>2, <2>3 DEF Signalled
<1>5. CASE ExitCompletes
  BY <1>5 DEF ExitCompletes, pmVars, hmVars, osVars
<1>6. CASE System
  <2>1. ASSUME NEW p \in Pids, AppEnds(p)
        PROVE  TypeInv'
    BY <2>1 DEF AppEnds, pmVars, hmVars
  <2>2. ASSUME NEW p \in Pids, OtherStarts(p)
        PROVE  TypeInv'
    BY <2>2 DEF OtherStarts, pmVars, hmVars
  <2>3. ASSUME NEW p \in Pids, OtherEnds(p)
        PROVE  TypeInv'
    BY <2>3 DEF OtherEnds, pmVars, hmVars
  <2> QED
    BY <1>6, <2>1, <2>2, <2>3 DEF System
<1>7. CASE UNCHANGED vars
  BY <1>7 DEF vars, MaxFailures
<1> QED
  BY <1>1, <1>2, <1>3, <1>4, <1>5, <1>6, <1>7 DEF Next

LEMMA TypeInvariance == Spec => []TypeInv
  BY InitTypeInv, NextTypeInv, PTL DEF Spec

\* Every variable keeps its type, the two counters their bounds: a retry
\* count of 0 acts after one failure, and the wait ends.
THEOREM TypeCorrect == Spec => []TypeOK
<1>1. TypeInv => TypeOK
  BY DEF TypeInv
<1> QED
  BY <1>1, TypeInvariance, PTL

-----------------------------------------------------------------------------
(* One application.  SingleApplication says nothing of the pid the wrapper *)
(* remembers, and that pid is why it holds: AppTracked is the strengthening *)
(* that is inductive.                                                      *)

LEMMA PidsType == NoProcess \notin Pids /\ Failed \notin Pids
                    /\ NoProcess # Failed
  BY PidsAssumption DEF NoProcess, Failed

LEMMA InitAppTracked == Init => AppTracked
  BY DEF Init, AppTracked

LEMMA NextAppTracked == TypeInv /\ AppTracked /\ [Next]_vars => AppTracked'
<1> SUFFICES ASSUME TypeInv, AppTracked, [Next]_vars
             PROVE  AppTracked'
  OBVIOUS
<1> USE PidsType DEF AppTracked
<1>t. TypeOK /\ StartInv
  BY DEF TypeInv
<1>1. CASE RunThreads
  BY <1>1, <1>t DEF RunThreads, StartInv
<1>2. CASE ProcessMonitor
  <2>1. CASE PMFindsDead
    <3>1. apps \subseteq {child_process_pid} /\ apps \subseteq Pids
      BY <2>1, <1>t DEF PMFindsDead, TypeOK
    <3>2. child_process_pid \notin apps
      BY <2>1, <3>1 DEF PMFindsDead, ifProcessWithPIDExist, Live
    <3>3. apps = {}
      BY <3>1, <3>2
    <3> QED
      BY <2>1, <3>3 DEF PMFindsDead, osVars
  <2>2. CASE PMForks
    BY <2>2 DEF PMForks
  <2>3. CASE PMLaunchFails
    BY <2>3 DEF PMLaunchFails, osVars
  <2>4. CASE PMPublishes
    BY <2>4 DEF PMPublishes, osVars
  <2> QED
    BY <1>2, <2>1, <2>2, <2>3, <2>4 DEF ProcessMonitor
<1>3. CASE HealthMonitor
  BY <1>3 DEF HealthMonitor, HMReadsConfig, HMTests, HMTest, HMCopiesPid, HMInterrupts,
              HMWaits, HMFindsGone, HMKills, HMResumes, pmVars, osVars
<1>4. CASE Signalled
  BY <1>4 DEF Signalled, SendSignal, HandleTerm, HandleHup, pmVars, osVars
<1>5. CASE ExitCompletes
  BY <1>5 DEF ExitCompletes, pmVars, osVars
<1>6. CASE System
  BY <1>6 DEF System, AppEnds, OtherStarts, OtherEnds, pmVars
<1>7. CASE UNCHANGED vars
  BY <1>7 DEF vars
<1> QED
  BY <1>1, <1>2, <1>3, <1>4, <1>5, <1>6, <1>7 DEF Next

\* Between launches child_process_pid names the live application, whatever
\* fails and whatever pids the kernel hands out.
THEOREM Tracked == Spec => []AppTracked
  BY InitAppTracked, NextAppTracked, TypeInvariance, PTL DEF Spec

\* The wrapper never has two applications alive.
THEOREM OneApplication == Spec => []SingleApplication
<1>1. TypeInv /\ AppTracked => SingleApplication
  BY DEF TypeInv, TypeOK, AppTracked, SingleApplication
<1> QED
  BY <1>1, TypeInvariance, Tracked, PTL

\* A SIGTERM handled outside the launch window is passed on to every live
\* application: the only one is the one the handler signals.
THEOREM TermReachesApp == Spec => SigtermReachesApp
<1>1. TypeInv /\ AppTracked /\ [Next]_vars =>
        [("TERM" \in pending /\ "TERM" \notin pending' /\ pm # "publish")
          => \A p \in apps : "TERM" \in got'[p]]_vars
  <2> SUFFICES ASSUME TypeInv, AppTracked, Next,
                      "TERM" \in pending, "TERM" \notin pending', pm # "publish",
                      NEW p \in apps
               PROVE  "TERM" \in got'[p]
    OBVIOUS
  <2>1. HandleTerm
    BY DEF Next, RunThreads, ProcessMonitor, PMFindsDead, PMForks, PMLaunchFails,
           PMPublishes, HealthMonitor, HMReadsConfig, HMTests, HMTest, HMCopiesPid,
           HMInterrupts, HMWaits, HMFindsGone, HMKills, HMResumes, Signalled,
           SendSignal, HandleHup, ExitCompletes, System, AppEnds, OtherStarts,
           OtherEnds
  <2>2. p = child_process_pid /\ p \in Pids
    BY DEF TypeInv, TypeOK, AppTracked
  <2>3. p \in Hit(child_process_pid)
    BY <2>2, PidsType DEF Hit, Live
  <2> QED
    BY <2>1, <2>2, <2>3 DEF HandleTerm, Sent, TypeInv, TypeOK
<1> QED
  BY <1>1, TypeInvariance, Tracked, PTL DEF Spec, SigtermReachesApp

-----------------------------------------------------------------------------
(* Asked before forced.  Between its SIGINT and its SIGKILL the health     *)
(* monitor holds a pid of its own, copied once; what has to be shown is    *)
(* that the process with that pid stays the one that was asked.  -1 is the *)
(* pid of no application, and once it is remembered there is none.         *)

\* A failed launch is final, and a termination that copied -1 saw it.
FailedInv ==
  /\ child_process_pid = Failed => pm \in {"off", "sleep"}
  /\ pid = Failed => child_process_pid = Failed

\* The process waited for is the one that was asked.
AskedInv == (hm = "wait" /\ pid \in apps) => "INT" \in got[pid]

\* No pid is held by two live processes.
DisjointInv == apps \cap others = {}

ForceInv == FailedInv /\ DisjointInv /\ AskedInv /\ KilledOnlyAfterAsked

LEMMA NextFailedInv == TypeInv /\ FailedInv /\ [Next]_vars => FailedInv'
<1> SUFFICES ASSUME TypeInv, FailedInv, [Next]_vars
             PROVE  FailedInv'
  OBVIOUS
<1> USE PidsType DEF FailedInv
<1>1. CASE RunThreads
  BY <1>1 DEF RunThreads
<1>2. CASE ProcessMonitor
  BY <1>2 DEF ProcessMonitor, PMFindsDead, PMForks, PMLaunchFails, PMPublishes,
              ifProcessWithPIDExist, hmVars
<1>3. CASE HealthMonitor
  BY <1>3 DEF HealthMonitor, HMReadsConfig, HMTests, HMTest, HMCopiesPid, HMInterrupts,
              HMWaits, HMFindsGone, HMKills, HMResumes, pmVars
<1>4. CASE Signalled
  BY <1>4 DEF Signalled, SendSignal, HandleTerm, HandleHup, pmVars, hmVars
<1>5. CASE ExitCompletes
  BY <1>5 DEF ExitCompletes, pmVars, hmVars
<1>6. CASE System
  BY <1>6 DEF System, AppEnds, OtherStarts, OtherEnds, pmVars, hmVars
<1>7. CASE UNCHANGED vars
  BY <1>7 DEF vars
<1> QED
  BY <1>1, <1>2, <1>3, <1>4, <1>5, <1>6, <1>7 DEF Next

LEMMA NextDisjointInv == DisjointInv /\ [Next]_vars => DisjointInv'
<1> SUFFICES ASSUME DisjointInv, [Next]_vars
             PROVE  DisjointInv'
  OBVIOUS
<1> USE DEF DisjointInv
<1>1. CASE RunThreads \/ ProcessMonitor
  BY <1>1 DEF RunThreads, ProcessMonitor, PMFindsDead, PMForks, PMLaunchFails,
              PMPublishes, FreshPids, Live, osVars
<1>2. CASE HealthMonitor
  BY <1>2 DEF HealthMonitor, HMReadsConfig, HMTests, HMTest, HMCopiesPid, HMInterrupts,
              HMWaits, HMFindsGone, HMKills, HMResumes, osVars
<1>3. CASE Signalled \/ ExitCompletes
  BY <1>3 DEF Signalled, SendSignal, HandleTerm, HandleHup, ExitCompletes, osVars
<1>4. CASE System
  BY <1>4 DEF System, AppEnds, OtherStarts, OtherEnds, FreshPids, Live
<1>5. CASE UNCHANGED vars
  BY <1>5 DEF vars
<1> QED
  BY <1>1, <1>2, <1>3, <1>4, <1>5 DEF Next

\* A signal sent to the copied pid reaches an application only if it is the
\* one with that pid.
LEMMA SentToCopy ==
  ASSUME TypeInv, AppTracked, FailedInv,
         NEW signal, NEW p \in apps, p \in Hit(pid)
  PROVE  p = pid
<1>1. CASE pid = Failed
  <2>1. apps \subseteq {Failed} /\ apps \subseteq Pids
    BY <1>1 DEF FailedInv, AppTracked, TypeInv, TypeOK
  <2> QED
    BY <2>1, PidsType
<1>2. CASE pid # Failed
  BY <1>2, PidsType DEF Hit
<1> QED
  BY <1>1, <1>2

LEMMA NextForceInv ==
  ASSUME ~PidRecycling
  PROVE  TypeInv /\ AppTracked /\ ForceInv /\ [Next]_vars => ForceInv'
<1> SUFFICES ASSUME TypeInv, AppTracked, ForceInv, [Next]_vars
             PROVE  (AskedInv /\ KilledOnlyAfterAsked)'
  BY NextFailedInv, NextDisjointInv DEF ForceInv
<1> USE PidsType DEF AskedInv, KilledOnlyAfterAsked
<1>t. TypeOK /\ FailedInv /\ DisjointInv /\ AskedInv /\ KilledOnlyAfterAsked
  BY DEF TypeInv, ForceInv
<1>1. CASE RunThreads
  BY <1>1, <1>t DEF RunThreads
<1>2. CASE ProcessMonitor
  <2>1. CASE PMForks
    <3> PICK p \in FreshPids : apps' = apps \cup {p} /\ got' = [got EXCEPT ![p] = {}]
      BY <2>1 DEF PMForks
    <3>1. p \notin apps /\ p # pid /\ p \in Pids
      BY DEF FreshPids, Live
    <3> QED
      BY <2>1, <3>1, <1>t DEF PMForks, hmVars, TypeOK
  <2> QED
    BY <1>2, <2>1, <1>t DEF ProcessMonitor, PMFindsDead, PMLaunchFails, PMPublishes,
                            hmVars, osVars
<1>3. CASE HealthMonitor
  <2>1. CASE HMInterrupts
    <3>1. \A p \in apps : got[p] \subseteq got'[p] /\ ("KILL" \in got'[p] => "KILL" \in got[p])
      BY <2>1, <1>t DEF HMInterrupts, Sent, TypeOK
    <3>2. pid \in apps => "INT" \in got'[pid]
      BY <2>1, <1>t DEF HMInterrupts, Sent, Hit, Live, TypeOK
    <3> QED
      BY <2>1, <3>1, <3>2, <1>t DEF HMInterrupts
  <2>2. CASE HMKills
    <3>1. \A p \in apps : got[p] \subseteq got'[p]
      BY <2>2, <1>t DEF HMKills, Sent, TypeOK
    <3>2. ASSUME NEW p \in apps, "KILL" \in got'[p], "KILL" \notin got[p]
          PROVE  "INT" \in got[p]
      <4>1. p \in Hit(pid)
        BY <2>2, <3>2, <1>t DEF HMKills, Sent, TypeOK
      <4>2. p = pid
        BY <4>1, <1>t, SentToCopy
      <4> QED
        BY <2>2, <4>2, <1>t DEF HMKills
    <3> QED
      BY <2>2, <3>1, <3>2, <1>t DEF HMKills
  <2> QED
    BY <1>3, <2>1, <2>2, <1>t DEF HealthMonitor, HMReadsConfig, HMTests, HMTest, HMCopiesPid,
              HMWaits, HMFindsGone, HMResumes, pmVars, osVars
<1>4. CASE Signalled
  <2>1. \A p \in apps : got[p] \subseteq got'[p] /\ ("KILL" \in got'[p] => "KILL" \in got[p])
    BY <1>4, <1>t DEF Signalled, SendSignal, HandleTerm, HandleHup, osVars, Sent, TypeOK
  <2>2. apps' = apps /\ hm' = hm /\ pid' = pid
    BY <1>4 DEF Signalled, SendSignal, HandleTerm, HandleHup, osVars, hmVars
  <2> QED
    BY <2>1, <2>2, <1>t
<1>5. CASE ExitCompletes
  BY <1>5, <1>t DEF ExitCompletes, hmVars, osVars
<1>6. CASE System
  <2>1. ASSUME NEW p \in Pids, AppEnds(p)
        PROVE  (AskedInv /\ KilledOnlyAfterAsked)'
    BY <2>1, <1>t DEF AppEnds, hmVars, TypeOK
  <2>2. ASSUME NEW p \in Pids, OtherStarts(p)
        PROVE  (AskedInv /\ KilledOnlyAfterAsked)'
    BY <2>2, <1>t DEF OtherStarts, FreshPids, Live, hmVars, TypeOK
  <2>3. ASSUME NEW p \in Pids, OtherEnds(p)
        PROVE  (AskedInv /\ KilledOnlyAfterAsked)'
    BY <2>3, <1>t DEF OtherEnds, DisjointInv, hmVars, TypeOK
  <2> QED
    BY <1>6, <2>1, <2>2, <2>3 DEF System
<1>7. CASE UNCHANGED vars
  BY <1>7, <1>t DEF vars
<1> QED
  BY <1>1, <1>2, <1>3, <1>4, <1>5, <1>6, <1>7 DEF Next

\* Where the kernel does not reuse a pid the wrapper still holds, no
\* application is killed by force that was not first asked to end, and long
\* ago enough to have been waited for.
THEOREM ForcedOnlyAfterAsked ==
  ASSUME ~PidRecycling
  PROVE  Spec => []KilledOnlyAfterAsked
<1>1. Init => ForceInv
  BY PidsType DEF Init, ForceInv, FailedInv, DisjointInv, AskedInv, KilledOnlyAfterAsked
<1>2. TypeInv /\ AppTracked /\ ForceInv /\ [Next]_vars => ForceInv'
  BY NextForceInv
<1>3. ForceInv => KilledOnlyAfterAsked
  BY DEF ForceInv
<1> QED
  BY <1>1, <1>2, <1>3, TypeInvariance, Tracked, PTL DEF Spec

-----------------------------------------------------------------------------
(* Strangers.  A pid the wrapper holds in any of its three places is never *)
(* that of an unrelated process, as long as launches succeed and the       *)
(* kernel avoids those pids; the first failed launch ends that.            *)

HeldInv ==
  /\ Failed \notin {child_process_pid, launched, pid}
  /\ others \cap {child_process_pid, launched, pid} = {}
  /\ StrangersSpared

\* A signal to a held pid reaches no unrelated process.
LEMMA SentToHeld ==
  ASSUME TypeInv, HeldInv, DisjointInv, NEW signal,
         NEW target \in {child_process_pid, pid}, NEW p \in others
  PROVE  Sent(target, signal)[p] = {}
<1>1. p \notin Hit(target)
  BY DEF HeldInv, Hit
<1> QED
  BY <1>1 DEF Sent, HeldInv, StrangersSpared, TypeInv, TypeOK

LEMMA NextHeldInv ==
  ASSUME ~PidRecycling, ~LaunchMayFail
  PROVE  TypeInv /\ DisjointInv /\ HeldInv /\ [Next]_vars => HeldInv'
<1> SUFFICES ASSUME TypeInv, DisjointInv, HeldInv, [Next]_vars
             PROVE  HeldInv'
  OBVIOUS
<1> USE PidsType DEF HeldInv, StrangersSpared
<1>t. TypeOK
  BY DEF TypeInv
<1>1. CASE RunThreads
  BY <1>1 DEF RunThreads
<1>2. CASE ProcessMonitor
  <2>1. CASE PMForks
    <3> PICK p \in FreshPids : got' = [got EXCEPT ![p] = {}] /\ launched' = p
      BY <2>1 DEF PMForks
    <3>1. p \in Pids /\ p \notin others
      BY DEF FreshPids, Live
    <3>2. \A q \in others : got'[q] = {}
      BY <3>1, <1>t DEF TypeOK
    <3>3. others' = others /\ child_process_pid' = child_process_pid /\ pid' = pid
      BY <2>1 DEF PMForks, hmVars
    <3> QED
      BY <3>1, <3>2, <3>3
  <2> QED
    BY <1>2, <1>t, <2>1 DEF ProcessMonitor, PMFindsDead, PMLaunchFails, PMPublishes,
                            hmVars, osVars, TypeOK
<1>3. CASE HealthMonitor
  <2>1. CASE HMInterrupts
    BY <2>1, SentToHeld DEF HMInterrupts, pmVars
  <2>2. CASE HMKills
    BY <2>2, SentToHeld, <1>t DEF HMKills, pmVars, TypeOK
  <2>3. CASE HMFindsGone
    BY <2>3, <1>t DEF HMFindsGone, pmVars, osVars, TypeOK
  <2> QED
    BY <1>3, <2>1, <2>2, <2>3 DEF HealthMonitor, HMReadsConfig, HMTests, HMTest, HMCopiesPid,
              HMWaits, HMResumes, pmVars, osVars
<1>4. CASE Signalled
  BY <1>4, SentToHeld DEF Signalled, SendSignal, HandleTerm, HandleHup, pmVars, hmVars, osVars
<1>5. CASE ExitCompletes
  BY <1>5 DEF ExitCompletes, pmVars, hmVars, osVars
<1>6. CASE System
  <2>1. ASSUME NEW p \in Pids, AppEnds(p)
        PROVE  HeldInv'
    BY <2>1, <1>t DEF AppEnds, DisjointInv, pmVars, hmVars, TypeOK
  <2>2. ASSUME NEW p \in Pids, OtherStarts(p)
        PROVE  HeldInv'
    BY <2>2, <1>t DEF OtherStarts, FreshPids, Live, pmVars, hmVars, TypeOK
  <2>3. ASSUME NEW p \in Pids, OtherEnds(p)
        PROVE  HeldInv'
    BY <2>3, <1>t DEF OtherEnds, pmVars, hmVars, TypeOK
  <2> QED
    BY <1>6, <2>1, <2>2, <2>3 DEF System
<1>7. CASE UNCHANGED vars
  BY <1>7 DEF vars
<1> QED
  BY <1>1, <1>2, <1>3, <1>4, <1>5, <1>6, <1>7 DEF Next

\* Where launches succeed and the kernel does not reuse a pid the wrapper
\* still holds, no unrelated process is sent a signal.
THEOREM NoStrangerSignalled ==
  ASSUME ~PidRecycling, ~LaunchMayFail
  PROVE  Spec => []StrangersSpared
<1>1. Init => DisjointInv /\ HeldInv
  BY PidsType DEF Init, DisjointInv, HeldInv, StrangersSpared
<1>2. TypeInv /\ DisjointInv /\ HeldInv /\ [Next]_vars => DisjointInv' /\ HeldInv'
  BY NextDisjointInv, NextHeldInv
<1>3. HeldInv => StrangersSpared
  BY DEF HeldInv
<1> QED
  BY <1>1, <1>2, <1>3, TypeInvariance, PTL DEF Spec
=============================================================================
