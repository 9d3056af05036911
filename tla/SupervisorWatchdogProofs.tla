---------------------- MODULE SupervisorWatchdogProofs ----------------------
(***************************************************************************)
(* The proof that the supervisor implements the watchdog.                  *)
(***************************************************************************)
EXTENDS SupervisorWatchdog, SupervisorProofs

\* A step that leaves alone what the mapping looks at is a stutter.
LEMMA Unseen ==
  ASSUME apps' = apps, \A p \in apps : got'[p] = got[p],
         (wrapper' = "gone") <=> (wrapper = "gone")
  PROVE  UNCHANGED W!vars
<1>1. Asked' = Asked /\ Forced' = Forced
  BY DEF Asked, Forced
<1> QED
  BY <1>1 DEF W!vars

\* A signal the mapping does not look at is a stutter too.
LEMMA PassedOn ==
  ASSUME TypeOK, apps' = apps, NEW target, NEW signal \in {"TERM", "HUP"},
         got' = Sent(target, signal),
         (wrapper' = "gone") <=> (wrapper = "gone")
  PROVE  UNCHANGED W!vars
<1>1. \A p \in apps : /\ "INT" \in got'[p] <=> "INT" \in got[p]
                      /\ "KILL" \in got'[p] <=> "KILL" \in got[p]
  BY DEF Sent, TypeOK
<1>2. Asked' = Asked /\ Forced' = Forced
  BY <1>1 DEF Asked, Forced
<1> QED
  BY <1>2 DEF W!vars

LEMMA RefinesInit == Init => W!Init
  BY DEF Init, W!Init, Asked, Forced

LEMMA RefinesNext ==
  ASSUME ~PidRecycling, TypeInv, AppTracked, ForceInv, [Next]_vars
  PROVE  [W!Next]_W!vars
<1> USE PidsType
<1>t. TypeOK /\ FailedInv /\ DisjointInv /\ AskedInv /\ SingleApplication
  BY DEF TypeInv, TypeOK, ForceInv, AppTracked, SingleApplication
<1>1. CASE RunThreads
  BY <1>1, Unseen DEF RunThreads
<1>2. CASE ProcessMonitor
  <2>1. CASE PMForks
    <3> PICK p \in FreshPids : apps' = apps \cup {p} /\ got' = [got EXCEPT ![p] = {}]
      BY <2>1 DEF PMForks
    <3>1. apps = {} /\ apps' = {p} /\ p \in Pids
      BY <2>1 DEF PMForks, AppTracked, FreshPids
    <3>2. got'[p] = {}
      BY <3>1, <1>t DEF TypeOK
    <3>3. Asked = {} /\ Asked' = {} /\ Forced = {} /\ Forced' = {}
      BY <3>1, <3>2 DEF Asked, Forced
    <3>4. wrapper # "gone" /\ wrapper' = wrapper
      BY <2>1 DEF PMForks, ThreadsRun
    <3> QED
      BY <3>1, <3>3, <3>4 DEF W!Next, W!Launch
  <2>2. CASE PMFindsDead \/ PMLaunchFails \/ PMPublishes
    BY <2>2, Unseen DEF PMFindsDead, PMLaunchFails, PMPublishes, osVars
  <2> QED
    BY <1>2, <2>1, <2>2 DEF ProcessMonitor
<1>3. CASE HealthMonitor
  <2>1. CASE HMReadsConfig
    BY <2>1, Unseen DEF HMReadsConfig, osVars, ThreadsRun
  <2>2. CASE HMTests
    <3>1. apps' = apps /\ got' = got /\ wrapper # "gone"
      BY <2>2 DEF HMTests, HMTest, osVars, ThreadsRun
    <3>2. CASE wrapper' = "gone"
      BY <3>1, <3>2 DEF W!Next, W!Stop, Asked, Forced
    <3>3. CASE wrapper' # "gone"
      BY <3>1, <3>3, Unseen
    <3> QED
      BY <3>2, <3>3
  <2>3. CASE HMCopiesPid \/ HMWaits \/ HMFindsGone \/ HMResumes
    BY <2>3, Unseen DEF HMCopiesPid, HMWaits, HMFindsGone, HMResumes, osVars
  <2>4. CASE HMInterrupts
    <3>1. apps' = apps /\ wrapper # "gone" /\ got' = Sent(pid, "INT")
      BY <2>4 DEF HMInterrupts, ThreadsRun
    <3>2. CASE pid \in apps
      <4>1. pid # NoProcess /\ apps = {pid} /\ wrapper' = wrapper
        BY <2>4, <3>2, <1>t DEF HMInterrupts, TypeOK, SingleApplication
      <4>2. got'[pid] = got[pid] \cup {"INT"}
        BY <3>1, <3>2, <1>t DEF Sent, Hit, Live, TypeOK
      <4>3. Asked' = apps /\ Forced' = Forced
        BY <3>1, <4>1, <4>2 DEF Asked, Forced
      <4> QED
        BY <3>1, <4>1, <4>3 DEF W!Next, W!Ask
    <3>3. CASE pid \notin apps
      <4>1. \A p \in apps : p \notin Hit(pid)
        BY <3>3, <1>t, SentToCopy
      <4>2. \A p \in apps : got'[p] = got[p]
        BY <3>1, <4>1, <1>t DEF Sent, TypeOK
      <4>3. CASE wrapper' = "gone"
        BY <3>1, <4>2, <4>3 DEF W!Next, W!Stop, Asked, Forced
      <4>4. CASE wrapper' # "gone"
        BY <3>1, <4>2, <4>4, Unseen
      <4> QED
        BY <4>3, <4>4
    <3> QED
      BY <3>2, <3>3
  <2>5. CASE HMKills
    <3>1. apps' = apps /\ wrapper # "gone" /\ got' = Sent(pid, "KILL")
      BY <2>5 DEF HMKills, ThreadsRun
    <3>2. CASE pid \in apps
      <4>1. pid # NoProcess /\ apps = {pid} /\ wrapper' = wrapper
        BY <2>5, <3>2, <1>t DEF HMKills, TypeOK, SingleApplication
      <4>2. got'[pid] = got[pid] \cup {"KILL"} /\ "INT" \in got[pid]
        BY <2>5, <3>1, <3>2, <1>t DEF HMKills, AskedInv, Sent, Hit, Live, TypeOK
      <4>3. Asked = apps /\ Asked' = apps /\ Forced' = apps
        BY <3>1, <4>1, <4>2 DEF Asked, Forced
      <4> QED
        BY <3>1, <4>1, <4>3 DEF W!Next, W!Force
    <3>3. CASE pid \notin apps
      <4>1. \A p \in apps : p \notin Hit(pid)
        BY <3>3, <1>t, SentToCopy
      <4>2. \A p \in apps : got'[p] = got[p]
        BY <3>1, <4>1, <1>t DEF Sent, TypeOK
      <4>3. CASE wrapper' = "gone"
        BY <3>1, <4>2, <4>3 DEF W!Next, W!Stop, Asked, Forced
      <4>4. CASE wrapper' # "gone"
        BY <3>1, <4>2, <4>4, Unseen
      <4> QED
        BY <4>3, <4>4
    <3> QED
      BY <3>2, <3>3
  <2> QED
    BY <1>3, <2>1, <2>2, <2>3, <2>4, <2>5 DEF HealthMonitor
<1>4. CASE Signalled
  <2>1. ASSUME NEW signal, SendSignal(signal)
        PROVE  UNCHANGED W!vars
    BY <2>1, Unseen DEF SendSignal, osVars
  <2>2. CASE HandleTerm
    BY <2>2, <1>t, PassedOn DEF HandleTerm
  <2>3. CASE HandleHup
    BY <2>3, <1>t, PassedOn DEF HandleHup
  <2> QED
    BY <1>4, <2>1, <2>2, <2>3 DEF Signalled
<1>5. CASE ExitCompletes
  BY <1>5 DEF ExitCompletes, osVars, W!Next, W!Stop, Asked, Forced
<1>6. CASE System
  <2>1. ASSUME NEW p \in Pids, AppEnds(p)
        PROVE  W!Next
    <3>1. \A q \in apps' : q \in apps /\ q # p /\ got'[q] = got[q]
      BY <2>1, <1>t DEF AppEnds, TypeOK
    <3>2. Asked' = Asked \ {p} /\ Forced' = Forced \ {p}
      BY <2>1, <3>1 DEF AppEnds, Asked, Forced
    <3>3. W!End(p)
      BY <2>1, <3>2 DEF AppEnds, W!End
    <3> QED
      BY <3>3 DEF W!Next
  <2>2. ASSUME NEW p \in Pids, OtherStarts(p) \/ OtherEnds(p)
        PROVE  UNCHANGED W!vars
    <3>1. p \notin apps
      BY <2>2, <1>t DEF OtherStarts, OtherEnds, FreshPids, Live, DisjointInv
    <3>2. apps' = apps /\ wrapper' = wrapper /\ \A q \in apps : got'[q] = got[q]
      BY <2>2, <3>1, <1>t DEF OtherStarts, OtherEnds, TypeOK
    <3> QED
      BY <3>2, Unseen
  <2> QED
    BY <1>6, <2>1, <2>2 DEF System
<1>7. CASE UNCHANGED vars
  BY <1>7, Unseen DEF vars
<1> QED
  BY <1>1, <1>2, <1>3, <1>4, <1>5, <1>6, <1>7 DEF Next

\* Where the kernel does not reuse a pid the wrapper still holds, the
\* supervisor implements the watchdog, launches that fail included.
THEOREM SupervisorImplementsWatchdog ==
  ASSUME ~PidRecycling
  PROVE  Spec => ImplementsWatchdog
<1>1. TypeInv /\ AppTracked /\ ForceInv /\ [Next]_vars => [W!Next]_W!vars
  BY RefinesNext
<1>2. Spec => []ForceInv
  <2>1. Init => ForceInv
    BY PidsType DEF Init, ForceInv, FailedInv, DisjointInv, AskedInv, KilledOnlyAfterAsked
  <2>2. TypeInv /\ AppTracked /\ ForceInv /\ [Next]_vars => ForceInv'
    BY NextForceInv
  <2> QED
    BY <2>1, <2>2, TypeInvariance, Tracked, PTL DEF Spec
<1> QED
  BY RefinesInit, <1>1, <1>2, TypeInvariance, Tracked, PTL
  DEF Spec, ImplementsWatchdog, W!Spec
=============================================================================
